SPECIFICATION Spec
CONSTANTS
    Mods = {m1, m2}
    MaxWorkers = 2
    MaxFaults = 1
INVARIANTS TypeOK CatalogCurrent
PROPERTIES InstallsKept WorkerFreed
