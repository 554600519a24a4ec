SPECIFICATION Spec
CONSTANTS
    Uids = {u1}
    HostUids = {}
    MaxSlot = 1
    Versions = {v1, v2, v3}
    NoUid = NoUid
    OtherLayout = OtherLayout
    MaxPending = 1
    MaxWrites = 2
    AllowDuplicates = FALSE
INVARIANTS QueuedIsInFlight BaselineKnown
PROPERTIES NewestSnapshotOnly MarkerClears
