SPECIFICATION FilesSpec
CONSTANTS
    SaveThreads = {ui, srv}
    Requests <- MCRequests
    AllowedLeaves = {"a"}
    Texts = {y, z}
    LongTexts = {y}
    NoText = NoText
    MaxSaveFolderSize = 3
    Inodes = {1, 2, 3}
    MaxCalls = 3
    Mods <- MCMods
    FirstSettings <- MCSettings
    MaxToggles = 2
    HeaderSize = 1
    SlabRow = 1
    PageRow = 1
    PointerRow = 1
    AssetRow = 1
    DependentRow = 1
    MarkerAt = 1
    MaxTableBytes = 8
    PakFiles <- MCPakFiles
    PakThreads = {t1, t2}
    RpakMods <- MCRpakMods
    GamePaks = {"common", "lobby"}
    Wanted = {"common", "mp", "d"}
    Commons = "common"
    MaxPakRequests = 2
    MaxPakRefusals = 1
    FileReaders = {r1, r2}
    Patched <- MCPatched
    Usable <- MCUsable
    MaxServedReads = 2
    MaxWriteFailures = 1
INVARIANTS FilesTypeOK ReadsAreServed
PROPERTIES ScriptFilesKept ModsAgree ArchivesSound
CHECK_DEADLOCK FALSE
