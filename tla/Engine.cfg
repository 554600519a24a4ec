SPECIFICATION EngineRun
CONSTANTS
    Pages = 4
    Mappers = {m1, m2}
    Slots = 1
    Starters = {s1, s2}
    Jobs = {j1, j2}
    NoJob = NoJob
    StackSecond = 2
    MaxTime = 4
    Bytes = {x, y}
    MostSize = 4
    MostDistance = 4
    MostCount = 3
    HttpThreads = {main, reporter}
    Capacity = 2
    MaxBody = 3
    MaxInits = 2
    Receivers = {1, 2}
    StateSlots = 1
    ReceiveLimit = 2
    MaxDatagrams = 3
    Vars = {"sv", "cl"}
    Replicated = {"sv"}
    MaxEntries = 2
    MaxMarkers = 4
    EntityLimit = 2
    MaxUserCmds = 1
    Clients = {1}
    NetMessageInputs <- MCMessages
    MaxNetMessages = 2
    CommandSlots = {1}
    CommandPlayers = {"p", "host"}
    CommandQuotas <- MCQuotas
    QuotaSecond = 2
    MaxCommandTime = 4
    Senders = {0, 1}
    MessageTypes = {1, 256}
    ChatLimit = 1
    ChatSecond = 2
    MaxChatTime = 4
    MaxSaid = 3
    ChatTexts <- MCTexts
    ChunkLimit = 4
    HudContext <- MCHuds
    EditedOptions = {"ns_server_name", "ns_server_password"}
    TextLimit = 2
    MaxKeyboards = 2
INVARIANTS EngineTypeOK RequestsAreWhole CommandsSound
PROPERTIES MemorySound NetworkSound ChatIsSound
CHECK_DEADLOCK FALSE
