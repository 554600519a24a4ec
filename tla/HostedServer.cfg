SPECIFICATION HostedServerSpec
CONSTANTS
    Uids = {u1, u2}
    HostUids = {u1}
    MaxJoins = 1
    Saves = {p}
    NoSave = NoSave
    MaxRecords = 3
    MaxPdataRecords = 1
    MaxHandledTokens = 2
    MaxThreads = 2
    Players = {u2, u3}
    Void = Void
    Game = Game
    Requests = {r1}
    Capacity = 3
    HandTexts <- MCHandTexts
INVARIANTS
    ConnectTypeOK JoinsRecordedOnce RejectedNotRecorded PdataKept
    BansTypeOK ChecksAreExact 
