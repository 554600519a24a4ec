SPECIFICATION RequestsSpec
CONSTANTS
    Accounts = {a, b}
    Owner = a
    Helpers = {h}
    MaxTokens = 3
    MaxPushes = 1
    MaxRequests = 2
    kMaxWrongCodes = 1
    Torn = Torn
    Nobody = Nobody
    NoToken = NoToken
    NoHelper = NoHelper
    NoFile = NoFile
    Contexts = {"SERVER", "UI"}
    Addresses = {p, q}
    NoVm = NoVm
    MaxLives = 3
    MaxHandles = 2
    Items <- MCItems
    MaxItems = 2
    MaxListRequests = 2
INVARIANTS RequestsTypeOK
PROPERTIES JoinsAsOneself EveryRequestEnds CallsReachTheAsker ResultsArrive BrowserSound
CHECK_DEADLOCK FALSE
