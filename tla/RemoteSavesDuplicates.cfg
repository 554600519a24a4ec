SPECIFICATION Spec
CONSTANTS
    Uids = {u1}
    HostUids = {u1}
    MaxSlot = 2
    Versions = {v1}
    NoUid = NoUid
    OtherLayout = OtherLayout
    MaxPending = 1
    MaxWrites = 0
    AllowDuplicates = TRUE
PROPERTIES NewConnectionLeavesOwners
