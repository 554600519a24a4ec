SPECIFICATION Spec
CONSTANTS
    Uids = {u1, u2}
    HostUids = {}
    MaxSlot = 1
    Versions = {v1, v2}
    NoUid = NoUid
    OtherLayout = OtherLayout
    MaxPending = 1
    MaxWrites = 2
    AllowDuplicates = FALSE
SYMMETRY VersionSymmetry
INVARIANTS TypeOK OwnAccountOnly
PROPERTIES CustodyKept
