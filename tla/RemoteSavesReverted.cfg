SPECIFICATION Spec
CONSTANTS
    Uids = {u1}
    HostUids = {u1}
    MaxSlot = 0
    Versions = {v1, v2}
    NoUid = NoUid
    OtherLayout = OtherLayout
    MaxPending = 1
    MaxWrites = 1
    AllowDuplicates = FALSE
INVARIANT ChangedIsSubmitted
