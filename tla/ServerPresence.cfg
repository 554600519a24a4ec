SPECIFICATION Spec
CONSTANTS
    Ids = {1, 2}
    NoId = 0
    Passwords = {p1, p2}
    MaxAttempts = 2
    Timeout = 2
    MaxDelay = 1
    WordSize = 8
INVARIANTS TypeOK NoStrayListing AddsBounded
PROPERTIES ListFollows
