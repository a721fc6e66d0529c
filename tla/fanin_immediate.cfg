\* A full inbox that nobody reads any more.
CONSTANTS
    Calls = {c1, c2}
    Opening = opening
    InboxCap = 1
    MaxExecs = 1
SPECIFICATION FairSpec
PROPERTIES ReturnedAtOnce
CHECK_DEADLOCK FALSE
