\* Two agents on the group channel; no symmetry, for the liveness properties.
CONSTANTS
    Agents = {a1, a2}
    Caller = caller
    Source = client
    OutOfBand = outsider
    NoSender = nobody
    None = none
    RequestKinds = {"message"}
    ResponseKinds = {"status_update", "artifact_update", "other"}
    MaxRequests = 2
    MaxResponses = 1
SPECIFICATION FairSpec
INVARIANTS TypeOK SameStory NoRequestLost
PROPERTIES QuietAfterEnd ImplementsGroupChat ExhaustedEnds CleanedUp
\* The session really ends: when every task is done nothing is left to do.
CHECK_DEADLOCK FALSE
