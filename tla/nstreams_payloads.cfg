\* Two agents and the payloads that are relayed in a way of their own or not at
\* all (a task is relayed as a status update is); no symmetry, for the liveness
\* properties.
CONSTANTS
    Agents = {a1, a2}
    Caller = caller
    Source = client
    OutOfBand = outsider
    NoSender = nobody
    None = none
    RequestKinds = {"message"}
    ResponseKinds = {"status_update", "message_update", "artifact_update", "other"}
    MaxRequests = 2
    MaxResponses = 1
SPECIFICATION FairSpec
INVARIANTS TypeOK NoEcho CallerOrder NoResponseLost
PROPERTIES QuietAfterEnd Delivery ExhaustedEnds CleanedUp
\* The session really ends: when every task is done nothing is left to do.
CHECK_DEADLOCK FALSE
