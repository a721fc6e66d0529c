\* Artifact updates are relayed without a sender.
CONSTANTS
    Agents = {a1, a2}
    Caller = caller
    Source = client
    OutOfBand = outsider
    NoSender = nobody
    None = none
    RequestKinds = {"message"}
    ResponseKinds = {"artifact_update"}
    MaxRequests = 1
    MaxResponses = 1
SPECIFICATION Spec
INVARIANTS EveryItemAttributed
CHECK_DEADLOCK FALSE
