\* The echo of a message update bears the name of the external client.
CONSTANTS
    Agents = {a1, a2}
    Caller = caller
    Source = client
    OutOfBand = outsider
    NoSender = nobody
    None = none
    RequestKinds = {"message"}
    ResponseKinds = {"message_update"}
    MaxRequests = 1
    MaxResponses = 1
SPECIFICATION Spec
INVARIANTS GuardFiltersEchoes
CHECK_DEADLOCK FALSE
