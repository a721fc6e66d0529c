\* Three agents: two peers and the caller race for each queue.
CONSTANTS
    Agents = {a1, a2, a3}
    Caller = caller
    Source = client
    OutOfBand = outsider
    NoSender = nobody
    None = none
    RequestKinds = {"message"}
    ResponseKinds = {"status_update"}
    MaxRequests = 2
    MaxResponses = 1
SYMMETRY AgentSymmetry
SPECIFICATION Spec
INVARIANTS TotalOrder GapFree NoRequestLost PeersDoNotCloseStreams
PROPERTIES ImplementsGroupChat
\* The session really ends: when every task is done nothing is left to do.
CHECK_DEADLOCK FALSE
