\* Three log lines, one stream that may break at any time, and a client outside
\* that repeats the trigger or approves on its own.  What it tells one agent
\* reaches the others as that agent's message update.
CONSTANTS
    LogLines = 3
    MaxFailures = 1
    MaxOutOfBand = 1
    OutOfBandTo = {"remediation-agent"}
    OutOfBandSays = {"ANOMALY", "APPROVED"}
SPECIFICATION FairSpec
INVARIANTS TypeOK CausalChain Grounded SaidOnce ThresholdsAgree
PROPERTIES Resolved
\* The session really ends.
CHECK_DEADLOCK FALSE
