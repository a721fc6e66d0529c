\* Two calls, an inbox of one slot, a task that is executed up to three times; no
\* symmetry, for the liveness properties.
CONSTANTS
    Calls = {c1, c2}
    Opening = opening
    InboxCap = 1
    MaxExecs = 3
SPECIFICATION FairSpec
INVARIANTS TypeOK MessageInOnePlace InboxOfTheRunning InputBeforeLLM
PROPERTIES RoutedCallsEnd InboxIsRead
\* Nothing is left to do when every call and every execution has ended.
CHECK_DEADLOCK FALSE
