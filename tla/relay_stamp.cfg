\* Requests are stamped when they are enqueued, known task or not.
CONSTANTS
    N = 2
    QueueCap = 1
    MaxTexts = 1
    MaxEvents = 1
SPECIFICATION Spec
INVARIANTS StampedAtEnqueue
CHECK_DEADLOCK FALSE
