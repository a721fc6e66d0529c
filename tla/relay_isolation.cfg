\* An agent that fails before it has a task.
CONSTANTS
    N = 2
    QueueCap = 1
    MaxTexts = 2
    MaxEvents = 1
SPECIFICATION FairSpec
PROPERTIES LinesArrive
CHECK_DEADLOCK FALSE
