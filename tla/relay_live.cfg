\* Liveness, with channels of one slot.
CONSTANTS
    N = 2
    QueueCap = 1
    MaxTexts = 1
    MaxEvents = 1
SPECIFICATION FairSpec
PROPERTIES ChannelDrains InterruptEndsReaders
\* The process ends by a panic, and an interrupted session comes to rest.
CHECK_DEADLOCK FALSE
