\* Channels of two slots: a put can block, and requests can queue up.
CONSTANTS
    N = 2
    QueueCap = 2
    MaxTexts = 1
    MaxEvents = 2
SPECIFICATION Spec
INVARIANTS TypeOK SpeakerOrder NoEcho OwnTask OpeningFirst
\* The process ends by a panic, and an interrupted session comes to rest.
CHECK_DEADLOCK FALSE
