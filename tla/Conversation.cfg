SPECIFICATION FairSpec
CONSTANTS
    Old = Old
    Sends = 2
    None = None
    Polls = 1
    MaxLoads = 2
    MaxProgress = 1
    Mishaps = {"close", "reset", "lost", "reload", "load", "record", "sink", "crash"}
    MaxMishaps = 2
CHECK_DEADLOCK FALSE
INVARIANTS
    ChatIsTranscript
PROPERTIES
    AnswerOutlivesStream
    StreamsEnd
