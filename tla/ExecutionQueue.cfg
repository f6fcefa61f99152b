SPECIFICATION FairSpec
CONSTANTS
    Jobs = {j1, j2}
    NoJob = NoJob
    MaxCrashes = 2
CHECK_DEADLOCK FALSE
INVARIANTS
    TypeOK
    AtMostOneExecution
    DirectoryIsState
    SuccessIsReal
    NothingUnvalidatedPublished
PROPERTIES
    QueueDrains
    ImplementsContract
