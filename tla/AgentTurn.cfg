SPECIFICATION FairSpec
CONSTANTS
    MaxTurns = 3
    HistoryLimit = 2
    MaxSteps = 24
INVARIANTS TypeOK GroundedInThisTurn MemoryIsValidated TurnIsBounded
PROPERTIES TurnEnds ImplementsTurnContract
CHECK_DEADLOCK FALSE
