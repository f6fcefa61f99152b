CONSTANTS
  Requests <- MCRequests
  Proposed <- MCProposed
  MaxRows = 4
SPECIFICATION Spec
CHECK_DEADLOCK FALSE
INVARIANTS
  RowsAreCells
  EveryTargetOnce
  RankingOfEntities
