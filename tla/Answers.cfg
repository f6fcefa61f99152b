SPECIFICATION Spec
CONSTANTS
  Columns <- MCColumns
  Retrievals <- MCRetrievals
  TargetLists <- MCTargetLists
  YearSets <- MCYearSets
  Requests <- MCRequests
  Drafts <- MCDrafts
  MaxCharacters = 5
  MaxChunks = 3
INVARIANTS PackingKeepsTargets CitationsSupport YearIsColumn DerivedRestsOnInputs
CHECK_DEADLOCK FALSE
