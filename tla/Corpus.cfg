CONSTANTS
  Documents <- MCDocuments
  Wanted <- MCWanted
  MaxLines = 4
SPECIFICATION Spec
CHECK_DEADLOCK FALSE
INVARIANTS
  CoverageIsExact
  PagesReachTheirChunks
  SelectionIsTheOnlyOne
