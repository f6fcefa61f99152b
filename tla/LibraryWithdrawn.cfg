SPECIFICATION Spec
CONSTANTS
    v1 = v1
    v2 = v2
    v3 = v3
    None = None
    Torn = Torn
    Versions = {v1, v2, v3}
    MaxId = 3
    Chunks <- MCChunks
    Checksum <- MCChecksum
    PageSize = 1
    MaxRuns = 3
    MaxStops = 1
    MaxChanges = 1
CHECK_DEADLOCK FALSE
INVARIANT
    WithdrawnAtOnce
