SPECIFICATION FairSpec
CONSTANTS
    Tops = {p1}
    Kids = {k1, k2}
    Chats = {c1}
    Briefs = {b1}
    Deletes = {d1}
    Replicas = {r1, r2}
    Twins = {}
    NoTask = NoTask
    NoSession = NoSession
    Backends = {"sqlite", "postgres"}
    PoolSize = 2
    MaxSections = 2
    Concurrency = 1
    Mishaps = {"crash", "fault", "rating", "prune"}
    MaxMishaps = 1
    Ageing = {p1}
CHECK_DEADLOCK FALSE
INVARIANTS
    LocksExclude
PROPERTIES
    TurnKeepsItsSession
    DeletionIsWhole
    RequestsEnd
