CONSTANTS
    j1 = j1
    j2 = j2
    s1 = s1
    s2 = s2
    Jobs = {j1, j2}
    Sockets = {s1, s2}
    Requests <- MCRequests
    None = None
    Embeddings = {FALSE, TRUE}
    CONCURRENCY = 3
SPECIFICATION FairSpec
CHECK_DEADLOCK FALSE
INVARIANTS TasksAreSound ClaimsAreAnswered
PROPERTIES WorkEnds ShutdownEnds
