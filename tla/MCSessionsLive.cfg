\* Liveness: one identifier taken up three times, with stale expires.
SPECIFICATION FairSpec
CONSTANTS
    t1 = t1
    t2 = t2
    t3 = t3
    a = a
    b = b
    c = c
    Turns <- MCTurns
    Ids <- MCOneId
    MaxTracked = 1
    MaxConcurrent = 2
    Idle = 2
    MaxTime = 5
PROPERTIES
    IdleSessionsEnd
