\* Safety of the registry and its refinement of SessionLife: three identifiers and
\* room for one session, so that sessions are evicted, and outgrow the limit when
\* two are in use.
SPECIFICATION Spec
CONSTANTS
    t1 = t1
    t2 = t2
    t3 = t3
    a = a
    b = b
    c = c
    Turns <- MCTurns
    Ids <- MCIds
    MaxTracked = 1
    MaxConcurrent = 2
    Idle = 2
    MaxTime = 4
SYMMETRY MCSymmetry
INVARIANTS
    RefsCountHolders
    NoSpanIsLost
    StampIsLastTurn
    TrackedBounded
PROPERTIES
    IdleMeansIdle
    ImplementsSessionLife
