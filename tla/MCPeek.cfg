\* Every cut of every body: the limit falls before, inside and after the fields.
\* A request that was sent stays sent, so deadlock is not checked.
SPECIFICATION PeekSpec
CONSTANTS
    RequestBodies <- MCBodies
    Limit = 7
    TraceLimit = 5
INVARIANTS
    ForwardedInFull
    PeekIsHonest
CHECK_DEADLOCK FALSE
