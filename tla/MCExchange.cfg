\* One request with two outputs, under fairness. A request that has ended stays
\* ended, so deadlock is not checked.
SPECIFICATION FairSpec
CONSTANTS
    o1 = o1
    o2 = o2
    Outputs <- MCOutputs
    MaxReads = 3
INVARIANTS
    TypeOK
    SuccessIsWhole
    
    ChildSpansOnce
    StatusIsOnTheWire
PROPERTIES
    NoSuccessAcrossGap
    CancelledExchangeEnds
CHECK_DEADLOCK FALSE
