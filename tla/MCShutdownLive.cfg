\* The shutdown ends, and admission guarantees what Sessions assumes: two
\* requests compete for one slot.
SPECIFICATION FairSpec
CONSTANTS
    r1 = r1
    r2 = r2
    a = a
    Nobody = Nobody
    Main = Main
    DrainWait = DrainWait
    UnwindWait = UnwindWait
    Ids <- MCIds
    MaxTracked = 1
    PassthroughSlots = 1
    Requests <- MCInstrumented
    Instrumented <- MCInstrumented
    Slots = 1
    Idle = 1
    MaxTime = 1
INVARIANTS
    TurnsFitSlots
PROPERTIES
    ShutdownTerminates
