\* Safety of the shutdown: two instrumented requests that share a session.
SPECIFICATION Spec
CONSTANTS
    r1 = r1
    r2 = r2
    a = a
    Nobody = Nobody
    Main = Main
    DrainWait = DrainWait
    UnwindWait = UnwindWait
    Ids <- MCIds
    MaxTracked = 1
    PassthroughSlots = 1
    Requests <- MCInstrumented
    Instrumented <- MCInstrumented
    Slots = 2
    Idle = 1
    MaxTime = 1
SYMMETRY MCSymmetry
INVARIANTS
    NothingMissesTheFlush
    ParentEndsLast
    CutOffNotBlamedOnClient
