\* Admission, drain, forced close and WaitIdle, the refinement of DrainGate, and
\* liveness under the fairness of the scheduler.
SPECIFICATION FairSpec
CONSTANTS
    r1 = r1
    r2 = r2
    r3 = r3
    c1 = c1
    c2 = c2
    w1 = w1
    Nobody = Nobody
    Requests <- MCRequests
    Instrumented <- MCInstrumented
    Closers <- MCClosers
    Waiters <- MCWaiters
    Slots = 1
    PassthroughSlots = 1
INVARIANTS
    SlotsMatchHolders
    NoLostWakeup
    ForcedCloseReachesAll
PROPERTIES
    ImplementsDrainGate
    ForcedCloseSucceeds
