-------------------------- MODULE AdmissionProofs --------------------------
(***************************************************************************)
(* Theorems about Admission, for every set of requests, every capacity and *)
(* every set of closers and waiters.                                       *)
(*                                                                         *)
(* The inductive invariant IInv adds to the checked invariants what makes  *)
(* them inductive: who is inside activeMu (MutexInv), that nobody is in    *)
(* the middle of admitRequest once the gate is shut (ShutInv), and that    *)
(* the snapshot of the forced close still holds every registered request   *)
(* whose context is live (SnapshotInv).                                    *)
(***************************************************************************)
EXTENDS Admission, FiniteSetTheorems, TLAPS

\* The mutex is held exactly by the request between its two steps of admission.
MutexInv == \A r \in Requests : (activeMu = r) <=> (pc[r] = "checked")

\* The compare-and-swap has been won by c.
Won(c) == cpc[c] \in {"won", "cancelling", "done"}

\* One caller wins the compare-and-swap.  Once nothing may enter, nobody is past the flag check and not yet registered.
ShutInv == /\ Shut => activeMu = Nobody
           /\ \A c \in Closers : Won(c) => forcedClose
           /\ \A c, d \in Closers : Won(c) /\ Won(d) => c = d

\* What the forced close has not cancelled yet is in its snapshot.
SnapshotInv ==
    \A c \in Closers : cpc[c] = "cancelling" =>
        \A r \in active : r \in todo[c] \/ cause[r] # "none"

IInv == /\ TypeOK
        /\ SlotsMatchHolders
        /\ MutexInv
        /\ ShutInv
        /\ SnapshotInv
        /\ IdleChannelTracksActive
        /\ NoLostWakeup
        /\ ForcedCloseReachesAll

-----------------------------------------------------------------------------
\* A context that has a cause keeps one.
LEMMA CancelWithType ==
    ASSUME TypeOK, NEW r \in Requests, NEW why \in Cause \ {"none"}, CancelWith(r, why)
    PROVE  /\ cause' \in [Requests -> Cause]
           /\ cause'[r] # "none"
           /\ \A q \in Requests : cause[q] # "none" => cause'[q] # "none"
BY DEF TypeOK, CancelWith, Cause

LEMMA InitIInv == Init => IInv
<1> SUFFICES ASSUME Init PROVE IInv
  OBVIOUS
<1> USE RequestsAssumption DEF Init
<1>1. TypeOK
  BY DEF TypeOK, RequestState, Cause, CloserState, WaiterState, Class
<1>2. SlotsMatchHolders
  <2>1. ASSUME NEW k \in Class PROVE HoldersOf(k) = {}
    BY DEF HoldersOf
  <2> QED BY <2>1, FS_EmptySet, SlotsAssumption DEF SlotsMatchHolders, Capacity
<1>3. MutexInv /\ ShutInv /\ SnapshotInv
  BY DEF MutexInv, ShutInv, Shut, Won, SnapshotInv
<1>4. IdleChannelTracksActive /\ NoLostWakeup /\ ForcedCloseReachesAll
  BY DEF IdleChannelTracksActive, NoLostWakeup, ForcedCloseReachesAll
<1> QED BY <1>1, <1>2, <1>3, <1>4 DEF IInv

\* Requests that do not take or give back a slot leave the budgets alone.
LEMMA SlotsUntouched ==
    ASSUME SlotsMatchHolders, used' = used,
           \A q \in Requests : (pc'[q] \in {"serving", "unregistered"})
                                 <=> (pc[q] \in {"serving", "unregistered"})
    PROVE  SlotsMatchHolders'
<1>1. \A k \in Class : HoldersOf(k)' = HoldersOf(k)
  BY DEF HoldersOf
<1> QED BY <1>1 DEF SlotsMatchHolders

\* Taking and giving back a slot keeps the count equal to the holders.
LEMMA SlotsStep ==
    ASSUME TypeOK, SlotsMatchHolders, NEW r \in Requests,
           Admit(r) \/ Release(r) \/ ClientGone(r)
    PROVE  SlotsMatchHolders' /\ used' \in [Class -> Nat]
<1> USE DEF TypeOK
<1> DEFINE K == ClassOf(r)
<1>0. /\ K \in Class
      /\ \A k \in Class : HoldersOf(k) \subseteq Requests /\ IsFiniteSet(HoldersOf(k))
  BY RequestsAssumption, FS_Subset DEF HoldersOf, ClassOf, Class
<1>1. CASE Register(r)
  <2>1. HoldersOf(K)' = HoldersOf(K) \cup {r} /\ r \notin HoldersOf(K)
    BY <1>1 DEF Register, HoldersOf
  <2>2. \A k \in Class \ {K} : HoldersOf(k)' = HoldersOf(k)
    BY <1>1 DEF Register, HoldersOf
  <2>3. Cardinality(HoldersOf(K)') = Cardinality(HoldersOf(K)) + 1
    BY <1>0, <2>1, FS_AddElement
  <2>4. used' = [used EXCEPT ![K] = @ + 1] /\ used[K] < Capacity(K)
    BY <1>1 DEF Register
  <2>5. Capacity(K) \in Nat
    BY SlotsAssumption DEF Capacity
  <2> HIDE DEF K
  <2> QED BY <1>0, <2>2, <2>3, <2>4, <2>5 DEF SlotsMatchHolders
<1>2. CASE FreeSlot(r)
  <2>1. HoldersOf(K)' = HoldersOf(K) \ {r} /\ r \in HoldersOf(K)
    BY <1>2 DEF FreeSlot, HoldersOf
  <2>2. \A k \in Class \ {K} : HoldersOf(k)' = HoldersOf(k)
    BY <1>2 DEF FreeSlot, HoldersOf
  <2>3. Cardinality(HoldersOf(K)') = Cardinality(HoldersOf(K)) - 1
    BY <1>0, <2>1, FS_RemoveElement
  <2>4. Cardinality(HoldersOf(K)') \in Nat
    BY <1>0, <2>1, FS_Subset, FS_CardinalityType
  <2>5. used' = [used EXCEPT ![K] = @ - 1]
    BY <1>2 DEF FreeSlot
  <2>6. Capacity(K) \in Nat
    BY SlotsAssumption DEF Capacity
  <2> HIDE DEF K
  <2> QED BY <1>0, <2>2, <2>3, <2>4, <2>5, <2>6 DEF SlotsMatchHolders
<1>3. CASE RefuseClosed(r) \/ CheckFlags(r) \/ RefuseFull(r)
  BY <1>3, SlotsUntouched DEF RefuseClosed, CheckFlags, RefuseFull
<1>4. CASE Unregister(r) \/ CancelOwn(r) \/ ClientGone(r)
  BY <1>4, SlotsUntouched DEF Unregister, CancelOwn, ClientGone
<1> QED BY <1>1, <1>2, <1>3, <1>4 DEF Admit, Release

\* The steps of a request preserve the invariant.
LEMMA RequestStep ==
    ASSUME IInv, NEW r \in Requests, Admit(r) \/ Release(r) \/ ClientGone(r)
    PROVE  IInv'
<1>0. SlotsMatchHolders' /\ used' \in [Class -> Nat]
  BY SlotsStep DEF IInv
<1> DEFINE Rest == /\ TypeOK
                   /\ MutexInv
                   /\ ShutInv
                   /\ SnapshotInv
                   /\ IdleChannelTracksActive
                   /\ NoLostWakeup
                   /\ ForcedCloseReachesAll
<1> SUFFICES Rest'
  BY <1>0 DEF IInv
<1>a. Rest
  BY DEF IInv
<1> USE <1>0, <1>a, RequestsAssumption
    DEF TypeOK, MutexInv, ShutInv, Shut, Won, SnapshotInv, IdleChannelTracksActive,
        NoLostWakeup, ForcedCloseReachesAll, RequestState, Cause,
        requestVars, registryVars, flagVars, closerVars, waiterVars, GateClosed
<1>1. CASE RefuseClosed(r)
  BY <1>1, CancelWithType DEF RefuseClosed
<1>2. CASE CheckFlags(r)
  BY <1>2 DEF CheckFlags
<1>3. CASE Register(r)
  BY <1>3 DEF Register, IdleOnEntry
<1>4. CASE RefuseFull(r)
  BY <1>4, CancelWithType DEF RefuseFull
<1>5. CASE Unregister(r)
  BY <1>5 DEF Unregister, ClosedOnExit
<1>6. CASE FreeSlot(r)
  BY <1>6 DEF FreeSlot
<1>7. CASE CancelOwn(r)
  BY <1>7, CancelWithType DEF CancelOwn
<1>8. CASE ClientGone(r)
  BY <1>8, CancelWithType DEF ClientGone
<1> QED BY <1>1, <1>2, <1>3, <1>4, <1>5, <1>6, <1>7, <1>8 DEF Admit, Release

\* The steps of the goroutines that drain, close by force and wait.
LEMMA ControlStep ==
    ASSUME IInv,
           \/ BeginDrain
           \/ \E c \in Closers : ForceClose(c)
           \/ \E w \in Waiters : Wait(w)
    PROVE  IInv'
<1>0. used' = used /\ pc' = pc
  BY DEF BeginDrain, ForceClose, WinForcedClose, LoseForcedClose, SnapshotActive,
         CancelNext, ReturnForcedClose, Wait, WaitIdleReturns, WaitIdleParks,
         WaitIdleTimesOut, requestVars
<1>s. SlotsMatchHolders'
  BY <1>0, SlotsUntouched DEF IInv
<1> DEFINE Rest == /\ TypeOK
                   /\ MutexInv
                   /\ ShutInv
                   /\ SnapshotInv
                   /\ IdleChannelTracksActive
                   /\ NoLostWakeup
                   /\ ForcedCloseReachesAll
<1> SUFFICES Rest'
  BY <1>s DEF IInv
<1>a. Rest
  BY DEF IInv
<1> USE <1>a, RequestsAssumption
    DEF TypeOK, MutexInv, ShutInv, Shut, Won, SnapshotInv, IdleChannelTracksActive,
        NoLostWakeup, ForcedCloseReachesAll, CloserState, WaiterState,
        requestVars, registryVars, flagVars, closerVars, waiterVars
<1>1. CASE BeginDrain
  BY <1>1 DEF BeginDrain
<1>2. ASSUME NEW c \in Closers, WinForcedClose(c) PROVE Rest'
  BY <1>2 DEF WinForcedClose
<1>3. ASSUME NEW c \in Closers, LoseForcedClose(c) PROVE Rest'
  BY <1>3 DEF LoseForcedClose
<1>4. ASSUME NEW c \in Closers, SnapshotActive(c) PROVE Rest'
  BY <1>4 DEF SnapshotActive
<1>5. ASSUME NEW c \in Closers, CancelNext(c) PROVE Rest'
  <2>1. PICK r \in todo[c] : /\ CancelWith(r, "forced")
                             /\ todo' = [todo EXCEPT ![c] = @ \ {r}]
    BY <1>5 DEF CancelNext
  <2>2. r \in Requests
    OBVIOUS
  <2> QED BY <1>5, <2>1, <2>2, CancelWithType DEF CancelNext, Cause
<1>6. ASSUME NEW c \in Closers, ReturnForcedClose(c) PROVE Rest'
  BY <1>6 DEF ReturnForcedClose
<1>7. ASSUME NEW w \in Waiters, WaitIdleReturns(w) PROVE Rest'
  BY <1>7 DEF WaitIdleReturns
<1>8. ASSUME NEW w \in Waiters, WaitIdleParks(w) PROVE Rest'
  BY <1>8 DEF WaitIdleParks
<1>9. ASSUME NEW w \in Waiters, WaitIdleTimesOut(w) PROVE Rest'
  BY <1>9 DEF WaitIdleTimesOut
<1> HIDE DEF Rest
<1> QED BY <1>1, <1>2, <1>3, <1>4, <1>5, <1>6, <1>7, <1>8, <1>9 DEF ForceClose, Wait

LEMMA StepIInv == IInv /\ [Next]_vars => IInv'
<1> SUFFICES ASSUME IInv, [Next]_vars PROVE IInv'
  OBVIOUS
<1>1. CASE Next
  BY <1>1, RequestStep, ControlStep DEF Next
<1>2. CASE UNCHANGED vars
  BY <1>2
  DEF vars, requestVars, registryVars, flagVars, closerVars, waiterVars, IInv, TypeOK,
      SlotsMatchHolders, HoldersOf, MutexInv, ShutInv, Shut, Won, SnapshotInv,
      IdleChannelTracksActive, NoLostWakeup, ForcedCloseReachesAll
<1> QED BY <1>1, <1>2

\* Every state the code can reach satisfies the inductive invariant.
THEOREM Invariance == Spec => []IInv
BY InitIInv, StepIInv, PTL DEF Spec

\* Type correctness: every variable keeps its type and the registry holds
\* exactly the requests being served.
THEOREM TypeCorrect == Spec => []TypeOK
<1>1. IInv => TypeOK
  BY DEF IInv
<1> QED BY <1>1, Invariance, PTL

\* The budgets neither leak nor overflow, whatever the limits are.
THEOREM BudgetsHold == Spec => []SlotsMatchHolders
<1>1. IInv => SlotsMatchHolders
  BY DEF IInv
<1> QED BY <1>1, Invariance, PTL

\* The idle channel is never closed twice and no waiter waits for a channel
\* that nobody will close.
THEOREM WakeUpsAreSafe == Spec => [](IdleChannelTracksActive /\ NoLostWakeup)
<1>1. IInv => IdleChannelTracksActive /\ NoLostWakeup
  BY DEF IInv
<1> QED BY <1>1, Invariance, PTL

\* A forced close that has returned has cancelled every registered request,
\* however it interleaves with requests that are being admitted.
THEOREM ForcedCloseIsComplete == Spec => []ForcedCloseReachesAll
<1>1. IInv => ForcedCloseReachesAll
  BY DEF IInv
<1> QED BY <1>1, Invariance, PTL

-----------------------------------------------------------------------------
\* Only Register adds to the registry, and it is out of reach of a shut gate.
LEMMA OnlyRegisterAdds ==
    ASSUME IInv, [Next]_vars
    PROVE  Shut => active' \subseteq active
<1> SUFFICES ASSUME Shut PROVE active' \subseteq active
  OBVIOUS
<1>1. ASSUME NEW r \in Requests, Register(r) PROVE FALSE
  BY <1>1, RequestsAssumption DEF Register, IInv, MutexInv, ShutInv
<1>2. CASE UNCHANGED vars
  BY <1>2 DEF vars, registryVars
<1>3. CASE Next
  BY <1>1, <1>3
  DEF Next, Admit, Release, ForceClose, Wait, RefuseClosed, CheckFlags, RefuseFull,
      Unregister, FreeSlot, CancelOwn, ClientGone, BeginDrain, WinForcedClose,
      LoseForcedClose, SnapshotActive, CancelNext, ReturnForcedClose,
      WaitIdleReturns, WaitIdleParks, WaitIdleTimesOut, registryVars
<1> QED BY <1>2, <1>3

\* After BeginDrain, and after the snapshot of a forced close, the set of
\* registered requests only shrinks.
THEOREM GateNeverReopens == Spec => GateStaysShut
<1>1. IInv /\ [Next]_vars => [Shut => active' \subseteq active]_vars
  BY OnlyRegisterAdds
<1> QED BY <1>1, Invariance, PTL DEF Spec, GateStaysShut

-----------------------------------------------------------------------------
(* Admission implements DrainGate. *)

LEMMA GateInit == Init => Gate!Init
BY DEF Init, Gate!Init, Shut

\* What the gate sees of a request's steps.
LEMMA GateRequestStep ==
    ASSUME IInv, NEW r \in Requests, Admit(r) \/ Release(r) \/ ClientGone(r)
    PROVE  Gate!Next \/ UNCHANGED Gate!vars
<1> USE RequestsAssumption
    DEF IInv, TypeOK, Shut, requestVars, registryVars, flagVars, closerVars, waiterVars
<1>1. CASE RefuseClosed(r)
  BY <1>1 DEF RefuseClosed, CancelWith, Gate!vars
<1>2. CASE CheckFlags(r)
  BY <1>2 DEF CheckFlags, Gate!vars
<1>3. CASE Register(r)
  <2>1. Gate!Enter(r)
    BY <1>3 DEF Register, MutexInv, ShutInv, Gate!Enter
  <2> QED BY <2>1 DEF Gate!Next
<1>4. CASE RefuseFull(r)
  BY <1>4 DEF RefuseFull, CancelWith, Gate!vars
<1>5. CASE Unregister(r)
  <2>1. Gate!Leave(r)
    BY <1>5 DEF Unregister, Gate!Leave
  <2> QED BY <2>1 DEF Gate!Next
<1>6. CASE FreeSlot(r)
  BY <1>6 DEF FreeSlot, Gate!vars
<1>7. CASE CancelOwn(r)
  BY <1>7 DEF CancelOwn, CancelWith, Gate!vars
<1>8. CASE ClientGone(r)
  <2>1. Gate!Tell(r) \/ UNCHANGED Gate!vars
    BY <1>8 DEF ClientGone, CancelWith, Gate!Tell, Gate!vars
  <2> QED BY <2>1 DEF Gate!Next
<1> QED BY <1>1, <1>2, <1>3, <1>4, <1>5, <1>6, <1>7, <1>8 DEF Admit, Release

\* What it sees of the drain, of the forced close and of the waiters.
LEMMA GateControlStep ==
    ASSUME IInv,
           \/ BeginDrain
           \/ \E c \in Closers : ForceClose(c)
           \/ \E w \in Waiters : Wait(w)
    PROVE  Gate!Next \/ UNCHANGED Gate!vars
<1> USE RequestsAssumption
    DEF IInv, TypeOK, Shut, requestVars, registryVars, flagVars, closerVars, waiterVars
<1>1. CASE BeginDrain
  <2>1. Gate!Shut
    BY <1>1 DEF BeginDrain, Gate!Shut
  <2> QED BY <2>1 DEF Gate!Next
<1>2. ASSUME NEW c \in Closers, WinForcedClose(c) \/ LoseForcedClose(c)
      PROVE  UNCHANGED Gate!vars
  BY <1>2 DEF WinForcedClose, LoseForcedClose, Gate!vars
<1>3. ASSUME NEW c \in Closers, SnapshotActive(c) PROVE Gate!Cut
  BY <1>3 DEF SnapshotActive, ShutInv, Won, Gate!Cut
<1>4. ASSUME NEW c \in Closers, CancelNext(c)
      PROVE  (\E r \in Requests : Gate!Tell(r)) \/ UNCHANGED Gate!vars
  <2>1. PICK r \in todo[c] : CancelWith(r, "forced")
    BY <1>4 DEF CancelNext
  <2>2. r \in Requests
    OBVIOUS
  <2>3. CASE r \in active /\ cause[r] = "none"
    <3>1. Gate!Tell(r)
      BY <1>4, <2>1, <2>2, <2>3 DEF CancelNext, CancelWith, Cause, Gate!Tell
    <3> QED BY <2>2, <3>1
  <2>4. CASE ~(r \in active /\ cause[r] = "none")
    BY <1>4, <2>1, <2>2, <2>4 DEF CancelNext, CancelWith, Gate!vars
  <2> QED BY <2>3, <2>4
<1>5. ASSUME NEW c \in Closers, ReturnForcedClose(c) PROVE Gate!CutOver
  BY <1>5 DEF ReturnForcedClose, ShutInv, Won, SnapshotInv, Gate!CutOver
<1>6. ASSUME NEW w \in Waiters, WaitIdleReturns(w) PROVE Gate!ReportIdle(w)
  BY <1>6 DEF WaitIdleReturns, LooksAtRegistry, Gate!ReportIdle
<1>7. ASSUME NEW w \in Waiters, WaitIdleParks(w) PROVE UNCHANGED Gate!vars
  BY <1>7 DEF WaitIdleParks, LooksAtRegistry, Gate!vars
<1>8. ASSUME NEW w \in Waiters, WaitIdleTimesOut(w) PROVE Gate!GiveUp(w)
  BY <1>8 DEF WaitIdleTimesOut, Gate!GiveUp
<1> QED BY <1>1, <1>2, <1>3, <1>4, <1>5, <1>6, <1>7, <1>8
        DEF ForceClose, Wait, Gate!Next

\* Every behaviour of the code keeps the promise stated by DrainGate.
THEOREM AdmissionImplementsDrainGate == Spec => ImplementsDrainGate
<1>1. IInv /\ [Next]_vars => [Gate!Next]_Gate!vars
  <2> SUFFICES ASSUME IInv, [Next]_vars PROVE Gate!Next \/ UNCHANGED Gate!vars
    OBVIOUS
  <2>1. CASE Next
    BY <2>1, GateRequestStep, GateControlStep DEF Next
  <2>2. CASE UNCHANGED vars
    BY <2>2 DEF vars, requestVars, registryVars, flagVars, closerVars, waiterVars,
                Shut, Gate!vars
  <2> QED BY <2>1, <2>2
<1> QED BY <1>1, GateInit, Invariance, PTL DEF Spec, ImplementsDrainGate, Gate!Spec
=============================================================================
