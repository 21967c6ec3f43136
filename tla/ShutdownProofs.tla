--------------------------- MODULE ShutdownProofs ---------------------------
(***************************************************************************)
(* Theorems about Shutdown, for every finite set of requests and all       *)
(* limits: the slots of the admission control bound the turns of the       *)
(* session registry, nothing misses the flush, a session span ends after   *)
(* its turns, and a request that is cut off is not blamed on its client.   *)
(*                                                                         *)
(* The two components keep their own inductive invariants (AP!IInv,        *)
(* SP!IInv), because a step of the process is a step of each of them or    *)
(* leaves it alone.  What the process adds is how they are tied together:  *)
(* by the order of the deferred calls of ServeHTTP (HandlerInv), by the    *)
(* order of BeginForcedClose and srv.Close (BlameInv) and by what WaitIdle *)
(* has reported when main goes on (MainInv, EmptyInv).                     *)
(***************************************************************************)
EXTENDS Shutdown, FiniteSetTheorems, TLAPS

\* The components as the modules with their theorems see them.
AP == INSTANCE AdmissionProofs WITH Closers <- {Main}, Waiters <- {DrainWait, UnwindWait}
SP == INSTANCE SessionsProofs WITH Turns <- Instrumented, MaxConcurrent <- Slots

\* The calls of WaitIdle.
Waits == {DrainWait, UnwindWait}

MainTypeOK == /\ mpc \in MainState
              /\ serverSpan \in [Instrumented -> {"none", "open", "ended"}]
              /\ left \subseteq Requests
              /\ conns \in {"open", "shut", "dropped"}

\* A turn lies within the service of its request, and its server span within the turn's
\* session; the admission is released last.
HandlerInv ==
    \A r \in Instrumented :
       /\ turn[r] # "new" => pc[r] \in {"serving", "unregistered", "slotFreed", "done"}
       /\ pc[r] \in {"unregistered", "slotFreed", "done"} => Served(r)
       /\ serverSpan[r] # "none" => turn[r] \in {"holding", "leaving", "done", "bare"}
       /\ turn[r] \in {"leaving", "done"} => serverSpan[r] = "ended"

\* The server drops connections only after the forced close, and until a request gives
\* up its place only its own client can have cancelled it.
BlameInv ==
    /\ conns = "dropped" => cpc[Main] = "done"
    /\ \A r \in Requests :
         pc[r] \in {"new", "checked", "serving"} /\ cause[r] = "canceled" => r \in left

\* What main has done by the time it has come to a place.
MainInv ==
    /\ mpc \in {"running", "failed", "signalled"} => /\ ~draining
                                                   /\ \A w \in Waits : wpc[w] = "out"
    /\ mpc \in {"draining", "drainWaiting", "forcing", "unwindWaiting", "finishing"} => draining
    /\ mpc \in {"flushing", "stopped"} => closed
    /\ \A s \in Instrumented : span[s].state = "shutdown" => mpc \in {"flushing", "stopped"}
    /\ mpc = "stopped" => exported = {r \in Instrumented : serverSpan[r] = "ended"}

\* What a WaitIdle of the shutdown has reported stays true.
EmptyInv ==
    /\ \A w \in Waits : draining /\ wpc[w] = "idle" => active = {}
    /\ (/\ mpc \in {"finishing", "flushing", "stopped"}
        /\ draining
        /\ wpc[UnwindWait] # "timeout") => active = {}

\* The inductive invariant: those of the components, and what ties them together.
IInv == /\ AP!IInv
        /\ SP!IInv
        /\ MainTypeOK
        /\ HandlerInv
        /\ BlameInv
        /\ MainInv
        /\ EmptyInv

-----------------------------------------------------------------------------
(* The components and the modules that prove about them are instances of the *)
(* same definitions.                                                         *)

LEMMA SameAdmission ==
    /\ A!Init => AP!Init
    /\ \A r : /\ A!Admit(r) => AP!Admit(r)
              /\ A!Release(r) => AP!Release(r)
              /\ A!ClientGone(r) => AP!ClientGone(r)
    /\ A!BeginDrain => AP!BeginDrain
    /\ \A c : A!ForceClose(c) => AP!ForceClose(c)
    /\ \A w : A!Wait(w) => AP!Wait(w)
    /\ UNCHANGED admissionVars => UNCHANGED AP!vars
<1> USE DEF A!requestVars, A!registryVars, A!flagVars, A!closerVars, A!waiterVars,
            AP!requestVars, AP!registryVars, AP!flagVars, AP!closerVars, AP!waiterVars,
            A!Class, AP!Class, A!CancelWith, AP!CancelWith
<1>1. A!Init => AP!Init
  BY DEF A!Init, AP!Init
<1>2. ASSUME NEW r PROVE A!Admit(r) => AP!Admit(r)
  BY DEF A!Admit, AP!Admit, A!RefuseClosed, AP!RefuseClosed, A!CheckFlags, AP!CheckFlags,
         A!Register, AP!Register, A!RefuseFull, AP!RefuseFull, A!GateClosed, AP!GateClosed,
         A!IdleOnEntry, AP!IdleOnEntry, A!ClassOf, AP!ClassOf, A!Capacity, AP!Capacity
<1>3. ASSUME NEW r PROVE A!Release(r) => AP!Release(r)
  BY DEF A!Release, AP!Release, A!Unregister, AP!Unregister, A!FreeSlot, AP!FreeSlot,
         A!CancelOwn, AP!CancelOwn, A!ClosedOnExit, AP!ClosedOnExit, A!ClassOf, AP!ClassOf
<1>4. ASSUME NEW r PROVE A!ClientGone(r) => AP!ClientGone(r)
  BY DEF A!ClientGone, AP!ClientGone
<1>5. A!BeginDrain => AP!BeginDrain
  BY DEF A!BeginDrain, AP!BeginDrain
<1>6. ASSUME NEW c PROVE A!ForceClose(c) => AP!ForceClose(c)
  BY DEF A!ForceClose, AP!ForceClose, A!WinForcedClose, AP!WinForcedClose,
         A!LoseForcedClose, AP!LoseForcedClose, A!SnapshotActive, AP!SnapshotActive,
         A!CancelNext, AP!CancelNext, A!ReturnForcedClose, AP!ReturnForcedClose
<1>7. ASSUME NEW w PROVE A!Wait(w) => AP!Wait(w)
  BY DEF A!Wait, AP!Wait, A!WaitIdleReturns, AP!WaitIdleReturns, A!WaitIdleParks,
         AP!WaitIdleParks, A!WaitIdleTimesOut, AP!WaitIdleTimesOut,
         A!LooksAtRegistry, AP!LooksAtRegistry
<1>8. UNCHANGED admissionVars => UNCHANGED AP!vars
  BY DEF admissionVars, AP!vars
<1> HIDE DEF A!CancelWith, AP!CancelWith
<1> QED BY <1>1, <1>2, <1>3, <1>4, <1>5, <1>6, <1>7, <1>8

LEMMA SameSessions ==
    /\ S!Init => SP!Init
    /\ \A t : /\ S!Enter(t) => SP!Enter(t)
              /\ S!Acquire(t) => SP!Acquire(t)
              /\ S!Exit(t) => SP!Exit(t)
              /\ S!Release(t) => SP!Release(t)
    /\ \A i : S!TimerFires(i) \/ S!Expire(i) => SP!TimerFires(i) \/ SP!Expire(i)
    /\ S!CloseAll => SP!CloseAll
    /\ S!Tick => SP!Tick
    /\ UNCHANGED sessionVars => UNCHANGED SP!vars
<1> USE DEF S!registryVars, SP!registryVars, S!turnVars, SP!turnVars,
            S!Tracked, SP!Tracked, S!Later, SP!Later
<1>1. S!Init => SP!Init
  BY DEF S!Init, SP!Init
<1>2. ASSUME NEW t PROVE S!Enter(t) => SP!Enter(t)
  BY DEF S!Enter, SP!Enter, S!InFlight, SP!InFlight, S!Cardinality, SP!Cardinality
<1>3. ASSUME NEW t PROVE S!Acquire(t) => SP!Acquire(t)
  <2>1. S!AcquireRefused(t) => SP!AcquireRefused(t)
    BY DEF S!AcquireRefused, SP!AcquireRefused, S!Accepting, SP!Accepting
  <2>2. S!AcquireLive(t) => SP!AcquireLive(t)
    BY DEF S!AcquireLive, SP!AcquireLive, S!Accepting, SP!Accepting, S!Joined, SP!Joined
  <2>3. S!AcquireNew(t) => SP!AcquireNew(t)
    BY DEF S!AcquireNew, SP!AcquireNew, S!Accepting, SP!Accepting, S!Evictions, SP!Evictions,
           S!Evictable, SP!Evictable, S!Unused, SP!Unused, S!Surplus, SP!Surplus,
           S!Cardinality, SP!Cardinality, S!Finished, SP!Finished, S!EndOf, SP!EndOf
  <2> QED BY <2>1, <2>2, <2>3 DEF S!Acquire, SP!Acquire
<1>4. ASSUME NEW t PROVE S!Exit(t) => SP!Exit(t)
  BY DEF S!Exit, SP!Exit
<1>5. ASSUME NEW t PROVE S!Release(t) => SP!Release(t)
  BY DEF S!Release, SP!Release, S!Armed, SP!Armed, S!Left, SP!Left
<1>6. ASSUME NEW i PROVE S!TimerFires(i) \/ S!Expire(i) => SP!TimerFires(i) \/ SP!Expire(i)
  BY DEF S!TimerFires, SP!TimerFires, S!Expire, SP!Expire, S!ExpireStale, SP!ExpireStale,
         S!ExpireEarly, SP!ExpireEarly, S!ExpireDue, SP!ExpireDue, S!Expirable, SP!Expirable,
         S!Unused, SP!Unused, S!Remaining, SP!Remaining, S!Rearmed, SP!Rearmed,
         S!Without, SP!Without, S!Finished, SP!Finished, S!EndOf, SP!EndOf
<1>7. S!CloseAll => SP!CloseAll
  BY DEF S!CloseAll, SP!CloseAll, S!Without, SP!Without, S!Finished, SP!Finished,
         S!EndOf, SP!EndOf
<1>8. S!Tick => SP!Tick
  BY DEF S!Tick, SP!Tick
<1>9. UNCHANGED sessionVars => UNCHANGED SP!vars
  BY DEF sessionVars, SP!vars
<1> QED BY <1>1, <1>2, <1>3, <1>4, <1>5, <1>6, <1>7, <1>8, <1>9

\* A step of the process is a step of each component or leaves it alone.
LEMMA AdmissionSteps ==
    ASSUME [Next]_vars
    PROVE  [AP!Next]_AP!vars
<1> SUFFICES AP!Next \/ UNCHANGED admissionVars
  BY SameAdmission
<1>1. ASSUME NEW r \in Requests,
             Arrive(r) \/ LeaveAdmission(r) \/ ClientLeaves(r) \/ ConnectionDropped(r)
      PROVE  AP!Next
  BY <1>1, SameAdmission
  DEF Arrive, LeaveAdmission, ClientLeaves, ConnectionDropped, AP!Next
<1>2. ASSUME NEW r \in Requests, Hijack(r) PROVE UNCHANGED admissionVars
  BY <1>2 DEF Hijack
<1>3. ASSUME NEW r \in Instrumented, Serve(r) PROVE UNCHANGED admissionVars
  BY <1>3
  DEF Serve, ReadClock, AcquireSession, StartSpan, EndSpan, LeaveSession, OnlySessions
<1>4. CASE StartDrain \/ WaitForDrain \/ ForceClose \/ WaitForUnwind
  BY <1>4, SameAdmission
  DEF StartDrain, WaitForDrain, ForceClose, WaitForUnwind, WaitStep, AP!Next
<1>5. CASE MainStep /\ ~(StartDrain \/ WaitForDrain \/ ForceClose \/ WaitForUnwind)
  BY <1>5 DEF MainStep, Signal, ListenFails, ShutdownReturns, ShutdownTimesOut, DrainEnds,
              CloseServer, UnwindEnds, CloseSessions, Flush, OnlyMain
<1>6. CASE Background \/ Exited \/ UNCHANGED vars
  BY <1>6 DEF Background, Exited, OnlySessions, vars
<1> QED BY <1>1, <1>2, <1>3, <1>4, <1>5, <1>6 DEF Next

LEMMA SessionsSteps ==
    ASSUME [Next]_vars
    PROVE  [SP!Next]_SP!vars
<1> SUFFICES SP!Next \/ UNCHANGED sessionVars
  BY SameSessions
<1>1. ASSUME NEW r \in Requests,
             \/ Arrive(r) \/ LeaveAdmission(r) \/ Hijack(r)
             \/ ClientLeaves(r) \/ ConnectionDropped(r)
      PROVE  UNCHANGED sessionVars
  BY <1>1
  DEF Arrive, LeaveAdmission, Hijack, ClientLeaves, ConnectionDropped, OnlyAdmission
<1>2. ASSUME NEW r \in Instrumented, ReadClock(r) \/ AcquireSession(r) \/ LeaveSession(r)
      PROVE  SP!Next
  BY <1>2, SameSessions DEF ReadClock, AcquireSession, LeaveSession, SP!Next
<1>3. ASSUME NEW r \in Instrumented, StartSpan(r) \/ EndSpan(r)
      PROVE  UNCHANGED sessionVars
  BY <1>3 DEF StartSpan, EndSpan
<1>4. CASE CloseSessions
  BY <1>4, SameSessions DEF CloseSessions, SP!Next
<1>5. CASE MainStep /\ ~CloseSessions
  BY <1>5 DEF MainStep, Signal, ListenFails, StartDrain, ShutdownReturns, ShutdownTimesOut,
              WaitForDrain, DrainEnds, ForceClose, CloseServer, WaitForUnwind, UnwindEnds,
              Flush, WaitStep, OnlyMain, OnlyAdmission
<1>6. CASE Background
  BY <1>6, SameSessions DEF Background, SP!Next
<1>7. CASE Exited \/ UNCHANGED vars
  BY <1>7 DEF Exited, vars
<1> QED BY <1>1, <1>2, <1>3, <1>4, <1>5, <1>6, <1>7 DEF Next, Serve

-----------------------------------------------------------------------------
(* So each component keeps its own inductive invariant. *)

LEMMA Finite == IsFiniteSet(Requests) /\ IsFiniteSet(Instrumented) /\ IsFiniteSet(Ids)
BY RequestsAssumption, FS_Subset

LEMMA ComponentsInit == Init => AP!IInv /\ SP!IInv
<1>1. AP!Init => AP!IInv
  BY RequestsAssumption, LimitsAssumption, AP!InitIInv DEF IsFiniteSet, AP!IsFiniteSet
<1>2. SP!Init => SP!IInv
  BY Finite, LimitsAssumption, SP!InitIInv DEF IsFiniteSet, SP!IsFiniteSet
<1> QED BY <1>1, <1>2, SameAdmission, SameSessions DEF Init

LEMMA ComponentsStep ==
    ASSUME AP!IInv, SP!IInv, [Next]_vars
    PROVE  AP!IInv' /\ SP!IInv'
<1>1. AP!IInv /\ [AP!Next]_AP!vars => AP!IInv'
  BY RequestsAssumption, LimitsAssumption, AP!StepIInv DEF IsFiniteSet, AP!IsFiniteSet
<1>2. SP!IInv /\ [SP!Next]_SP!vars => SP!IInv'
  BY Finite, LimitsAssumption, SP!NextIInv DEF IsFiniteSet, SP!IsFiniteSet
<1> QED BY <1>1, <1>2, AdmissionSteps, SessionsSteps

-----------------------------------------------------------------------------
(* What ties the components together holds initially and in every step. *)

LEMMA InitIInv == Init => IInv
<1> SUFFICES ASSUME Init PROVE IInv
  OBVIOUS
<1> USE DEF Init, A!Init, S!Init
<1>1. MainTypeOK /\ HandlerInv
  BY RequestsAssumption DEF MainTypeOK, MainState, HandlerInv
<1>2. BlameInv /\ MainInv /\ EmptyInv
  BY DEF BlameInv, MainInv, EmptyInv, Waits
<1> QED BY <1>1, <1>2, ComponentsInit DEF IInv

LEMMA MainTypeStep == ASSUME IInv, [Next]_vars PROVE MainTypeOK'
<1> USE DEF IInv, MainTypeOK
<1>1. ASSUME NEW r \in Requests,
             \/ Arrive(r) \/ LeaveAdmission(r) \/ Hijack(r)
             \/ ClientLeaves(r) \/ ConnectionDropped(r)
      PROVE  MainTypeOK'
  BY <1>1 DEF Arrive, LeaveAdmission, Hijack, ClientLeaves, ConnectionDropped, OnlyAdmission,
              mainVars, connVars
<1>2. ASSUME NEW r \in Instrumented, Serve(r) PROVE MainTypeOK'
  BY <1>2 DEF Serve, ReadClock, AcquireSession, StartSpan, EndSpan, LeaveSession, OnlySessions,
              mainVars, connVars
<1>3. CASE MainStep
  BY <1>3 DEF MainStep, Signal, ListenFails, StartDrain, ShutdownReturns, ShutdownTimesOut,
              WaitForDrain, DrainEnds, ForceClose, CloseServer, WaitForUnwind, UnwindEnds,
              CloseSessions, Flush, WaitStep, DropConnections, OnlyMain, OnlyAdmission, At,
              MainState, mainVars, connVars
<1>4. CASE Background \/ Exited \/ UNCHANGED vars
  BY <1>4 DEF Background, Exited, OnlySessions, vars, mainVars, connVars
<1> QED BY <1>1, <1>2, <1>3, <1>4 DEF Next

LEMMA HandlerStep == ASSUME IInv, [Next]_vars PROVE HandlerInv'
<1> USE DEF HandlerInv, Served
<1>0. MainTypeOK /\ HandlerInv /\ AP!TypeOK /\ SP!TypeOK
  BY DEF IInv, AP!IInv, SP!IInv
<1>1. ASSUME NEW r \in Requests, Arrive(r) PROVE HandlerInv'
  BY <1>0, <1>1, RequestsAssumption
  DEF Arrive, OnlyAdmission, sessionVars, AP!TypeOK, A!Admit, A!RefuseClosed, A!CheckFlags,
      A!Register, A!RefuseFull
<1>2. ASSUME NEW r \in Requests, LeaveAdmission(r) PROVE HandlerInv'
  BY <1>0, <1>2, RequestsAssumption
  DEF LeaveAdmission, OnlyAdmission, sessionVars, AP!TypeOK, A!Release, A!Unregister, A!FreeSlot,
      A!CancelOwn
<1>3. ASSUME NEW r \in Requests, Hijack(r) \/ ClientLeaves(r) \/ ConnectionDropped(r)
      PROVE  HandlerInv'
  BY <1>0, <1>3
  DEF Hijack, ClientLeaves, ConnectionDropped, OnlyAdmission, admissionVars, sessionVars,
      A!ClientGone
<1>4. ASSUME NEW r \in Instrumented, ReadClock(r) PROVE HandlerInv'
  BY <1>0, <1>4 DEF ReadClock, OnlySessions, admissionVars, S!Enter, SP!TypeOK
<1>5. ASSUME NEW r \in Instrumented, AcquireSession(r) PROVE HandlerInv'
  BY <1>0, <1>5
  DEF AcquireSession, OnlySessions, admissionVars, S!Acquire, S!AcquireRefused, S!AcquireLive,
      S!AcquireNew, SP!TypeOK
<1>6. ASSUME NEW r \in Instrumented, StartSpan(r) \/ EndSpan(r) PROVE HandlerInv'
  BY <1>0, <1>6 DEF StartSpan, EndSpan, admissionVars, sessionVars, MainTypeOK
<1>7. ASSUME NEW r \in Instrumented, LeaveSession(r) PROVE HandlerInv'
  BY <1>0, <1>7
  DEF LeaveSession, OnlySessions, admissionVars, S!Exit, S!Release, SP!TypeOK
<1>8. UNCHANGED <<pc, turn, serverSpan>> => HandlerInv'
  BY <1>0
<1>9. CASE MainStep
  <2>1. UNCHANGED <<pc, turn, serverSpan>>
    BY <1>9
    DEF MainStep, Signal, ListenFails, StartDrain, ShutdownReturns, ShutdownTimesOut,
        WaitForDrain, DrainEnds, ForceClose, CloseServer, WaitForUnwind, UnwindEnds,
        CloseSessions, Flush, WaitStep, OnlyMain, OnlyAdmission, admissionVars, sessionVars,
        A!BeginDrain, A!ForceClose, A!WinForcedClose, A!LoseForcedClose, A!SnapshotActive,
        A!CancelNext, A!ReturnForcedClose, A!Wait, A!WaitIdleReturns, A!WaitIdleParks,
        A!WaitIdleTimesOut, A!requestVars, S!CloseAll, S!turnVars
  <2> QED BY <1>8, <2>1
<1>10. CASE Background \/ Exited \/ UNCHANGED vars
  <2>1. UNCHANGED <<pc, turn, serverSpan>>
    BY <1>10
    DEF Background, Exited, OnlySessions, vars, admissionVars, sessionVars, S!Tick,
        S!TimerFires, S!Expire, S!ExpireStale, S!ExpireEarly, S!ExpireDue, S!turnVars
  <2> QED BY <1>8, <2>1
<1> HIDE DEF HandlerInv
<1> QED BY <1>1, <1>2, <1>3, <1>4, <1>5, <1>6, <1>7, <1>9, <1>10 DEF Next, Serve

\* The forced close has been told to every registered request before the server drops a
\* connection, and a request that comes later is refused.
LEMMA DroppedHasCause ==
    ASSUME IInv, NEW r \in Requests, conns = "dropped", pc[r] \in {"checked", "serving"}
    PROVE  cause[r] # "none"
<1> USE RequestsAssumption DEF IInv, AP!IInv, BlameInv
<1>1. cpc[Main] = "done"
  OBVIOUS
<1>2. pc[r] # "checked"
  BY <1>1 DEF AP!ShutInv, AP!Shut, AP!MutexInv
<1>3. r \in active
  BY <1>2 DEF AP!TypeOK
<1> QED BY <1>1, <1>3 DEF AP!ForcedCloseReachesAll

LEMMA BlameStep == ASSUME IInv, [Next]_vars PROVE BlameInv'
<1> USE RequestsAssumption DEF BlameInv
<1>0. BlameInv /\ AP!TypeOK /\ left \subseteq Requests
  BY DEF IInv, AP!IInv, MainTypeOK
<1>1. ASSUME NEW r \in Requests, Arrive(r) PROVE BlameInv'
  BY <1>0, <1>1
  DEF Arrive, OnlyAdmission, connVars, AP!TypeOK, A!Admit, A!RefuseClosed, A!CheckFlags,
      A!Register, A!RefuseFull, A!CancelWith, A!closerVars
<1>2. ASSUME NEW r \in Requests, LeaveAdmission(r) PROVE BlameInv'
  BY <1>0, <1>2
  DEF LeaveAdmission, OnlyAdmission, connVars, AP!TypeOK, A!Release, A!Unregister, A!FreeSlot,
      A!CancelOwn, A!CancelWith, A!closerVars
<1>3. ASSUME NEW r \in Requests, Hijack(r) PROVE BlameInv'
  BY <1>0, <1>3 DEF Hijack, admissionVars
<1>4. ASSUME NEW r \in Requests, ClientLeaves(r) PROVE BlameInv'
  BY <1>0, <1>4 DEF ClientLeaves, A!ClientGone, A!CancelWith, A!closerVars, AP!TypeOK
<1>5. ASSUME NEW r \in Requests, ConnectionDropped(r) PROVE BlameInv'
  <2>1. pc[r] \notin {"new", "checked", "serving"}
    BY <1>5, DroppedHasCause DEF ConnectionDropped, A!ClientGone
  <2> QED BY <1>0, <1>5, <2>1
      DEF ConnectionDropped, OnlyAdmission, connVars, A!ClientGone, A!CancelWith, A!closerVars,
          AP!TypeOK
<1>6. CASE ForceClose
  <2>1. UNCHANGED <<pc, left, conns>>
    BY <1>6
    DEF ForceClose, OnlyAdmission, connVars, A!ForceClose, A!WinForcedClose, A!LoseForcedClose,
        A!SnapshotActive, A!CancelNext, A!ReturnForcedClose, A!requestVars
  <2>2. cpc[Main] = "done" => cpc'[Main] = "done"
    BY <1>0, <1>6
    DEF ForceClose, A!ForceClose, A!WinForcedClose, A!LoseForcedClose, A!SnapshotActive,
        A!CancelNext, A!ReturnForcedClose, AP!TypeOK
  <2>3. \A r \in Requests : cause'[r] = cause[r] \/ cause'[r] = "forced"
    <3>1. UNCHANGED cause \/ \E r \in todo[Main] : A!CancelWith(r, "forced")
      BY <1>6
      DEF ForceClose, A!ForceClose, A!WinForcedClose, A!LoseForcedClose, A!SnapshotActive,
          A!CancelNext, A!ReturnForcedClose, A!requestVars
    <3> QED BY <1>0, <3>1 DEF A!CancelWith, AP!TypeOK
  <2> QED BY <1>0, <2>1, <2>2, <2>3
<1>7. CASE CloseServer
  BY <1>0, <1>7 DEF CloseServer, DropConnections, admissionVars
<1>8. UNCHANGED <<pc, cause, cpc, left>> /\ conns' \in {conns, "shut"} => BlameInv'
  BY <1>0
<1>9. ASSUME NEW r \in Instrumented, Serve(r) PROVE UNCHANGED <<pc, cause, cpc, left, conns>>
  BY <1>9 DEF Serve, ReadClock, AcquireSession, StartSpan, EndSpan, LeaveSession, OnlySessions,
              admissionVars, connVars
<1>10. CASE MainStep /\ ~ForceClose /\ ~CloseServer
  <2>1. UNCHANGED <<pc, cause, cpc, left>> /\ conns' \in {conns, "shut"}
    BY <1>10
    DEF MainStep, Signal, ListenFails, StartDrain, ShutdownReturns, ShutdownTimesOut,
        WaitForDrain, DrainEnds, WaitForUnwind, UnwindEnds, CloseSessions, Flush, WaitStep,
        OnlyMain, OnlyAdmission, admissionVars, connVars, A!BeginDrain, A!Wait,
        A!WaitIdleReturns, A!WaitIdleParks, A!WaitIdleTimesOut, A!requestVars, A!closerVars
  <2> QED BY <1>8, <2>1
<1>11. CASE Background \/ Exited \/ UNCHANGED vars
  <2>1. UNCHANGED <<pc, cause, cpc, left, conns>>
    BY <1>11 DEF Background, Exited, OnlySessions, vars, admissionVars, connVars
  <2> QED BY <1>8, <2>1
<1> HIDE DEF BlameInv
<1> QED BY <1>1, <1>2, <1>3, <1>4, <1>5, <1>6, <1>7, <1>8, <1>9, <1>10, <1>11 DEF Next

\* Sessions end with the shutdown in closeAll only.
LEMMA ShutdownSpans ==
    ASSUME SP!TypeOK, \/ \E t \in Instrumented : S!Enter(t) \/ S!Acquire(t) \/ S!Exit(t) \/ S!Release(t)
                      \/ S!Tick \/ \E i \in Ids : S!TimerFires(i) \/ S!Expire(i)
    PROVE  /\ closed' = closed
           /\ \A s \in Instrumented : span'[s].state = "shutdown" => span[s].state = "shutdown"
<1> USE DEF S!registryVars, S!turnVars
<1>1. ASSUME NEW t \in Instrumented, S!Enter(t) \/ S!Exit(t) \/ S!Release(t)
      PROVE  UNCHANGED <<closed, span>>
  BY <1>1 DEF S!Enter, S!Exit, S!Release
<1>2. ASSUME NEW t \in Instrumented, S!AcquireRefused(t) \/ S!AcquireLive(t)
      PROVE  UNCHANGED <<closed, span>>
  BY <1>2 DEF S!AcquireRefused, S!AcquireLive
<1>3. ASSUME NEW E, NEW reason \in {"idle", "evicted"}, NEW s \in Instrumented,
             S!Finished(E, reason)[s].state = "shutdown"
      PROVE  span[s].state = "shutdown"
  BY <1>3 DEF S!Finished, S!EndOf
<1>4. ASSUME NEW t \in Instrumented, S!AcquireNew(t)
      PROVE  /\ closed' = closed
             /\ \A s \in Instrumented : span'[s].state = "shutdown" => span[s].state = "shutdown"
  <2>1. PICK E : span' = [S!Finished(E, "evicted") EXCEPT ![t].state = "open"]
    BY <1>4 DEF S!AcquireNew
  <2>2. ASSUME NEW s \in Instrumented, span'[s].state = "shutdown"
        PROVE  S!Finished(E, "evicted")[s].state = "shutdown"
    BY <2>1, <2>2 DEF S!Finished, S!EndOf, SP!TypeOK, SP!Span
  <2> QED BY <1>3, <1>4, <2>2 DEF S!AcquireNew
<1>5. ASSUME NEW i \in Ids, S!TimerFires(i) \/ S!ExpireStale(i) \/ S!ExpireEarly(i)
      PROVE  UNCHANGED <<closed, span>>
  BY <1>5 DEF S!TimerFires, S!ExpireStale, S!ExpireEarly
<1>6. ASSUME NEW i \in Ids, S!ExpireDue(i)
      PROVE  closed' = closed /\ span' = S!Finished({i}, "idle")
  BY <1>6 DEF S!ExpireDue
<1>7. S!Tick => UNCHANGED <<closed, span>>
  BY DEF S!Tick
<1> QED BY <1>1, <1>2, <1>3, <1>4, <1>5, <1>6, <1>7 DEF S!Acquire, S!Expire

LEMMA MainInvStep == ASSUME IInv, [Next]_vars PROVE MainInv'
<1> USE DEF MainInv, At
<1>0. MainInv /\ AP!TypeOK /\ SP!TypeOK /\ MainTypeOK
  BY DEF IInv, AP!IInv, SP!IInv
<1>1. ASSUME NEW r \in Requests,
             \/ Arrive(r) \/ LeaveAdmission(r) \/ Hijack(r)
             \/ ClientLeaves(r) \/ ConnectionDropped(r)
      PROVE  MainInv'
  <2>1. UNCHANGED <<draining, wpc>>
    BY <1>1
    DEF Arrive, LeaveAdmission, Hijack, ClientLeaves, ConnectionDropped, admissionVars,
        A!Admit, A!RefuseClosed, A!CheckFlags, A!Register, A!RefuseFull, A!Release,
        A!Unregister, A!FreeSlot, A!CancelOwn, A!ClientGone, A!flagVars, A!waiterVars
  <2>2. UNCHANGED <<mpc, exported, closed, span, serverSpan>>
    BY <1>1
    DEF Arrive, LeaveAdmission, Hijack, ClientLeaves, ConnectionDropped, OnlyAdmission,
        sessionVars, mainVars
  <2> QED BY <1>0, <2>1, <2>2
<1>2. ASSUME NEW r \in Instrumented, StartSpan(r) \/ EndSpan(r) PROVE MainInv'
  BY <1>0, <1>2 DEF StartSpan, EndSpan, Running, admissionVars, sessionVars, mainVars
<1>3. CASE \/ \E r \in Instrumented : ReadClock(r) \/ AcquireSession(r) \/ LeaveSession(r)
           \/ Background
  <2>1. UNCHANGED <<draining, wpc, mpc, exported, serverSpan>>
    BY <1>3
    DEF ReadClock, AcquireSession, LeaveSession, Background, OnlySessions, admissionVars, mainVars
  <2>2. /\ closed' = closed
        /\ \A s \in Instrumented : span'[s].state = "shutdown" => span[s].state = "shutdown"
    BY <1>0, <1>3, ShutdownSpans DEF ReadClock, AcquireSession, LeaveSession, Background
  <2> QED BY <1>0, <2>1, <2>2
<1>4. CASE Signal \/ ListenFails \/ ShutdownReturns \/ ShutdownTimesOut \/ DrainEnds
           \/ CloseServer \/ UnwindEnds
  <2>1. UNCHANGED <<draining, wpc, closed, span, serverSpan>>
    BY <1>4
    DEF Signal, ListenFails, ShutdownReturns, ShutdownTimesOut, DrainEnds, CloseServer,
        UnwindEnds, OnlyMain, admissionVars, sessionVars
  <2>2. /\ mpc' \in {"failed", "signalled"} => mpc = "running"
        /\ mpc' \notin {"running", "flushing", "stopped"}
        /\ mpc \notin {"flushing", "stopped"}
        /\ mpc' \in {"draining", "drainWaiting", "forcing", "unwindWaiting", "finishing"} =>
              mpc \in {"draining", "drainWaiting", "forcing", "unwindWaiting", "finishing"}
    BY <1>4
    DEF Signal, ListenFails, ShutdownReturns, ShutdownTimesOut, DrainEnds, CloseServer, UnwindEnds
  <2> QED BY <1>0, <2>1, <2>2
<1>5. CASE StartDrain
  BY <1>0, <1>5 DEF StartDrain, A!BeginDrain, sessionVars
<1>6. CASE WaitForDrain \/ ForceClose \/ WaitForUnwind
  <2>1. /\ UNCHANGED <<mpc, exported, closed, span, serverSpan>>
        /\ mpc \in {"drainWaiting", "forcing", "unwindWaiting"}
    BY <1>6
    DEF WaitForDrain, ForceClose, WaitForUnwind, WaitStep, OnlyAdmission, sessionVars, mainVars
  <2>2. draining' = draining
    BY <1>6
    DEF WaitForDrain, ForceClose, WaitForUnwind, WaitStep, A!flagVars,
        A!ForceClose, A!WinForcedClose, A!LoseForcedClose, A!SnapshotActive,
        A!CancelNext, A!ReturnForcedClose, A!Wait, A!WaitIdleReturns, A!WaitIdleParks,
        A!WaitIdleTimesOut
  <2> QED BY <1>0, <2>1, <2>2
<1>7. CASE CloseSessions
  BY <1>0, <1>7 DEF CloseSessions, S!CloseAll, admissionVars
<1>8. CASE Flush
  BY <1>0, <1>8 DEF Flush, OnlyMain, admissionVars, sessionVars
<1>9. CASE Exited \/ UNCHANGED vars
  BY <1>0, <1>9 DEF Exited, vars, admissionVars, sessionVars, mainVars
<1> HIDE DEF MainInv
<1> QED BY <1>1, <1>2, <1>3, <1>4, <1>5, <1>6, <1>7, <1>8, <1>9 DEF Next, Serve, MainStep

LEMMA EmptyStep == ASSUME IInv, [Next]_vars PROVE EmptyInv'
<1> USE DEF EmptyInv, Waits, At
<1>0. EmptyInv /\ MainInv /\ AP!TypeOK /\ MainTypeOK
  BY DEF IInv, AP!IInv
<1>a. draining => active' \subseteq active
  <2>1. AP!IInv /\ [AP!Next]_AP!vars => (AP!Shut => active' \subseteq active)
    BY RequestsAssumption, LimitsAssumption, AP!OnlyRegisterAdds DEF IsFiniteSet, AP!IsFiniteSet
  <2> QED BY <2>1, AdmissionSteps DEF IInv, AP!Shut
<1>1. CASE StartDrain
  BY <1>0, <1>1 DEF StartDrain, MainInv, A!BeginDrain, A!waiterVars
<1>2. CASE WaitForDrain \/ WaitForUnwind
  <2>1. PICK w \in Waits : WaitStep(w) /\ (w = UnwindWait => mpc = "unwindWaiting")
    BY <1>2, WaitsAssumption DEF WaitForDrain, WaitForUnwind
  <2>2. /\ \A v \in Waits : v # w => wpc'[v] = wpc[v]
        /\ wpc'[w] = "idle" => active' = {}
    BY <1>0, <2>1
    DEF WaitStep, A!Wait, A!WaitIdleReturns, A!WaitIdleParks, A!WaitIdleTimesOut,
        A!registryVars, AP!TypeOK
  <2>3. draining' = draining /\ mpc' = mpc
    BY <1>2
    DEF WaitForDrain, WaitForUnwind, WaitStep, OnlyAdmission, mainVars, A!Wait,
        A!WaitIdleReturns, A!WaitIdleParks, A!WaitIdleTimesOut, A!flagVars
  <2>4. mpc \in {"drainWaiting", "unwindWaiting"}
    BY <1>2 DEF WaitForDrain, WaitForUnwind
  <2> QED BY <1>0, <1>a, <2>2, <2>3, <2>4
<1>3. CASE Next /\ ~StartDrain /\ ~WaitForDrain /\ ~WaitForUnwind
  <2>1. UNCHANGED <<draining, wpc>>
    <3>1. ASSUME NEW r \in Requests,
                 \/ Arrive(r) \/ LeaveAdmission(r) \/ Hijack(r)
                 \/ ClientLeaves(r) \/ ConnectionDropped(r)
          PROVE  UNCHANGED <<draining, wpc>>
      BY <3>1
      DEF Arrive, LeaveAdmission, Hijack, ClientLeaves, ConnectionDropped, admissionVars,
          A!Admit, A!RefuseClosed, A!CheckFlags, A!Register, A!RefuseFull, A!Release,
          A!Unregister, A!FreeSlot, A!CancelOwn, A!ClientGone, A!flagVars, A!waiterVars
    <3>2. ASSUME NEW r \in Instrumented, Serve(r) PROVE UNCHANGED <<draining, wpc>>
      BY <3>2 DEF Serve, ReadClock, AcquireSession, StartSpan, EndSpan, LeaveSession,
                  OnlySessions, admissionVars
    <3>3. CASE MainStep
      BY <1>3, <3>3
      DEF MainStep, Signal, ListenFails, ShutdownReturns, ShutdownTimesOut, DrainEnds,
          ForceClose, CloseServer, UnwindEnds, CloseSessions, Flush, OnlyMain,
          admissionVars, A!ForceClose, A!WinForcedClose, A!LoseForcedClose, A!SnapshotActive,
          A!CancelNext, A!ReturnForcedClose, A!flagVars, A!waiterVars
    <3> QED BY <1>3, <3>1, <3>2, <3>3
        DEF Next, Background, Exited, OnlySessions, vars, admissionVars
  <2>2. \/ mpc' = mpc
        \/ mpc' \notin {"finishing", "flushing", "stopped"}
        \/ DrainEnds \/ UnwindEnds \/ CloseSessions \/ Flush
    BY <1>3
    DEF Next, Arrive, LeaveAdmission, Hijack, ClientLeaves, ConnectionDropped, Serve,
        ReadClock, AcquireSession, StartSpan, EndSpan, LeaveSession, MainStep, Signal,
        ListenFails, ShutdownReturns, ShutdownTimesOut, ForceClose, CloseServer,
        Background, Exited, OnlyAdmission, OnlySessions, vars, mainVars
  <2>3. CASE DrainEnds \/ UnwindEnds
    BY <1>0, <1>a, <2>1, <2>3 DEF DrainEnds, UnwindEnds
  <2>4. CASE CloseSessions \/ Flush
    BY <1>0, <1>a, <2>1, <2>4 DEF CloseSessions, Flush, MainInv
  <2> QED BY <1>0, <1>a, <2>1, <2>2, <2>3, <2>4
<1>4. CASE UNCHANGED vars
  BY <1>0, <1>4 DEF vars, admissionVars, mainVars
<1> QED BY <1>1, <1>2, <1>3, <1>4

LEMMA StepIInv == IInv /\ [Next]_vars => IInv'
<1>1. ASSUME IInv, [Next]_vars PROVE IInv'
  <2>1. AP!IInv' /\ SP!IInv'
    BY <1>1, ComponentsStep DEF IInv
  <2> QED BY <1>1, <2>1, MainTypeStep, HandlerStep, BlameStep, MainInvStep, EmptyStep DEF IInv
<1> QED BY <1>1

\* Every state the process can reach satisfies the inductive invariant.
THEOREM Invariance == Spec => []IInv
BY InitIInv, StepIInv, PTL DEF Spec

-----------------------------------------------------------------------------
(* What follows. *)

\* The admission control lets no more requests for instrumented operations in than the
\* registry has been dimensioned for: the bound of Sessions never holds a turn back.
THEOREM TurnsFit == Spec => []TurnsFitSlots
<1>1. ASSUME IInv, NEW r \in Instrumented, pc[r] = "serving", turn[r] = "new"
      PROVE  Cardinality(S!InFlight) < Slots
  <2> DEFINE Holding == {q \in Requests : /\ q \in Instrumented
                                          /\ pc[q] \in {"serving", "unregistered"}}
  <2>1. used["inference"] = Cardinality(Holding) /\ used["inference"] <= Slots
    <3>1. AP!HoldersOf("inference") = Holding
      BY DEF AP!HoldersOf, AP!ClassOf
    <3> QED BY <1>1, <3>1
        DEF IInv, AP!IInv, AP!SlotsMatchHolders, AP!Class, AP!Capacity, Cardinality, AP!Cardinality
  <2>2. S!InFlight \cup {r} \subseteq Holding
    BY <1>1, RequestsAssumption DEF IInv, HandlerInv, Served, S!InFlight
  <2>3. r \notin S!InFlight
    BY <1>1 DEF S!InFlight
  <2>4. IsFiniteSet(Holding)
    BY Finite, FS_Subset
  <2> HIDE DEF Holding
  <2>5. IsFiniteSet(S!InFlight)
    BY <2>2, <2>4, FS_Subset
  <2>6. Cardinality(S!InFlight \cup {r}) = Cardinality(S!InFlight) + 1
    BY <2>3, <2>5, FS_AddElement
  <2>7. Cardinality(S!InFlight \cup {r}) <= Cardinality(Holding)
    BY <2>2, <2>4, FS_Subset
  <2>8. Cardinality(S!InFlight) \in Nat /\ Cardinality(Holding) \in Nat /\ Slots \in Nat
    BY <2>4, <2>5, FS_CardinalityType, LimitsAssumption
  <2> QED BY <2>1, <2>6, <2>7, <2>8
<1>2. IInv => TurnsFitSlots
  BY <1>1 DEF TurnsFitSlots
<1> QED BY <1>2, Invariance, PTL

\* When nobody is registered any more, every handler has gone through all its deferred calls
\* up to the admission's.
LEMMA EmptyMeansServed ==
    ASSUME IInv, active = {}, NEW r \in Instrumented, turn[r] # "new"
    PROVE  Served(r)
BY RequestsAssumption DEF IInv, AP!IInv, AP!TypeOK, HandlerInv

\* Without a timeout of the unwinding no server span misses the flush, and no session span
\* ever does.
THEOREM NothingIsMissed == Spec => []NothingMissesTheFlush
<1>1. IInv => LostOnlyOnTimeout
  <2> SUFFICES ASSUME IInv, mpc = "stopped", draining, wpc[UnwindWait] # "timeout"
               PROVE  /\ active = {}
                      /\ \A r \in Instrumented : serverSpan[r] # "none" => r \in exported
    BY DEF LostOnlyOnTimeout
  <2>1. active = {}
    BY DEF IInv, EmptyInv
  <2>2. ASSUME NEW r \in Instrumented, serverSpan[r] # "none"
        PROVE  r \in exported
    <3>1. Served(r)
      BY <2>1, <2>2, EmptyMeansServed DEF IInv, HandlerInv
    <3> QED BY <3>1 DEF IInv, MainInv, Served
  <2> QED BY <2>1, <2>2
<1>2. IInv => SessionsMakeTheFlush
  BY DEF IInv, MainInv, SP!IInv, SP!ClosedInv, SP!NoSpanIsLost, SP!OpenSpansAreTracked,
         SP!Tracked, SessionsMakeTheFlush
<1> QED BY <1>1, <1>2, Invariance, PTL DEF NothingMissesTheFlush

\* A session span ends after the server spans of its turns, unless main gives up on handlers.
THEOREM ParentsEndLast == Spec => []ParentEndsLast
<1>1. ASSUME IInv, NEW s \in Instrumented, NEW t \in S!Members(s),
             \/ span[s].state \in {"idle", "evicted"}
             \/ span[s].state = "shutdown" /\ draining /\ wpc[UnwindWait] # "timeout"
      PROVE  serverSpan[t] = "ended"
  <2>1. t \in Instrumented /\ spanOf[t] = {s}
    BY DEF S!Members
  <2>2. CASE span[s].state \in {"idle", "evicted"}
    BY <1>1, <2>1, <2>2 DEF IInv, SP!IInv, SP!ParentInv, SP!Members, HandlerInv
  <2>3. CASE span[s].state = "shutdown" /\ draining /\ wpc[UnwindWait] # "timeout"
    <3>1. active = {}
      BY <1>1, <2>3 DEF IInv, MainInv, EmptyInv
    <3>2. turn[t] # "new"
      BY <1>1, <2>1 DEF IInv, SP!IInv, SP!ParentInv
    <3> QED BY <1>1, <2>1, <3>1, <3>2, EmptyMeansServed DEF Served
  <2> QED BY <1>1, <2>2, <2>3
<1>2. IInv => \A s \in Instrumented : span[s].state \in {"unopened", "open", "idle", "evicted", "shutdown"}
  BY DEF IInv, SP!IInv, SP!TypeOK, SP!Span, SP!EndReason
<1>3. IInv => ParentEndsLast
  BY <1>1, <1>2 DEF ParentEndsLast
<1> QED BY <1>3, Invariance, PTL

\* No request that is cut off by the shutdown is recorded as abandoned by its client.
THEOREM CutOffIsNotTheClients == Spec => []CutOffNotBlamedOnClient
<1>1. IInv => CutOffNotBlamedOnClient
  BY DEF IInv, BlameInv, CutOffNotBlamedOnClient
<1> QED BY <1>1, Invariance, PTL

-----------------------------------------------------------------------------
(* The process runs the components as they are specified on their own: what *)
(* AdmissionProofs and SessionsProofs show holds of it.                     *)

\* Every behaviour of the process is one of the session registry, and one of the admission
\* control: what is proved of them alone holds inside the process.
THEOREM ComponentsAreThemselves == Spec => AP!Spec /\ SP!Spec
<1>1. Init => AP!Init /\ SP!Init
  BY SameAdmission, SameSessions DEF Init
<1>2. [Next]_vars => [AP!Next]_AP!vars /\ [SP!Next]_SP!vars
  BY AdmissionSteps, SessionsSteps
<1> QED BY <1>1, <1>2, PTL DEF Spec, AP!Spec, SP!Spec
=============================================================================
