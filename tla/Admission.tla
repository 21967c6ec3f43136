----------------------------- MODULE Admission -----------------------------
(***************************************************************************)
(* Admission control of the proxy (internal/proxy/proxy.go): admitRequest  *)
(* and the release function it returns, BeginDrain, BeginForcedClose and   *)
(* WaitIdle of Handler, interleaved as the goroutines of the HTTP server   *)
(* and of the shutdown code interleave them.                               *)
(*                                                                         *)
(* A step is what happens between two points at which another goroutine    *)
(* can be noticed.  The critical section of admitRequest is two steps,     *)
(* because BeginForcedClose flips forcedClose without holding activeMu and *)
(* release gives its slot back without holding it either; every other      *)
(* critical section reads and writes only what activeMu protects and is    *)
(* one step, taken when the mutex is free.                                 *)
(***************************************************************************)
EXTENDS Naturals, FiniteSets

CONSTANTS Requests,          \* the HTTP requests that may arrive
          Instrumented,      \* those of them for an instrumented operation
          Closers,           \* goroutines that may call BeginForcedClose
          Waiters,           \* goroutines that may call WaitIdle
          Slots,             \* Options.MaxConcurrentRequests
          PassthroughSlots,  \* Options.MaxConcurrentPassthroughRequests
          Nobody             \* the value of activeMu when it is free

ASSUME RequestsAssumption == /\ IsFiniteSet(Requests)
                             /\ Instrumented \subseteq Requests
                             /\ Nobody \notin Requests
\* New replaces a limit that is not positive by its default.
ASSUME SlotsAssumption == /\ Slots \in Nat \ {0}
                          /\ PassthroughSlots \in Nat \ {0}

VARIABLES pc,           \* where the goroutine of each request is
          cause,        \* context.Cause of each request's context
          active,       \* h.active: the registered requests
          used,         \* len(h.slots), len(h.passthroughSlots)
          idle,         \* h.idle: the channels are numbered, 0 is nil
          closedIdle,   \* the idle channels that have been closed
          draining,     \* h.draining
          forcedClose,  \* h.forcedClose
          activeMu,     \* h.activeMu: the request that is inside it, or Nobody
          cpc,          \* where each caller of BeginForcedClose is
          todo,         \* the rest of the snapshot it still has to cancel
          wpc,          \* where each caller of WaitIdle is
          waitOn        \* the channel it is parked on

requestVars == <<pc, cause, used>>
registryVars == <<active, idle, closedIdle>>
flagVars == <<draining, forcedClose>>
closerVars == <<cpc, todo>>
waiterVars == <<wpc, waitOn>>
vars == <<requestVars, registryVars, flagVars, activeMu, closerVars, waiterVars>>

Class == {"inference", "passthrough"}
ClassOf(r) == IF r \in Instrumented THEN "inference" ELSE "passthrough"
Capacity(k) == IF k = "inference" THEN Slots ELSE PassthroughSlots

RequestState == {"new", "checked", "serving", "unregistered", "slotFreed",
                 "done", "rejected"}
Cause == {"none", "canceled", "forced"}
CloserState == {"idle", "won", "cancelling", "done", "lost"}
WaiterState == {"out", "parked", "idle", "timeout"}

Init == /\ pc = [r \in Requests |-> "new"]
        /\ cause = [r \in Requests |-> "none"]
        /\ used = [k \in Class |-> 0]
        /\ active = {}
        /\ idle = 0
        /\ closedIdle = {}
        /\ draining = FALSE
        /\ forcedClose = FALSE
        /\ activeMu = Nobody
        /\ cpc = [c \in Closers |-> "idle"]
        /\ todo = [c \in Closers |-> {}]
        /\ wpc = [w \in Waiters |-> "out"]
        /\ waitOn = [w \in Waiters |-> 0]

\* A CancelCauseFunc: the first cause stays.
CancelWith(r, why) ==
    cause' = IF cause[r] = "none" THEN [cause EXCEPT ![r] = why] ELSE cause

-----------------------------------------------------------------------------
(* The goroutine of a request.  Operators whose comment starts with "Slip"  *)
(* are not part of the model: each is a mistake this code could have made,  *)
(* kept to show that a property below would notice it.                      *)

\* Slip: a forced close is not looked at when a request is admitted.
GateClosedByDrainOnly == draining
\* What admitRequest refuses on.
GateClosed == draining \/ forcedClose

\* admitRequest, refused by the flags it reads under activeMu.
RefuseClosed(r) ==
    /\ pc[r] = "new"
    /\ activeMu = Nobody
    /\ GateClosed
    /\ pc' = [pc EXCEPT ![r] = "rejected"]
    /\ CancelWith(r, "canceled")
    /\ UNCHANGED <<used, registryVars, flagVars, activeMu, closerVars, waiterVars>>

\* admitRequest, up to the decision to go on: activeMu stays locked.
CheckFlags(r) ==
    /\ pc[r] = "new"
    /\ activeMu = Nobody
    /\ ~GateClosed
    /\ pc' = [pc EXCEPT ![r] = "checked"]
    /\ activeMu' = r
    /\ UNCHANGED <<cause, used, registryVars, flagVars, closerVars, waiterVars>>

\* Slip: the idle channel is made for everyone.
IdleMadeAlways == idle + 1
\* The first one in opens a new idle channel.
IdleOnEntry == IF active = {} THEN idle + 1 ELSE idle

\* The slot is taken without blocking, the request registered and activeMu
\* unlocked.
Register(r) ==
    /\ pc[r] = "checked"
    /\ used[ClassOf(r)] < Capacity(ClassOf(r))
    /\ used' = [used EXCEPT ![ClassOf(r)] = @ + 1]
    /\ idle' = IdleOnEntry
    /\ active' = active \cup {r}
    /\ activeMu' = Nobody
    /\ pc' = [pc EXCEPT ![r] = "serving"]
    /\ UNCHANGED <<cause, closedIdle, flagVars, closerVars, waiterVars>>

\* No slot is free: the overload answer.
RefuseFull(r) ==
    /\ pc[r] = "checked"
    /\ used[ClassOf(r)] >= Capacity(ClassOf(r))
    /\ activeMu' = Nobody
    /\ pc' = [pc EXCEPT ![r] = "rejected"]
    /\ CancelWith(r, "canceled")
    /\ UNCHANGED <<used, registryVars, flagVars, closerVars, waiterVars>>

\* Slip: the last one out leaves without closing the channel.
IdleNeverClosed(rest) == closedIdle
\* The last one out closes the idle channel.
ClosedOnExit(rest) == IF rest = {} THEN closedIdle \cup {idle} ELSE closedIdle

\* The handler returns or panics and the deferred release starts.
Unregister(r) ==
    /\ pc[r] = "serving"
    /\ activeMu = Nobody
    /\ active' = active \ {r}
    /\ closedIdle' = ClosedOnExit(active \ {r})
    /\ pc' = [pc EXCEPT ![r] = "unregistered"]
    /\ UNCHANGED <<cause, used, idle, flagVars, activeMu, closerVars, waiterVars>>

\* Slip: the slot of an instrumented request goes back to the other budget.
FreeWrongSlot(r) ==
    /\ pc[r] = "unregistered"
    /\ used' = [used EXCEPT !["passthrough"] = @ - 1]
    /\ pc' = [pc EXCEPT ![r] = "slotFreed"]
    /\ UNCHANGED <<cause, registryVars, flagVars, activeMu, closerVars, waiterVars>>

\* release gives the slot back after it has left the critical section.
FreeSlot(r) ==
    /\ pc[r] = "unregistered"
    /\ used' = [used EXCEPT ![ClassOf(r)] = @ - 1]
    /\ pc' = [pc EXCEPT ![r] = "slotFreed"]
    /\ UNCHANGED <<cause, registryVars, flagVars, activeMu, closerVars, waiterVars>>

\* release ends with cancel(nil), which records context.Canceled.
CancelOwn(r) ==
    /\ pc[r] = "slotFreed"
    /\ pc' = [pc EXCEPT ![r] = "done"]
    /\ CancelWith(r, "canceled")
    /\ UNCHANGED <<used, registryVars, flagVars, activeMu, closerVars, waiterVars>>

\* The client disconnects: net/http cancels the parent context.
ClientGone(r) ==
    /\ pc[r] \notin {"done", "rejected"}
    /\ cause[r] = "none"
    /\ CancelWith(r, "canceled")
    /\ UNCHANGED <<pc, used, registryVars, flagVars, activeMu, closerVars, waiterVars>>

-----------------------------------------------------------------------------
(* The goroutines that drain, close by force and wait *)

BeginDrain ==
    /\ activeMu = Nobody
    /\ draining' = TRUE
    /\ UNCHANGED <<requestVars, registryVars, forcedClose, activeMu, closerVars, waiterVars>>

\* The compare-and-swap of BeginForcedClose, won and lost.
WinForcedClose(c) ==
    /\ cpc[c] = "idle"
    /\ ~forcedClose
    /\ forcedClose' = TRUE
    /\ cpc' = [cpc EXCEPT ![c] = "won"]
    /\ UNCHANGED <<requestVars, registryVars, draining, activeMu, todo, waiterVars>>

LoseForcedClose(c) ==
    /\ cpc[c] = "idle"
    /\ forcedClose
    /\ cpc' = [cpc EXCEPT ![c] = "lost"]
    /\ UNCHANGED <<requestVars, registryVars, flagVars, activeMu, todo, waiterVars>>

\* The registered requests are copied under activeMu.
SnapshotActive(c) ==
    /\ cpc[c] = "won"
    /\ activeMu = Nobody
    /\ todo' = [todo EXCEPT ![c] = active]
    /\ cpc' = [cpc EXCEPT ![c] = "cancelling"]
    /\ UNCHANGED <<requestVars, registryVars, flagVars, activeMu, waiterVars>>

\* Slip: the loop stops after the first request.
CancelOnlyOne(c) ==
    /\ cpc[c] = "cancelling"
    /\ \E r \in todo[c] : CancelWith(r, "forced")
    /\ todo' = [todo EXCEPT ![c] = {}]
    /\ UNCHANGED <<pc, used, registryVars, flagVars, activeMu, cpc, waiterVars>>

\* The copy is cancelled one by one, in no order, without the mutex.
CancelNext(c) ==
    /\ cpc[c] = "cancelling"
    /\ \E r \in todo[c] :
          /\ CancelWith(r, "forced")
          /\ todo' = [todo EXCEPT ![c] = @ \ {r}]
    /\ UNCHANGED <<pc, used, registryVars, flagVars, activeMu, cpc, waiterVars>>

ReturnForcedClose(c) ==
    /\ cpc[c] = "cancelling"
    /\ todo[c] = {}
    /\ cpc' = [cpc EXCEPT ![c] = "done"]
    /\ UNCHANGED <<requestVars, registryVars, flagVars, activeMu, todo, waiterVars>>

\* WaitIdle looks at the registry: on entry, and each time its channel closes.
LooksAtRegistry(w) ==
    \/ wpc[w] = "out"
    \/ wpc[w] = "parked" /\ waitOn[w] \in closedIdle

\* Slip: the closed channel is taken for idleness, an if where the loop is.
ReturnsWhenWoken(w) ==
    /\ LooksAtRegistry(w)
    /\ activeMu = Nobody
    /\ wpc[w] = "parked" \/ active = {}
    /\ wpc' = [wpc EXCEPT ![w] = "idle"]
    /\ UNCHANGED <<requestVars, registryVars, flagVars, activeMu, closerVars, waitOn>>

WaitIdleReturns(w) ==
    /\ LooksAtRegistry(w)
    /\ activeMu = Nobody
    /\ active = {}
    /\ wpc' = [wpc EXCEPT ![w] = "idle"]
    /\ UNCHANGED <<requestVars, registryVars, flagVars, activeMu, closerVars, waitOn>>

WaitIdleParks(w) ==
    /\ LooksAtRegistry(w)
    /\ activeMu = Nobody
    /\ active # {}
    /\ wpc' = [wpc EXCEPT ![w] = "parked"]
    /\ waitOn' = [waitOn EXCEPT ![w] = idle]
    /\ UNCHANGED <<requestVars, registryVars, flagVars, activeMu, closerVars>>

\* Slip: WaitIdle does not select on ctx.Done.
NeverTimesOut(w) == FALSE /\ UNCHANGED vars

\* ctx.Done wins the select, possibly against a channel that is closed too.
WaitIdleTimesOut(w) ==
    /\ wpc[w] = "parked"
    /\ wpc' = [wpc EXCEPT ![w] = "timeout"]
    /\ UNCHANGED <<requestVars, registryVars, flagVars, activeMu, closerVars, waitOn>>

-----------------------------------------------------------------------------
Admit(r) == RefuseClosed(r) \/ CheckFlags(r) \/ Register(r) \/ RefuseFull(r)
Release(r) == Unregister(r) \/ FreeSlot(r) \/ CancelOwn(r)
ForceClose(c) == \/ WinForcedClose(c) \/ LoseForcedClose(c)
                 \/ SnapshotActive(c) \/ CancelNext(c) \/ ReturnForcedClose(c)
Wait(w) == WaitIdleReturns(w) \/ WaitIdleParks(w) \/ WaitIdleTimesOut(w)

Next == \/ \E r \in Requests : Admit(r) \/ Release(r) \/ ClientGone(r)
        \/ BeginDrain
        \/ \E c \in Closers : ForceClose(c)
        \/ \E w \in Waiters : Wait(w)

Spec == Init /\ [][Next]_vars

(* Fairness.  A goroutine that is in the middle of admitRequest, of release,*)
(* of BeginForcedClose or of WaitIdle goes on: the scheduler runs it and    *)
(* activeMu is handed to it.  A handler is only known to return once its    *)
(* context has been cancelled.  Nothing makes a client disconnect, a drain  *)
(* or a forced close begin, or a waiter's context expire.                   *)
Fairness ==
    /\ \A r \in Requests :
          /\ WF_vars(Register(r) \/ RefuseFull(r))
          /\ WF_vars(cause[r] # "none" /\ Unregister(r))
          /\ WF_vars(FreeSlot(r) \/ CancelOwn(r))
    /\ \A c \in Closers :
          WF_vars(SnapshotActive(c) \/ CancelNext(c) \/ ReturnForcedClose(c))
    /\ \A w \in Waiters :
          WF_vars(wpc[w] = "parked" /\ (WaitIdleReturns(w) \/ WaitIdleParks(w)))

FairSpec == Spec /\ Fairness

-----------------------------------------------------------------------------
(* Properties *)

\* Every variable has its type; a request is registered exactly while it is
\* being served.
TypeOK ==
    /\ pc \in [Requests -> RequestState]
    /\ cause \in [Requests -> Cause]
    /\ used \in [Class -> Nat]
    /\ active = {r \in Requests : pc[r] = "serving"}
    /\ idle \in Nat
    /\ closedIdle \subseteq 1..idle
    /\ draining \in BOOLEAN
    /\ forcedClose \in BOOLEAN
    /\ activeMu \in Requests \cup {Nobody}
    /\ cpc \in [Closers -> CloserState]
    /\ todo \in [Closers -> SUBSET Requests]
    /\ wpc \in [Waiters -> WaiterState]
    /\ waitOn \in [Waiters -> Nat]

\* The requests of a class that have taken a slot and not given it back.
HoldersOf(k) == {r \in Requests : /\ ClassOf(r) = k
                                  /\ pc[r] \in {"serving", "unregistered"}}

\* Neither budget leaks or is overdrawn: what the semaphore of a class counts
\* is the requests of that class between Register and FreeSlot, although the
\* slot is given back outside the critical section (proxy.go:417-423).
SlotsMatchHolders == \A k \in Class : /\ used[k] = Cardinality(HoldersOf(k))
                                      /\ used[k] <= Capacity(k)

\* h.idle is an open channel while somebody is registered and a closed one (or
\* nil, before the first request) otherwise: release never closes nil or a
\* closed channel, which would panic in the middle of the critical section.
IdleChannelTracksActive == IF active = {} THEN idle \in closedIdle \cup {0}
                                          ELSE idle \notin closedIdle \cup {0}

\* No lost wake-up: a caller of WaitIdle is parked on a channel that is closed
\* already or that the last registered request is going to close.
NoLostWakeup ==
    \A w \in Waiters : wpc[w] = "parked" =>
        \/ waitOn[w] \in closedIdle
        \/ waitOn[w] = idle /\ active # {}

\* When the BeginForcedClose that won returns, no request is being served with
\* a live context, not even one that passed the flag check of admitRequest
\* before the compare-and-swap and registered after it.
ForcedCloseReachesAll ==
    \A c \in Closers : cpc[c] = "done" => \A r \in active : cause[r] # "none"

\* The registry can no longer grow.
Shut == draining \/ \E c \in Closers : cpc[c] \in {"cancelling", "done"}

\* Once BeginDrain has returned, or the forced close has taken its snapshot, no
\* request is registered any more: what WaitIdle then reports stays true.
GateStaysShut == [][Shut => active' \subseteq active]_vars

\* A forced close empties the proxy for good, provided handlers return when
\* their context is cancelled.
ForcedCloseEmpties ==
    (\E c \in Closers : cpc[c] = "won") ~> [](active = {})

\* A caller parked in WaitIdle gets out of it after a forced close even if its
\* context never expires.
WaitersAreReleased ==
    \A w \in Waiters :
        (forcedClose /\ wpc[w] = "parked") ~> (wpc[w] \in {"idle", "timeout"})

\* After a forced close the proxy is empty and nobody waits for that.
ForcedCloseSucceeds == ForcedCloseEmpties /\ WaitersAreReleased

\* Admission keeps the promise of DrainGate.  The gate shuts when draining is
\* set, or when the forced close takes its snapshot (not at the swap: a request
\* already past the flag check still gets in, and is in the snapshot).
Gate == INSTANCE DrainGate WITH
    open <- ~Shut,
    inside <- active,
    told <- {r \in active : cause[r] # "none"},
    gone <- {r \in Requests : pc[r] \in {"unregistered", "slotFreed", "done"}},
    cut <- IF \E c \in Closers : cpc[c] = "done" THEN "cut"
           ELSE IF \E c \in Closers : cpc[c] = "cancelling" THEN "cutting"
           ELSE "no",
    verdict <- [w \in Waiters |-> IF wpc[w] \in {"idle", "timeout"} THEN wpc[w]
                                                                   ELSE "none"]

\* Every behaviour of the code is one of DrainGate: requests enter only through
\* an open gate, "idle" is reported only while nobody is inside, and the forced
\* close is over only when everybody inside has been told.
ImplementsDrainGate == Gate!Spec
=============================================================================
