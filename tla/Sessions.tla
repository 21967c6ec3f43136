------------------------------ MODULE Sessions ------------------------------
(***************************************************************************)
(* The session registry of the proxy (internal/proxy/session.go): acquire, *)
(* release, expire, evictLocked, finishLocked and closeAll, the idle timer *)
(* of each session and the goroutines its firings start.                   *)
(*                                                                         *)
(* Every operation runs under sessionRegistry.mu from beginning to end and *)
(* is one step.  What interleaves are the operations themselves, the clock *)
(* readings their callers take before they get the mutex (the start of a   *)
(* turn is read before its body is, the end of a turn before release has   *)
(* the mutex) and the timers: Stop cannot call back an expire that has     *)
(* been started and is waiting for the mutex.                              *)
(*                                                                         *)
(* A session span is named by the turn whose acquire opened it.  The model *)
(* names and the user agent a session collects are left out.               *)
(***************************************************************************)
EXTENDS Naturals, FiniteSets

CONSTANTS Turns,          \* the requests that carry a session identifier
          Ids,            \* the session identifiers
          MaxTracked,     \* maxTrackedSessions
          MaxConcurrent,  \* Options.MaxConcurrentRequests: turns in flight
          Idle,           \* sessionRegistry.idle, in clock ticks
          MaxTime         \* bound: the clock stops here

ASSUME TurnsAssumption == IsFiniteSet(Turns) /\ IsFiniteSet(Ids)
ASSUME LimitsAssumption == /\ MaxTracked \in Nat \ {0}
                           /\ MaxConcurrent \in Nat \ {0}
                           /\ Idle \in Nat \ {0}
                           /\ MaxTime \in Nat

VARIABLES now,        \* the clock
          sessions,   \* r.sessions: identifiers to their state
          closed,     \* r.closed
          expiring,   \* per identifier: started expires waiting for the mutex
          turn,       \* where the goroutine of each turn is
          idOf,       \* the identifier in its X-Session-Id header
          start,      \* its clock reading on entry
          at,         \* its clock reading on exit
          spanOf,     \* the session span it was given as parent: {} or {s}
          span        \* per session span: how it ended, when, how many turns

registryVars == <<sessions, closed, expiring>>
turnVars == <<turn, idOf, start, at, spanOf>>
vars == <<now, registryVars, turnVars, span>>

TurnState == {"new", "reading", "holding", "leaving", "done", "bare"}
InFlight == {t \in Turns : turn[t] \in {"reading", "holding", "leaving"}}

\* sessionState; timer holds the deadline of its timer while that is pending.
Session == [span : Turns, refs : Nat, requests : Nat, last : Nat, timer : SUBSET Nat]

EndReason == {"idle", "evicted", "shutdown"}
Span == [state : {"unopened", "open"} \cup EndReason, end : Nat, requests : Nat]

Init == /\ now = 0
        /\ sessions = [i \in {} |-> {}]
        /\ closed = FALSE
        /\ expiring = [i \in Ids |-> 0]
        /\ turn = [t \in Turns |-> "new"]
        /\ idOf \in [Turns -> Ids]
        /\ start = [t \in Turns |-> 0]
        /\ at = [t \in Turns |-> 0]
        /\ spanOf = [t \in Turns |-> {}]
        /\ span = [t \in Turns |-> [state |-> "unopened", end |-> 0, requests |-> 0]]

Tracked == DOMAIN sessions
Later(a, b) == IF b > a THEN b ELSE a
Without(E) == [j \in Tracked \ E |-> sessions[j]]

-----------------------------------------------------------------------------
(* Operators whose comment starts with "Slip" are not part of the model:    *)
(* each is a mistake this code could have made, kept to show that a         *)
(* property below would notice it.                                          *)

\* Slip: the span is stamped with the time of its end.
EndNow(i, reason) == [state |-> reason, end |-> now, requests |-> sessions[i].requests]
\* How the span of session i ends: stamped with the last time the session saw.
EndOf(i, reason) == [state |-> reason, end |-> sessions[i].last,
                     requests |-> sessions[i].requests]

\* Slip: the loop over the sessions ends after the first span.
FinishedFirst(E, reason) ==
    [s \in Turns |-> IF E # {} /\ s = sessions[CHOOSE i \in E : TRUE].span
                     THEN EndOf(CHOOSE i \in E : TRUE, reason) ELSE span[s]]
\* finishLocked of the sessions in E, as it changes the spans.
Finished(E, reason) ==
    [s \in Turns |-> IF \E i \in E : sessions[i].span = s
                     THEN EndOf(CHOOSE i \in E : sessions[i].span = s, reason) ELSE span[s]]

Unused == {i \in Tracked : sessions[i].refs = 0}

\* Slip: sessions in use are evicted too.
EvictableWithUsed == Tracked
\* Slip: a session whose timer is pending is left to it.
EvictableTimedOut == {i \in Unused : sessions[i].timer = {}}
\* What evictLocked may choose from.
Evictable == Unused

\* How many sessions evictLocked has to end to make room for one more.
Surplus == Cardinality(Tracked) + 1 - MaxTracked

\* The sets evictLocked may end: the longest unused first, ties broken by the
\* iteration order of the map, until there is room or nothing evictable.
Evictions ==
    {E \in SUBSET Evictable :
        /\ IF Surplus >= Cardinality(Evictable) THEN E = Evictable
           ELSE Cardinality(E) = IF Surplus > 0 THEN Surplus ELSE 0
        /\ \A i \in E, j \in Evictable \ E : sessions[i].last <= sessions[j].last}

-----------------------------------------------------------------------------
(* Turns *)

\* ServeHTTP reads the clock, then the request body.  At most MaxConcurrent
\* requests get this far (module Admission).
Enter(t) ==
    /\ turn[t] = "new"
    /\ Cardinality(InFlight) < MaxConcurrent
    /\ turn' = [turn EXCEPT ![t] = "reading"]
    /\ start' = [start EXCEPT ![t] = now]
    /\ UNCHANGED <<now, registryVars, idOf, at, spanOf, span>>

\* Slip: acquire does not look at closed.
AcceptingAlways == TRUE
Accepting == ~closed

\* acquire on a closed registry: the request has no session.
AcquireRefused(t) ==
    /\ turn[t] = "reading"
    /\ ~Accepting
    /\ turn' = [turn EXCEPT ![t] = "bare"]
    /\ UNCHANGED <<now, registryVars, idOf, start, at, spanOf, span>>

\* The state after acquire by t, timer stopped.
Joined(state, t) == [state EXCEPT !.refs = @ + 1, !.requests = @ + 1,
                                  !.last = Later(@, start[t]), !.timer = {}]

\* acquire when the identifier has a live session.
AcquireLive(t) ==
    /\ turn[t] = "reading"
    /\ Accepting
    /\ idOf[t] \in Tracked
    /\ sessions' = [sessions EXCEPT ![idOf[t]] = Joined(@, t)]
    /\ turn' = [turn EXCEPT ![t] = "holding"]
    /\ spanOf' = [spanOf EXCEPT ![t] = {sessions[idOf[t]].span}]
    /\ UNCHANGED <<now, closed, expiring, idOf, start, at, span>>

\* acquire when it has none: make room, then open a span.
AcquireNew(t) ==
    /\ turn[t] = "reading"
    /\ Accepting
    /\ idOf[t] \notin Tracked
    /\ \E E \in Evictions :
          /\ sessions' =
                [j \in (Tracked \ E) \cup {idOf[t]} |->
                    IF j = idOf[t]
                    THEN [span |-> t, refs |-> 1, requests |-> 1,
                          last |-> start[t], timer |-> {}]
                    ELSE sessions[j]]
          /\ span' = [Finished(E, "evicted") EXCEPT ![t].state = "open"]
    /\ turn' = [turn EXCEPT ![t] = "holding"]
    /\ spanOf' = [spanOf EXCEPT ![t] = {t}]
    /\ UNCHANGED <<now, closed, expiring, idOf, start, at>>

\* The deferred release(time.Now()) of ServeHTTP: the clock is read ...
Exit(t) ==
    /\ turn[t] = "holding"
    /\ turn' = [turn EXCEPT ![t] = "leaving"]
    /\ at' = [at EXCEPT ![t] = now]
    /\ UNCHANGED <<now, registryVars, idOf, start, spanOf, span>>

\* Slip: the timer is armed for the first turn only.
ArmedOnce(state) == IF state.refs = 0 /\ state.requests = 1 /\ ~closed
                    THEN [state EXCEPT !.timer = {now + Idle}] ELSE state
\* The last turn out arms the idle timer.
Armed(state) == IF state.refs = 0 /\ ~closed
                THEN [state EXCEPT !.timer = {now + Idle}] ELSE state

Left(state, t) == [state EXCEPT !.refs = @ - 1, !.last = Later(@, at[t])]

\* ... and release gets the mutex.  The session may be gone: closeAll.
Release(t) ==
    /\ turn[t] = "leaving"
    /\ sessions' = IF idOf[t] \in Tracked
                   THEN [sessions EXCEPT ![idOf[t]] = Armed(Left(@, t))]
                   ELSE sessions
    /\ turn' = [turn EXCEPT ![t] = "done"]
    /\ UNCHANGED <<now, closed, expiring, idOf, start, at, spanOf, span>>

-----------------------------------------------------------------------------
(* Timers and shutdown *)

\* A pending timer whose deadline has passed starts an expire goroutine.
TimerFires(i) ==
    /\ i \in Tracked
    /\ \E d \in sessions[i].timer : d <= now
    /\ sessions' = [sessions EXCEPT ![i].timer = {}]
    /\ expiring' = [expiring EXCEPT ![i] = @ + 1]
    /\ UNCHANGED <<now, closed, turnVars, span>>

\* Slip: expire trusts the timer and does not look at the references.
ExpirableWithUsed == Tracked
\* What expire may end: a session taken up again after the timer fired stays.
Expirable == Unused

\* Slip: expire trusts the timer and does not look at the clock.
RemainingIgnored(i) == 0
\* How long session i still has to be idle before it may end.
Remaining(i) == IF sessions[i].last + Idle > now THEN sessions[i].last + Idle - now ELSE 0

\* What is left of the pause is armed again: never later than the timer that
\* release has armed for it.
Rearmed(i) == [sessions EXCEPT ![i].timer = {now + Remaining(i)}]

\* expire gets the mutex and finds the session gone or in use, ...
ExpireStale(i) ==
    /\ expiring[i] > 0
    /\ i \notin Expirable
    /\ expiring' = [expiring EXCEPT ![i] = @ - 1]
    /\ UNCHANGED <<now, sessions, closed, turnVars, span>>

\* ... unused for less than the idle timeout (an expire started for an earlier
\* pause, or for an earlier session with the identifier), ...
ExpireEarly(i) ==
    /\ expiring[i] > 0
    /\ i \in Expirable
    /\ Remaining(i) > 0
    /\ sessions' = Rearmed(i)
    /\ expiring' = [expiring EXCEPT ![i] = @ - 1]
    /\ UNCHANGED <<now, closed, turnVars, span>>

\* ... or due.
ExpireDue(i) ==
    /\ expiring[i] > 0
    /\ i \in Expirable
    /\ Remaining(i) = 0
    /\ sessions' = Without({i})
    /\ span' = Finished({i}, "idle")
    /\ expiring' = [expiring EXCEPT ![i] = @ - 1]
    /\ UNCHANGED <<now, closed, turnVars>>

CloseAll ==
    /\ closed' = TRUE
    /\ sessions' = Without(Tracked)
    /\ span' = Finished(Tracked, "shutdown")
    /\ UNCHANGED <<now, expiring, turnVars>>

Tick == /\ now < MaxTime
        /\ now' = now + 1
        /\ UNCHANGED <<registryVars, turnVars, span>>

-----------------------------------------------------------------------------
Acquire(t) == AcquireRefused(t) \/ AcquireLive(t) \/ AcquireNew(t)
Expire(i) == ExpireStale(i) \/ ExpireEarly(i) \/ ExpireDue(i)

Next == \/ \E t \in Turns : Enter(t) \/ Acquire(t) \/ Exit(t) \/ Release(t)
        \/ \E i \in Ids : TimerFires(i) \/ Expire(i)
        \/ CloseAll
        \/ Tick

Spec == Init /\ [][Next]_vars

(* Fairness: time passes, the runtime runs a timer that is due, and a       *)
(* started expire gets the mutex.  No turn has to end.                      *)
Fairness == /\ WF_vars(Tick)
            /\ \A i \in Ids : WF_vars(TimerFires(i)) /\ WF_vars(Expire(i))

FairSpec == Spec /\ Fairness

-----------------------------------------------------------------------------
(* Properties *)

TypeOK ==
    /\ now \in Nat
    /\ Tracked \subseteq Ids
    /\ sessions \in [Tracked -> Session]
    /\ \A i \in Tracked : \A d, e \in sessions[i].timer : d = e
    /\ closed \in BOOLEAN
    /\ expiring \in [Ids -> Nat]
    /\ turn \in [Turns -> TurnState]
    /\ idOf \in [Turns -> Ids]
    /\ start \in [Turns -> Nat]
    /\ at \in [Turns -> Nat]
    /\ spanOf \in [Turns -> {{}} \cup {{s} : s \in Turns}]
    /\ span \in [Turns -> Span]

Holders(s) == {t \in Turns : turn[t] \in {"holding", "leaving"} /\ spanOf[t] = {s}}
Members(s) == {t \in Turns : spanOf[t] = {s}}

\* The references of a session are the turns that hold it, all of them holding
\* this very span: a release never lands in a later session that reuses the
\* identifier, although release looks the session up by identifier.
RefsCountHolders ==
    \A i \in Tracked : /\ sessions[i].refs = Cardinality(Holders(sessions[i].span))
                       /\ \A t \in Turns : (turn[t] \in {"holding", "leaving"} /\ idOf[t] = i)
                                            => spanOf[t] = {sessions[i].span}

OpenSpansAreTracked ==
    {s \in Turns : span[s].state = "open"} = {sessions[i].span : i \in Tracked}
UnusedSessionsWillExpire ==
    \A i \in Unused : sessions[i].timer # {} \/ expiring[i] > 0

\* No span is lost: every open session span is that of a tracked session, and a
\* session nobody holds is on its way to its end: its timer is pending or an expire
\* is waiting for the mutex, however acquire, release and stale expires have
\* stopped and armed the timer.
NoSpanIsLost == OpenSpansAreTracked /\ UnusedSessionsWillExpire

\* A session span that ended idle or evicted is stamped with the end of its last
\* turn, whatever the order in which the turns got the mutex, and reports as
\* many turns as it was the parent of
\* (config/config.example.yaml: "stamped with that turn's end time").
StampIsLastTurn ==
    \A s \in Turns : span[s].state \in {"idle", "evicted"} =>
        /\ \A t \in Members(s) : at[t] <= span[s].end
        /\ \E t \in Members(s) : at[t] = span[s].end
        /\ span[s].requests = Cardinality(Members(s))

\* The registry outgrows maxTrackedSessions only as far as there are turns in
\* flight at once: an unused session always makes way.
TrackedBounded == Cardinality(Tracked) <= Later(MaxTracked, MaxConcurrent)

\* A session span ends as idle only when each of its turns has been over for the
\* idle timeout: an expire that comes late for an earlier pause does not end it.
IdleMeansIdle ==
    [][\A s \in Turns : (span[s].state = "open" /\ span'[s].state = "idle") =>
          \A t \in Members(s) : turn[t] = "done" /\ at[t] + Idle <= now]_vars

\* A session that is left alone ends once its timeout has passed (as far as the
\* clock of the model goes).
IdleSessionsEnd ==
    \A i \in Ids :
        (i \in Unused /\ \A d \in sessions[i].timer : d <= MaxTime) ~> (i \notin Unused)

\* The registry keeps the promise of SessionLife.
Life == INSTANCE SessionLife WITH
    phase <- [s \in Turns |-> IF span[s].state \in EndReason THEN "ended"
                                                             ELSE span[s].state],
    inside <- {t \in Turns : turn[t] \in {"holding", "leaving"}},
    shut <- closed

\* One span per identifier at a time, ended only when no turn takes part in it or
\* when the registry closes, and never opened again.
ImplementsSessionLife == Life!Spec
=============================================================================
