--------------------------- MODULE SessionsProofs ---------------------------
(***************************************************************************)
(* Theorems about Sessions, for every finite set of turns and identifiers  *)
(* and all limits: the references are right, nothing is lost, a span is    *)
(* stamped with the end of its last turn, the registry is bounded and      *)
(* implements SessionLife.                                                 *)
(*                                                                         *)
(* release finds its session by identifier, not by what it acquired.  What *)
(* makes that safe is HeldInv: while the registry is open, a turn inside a *)
(* session keeps its references above zero, so neither eviction nor expire *)
(* takes the session away and acquire puts no other in its place.  That    *)
(* rests on the counters (CountInv), and these on one session per span     *)
(* (OwnerInv).  LastInv relates `last` to the clock readings of the turns, *)
(* which is what the stamp of an ended span is.                            *)
(***************************************************************************)
EXTENDS Sessions, FiniteSetTheorems, TLAPS

\* Turn t is between its acquire and its release.
Inside(t) == turn[t] \in {"holding", "leaving"}

\* A span belongs to the identifier of the turn that opened it, and to one session.
OwnerInv == \A i \in Tracked : idOf[sessions[i].span] = i

\* A closed registry is empty and stays so.
ClosedInv == closed => Tracked = {}

\* What a turn has been given as parent, and what has become of it.
ParentInv ==
    \A t \in Turns :
       /\ turn[t] \in {"new", "reading", "bare"} => spanOf[t] = {}
       /\ turn[t] \in {"holding", "leaving", "done"} => spanOf[t] # {}
       /\ \A s \in spanOf[t] : idOf[s] = idOf[t] /\ span[s].state # "unopened"
       /\ span[t].state # "unopened" => spanOf[t] = {t}
       /\ span[t].state \in {"idle", "evicted"} => \A u \in Members(t) : turn[u] = "done"

\* While the registry is open, a turn inside a session holds the one of its identifier.
HeldInv ==
    \A t \in Turns : Inside(t) /\ ~closed =>
       idOf[t] \in Tracked /\ spanOf[t] = {sessions[idOf[t]].span}

\* The two counters of a session.
CountInv ==
    \A i \in Tracked : /\ sessions[i].refs = Cardinality(Holders(sessions[i].span))
                       /\ sessions[i].requests = Cardinality(Members(sessions[i].span))

\* No clock reading is ahead of the clock, and none of a turn's exit before its entry.
ClockInv ==
    \A t \in Turns : /\ start[t] <= now
                     /\ turn[t] \in {"leaving", "done"} => start[t] <= at[t]

\* No turn that is over ended after `last`, and `last` is a clock reading of a turn.
LastInv ==
    \A i \in Tracked :
       /\ \A t \in Members(sessions[i].span) : turn[t] = "done" => at[t] <= sessions[i].last
       /\ \E t \in Members(sessions[i].span) : \/ sessions[i].last = start[t]
                                               \/ turn[t] = "done" /\ sessions[i].last = at[t]

\* Enter keeps to the budget of concurrent requests.
InFlightInv == Cardinality(InFlight) <= MaxConcurrent

\* The inductive invariant.
IInv == /\ TypeOK
        /\ OwnerInv
        /\ ClosedInv
        /\ ParentInv
        /\ HeldInv
        /\ CountInv
        /\ ClockInv
        /\ LastInv
        /\ InFlightInv
        /\ NoSpanIsLost
        /\ StampIsLastTurn
        /\ TrackedBounded

-----------------------------------------------------------------------------
USE DEF Tracked

LEMMA Finite ==
    ASSUME TypeOK
    PROVE  /\ IsFiniteSet(Tracked) /\ Cardinality(Tracked) \in Nat
           /\ IsFiniteSet(InFlight) /\ Cardinality(InFlight) \in Nat
           /\ \A s \in Turns : /\ IsFiniteSet(Holders(s)) /\ IsFiniteSet(Members(s))
                               /\ Cardinality(Holders(s)) \in Nat
                               /\ Cardinality(Members(s)) \in Nat
<1>1. Tracked \in SUBSET Ids /\ InFlight \in SUBSET Turns
  BY DEF TypeOK, InFlight
<1>2. \A s \in Turns : Holders(s) \in SUBSET Turns /\ Members(s) \in SUBSET Turns
  BY DEF Holders, Members
<1> QED BY <1>1, <1>2, TurnsAssumption, FS_Subset, FS_CardinalityType

\* A span belongs to one session.
LEMMA SpanOfOne ==
    ASSUME TypeOK, OwnerInv, NEW i \in Tracked, NEW j \in Tracked,
           sessions[i].span = sessions[j].span
    PROVE  i = j
BY DEF OwnerInv

\* What finishLocked does to the spans of some sessions.
LEMMA FinishedSpans ==
    ASSUME TypeOK, OwnerInv, NEW E \in SUBSET Tracked, NEW reason \in EndReason
    PROVE  /\ Finished(E, reason) \in [Turns -> Span]
           /\ \A i \in E : Finished(E, reason)[sessions[i].span] = EndOf(i, reason)
           /\ \A s \in Turns : (\A i \in E : sessions[i].span # s)
                                  => Finished(E, reason)[s] = span[s]
<1>1. \A i \in E : EndOf(i, reason) \in Span
  BY DEF TypeOK, EndOf, Span, Session
<1>2. ASSUME NEW i \in E
      PROVE  Finished(E, reason)[sessions[i].span] = EndOf(i, reason)
  <2>1. sessions[i].span \in Turns
    BY DEF TypeOK, Session
  <2>2. (CHOOSE j \in E : sessions[j].span = sessions[i].span) = i
    BY SpanOfOne
  <2> QED BY <2>1, <2>2 DEF Finished
<1>3. Finished(E, reason) \in [Turns -> Span]
  BY <1>1 DEF Finished, TypeOK
<1> QED BY <1>2, <1>3 DEF Finished

\* The fields of a span that is ended.
LEMMA EndOfFields ==
    ASSUME NEW i, NEW reason
    PROVE  /\ EndOf(i, reason).state = reason
           /\ EndOf(i, reason).end = sessions[i].last
           /\ EndOf(i, reason).requests = sessions[i].requests
BY DEF EndOf

\* The open spans are those of the sessions.
LEMMA OpenSpan ==
    ASSUME TypeOK, NoSpanIsLost
    PROVE  /\ \A i \in Tracked : /\ sessions[i].span \in Turns
                                 /\ span[sessions[i].span].state = "open"
           /\ \A s \in Turns : span[s].state = "open"
                                 <=> \E i \in Tracked : sessions[i].span = s
<1>1. \A i \in Tracked : sessions[i].span \in Turns
  BY DEF TypeOK, Session
<1> QED BY <1>1 DEF NoSpanIsLost, OpenSpansAreTracked

\* The members of an unused session have all gone.
LEMMA UnusedIsQuiet ==
    ASSUME IInv, NEW i \in Unused, NEW t \in Members(sessions[i].span)
    PROVE  turn[t] = "done"
<1>1. i \in Tracked /\ sessions[i].span \in Turns
  BY DEF Unused, IInv, TypeOK, Session
<1>2. Holders(sessions[i].span) = {}
  BY <1>1, Finite, FS_EmptySet DEF Unused, IInv, CountInv
<1>3. t \in Turns /\ spanOf[t] # {} /\ turn[t] \notin {"holding", "leaving"}
  BY <1>1, <1>2 DEF Members, Holders
<1> QED BY <1>3 DEF IInv, ParentInv, TypeOK, TurnState

LEMMA InitIInv == Init => IInv
<1> SUFFICES ASSUME Init PROVE IInv
  OBVIOUS
<1> USE DEF Init
<1>1. TypeOK
  BY DEF TypeOK, TurnState, Span, EndReason
<1>2. Tracked = {} /\ InFlight = {}
  BY DEF InFlight
<1>3. InFlightInv /\ TrackedBounded
  BY <1>2, FS_EmptySet, LimitsAssumption DEF InFlightInv, TrackedBounded, Later
<1>4. OwnerInv /\ ClosedInv /\ ParentInv /\ HeldInv /\ CountInv /\ ClockInv /\ LastInv
  BY DEF OwnerInv, ClosedInv, ParentInv, HeldInv, Inside, CountInv, ClockInv, LastInv
<1>5. NoSpanIsLost /\ StampIsLastTurn
  BY DEF NoSpanIsLost, OpenSpansAreTracked, UnusedSessionsWillExpire, Unused, StampIsLastTurn
<1> QED BY <1>1, <1>3, <1>4, <1>5 DEF IInv

-----------------------------------------------------------------------------
(* Steps that change no session but for its timer, and no turn. *)

\* No session has changed but for its timer.
OnlyTimers == /\ DOMAIN sessions' = Tracked
              /\ \A i \in Tracked : /\ sessions'[i].span = sessions[i].span
                                    /\ sessions'[i].refs = sessions[i].refs
                                    /\ sessions'[i].requests = sessions[i].requests
                                    /\ sessions'[i].last = sessions[i].last

LEMMA TimerStep ==
    ASSUME IInv, TypeOK', UnusedSessionsWillExpire', UNCHANGED <<closed, turnVars, span>>,
           now' >= now, OnlyTimers
    PROVE  IInv'
<1> USE DEF OnlyTimers
<1>1. /\ InFlight' = InFlight
      /\ \A s : Holders(s)' = Holders(s) /\ Members(s)' = Members(s)
  BY DEF InFlight, Holders, Members, turnVars
<1>2. OwnerInv' /\ ClosedInv' /\ CountInv' /\ InFlightInv' /\ TrackedBounded'
  BY <1>1 DEF IInv, OwnerInv, ClosedInv, CountInv, InFlightInv, TrackedBounded, turnVars
<1>3. ParentInv' /\ HeldInv'
  BY <1>1 DEF IInv, ParentInv, HeldInv, Inside, turnVars
<1>4. ClockInv'
  BY DEF IInv, TypeOK, ClockInv, turnVars
<1>5. LastInv' /\ StampIsLastTurn'
  BY <1>1 DEF IInv, LastInv, StampIsLastTurn, turnVars
<1>6. NoSpanIsLost'
  BY DEF IInv, NoSpanIsLost, OpenSpansAreTracked
<1> QED BY <1>2, <1>3, <1>4, <1>5, <1>6 DEF IInv

LEMMA TimerSteps ==
    ASSUME IInv, \/ Tick
                 \/ \E i \in Ids : TimerFires(i) \/ ExpireStale(i) \/ ExpireEarly(i)
    PROVE  IInv'
<1> USE DEF IInv
<1>a. \A i \in Tracked : sessions[i].refs \in Nat
  BY DEF TypeOK, Session
<1>1. CASE Tick
  <2>1. TypeOK' /\ UnusedSessionsWillExpire'
    BY <1>1 DEF Tick, TypeOK, registryVars, turnVars, NoSpanIsLost, UnusedSessionsWillExpire, Unused
  <2>2. OnlyTimers /\ now' >= now
    BY <1>1 DEF Tick, OnlyTimers, registryVars, TypeOK
  <2> HIDE DEF IInv
  <2> QED BY <1>1, <2>1, <2>2, TimerStep DEF Tick, registryVars
<1>2. ASSUME NEW i \in Ids, TimerFires(i) PROVE IInv'
  <2>1. sessions' = [sessions EXCEPT ![i].timer = {}] /\ i \in Tracked
    BY <1>2 DEF TimerFires
  <2>2. TypeOK'
    BY <1>2 DEF TimerFires, TypeOK, turnVars, Session
  <2>3. UnusedSessionsWillExpire'
    BY <1>2, <2>1 DEF TimerFires, TypeOK, NoSpanIsLost, UnusedSessionsWillExpire, Unused, Session
  <2>4. OnlyTimers /\ now' >= now
    BY <1>2, <2>1 DEF TimerFires, OnlyTimers, TypeOK, Session
  <2> HIDE DEF IInv
  <2> QED BY <1>2, <2>2, <2>3, <2>4, TimerStep DEF TimerFires
<1>3. ASSUME NEW i \in Ids, ExpireStale(i) PROVE IInv'
  <2>1. TypeOK'
    BY <1>3 DEF ExpireStale, TypeOK, turnVars
  <2>2. UnusedSessionsWillExpire'
    BY <1>3 DEF ExpireStale, TypeOK, NoSpanIsLost, UnusedSessionsWillExpire, Unused, Expirable
  <2>3. OnlyTimers /\ now' >= now
    BY <1>3 DEF ExpireStale, OnlyTimers, TypeOK
  <2> HIDE DEF IInv
  <2> QED BY <1>3, <2>1, <2>2, <2>3, TimerStep DEF ExpireStale
<1>4. ASSUME NEW i \in Ids, ExpireEarly(i) PROVE IInv'
  <2>0. i \in Tracked /\ sessions' = [sessions EXCEPT ![i].timer = {now + Remaining(i)}]
    BY <1>4 DEF ExpireEarly, Expirable, Unused, Rearmed
  <2>1. now + Remaining(i) \in Nat
    BY <2>0, LimitsAssumption DEF Remaining, TypeOK, Session
  <2>2. TypeOK'
    BY <1>4, <2>0, <2>1 DEF ExpireEarly, TypeOK, turnVars, Session
  <2>3. UnusedSessionsWillExpire'
    <3>1. sessions'[i].timer # {}
      BY <2>0 DEF TypeOK, Session
    <3>2. \A j \in Tracked \ {i} : sessions'[j] = sessions[j] /\ expiring'[j] = expiring[j]
      BY <1>4, <2>0 DEF ExpireEarly, TypeOK
    <3>3. DOMAIN sessions' = Tracked
      BY <2>0
    <3> QED BY <3>1, <3>2, <3>3 DEF NoSpanIsLost, UnusedSessionsWillExpire, Unused
  <2>4. OnlyTimers /\ now' >= now
    BY <1>4, <2>0 DEF ExpireEarly, OnlyTimers, TypeOK, Session
  <2> HIDE DEF IInv
  <2> QED BY <1>4, <2>2, <2>3, <2>4, TimerStep DEF ExpireEarly
<1> QED BY <1>1, <1>2, <1>3, <1>4

-----------------------------------------------------------------------------
(* Steps of a turn that leave the registry alone. *)

\* Where a turn is matters to the sessions only as far as it is inside or done.
LEMMA TurnStep ==
    ASSUME IInv, TypeOK', InFlightInv', ClockInv', NEW t \in Turns,
           UNCHANGED <<registryVars, span, idOf, spanOf>>,
           \A u \in Turns \ {t} : turn'[u] = turn[u] /\ at'[u] = at[u] /\ start'[u] = start[u],
           \/ /\ turn[t] \in {"new", "reading"} /\ turn'[t] \in {"reading", "bare"}
           \/ turn[t] = "holding" /\ turn'[t] = "leaving" /\ start'[t] = start[t]
    PROVE  IInv'
<1>1. \A s : Holders(s)' = Holders(s) /\ Members(s)' = Members(s)
  BY DEF Holders, Members
<1>2. OwnerInv' /\ ClosedInv' /\ CountInv' /\ TrackedBounded' /\ NoSpanIsLost'
  BY <1>1 DEF IInv, OwnerInv, ClosedInv, CountInv, TrackedBounded, registryVars,
              NoSpanIsLost, OpenSpansAreTracked, UnusedSessionsWillExpire, Unused
<1>3. ParentInv'
  <2>1. \A s \in Turns : (\A u \in Members(s) : turn[u] = "done")
                           => (\A u \in Members(s) : turn'[u] = "done")
    BY DEF Members
  <2> QED BY <1>1, <2>1 DEF IInv, ParentInv
<1>4. HeldInv'
  BY DEF IInv, HeldInv, Inside, registryVars
<1>5. LastInv'
  <2> SUFFICES ASSUME NEW i \in Tracked
               PROVE  /\ \A u \in Members(sessions[i].span) :
                            turn'[u] = "done" => at'[u] <= sessions[i].last
                      /\ \E u \in Members(sessions[i].span) :
                            \/ sessions[i].last = start'[u]
                            \/ turn'[u] = "done" /\ sessions[i].last = at'[u]
    BY <1>1 DEF LastInv, registryVars
  <2>1. \A u \in Members(sessions[i].span) : u \in Turns /\ spanOf[u] # {}
    BY DEF Members
  <2>2. \A u \in Members(sessions[i].span) : start'[u] = start[u]
    BY <2>1 DEF IInv, ParentInv
  <2>3. \A u \in Members(sessions[i].span) :
           /\ turn'[u] = "done" <=> turn[u] = "done"
           /\ turn[u] = "done" => at'[u] = at[u]
    BY <2>1
  <2> QED BY <2>2, <2>3 DEF IInv, LastInv
<1>6. StampIsLastTurn'
  <2> SUFFICES ASSUME NEW s \in Turns, span[s].state \in {"idle", "evicted"}
               PROVE  \A u \in Members(s) : at'[u] = at[u]
    BY <1>1 DEF IInv, StampIsLastTurn
  <2>1. \A u \in Members(s) : turn[u] = "done" /\ u \in Turns
    BY DEF IInv, ParentInv, Members
  <2> QED BY <2>1
<1> QED BY <1>2, <1>3, <1>4, <1>5, <1>6 DEF IInv

LEMMA TurnSteps ==
    ASSUME IInv, NEW t \in Turns, Enter(t) \/ AcquireRefused(t) \/ Exit(t)
    PROVE  IInv'
<1>a. TypeOK /\ ClockInv /\ InFlightInv
  BY DEF IInv
<1>b. IsFiniteSet(InFlight) /\ Cardinality(InFlight) \in Nat
  BY <1>a, Finite
<1>1. CASE Enter(t)
  <2>1. TypeOK' /\ ClockInv'
    BY <1>1, <1>a DEF Enter, TypeOK, ClockInv, TurnState, registryVars
  <2>2. InFlight' = InFlight \cup {t} /\ t \notin InFlight
    BY <1>1, <1>a DEF Enter, InFlight, TypeOK
  <2>3. InFlightInv'
    <3>1. Cardinality(InFlight) < MaxConcurrent
      BY <1>1 DEF Enter
    <3>2. Cardinality(InFlight') = Cardinality(InFlight) + 1
      BY <1>b, <2>2, FS_AddElement
    <3> QED BY <1>b, <3>1, <3>2, LimitsAssumption DEF InFlightInv
  <2> QED BY <1>1, <1>a, <2>1, <2>3, TurnStep DEF Enter, TypeOK
<1>2. CASE AcquireRefused(t)
  <2>1. TypeOK' /\ ClockInv'
    BY <1>2, <1>a DEF AcquireRefused, TypeOK, ClockInv, TurnState, registryVars
  <2>2. InFlight' = InFlight \ {t} /\ t \in InFlight
    BY <1>2, <1>a DEF AcquireRefused, InFlight, TypeOK
  <2>3. InFlightInv'
    BY <1>a, <1>b, <2>2, FS_RemoveElement, LimitsAssumption DEF InFlightInv
  <2> QED BY <1>2, <1>a, <2>1, <2>3, TurnStep DEF AcquireRefused, TypeOK
<1>3. CASE Exit(t)
  <2>1. TypeOK' /\ ClockInv'
    BY <1>3, <1>a DEF Exit, TypeOK, ClockInv, TurnState, registryVars
  <2>2. InFlight' = InFlight
    BY <1>3, <1>a DEF Exit, InFlight, TypeOK
  <2>3. InFlightInv'
    BY <1>a, <2>2 DEF InFlightInv
  <2> QED BY <1>3, <1>a, <2>1, <2>3, TurnStep DEF Exit, TypeOK
<1> QED BY <1>1, <1>2, <1>3

-----------------------------------------------------------------------------
(* acquire and release of a live session *)

\* A turn that has no session yet is no member of any.
LEMMA Newcomer ==
    ASSUME IInv, NEW t \in Turns, turn[t] = "reading"
    PROVE  /\ spanOf[t] = {} /\ span[t].state = "unopened"
           /\ Members(t) = {}
           /\ \A s \in Turns : t \notin Members(s) /\ t \notin Holders(s)
<1>1. spanOf[t] = {} /\ span[t].state = "unopened"
  BY DEF IInv, ParentInv
<1>2. ASSUME NEW u \in Members(t) PROVE FALSE
  BY <1>1, <1>2 DEF IInv, ParentInv, Members
<1> QED BY <1>1, <1>2 DEF Members, Holders

LEMMA JoinedState ==
    ASSUME TypeOK, NEW state \in Session, NEW t \in Turns
    PROVE  LET joined == Joined(state, t)
           IN /\ joined \in Session /\ joined.span = state.span /\ joined.timer = {}
              /\ joined.refs = state.refs + 1
              /\ joined.requests = state.requests + 1
              /\ joined.last = Later(state.last, start[t])
<1> DEFINE joined == Joined(state, t)
           last == Later(state.last, start[t])
<1>1. last \in Nat
  BY DEF TypeOK, Later, Session
<1>2. state = [span |-> state.span, refs |-> state.refs, requests |-> state.requests,
               last |-> state.last, timer |-> state.timer]
  BY DEF Session
<1>3. joined = [state EXCEPT !.refs = @ + 1, !.requests = @ + 1, !.last = last, !.timer = {}]
  BY DEF Joined
<1> HIDE DEF joined, last
<1>4. joined = [span |-> state.span, refs |-> state.refs + 1, requests |-> state.requests + 1,
                last |-> last, timer |-> {}]
  BY <1>2, <1>3 DEF Session
<1>5. joined \in Session
  BY <1>1, <1>4 DEF Session
<1> QED BY <1>4, <1>5 DEF joined, last

LEMMA AcquireLiveStep ==
    ASSUME IInv, NEW t \in Turns, AcquireLive(t)
    PROVE  IInv'
<1>i. PICK i \in Ids : i = idOf[t] /\ i \in Tracked
  BY DEF IInv, TypeOK, AcquireLive
<1>p. PICK p \in Turns : p = sessions[i].span
  BY <1>i DEF IInv, TypeOK, Session
<1>a. /\ TypeOK /\ OwnerInv /\ ClosedInv /\ ParentInv /\ HeldInv /\ CountInv /\ ClockInv
      /\ LastInv /\ InFlightInv /\ NoSpanIsLost /\ StampIsLastTurn /\ TrackedBounded
  BY DEF IInv
<1>b. /\ turn[t] = "reading" /\ ~closed /\ i \in Tracked /\ i = idOf[t] /\ p = sessions[i].span
      /\ sessions' = [sessions EXCEPT ![i] = Joined(@, t)]
      /\ turn' = [turn EXCEPT ![t] = "holding"]
      /\ spanOf' = [spanOf EXCEPT ![t] = {p}]
      /\ UNCHANGED <<now, closed, expiring, idOf, start, at, span>>
  BY <1>i, <1>p DEF AcquireLive, Accepting
<1>c. p \in Turns /\ idOf[p] = i /\ p # t /\ span[p].state = "open"
  <2>1. p \in Turns /\ idOf[p] = i /\ span[p].state = "open"
    BY <1>a, <1>b DEF TypeOK, Session, OwnerInv, NoSpanIsLost, OpenSpansAreTracked
  <2> QED BY <1>b, <2>1, Newcomer
<1>d. /\ DOMAIN sessions' = Tracked
      /\ \A j \in Tracked \ {i} : sessions'[j] = sessions[j]
      /\ sessions'[i] = Joined(sessions[i], t)
  BY <1>a, <1>b DEF TypeOK
<1>e. /\ sessions'[i] \in Session /\ sessions'[i].span = p /\ sessions'[i].timer = {}
      /\ sessions'[i].refs = sessions[i].refs + 1
      /\ sessions'[i].requests = sessions[i].requests + 1
      /\ sessions'[i].last = Later(sessions[i].last, start[t])
  <2>1. sessions[i] \in Session
    BY <1>a, <1>b DEF TypeOK
  <2> QED BY <1>a, <1>b, <1>d, <2>1, JoinedState
<1>f. /\ Members(p)' = Members(p) \cup {t} /\ t \notin Members(p)
      /\ Holders(p)' = Holders(p) \cup {t} /\ t \notin Holders(p)
      /\ \A s \in Turns \ {p} : Members(s)' = Members(s) /\ Holders(s)' = Holders(s)
  <2>1. \A s \in Turns : t \notin Members(s) /\ t \notin Holders(s)
    BY <1>b, Newcomer
  <2> QED BY <1>a, <1>b, <1>c, <2>1 DEF Members, Holders, TypeOK
<1>g. \A j \in Tracked \ {i} : sessions[j].span \in Turns \ {p}
  BY <1>a, <1>b, SpanOfOne DEF TypeOK, Session
<1>1. TypeOK'
  BY <1>a, <1>b, <1>c, <1>d, <1>e DEF TypeOK, TurnState
<1>2. OwnerInv' /\ ClosedInv'
  BY <1>a, <1>b, <1>c, <1>d, <1>e DEF OwnerInv, ClosedInv
<1>3. ParentInv'
  <2>1. \A s \in Turns : span[s].state \in {"idle", "evicted"} => Members(s)' = Members(s)
    BY <1>c, <1>f
  <2>2. ASSUME NEW s \in Turns, span[s].state \in {"idle", "evicted"}, NEW u \in Members(s)
        PROVE  turn'[u] = "done"
    <3>1. u # t /\ turn[u] = "done" /\ u \in Turns
      BY <1>a, <1>b, <2>2 DEF ParentInv, Members
    <3> QED BY <1>a, <1>b, <3>1 DEF TypeOK
  <2>3. \A u \in Turns \ {t} : turn'[u] = turn[u] /\ spanOf'[u] = spanOf[u]
    BY <1>a, <1>b DEF TypeOK
  <2>4. turn'[t] = "holding" /\ spanOf'[t] = {p} /\ span[t].state = "unopened"
    BY <1>a, <1>b, Newcomer DEF TypeOK
  <2> QED BY <1>a, <1>b, <1>c, <2>1, <2>2, <2>3, <2>4 DEF ParentInv
<1>4. HeldInv'
  BY <1>a, <1>b, <1>d, <1>e DEF HeldInv, Inside, TypeOK
<1>5. CountInv'
  <2>1. /\ IsFiniteSet(Members(p)) /\ Cardinality(Members(p)) \in Nat
        /\ IsFiniteSet(Holders(p)) /\ Cardinality(Holders(p)) \in Nat
    BY <1>a, <1>c, Finite
  <2>2. /\ Cardinality(Members(p)') = Cardinality(Members(p)) + 1
        /\ Cardinality(Holders(p)') = Cardinality(Holders(p)) + 1
    BY <1>f, <2>1, FS_AddElement
  <2>3. /\ sessions'[i].refs = Cardinality(Holders(sessions[i].span)')
        /\ sessions'[i].requests = Cardinality(Members(sessions[i].span)')
    BY <1>a, <1>b, <1>e, <2>2 DEF CountInv
  <2>4. \A j \in Tracked \ {i} :
           /\ sessions'[j].refs = Cardinality(Holders(sessions[j].span)')
           /\ sessions'[j].requests = Cardinality(Members(sessions[j].span)')
    BY <1>a, <1>d, <1>f, <1>g DEF CountInv
  <2> QED BY <1>d, <2>3, <2>4 DEF CountInv
<1>6. ClockInv'
  BY <1>a, <1>b DEF ClockInv, TypeOK
<1>7. LastInv'
  <2>1. ASSUME NEW j \in Tracked, j # i, NEW u \in Members(sessions[j].span)
        PROVE  u # t /\ turn'[u] = turn[u]
    BY <1>a, <1>b, Newcomer DEF Members, TypeOK
  <2>2. \A j \in Tracked \ {i} : Members(sessions[j].span)' = Members(sessions[j].span)
    BY <1>d, <1>f, <1>g
  <2>3. Members(sessions[i].span)' = Members(p) \cup {t}
    BY <1>e, <1>f
  <2>4. \A u \in Members(p) : u \in Turns /\ turn'[u] = turn[u]
    BY <1>a, <1>b, <1>f DEF Members, TypeOK
  <2>5. /\ turn'[t] = "holding" /\ sessions[i].last \in Nat /\ start[t] \in Nat
        /\ \A u \in Turns : at[u] \in Nat
    BY <1>a, <1>b DEF TypeOK, Session
  <2>6. /\ \A u \in Members(p) \cup {t} : turn'[u] = "done" => at[u] <= sessions'[i].last
        /\ \E u \in Members(p) \cup {t} : \/ sessions'[i].last = start[u]
                                          \/ turn'[u] = "done" /\ sessions'[i].last = at[u]
    BY <1>a, <1>b, <1>e, <2>4, <2>5 DEF LastInv, Later
  <2>7. \A j \in Tracked \ {i} :
           /\ \A u \in Members(sessions[j].span) : turn'[u] = "done" => at[u] <= sessions[j].last
           /\ \E u \in Members(sessions[j].span) :
                 \/ sessions[j].last = start[u]
                 \/ turn'[u] = "done" /\ sessions[j].last = at[u]
    BY <1>a, <2>1 DEF LastInv
  <2> QED BY <1>b, <1>d, <2>2, <2>3, <2>6, <2>7 DEF LastInv
<1>8. InFlightInv' /\ TrackedBounded'
  <2>1. InFlight' = InFlight
    BY <1>a, <1>b DEF InFlight, TypeOK
  <2> QED BY <1>a, <1>d, <2>1 DEF InFlightInv, TrackedBounded
<1>9. NoSpanIsLost'
  <2>1. OpenSpansAreTracked'
    BY <1>a, <1>b, <1>d, <1>e DEF NoSpanIsLost, OpenSpansAreTracked
  <2>2. sessions'[i].refs # 0
    BY <1>a, <1>b, <1>e DEF TypeOK, Session
  <2>3. UnusedSessionsWillExpire'
    BY <1>a, <1>b, <1>d, <2>2 DEF NoSpanIsLost, UnusedSessionsWillExpire, Unused
  <2> QED BY <2>1, <2>3 DEF NoSpanIsLost
<1>10. StampIsLastTurn'
  BY <1>a, <1>b, <1>c, <1>f DEF StampIsLastTurn
<1> QED BY <1>1, <1>2, <1>3, <1>4, <1>5, <1>6, <1>7, <1>8, <1>9, <1>10 DEF IInv

LEMMA ReleasedState ==
    ASSUME TypeOK, NEW state \in Session, state.refs > 0, NEW t \in Turns,
           \A d, e \in state.timer : d = e
    PROVE  LET released == Armed(Left(state, t))
           IN /\ released \in Session /\ released.span = state.span
              /\ released.refs = state.refs - 1
              /\ released.requests = state.requests
              /\ released.last = Later(state.last, at[t])
              /\ \A d, e \in released.timer : d = e
              /\ released.refs = 0 /\ ~closed => released.timer # {}
<1> DEFINE left == Left(state, t)
           released == Armed(left)
           last == Later(state.last, at[t])
<1>1. last \in Nat /\ now + Idle \in Nat /\ state.refs - 1 \in Nat
  BY LimitsAssumption DEF TypeOK, Later, Session
<1>2. state = [span |-> state.span, refs |-> state.refs, requests |-> state.requests,
               last |-> state.last, timer |-> state.timer]
  BY DEF Session
<1>3. left = [state EXCEPT !.refs = @ - 1, !.last = last]
  BY DEF Left
<1> HIDE DEF last
<1>4. left = [span |-> state.span, refs |-> state.refs - 1, requests |-> state.requests,
              last |-> last, timer |-> state.timer]
  BY <1>2, <1>3 DEF Session
<1>5. left \in Session
  BY <1>1, <1>4 DEF Session
<1>6. CASE left.refs = 0 /\ ~closed
  <2>1. released = [left EXCEPT !.timer = {now + Idle}]
    BY <1>6 DEF Armed
  <2> HIDE DEF left, released
  <2>2. released = [span |-> state.span, refs |-> state.refs - 1, requests |-> state.requests,
                    last |-> last, timer |-> {now + Idle}]
    BY <1>4, <2>1
  <2>3. released \in Session
    BY <1>1, <2>2 DEF Session
  <2> QED BY <2>2, <2>3 DEF released, left, last
<1>7. CASE ~(left.refs = 0 /\ ~closed)
  <2>1. released = left
    BY <1>7 DEF Armed
  <2> HIDE DEF left, released
  <2>2. released = [span |-> state.span, refs |-> state.refs - 1, requests |-> state.requests,
                    last |-> last, timer |-> state.timer]
    BY <1>4, <2>1
  <2>3. released \in Session /\ (released.refs = 0 => closed)
    BY <1>5, <1>7, <2>1
  <2> QED BY <2>2, <2>3 DEF released, left, last
<1> QED BY <1>6, <1>7

LEMMA ReleaseStep ==
    ASSUME IInv, NEW t \in Turns, Release(t)
    PROVE  IInv'
<1>a. /\ TypeOK /\ OwnerInv /\ ClosedInv /\ ParentInv /\ HeldInv /\ CountInv /\ ClockInv
      /\ LastInv /\ InFlightInv /\ NoSpanIsLost /\ StampIsLastTurn /\ TrackedBounded
  BY DEF IInv
<1>b. /\ turn[t] = "leaving"
      /\ turn' = [turn EXCEPT ![t] = "done"]
      /\ UNCHANGED <<now, closed, expiring, idOf, start, at, spanOf, span>>
  BY DEF Release
<1>c. /\ turn'[t] = "done"
      /\ \A u \in Turns \ {t} : turn'[u] = turn[u]
      /\ \A s : Members(s)' = Members(s)
  BY <1>a, <1>b DEF TypeOK, Members
<1>1. InFlightInv'
  <2>1. InFlight' = InFlight \ {t} /\ t \in InFlight
    BY <1>a, <1>b DEF InFlight, TypeOK
  <2>2. Cardinality(InFlight') = Cardinality(InFlight) - 1 /\ Cardinality(InFlight) \in Nat
    BY <1>a, <2>1, Finite, FS_RemoveElement
  <2> QED BY <1>a, <2>2, LimitsAssumption DEF InFlightInv
<1>2. ParentInv'
  <2>1. \A s \in Turns : (\A u \in Members(s) : turn[u] = "done")
                           => (\A u \in Members(s) : turn'[u] = "done")
    BY <1>c DEF Members
  <2>2. \A u \in Turns : turn'[u] \in {"holding", "leaving", "done"}
                           => turn[u] \in {"holding", "leaving", "done"}
    BY <1>b, <1>c
  <2>3. \A u \in Turns : turn'[u] \in {"new", "reading", "bare"}
                           => turn[u] \in {"new", "reading", "bare"}
    BY <1>b, <1>c
  <2> QED BY <1>a, <1>b, <1>c, <2>1, <2>2, <2>3 DEF ParentInv
<1>3. ClockInv' /\ StampIsLastTurn'
  BY <1>a, <1>b, <1>c DEF ClockInv, StampIsLastTurn
<1>4. CASE idOf[t] \notin Tracked
  <2>1. closed /\ Tracked = {} /\ sessions' = sessions
    BY <1>a, <1>b, <1>4 DEF HeldInv, Inside, ClosedInv, Release
  <2>2. TypeOK'
    BY <1>a, <1>b, <2>1 DEF TypeOK, TurnState
  <2>3. OwnerInv' /\ ClosedInv' /\ HeldInv' /\ CountInv' /\ LastInv' /\ TrackedBounded'
    BY <1>a, <1>b, <2>1 DEF OwnerInv, ClosedInv, HeldInv, CountInv, LastInv, TrackedBounded
  <2>4. NoSpanIsLost'
    BY <1>a, <1>b, <2>1 DEF NoSpanIsLost, OpenSpansAreTracked, UnusedSessionsWillExpire, Unused
  <2> QED BY <1>1, <1>2, <1>3, <2>2, <2>3, <2>4 DEF IInv
<1>5. CASE idOf[t] \in Tracked
  <2>i. PICK i \in Ids : i = idOf[t] /\ i \in Tracked
    BY <1>a, <1>5 DEF TypeOK
  <2>p. PICK p \in Turns : p = sessions[i].span
    BY <1>a, <2>i DEF TypeOK, Session
  <2>b. /\ sessions' = [sessions EXCEPT ![i] = Armed(Left(@, t))]
        /\ ~closed /\ spanOf[t] = {p}
    BY <1>a, <1>b, <2>i, <2>p DEF Release, HeldInv, Inside, ClosedInv
  <2>c. /\ t \in Holders(p) /\ t \in Members(p)
        /\ Holders(p)' = Holders(p) \ {t}
        /\ \A s \in Turns \ {p} : Holders(s)' = Holders(s)
    BY <1>a, <1>b, <1>c, <2>b DEF Holders, Members
  <2>d. /\ IsFiniteSet(Holders(p)) /\ Cardinality(Holders(p)) \in Nat
        /\ Cardinality(Holders(p)') = Cardinality(Holders(p)) - 1
        /\ Cardinality(Holders(p)) # 0
    BY <1>a, <2>c, Finite, FS_RemoveElement, FS_EmptySet
  <2>e. /\ sessions[i] \in Session /\ sessions[i].refs > 0
        /\ \A d, e \in sessions[i].timer : d = e
    BY <1>a, <2>i, <2>p, <2>d DEF TypeOK, CountInv
  <2>f. /\ DOMAIN sessions' = Tracked
        /\ \A j \in Tracked \ {i} : sessions'[j] = sessions[j]
        /\ sessions'[i] = Armed(Left(sessions[i], t))
    BY <1>a, <2>i, <2>b DEF TypeOK
  <2>g. /\ sessions'[i] \in Session /\ sessions'[i].span = p
        /\ sessions'[i].refs = sessions[i].refs - 1
        /\ sessions'[i].requests = sessions[i].requests
        /\ sessions'[i].last = Later(sessions[i].last, at[t])
        /\ \A d, e \in sessions'[i].timer : d = e
        /\ sessions'[i].refs = 0 => sessions'[i].timer # {}
    BY <1>a, <2>p, <2>b, <2>e, <2>f, ReleasedState
  <2>h. \A j \in Tracked \ {i} : sessions[j].span \in Turns \ {p}
    BY <1>a, <2>i, <2>p, SpanOfOne DEF TypeOK, Session
  <2>1. TypeOK'
    <3>1. sessions' \in [DOMAIN sessions' -> Session]
      BY <1>a, <2>i, <2>b, <2>f, <2>g DEF TypeOK
    <3>2. \A j \in Tracked : \A d, e \in sessions'[j].timer : d = e
      BY <1>a, <2>i, <2>f, <2>g DEF TypeOK
    <3> QED BY <1>a, <1>b, <2>f, <3>1, <3>2 DEF TypeOK, TurnState
  <2>2. OwnerInv' /\ ClosedInv'
    BY <1>a, <1>b, <2>i, <2>p, <2>b, <2>f, <2>g DEF OwnerInv, ClosedInv
  <2>3. HeldInv'
    BY <1>a, <1>b, <1>c, <2>i, <2>p, <2>f, <2>g DEF HeldInv, Inside
  <2>4. CountInv'
    <3>1. /\ sessions'[i].refs = Cardinality(Holders(sessions[i].span)')
          /\ sessions'[i].requests = Cardinality(Members(sessions[i].span)')
      BY <1>a, <1>c, <2>i, <2>p, <2>d, <2>g DEF CountInv
    <3>2. \A j \in Tracked \ {i} :
             /\ sessions'[j].refs = Cardinality(Holders(sessions[j].span)')
             /\ sessions'[j].requests = Cardinality(Members(sessions[j].span)')
      BY <1>a, <1>c, <2>c, <2>f, <2>h DEF CountInv
    <3> QED BY <2>f, <3>1, <3>2 DEF CountInv
  <2>5. LastInv'
    <3>1. \A j \in Tracked : Members(sessions[j].span)' = Members(sessions[j].span)
      BY <1>c, <2>i, <2>p, <2>f, <2>g
    <3>2. \A u \in Turns : at[u] \in Nat
      BY <1>a DEF TypeOK
    <3>3. \A u \in Members(p) : u \in Turns
      BY DEF Members
    <3>4. /\ \A u \in Members(p) : turn'[u] = "done" => at[u] <= sessions'[i].last
          /\ \E u \in Members(p) : \/ sessions'[i].last = start[u]
                                   \/ turn'[u] = "done" /\ sessions'[i].last = at[u]
      <4>1. sessions[i].last \in Nat
        BY <2>e DEF Session
      <4>2. /\ \A u \in Members(p) : turn[u] = "done" => at[u] <= sessions[i].last
            /\ \E u \in Members(p) : \/ sessions[i].last = start[u]
                                     \/ turn[u] = "done" /\ sessions[i].last = at[u]
        BY <1>a, <2>i, <2>p DEF LastInv
      <4> QED BY <1>b, <1>c, <2>c, <2>g, <3>2, <3>3, <4>1, <4>2 DEF Later
    <3>5. ASSUME NEW j \in Tracked, j # i, NEW u \in Members(sessions[j].span)
          PROVE  turn'[u] = turn[u]
      BY <1>c, <2>b, <2>h, <3>5 DEF Members
    <3>6. \A j \in Tracked \ {i} :
             /\ \A u \in Members(sessions[j].span) : turn'[u] = "done" => at[u] <= sessions[j].last
             /\ \E u \in Members(sessions[j].span) :
                   \/ sessions[j].last = start[u]
                   \/ turn'[u] = "done" /\ sessions[j].last = at[u]
      BY <1>a, <3>5 DEF LastInv
    <3> QED BY <1>b, <2>f, <2>p, <3>1, <3>4, <3>6 DEF LastInv
  <2>6. TrackedBounded'
    BY <1>a, <2>f DEF TrackedBounded
  <2>7. NoSpanIsLost'
    <3>1. OpenSpansAreTracked'
      BY <1>a, <1>b, <2>p, <2>f, <2>g DEF NoSpanIsLost, OpenSpansAreTracked
    <3>2. UnusedSessionsWillExpire'
      BY <1>a, <1>b, <2>f, <2>g DEF NoSpanIsLost, UnusedSessionsWillExpire, Unused
    <3> QED BY <3>1, <3>2 DEF NoSpanIsLost
  <2> QED BY <1>1, <1>2, <1>3, <2>1, <2>2, <2>3, <2>4, <2>5, <2>6, <2>7 DEF IInv
<1> QED BY <1>4, <1>5

-----------------------------------------------------------------------------
(* The ends of sessions *)

\* What is written on the spans of sessions that are ended while nobody uses them.
LEMMA EndedWell ==
    ASSUME IInv, NEW E \in SUBSET Unused, NEW reason \in {"idle", "evicted"}
    PROVE  LET f == Finished(E, reason)
           IN /\ f \in [Turns -> Span]
              /\ \A s \in Turns : f[s].state = "open"
                                    <=> \E i \in Tracked \ E : sessions[i].span = s
              /\ \A s \in Turns : f[s].state = "unopened" <=> span[s].state = "unopened"
              /\ \A s \in Turns : f[s].state \in {"idle", "evicted"} =>
                    /\ \A u \in Members(s) : turn[u] = "done" /\ at[u] <= f[s].end
                    /\ \E u \in Members(s) : at[u] = f[s].end
                    /\ f[s].requests = Cardinality(Members(s))
<1> DEFINE f == Finished(E, reason)
<1>a. /\ TypeOK /\ OwnerInv /\ ParentInv /\ CountInv /\ ClockInv
      /\ LastInv /\ NoSpanIsLost /\ StampIsLastTurn
  BY DEF IInv
<1>b. E \in SUBSET Tracked /\ reason \in EndReason
  BY DEF Unused, EndReason
<1>c. /\ f \in [Turns -> Span]
      /\ \A i \in E : f[sessions[i].span] = EndOf(i, reason)
      /\ \A s \in Turns : (\A i \in E : sessions[i].span # s) => f[s] = span[s]
  BY <1>a, <1>b, FinishedSpans
<1> HIDE DEF f
<1>d. \A i \in E : /\ sessions[i].span \in Turns
                   /\ span[sessions[i].span].state = "open"
                   /\ f[sessions[i].span].state = reason
                   /\ f[sessions[i].span].end = sessions[i].last
                   /\ f[sessions[i].span].requests = sessions[i].requests
  <2> SUFFICES ASSUME NEW i \in E
               PROVE  /\ sessions[i].span \in Turns
                      /\ span[sessions[i].span].state = "open"
                      /\ f[sessions[i].span] = EndOf(i, reason)
    BY EndOfFields
  <2>1. i \in Tracked
    BY <1>b
  <2> QED BY <1>a, <1>c, <2>1, OpenSpan
<1>1. ASSUME NEW s \in Turns
      PROVE  f[s].state = "open" <=> \E i \in Tracked \ E : sessions[i].span = s
  <2>1. CASE \E i \in E : sessions[i].span = s
    BY <1>a, <1>b, <1>d, <2>1, SpanOfOne
  <2>2. CASE \A i \in E : sessions[i].span # s
    BY <1>a, <1>b, <1>c, <2>2, OpenSpan
  <2> QED BY <2>1, <2>2
<1>2. \A s \in Turns : f[s].state = "unopened" <=> span[s].state = "unopened"
  BY <1>c, <1>d
<1>3. ASSUME NEW s \in Turns, f[s].state \in {"idle", "evicted"}
      PROVE  /\ \A u \in Members(s) : turn[u] = "done" /\ at[u] <= f[s].end
             /\ \E u \in Members(s) : at[u] = f[s].end
             /\ f[s].requests = Cardinality(Members(s))
  <2>1. CASE \E i \in E : sessions[i].span = s
    <3>1. PICK i \in E : sessions[i].span = s
      BY <2>1
    <3>2. \A u \in Members(s) : u \in Turns /\ turn[u] = "done"
      BY <3>1, UnusedIsQuiet DEF Members
    <3>3. /\ \A u \in Members(s) : at[u] <= sessions[i].last
          /\ \E u \in Members(s) : sessions[i].last = start[u] \/ sessions[i].last = at[u]
      BY <1>a, <1>b, <3>1, <3>2 DEF LastInv
    <3>4. \A u \in Members(s) : start[u] <= at[u] /\ start[u] \in Nat /\ at[u] \in Nat
      BY <1>a, <3>2 DEF ClockInv, TypeOK
    <3>5. sessions[i].last \in Nat
      BY <1>a, <1>b DEF TypeOK, Session
    <3>6. \E u \in Members(s) : at[u] = sessions[i].last
      BY <3>3, <3>4, <3>5
    <3> QED BY <1>a, <1>b, <1>d, <3>1, <3>2, <3>3, <3>6 DEF CountInv
  <2>2. CASE \A i \in E : sessions[i].span # s
    BY <1>a, <1>c, <1>3, <2>2 DEF ParentInv, StampIsLastTurn
  <2> QED BY <2>1, <2>2
<1> QED BY <1>c, <1>1, <1>2, <1>3 DEF f

LEMMA ExpireDueStep ==
    ASSUME IInv, NEW i \in Ids, ExpireDue(i)
    PROVE  IInv'
<1>a. /\ TypeOK /\ OwnerInv /\ ClosedInv /\ ParentInv /\ HeldInv /\ CountInv /\ ClockInv
      /\ LastInv /\ InFlightInv /\ NoSpanIsLost /\ StampIsLastTurn /\ TrackedBounded
  BY DEF IInv
<1>b. /\ i \in Unused /\ i \in Tracked
      /\ sessions' = Without({i}) /\ span' = Finished({i}, "idle")
      /\ expiring' = [expiring EXCEPT ![i] = @ - 1] /\ expiring[i] > 0
      /\ UNCHANGED <<now, closed, turn, idOf, start, at, spanOf>>
  BY DEF ExpireDue, Expirable, Unused, turnVars
<1>c. /\ DOMAIN sessions' = Tracked \ {i}
      /\ \A j \in Tracked \ {i} : sessions'[j] = sessions[j]
  BY <1>b DEF Without
<1>d. /\ span' \in [Turns -> Span]
      /\ \A s \in Turns : span'[s].state = "open"
                            <=> \E j \in Tracked \ {i} : sessions[j].span = s
      /\ \A s \in Turns : span'[s].state = "unopened" <=> span[s].state = "unopened"
      /\ \A s \in Turns : span'[s].state \in {"idle", "evicted"} =>
            /\ \A u \in Members(s) : turn[u] = "done" /\ at[u] <= span'[s].end
            /\ \E u \in Members(s) : at[u] = span'[s].end
            /\ span'[s].requests = Cardinality(Members(s))
  <2>1. PICK E \in SUBSET Unused : E = {i}
    BY <1>b
  <2>2. span' = Finished(E, "idle") /\ Tracked \ {i} = Tracked \ E
    BY <1>b, <2>1
  <2> QED BY <2>2, EndedWell
<1>e. \A s : Members(s)' = Members(s) /\ Holders(s)' = Holders(s)
  BY <1>b DEF Members, Holders
<1>1. TypeOK'
  <2>1. sessions' \in [DOMAIN sessions' -> Session]
    BY <1>a, <1>b, <1>c DEF TypeOK, Without
  <2>2. expiring' \in [Ids -> Nat]
    BY <1>a, <1>b DEF TypeOK
  <2>3. (DOMAIN sessions') \subseteq Ids
    BY <1>a, <1>c DEF TypeOK
  <2>4. \A j \in DOMAIN sessions' : \A d, e \in sessions'[j].timer : d = e
    <3>1. \A j \in Tracked \ {i} : \A d, e \in sessions[j].timer : d = e
      BY <1>a DEF TypeOK
    <3> QED BY <1>c, <3>1
  <2>5. span' \in [Turns -> Span]
    BY <1>d
  <2> QED BY <1>a, <1>b, <2>1, <2>2, <2>3, <2>4, <2>5 DEF TypeOK
<1>2. OwnerInv' /\ ClosedInv' /\ CountInv' /\ ClockInv' /\ LastInv'
  <2>1. OwnerInv' /\ ClosedInv' /\ ClockInv'
    BY <1>a, <1>b, <1>c DEF OwnerInv, ClosedInv, ClockInv
  <2>2. \A j \in Tracked \ {i} : /\ Members(sessions[j].span)' = Members(sessions[j].span)
                                 /\ Holders(sessions[j].span)' = Holders(sessions[j].span)
    BY <1>c, <1>e
  <2>3. CountInv'
    BY <1>a, <1>c, <2>2 DEF CountInv
  <2>4. LastInv'
    <3>1. \A j \in Tracked \ {i} :
             /\ \A u \in Members(sessions[j].span) :
                   turn[u] = "done" => at[u] <= sessions'[j].last
             /\ \E u \in Members(sessions[j].span) :
                   \/ sessions'[j].last = start[u]
                   \/ turn[u] = "done" /\ sessions'[j].last = at[u]
      BY <1>a, <1>c DEF LastInv
    <3>2. /\ DOMAIN sessions' = Tracked \ {i}
          /\ \A j \in Tracked \ {i} : Members(sessions[j].span)' = Members(sessions[j].span)
          /\ turn' = turn /\ at' = at /\ start' = start
      BY <1>b, <1>c, <2>2
    <3> QED BY <3>1, <3>2 DEF LastInv
  <2> QED BY <2>1, <2>3, <2>4
<1>3. ParentInv' /\ StampIsLastTurn'
  <2>1. ParentInv'
    <3>1. \A t \in Turns : spanOf[t] \subseteq Turns
      BY <1>a DEF TypeOK
    <3>2. \A s \in Turns : span'[s].state \in {"idle", "evicted"}
                            => \A u \in Members(s)' : turn'[u] = "done"
      BY <1>b, <1>d, <1>e
    <3>3. \A s \in Turns : span'[s].state # "unopened" <=> span[s].state # "unopened"
      BY <1>d
    <3> QED BY <1>a, <1>b, <3>1, <3>2, <3>3 DEF ParentInv
  <2>2. StampIsLastTurn'
    BY <1>b, <1>d, <1>e DEF StampIsLastTurn
  <2> QED BY <2>1, <2>2
<1>4. HeldInv'
  <2>1. ASSUME NEW t \in Turns, Inside(t), ~closed PROVE idOf[t] # i
    <3>1. spanOf[t] = {sessions[idOf[t]].span}
      BY <1>a, <2>1 DEF HeldInv
    <3>2. CASE idOf[t] = i
      BY <1>b, <2>1, <3>1, <3>2, UnusedIsQuiet DEF Members, Inside
    <3> QED BY <3>2
  <2> QED BY <1>a, <1>b, <1>c, <2>1 DEF HeldInv, Inside
<1>5. InFlightInv' /\ TrackedBounded'
  <2>1. InFlight' = InFlight
    BY <1>b DEF InFlight
  <2>2. Cardinality(Tracked \ {i}) <= Cardinality(Tracked) /\ Cardinality(Tracked \ {i}) \in Nat
    BY <1>a, Finite, FS_Subset, FS_CardinalityType
  <2>3. Cardinality(Tracked) \in Nat /\ Later(MaxTracked, MaxConcurrent) \in Nat
    BY <1>a, Finite, LimitsAssumption DEF Later
  <2> QED BY <1>a, <1>c, <2>1, <2>2, <2>3 DEF InFlightInv, TrackedBounded
<1>6. NoSpanIsLost'
  <2>1. OpenSpansAreTracked'
    <3>1. \A j \in Tracked \ {i} : sessions'[j].span \in Turns
      BY <1>a, <1>c, OpenSpan
    <3>2. \A s \in Turns : span'[s].state = "open"
                            <=> \E j \in Tracked \ {i} : sessions'[j].span = s
      BY <1>c, <1>d
    <3> QED BY <1>c, <3>1, <3>2 DEF OpenSpansAreTracked
  <2>2. UnusedSessionsWillExpire'
    BY <1>a, <1>b, <1>c DEF NoSpanIsLost, UnusedSessionsWillExpire, Unused, TypeOK
  <2> QED BY <2>1, <2>2 DEF NoSpanIsLost
<1> QED BY <1>1, <1>2, <1>3, <1>4, <1>5, <1>6 DEF IInv

LEMMA CloseAllStep ==
    ASSUME IInv, CloseAll
    PROVE  IInv'
<1>a. /\ TypeOK /\ OwnerInv /\ ParentInv /\ ClockInv /\ InFlightInv
      /\ NoSpanIsLost /\ StampIsLastTurn
  BY DEF IInv
<1>b. /\ sessions' = Without(Tracked) /\ closed' = TRUE
      /\ span' = Finished(Tracked, "shutdown")
      /\ UNCHANGED <<now, expiring, turn, idOf, start, at, spanOf>>
  BY DEF CloseAll, turnVars
<1>c. DOMAIN sessions' = {} /\ sessions' \in [{} -> Session]
  BY <1>b DEF Without
<1>d. /\ span' \in [Turns -> Span]
      /\ \A i \in Tracked : span'[sessions[i].span] = EndOf(i, "shutdown")
      /\ \A s \in Turns : (\A i \in Tracked : sessions[i].span # s) => span'[s] = span[s]
  <2>1. Tracked \in SUBSET Tracked /\ "shutdown" \in EndReason
    BY DEF EndReason
  <2> QED BY <1>a, <1>b, <2>1, FinishedSpans
<1>e. \A s \in Turns : /\ span'[s].state \in {"idle", "evicted"} => span'[s] = span[s]
                       /\ span'[s].state = "unopened" <=> span[s].state = "unopened"
                       /\ span'[s].state # "open"
  <2> SUFFICES ASSUME NEW s \in Turns
               PROVE  /\ span'[s].state \in {"idle", "evicted"} => span'[s] = span[s]
                      /\ span'[s].state = "unopened" <=> span[s].state = "unopened"
                      /\ span'[s].state # "open"
    OBVIOUS
  <2>1. CASE \E i \in Tracked : sessions[i].span = s
    <3>1. PICK i \in Tracked : sessions[i].span = s
      BY <2>1
    <3>2. span'[s].state = "shutdown" /\ span[s].state = "open"
      BY <1>a, <1>d, <3>1, OpenSpan, EndOfFields
    <3> QED BY <3>2
  <2>2. CASE \A i \in Tracked : sessions[i].span # s
    BY <1>a, <1>d, <2>2, OpenSpan
  <2> QED BY <2>1, <2>2
<1>f. /\ \A s : Members(s)' = Members(s) /\ Holders(s)' = Holders(s)
      /\ InFlight' = InFlight
  BY <1>b DEF Members, Holders, InFlight
<1>1. TypeOK'
  BY <1>a, <1>b, <1>c, <1>d DEF TypeOK
<1>2. OwnerInv' /\ ClosedInv' /\ CountInv' /\ LastInv' /\ HeldInv' /\ ClockInv' /\ InFlightInv'
  BY <1>a, <1>b, <1>c, <1>f DEF OwnerInv, ClosedInv, CountInv, LastInv, HeldInv, ClockInv, InFlightInv
<1>3. ParentInv' /\ StampIsLastTurn'
  <2>1. ParentInv'
    <3>1. \A t \in Turns : spanOf[t] \subseteq Turns
      BY <1>a DEF TypeOK
    <3> QED BY <1>a, <1>b, <1>e, <1>f, <3>1 DEF ParentInv
  <2>2. StampIsLastTurn'
    BY <1>a, <1>b, <1>e, <1>f DEF StampIsLastTurn
  <2> QED BY <2>1, <2>2
<1>4. TrackedBounded'
  BY <1>c, FS_EmptySet, LimitsAssumption DEF TrackedBounded, Later
<1>5. NoSpanIsLost'
  BY <1>c, <1>e DEF NoSpanIsLost, OpenSpansAreTracked, UnusedSessionsWillExpire, Unused
<1> QED BY <1>1, <1>2, <1>3, <1>4, <1>5 DEF IInv

\* Making room for a session leaves at most as many as there are turns in
\* flight besides the one that asks for it, or one less than the limit.
LEMMA RoomIsMade ==
    ASSUME IInv, ~closed, NEW t \in Turns, turn[t] = "reading", NEW E \in Evictions
    PROVE  /\ IsFiniteSet(Tracked \ E) /\ Cardinality(Tracked \ E) \in Nat
           /\ Cardinality(Tracked \ E) + 1 <= Later(MaxTracked, MaxConcurrent)
<1> DEFINE kept == Tracked \ E
<1>a. TypeOK /\ OwnerInv /\ HeldInv /\ CountInv /\ InFlightInv /\ NoSpanIsLost
  BY DEF IInv
<1>b. /\ IsFiniteSet(Tracked) /\ Cardinality(Tracked) \in Nat
      /\ IsFiniteSet(InFlight) /\ Cardinality(InFlight) \in Nat
  BY <1>a, Finite
<1>c. /\ E \in SUBSET Unused /\ E \in SUBSET Tracked
      /\ IF Surplus >= Cardinality(Unused) THEN E = Unused
         ELSE Cardinality(E) = IF Surplus > 0 THEN Surplus ELSE 0
  BY DEF Evictions, Evictable, Unused
<1>d. IsFiniteSet(kept) /\ Cardinality(kept) \in Nat
  BY <1>b, FS_Subset, FS_CardinalityType
<1>1. CASE E = Unused
  <2> DEFINE others == InFlight \ {t}
             holder == [j \in kept |-> CHOOSE u \in Turns : u \in Holders(sessions[j].span)]
  <2>1. IsFiniteSet(others) /\ Cardinality(others) = Cardinality(InFlight) - 1
    BY <1>b, FS_RemoveElement DEF InFlight
  <2>2. ASSUME NEW j \in kept
        PROVE  holder[j] \in Turns /\ holder[j] \in Holders(sessions[j].span)
    <3>1. sessions[j].refs # 0 /\ sessions[j].span \in Turns
      BY <1>a, <1>1 DEF Unused, TypeOK, Session
    <3>2. Holders(sessions[j].span) # {}
      BY <1>a, <3>1, FS_EmptySet DEF CountInv
    <3> QED BY <3>2 DEF Holders
  <2>3. ASSUME NEW j \in kept
        PROVE  holder[j] \in others /\ idOf[holder[j]] = j
    <3> DEFINE u == holder[j]
    <3>1. u \in Turns /\ turn[u] \in {"holding", "leaving"} /\ spanOf[u] = {sessions[j].span}
      BY <2>2 DEF Holders
    <3> HIDE DEF u
    <3>2. idOf[u] \in Tracked /\ sessions[idOf[u]].span = sessions[j].span
      BY <1>a, <3>1 DEF HeldInv, Inside
    <3>3. idOf[u] = j
      BY <1>a, <3>2, SpanOfOne
    <3>4. u \in others
      BY <3>1 DEF InFlight
    <3> QED BY <3>3, <3>4 DEF u
  <2>4. holder \in [kept -> others] /\ \A j, k \in kept : holder[j] = holder[k] => j = k
    BY <2>3
  <2> HIDE DEF holder, others
  <2>5. IsFiniteSet(kept) /\ Cardinality(others) \in Nat
    BY <1>d, <2>1, FS_CardinalityType
  <2>6. ~(Cardinality(others) < Cardinality(kept))
    BY <2>1, <2>4, <2>5, FS_PigeonHole
  <2> QED BY <1>a, <1>b, <1>d, <2>1, <2>5, <2>6, LimitsAssumption DEF InFlightInv, Later
<1>2. CASE E # Unused
  <2>1. /\ Surplus = Cardinality(Tracked) + 1 - MaxTracked
        /\ Cardinality(E) = IF Surplus > 0 THEN Surplus ELSE 0
    BY <1>c, <1>2 DEF Surplus
  <2>2. Cardinality(kept) = Cardinality(Tracked) - Cardinality(E)
    <3>1. Tracked \cap E = E
      BY <1>c
    <3> QED BY <1>b, <3>1, FS_Difference
  <2>3. Cardinality(kept) + 1 <= MaxTracked
    BY <1>b, <2>1, <2>2, LimitsAssumption
  <2> QED BY <1>d, <2>3, LimitsAssumption DEF Later
<1> QED BY <1>1, <1>2, <1>d

\* acquire of a new session: what it leaves, what it opens and what it ends.
LEMMA AcquireNewStep ==
    ASSUME IInv, NEW t \in Turns, AcquireNew(t)
    PROVE  IInv'
<1>a. /\ TypeOK /\ OwnerInv /\ ClosedInv /\ ParentInv /\ HeldInv /\ CountInv /\ ClockInv
      /\ LastInv /\ InFlightInv /\ NoSpanIsLost /\ StampIsLastTurn /\ TrackedBounded
  BY DEF IInv
<1>i. PICK i \in Ids : i = idOf[t] /\ i \notin Tracked
  BY <1>a DEF TypeOK, AcquireNew
<1> DEFINE opened == [span |-> t, refs |-> 1, requests |-> 1, last |-> start[t], timer |-> {}]
<1>E. PICK E \in Evictions :
         /\ sessions' = [j \in (Tracked \ E) \cup {i} |-> IF j = i THEN opened ELSE sessions[j]]
         /\ span' = [Finished(E, "evicted") EXCEPT ![t].state = "open"]
  BY <1>i DEF AcquireNew
<1> DEFINE kept == Tracked \ E
           f == Finished(E, "evicted")
<1>b. /\ turn[t] = "reading" /\ ~closed
      /\ turn' = [turn EXCEPT ![t] = "holding"]
      /\ spanOf' = [spanOf EXCEPT ![t] = {t}]
      /\ UNCHANGED <<now, closed, expiring, idOf, start, at>>
  BY DEF AcquireNew, Accepting
<1>s. E \in SUBSET Unused /\ kept \subseteq Tracked
  BY DEF Evictions, Evictable
<1>c. /\ DOMAIN sessions' = kept \cup {i} /\ i \notin kept
      /\ \A j \in kept : sessions'[j] = sessions[j]
      /\ sessions'[i] = opened
  BY <1>i, <1>E
<1>t. /\ turn'[t] = "holding" /\ spanOf'[t] = {t} /\ idOf[t] = i /\ start[t] \in Nat
      /\ spanOf[t] = {} /\ span[t].state = "unopened" /\ Members(t) = {}
      /\ \A s \in Turns : t \notin Members(s) /\ t \notin Holders(s)
      /\ \A u \in Turns \ {t} : turn'[u] = turn[u] /\ spanOf'[u] = spanOf[u]
  BY <1>a, <1>b, <1>i, Newcomer DEF TypeOK
<1>f. /\ f \in [Turns -> Span]
      /\ \A s \in Turns : f[s].state = "open" <=> \E j \in kept : sessions[j].span = s
      /\ \A s \in Turns : f[s].state = "unopened" <=> span[s].state = "unopened"
      /\ \A s \in Turns : f[s].state \in {"idle", "evicted"} =>
            /\ \A u \in Members(s) : turn[u] = "done" /\ at[u] <= f[s].end
            /\ \E u \in Members(s) : at[u] = f[s].end
            /\ f[s].requests = Cardinality(Members(s))
  BY <1>s, EndedWell
<1>d. /\ span' \in [Turns -> Span]
      /\ span'[t].state = "open"
      /\ \A s \in Turns \ {t} : span'[s] = f[s]
  <2> HIDE DEF f
  <2>1. span' = [f EXCEPT ![t].state = "open"]
    BY <1>E DEF f
  <2>2. [f[t] EXCEPT !.state = "open"] \in Span
    BY <1>f DEF Span
  <2> QED BY <1>f, <2>1, <2>2 DEF Span
<1> HIDE DEF f
<1>g. \A j \in kept : sessions[j].span \in Turns \ {t}
  BY <1>a, <1>s, <1>t, OpenSpan
<1>e. /\ Members(t)' = {t} /\ Holders(t)' = {t}
      /\ \A s \in Turns \ {t} : Members(s)' = Members(s) /\ Holders(s)' = Holders(s)
  BY <1>t DEF Members, Holders
<1> HIDE DEF kept, opened
<1>h. \A j \in kept : /\ Members(sessions[j].span)' = Members(sessions[j].span)
                      /\ Holders(sessions[j].span)' = Holders(sessions[j].span)
  BY <1>c, <1>e, <1>g
<1>o. /\ sessions'[i].span = t /\ sessions'[i].refs = 1 /\ sessions'[i].requests = 1
      /\ sessions'[i].last = start[t] /\ sessions'[i].timer = {} /\ sessions'[i] \in Session
  BY <1>c, <1>t DEF opened, Session
<1>1. TypeOK'
  <2>1. (DOMAIN sessions') \subseteq Ids
    BY <1>a, <1>s, <1>c DEF TypeOK
  <2>2. sessions' \in [DOMAIN sessions' -> Session]
    <3>1. \A j \in DOMAIN sessions' : sessions'[j] \in Session
      BY <1>a, <1>s, <1>c, <1>o DEF TypeOK
    <3> QED BY <1>E, <3>1
  <2>3. \A j \in DOMAIN sessions' : \A d, e \in sessions'[j].timer : d = e
    <3>1. \A j \in kept : \A d, e \in sessions[j].timer : d = e
      BY <1>a, <1>s DEF TypeOK
    <3> QED BY <1>c, <1>o, <3>1
  <2>4. turn' \in [Turns -> TurnState]
    BY <1>a, <1>b DEF TypeOK, TurnState
  <2>5. spanOf' \in [Turns -> {{}} \cup {{s} : s \in Turns}]
    BY <1>a, <1>b DEF TypeOK
  <2> QED BY <1>a, <1>b, <1>d, <2>1, <2>2, <2>3, <2>4, <2>5 DEF TypeOK
<1>2. OwnerInv' /\ ClosedInv'
  BY <1>a, <1>b, <1>s, <1>c, <1>o, <1>t DEF OwnerInv, ClosedInv
<1>3. ParentInv'
  <2>1. \A u \in Turns : spanOf[u] \subseteq Turns
    BY <1>a DEF TypeOK
  <2>2. \A s \in Turns \ {t} : span'[s].state # "unopened" <=> span[s].state # "unopened"
    BY <1>d, <1>f
  <2>3. ASSUME NEW s \in Turns, span'[s].state \in {"idle", "evicted"}
        PROVE  \A u \in Members(s)' : turn'[u] = "done"
    <3>1. s \in Turns \ {t} /\ span'[s] = f[s]
      BY <1>d, <2>3
    <3>2. \A u \in Members(s) : u \in Turns
      BY DEF Members
    <3>3. \A u \in Members(s) : u # t
      BY <1>t, <3>1
    <3>4. f[s].state \in {"idle", "evicted"}
      BY <2>3, <3>1
    <3>5. \A u \in Members(s) : turn[u] = "done"
      BY <1>f, <3>1, <3>4
    <3> QED BY <1>e, <1>t, <3>1, <3>2, <3>3, <3>5
  <2>4. /\ turn'[t] = "holding" /\ spanOf'[t] = {t} /\ span'[t].state = "open" /\ idOf' = idOf
        /\ \A u \in Turns \ {t} : turn'[u] = turn[u] /\ spanOf'[u] = spanOf[u]
    BY <1>b, <1>d, <1>t
  <2> QED BY <1>a, <2>1, <2>2, <2>3, <2>4 DEF ParentInv
<1>4. HeldInv'
  <2>1. ASSUME NEW u \in Turns \ {t}, Inside(u)
        PROVE  idOf[u] \in kept /\ spanOf[u] = {sessions[idOf[u]].span}
    <3>1. idOf[u] \in Tracked /\ spanOf[u] = {sessions[idOf[u]].span}
      BY <1>a, <1>b, <2>1 DEF HeldInv
    <3>2. ASSUME idOf[u] \in E PROVE FALSE
      BY <1>s, <2>1, <3>1, <3>2, UnusedIsQuiet DEF Members, Inside
    <3> QED BY <3>1, <3>2 DEF kept
  <2> QED BY <1>b, <1>c, <1>t, <1>o, <2>1 DEF HeldInv, Inside
<1>5. CountInv'
  <2>1. /\ sessions'[i].refs = Cardinality(Holders(sessions[i].span)')
        /\ sessions'[i].requests = Cardinality(Members(sessions[i].span)')
    <3>1. Cardinality(Holders(t)') = 1 /\ Cardinality(Members(t)') = 1
      BY <1>e, FS_Singleton
    <3> QED BY <1>o, <3>1
  <2>2. \A j \in kept : /\ sessions'[j].refs = Cardinality(Holders(sessions[j].span)')
                        /\ sessions'[j].requests = Cardinality(Members(sessions[j].span)')
    BY <1>a, <1>s, <1>c, <1>h DEF CountInv
  <2> QED BY <1>c, <2>1, <2>2 DEF CountInv
<1>6. ClockInv'
  BY <1>a, <1>b, <1>t DEF ClockInv
<1>7. LastInv'
  <2>1. \A j \in kept :
           /\ \A u \in Members(sessions[j].span) : u \in Turns \ {t}
           /\ \A u \in Members(sessions[j].span) : turn[u] = "done" => at[u] <= sessions[j].last
           /\ \E u \in Members(sessions[j].span) :
                 \/ sessions[j].last = start[u]
                 \/ turn[u] = "done" /\ sessions[j].last = at[u]
    BY <1>a, <1>s, <1>t, <1>g DEF LastInv, Members
  <2>2. \A j \in kept :
           /\ \A u \in Members(sessions[j].span) : turn'[u] = "done" => at[u] <= sessions'[j].last
           /\ \E u \in Members(sessions[j].span) :
                 \/ sessions'[j].last = start[u]
                 \/ turn'[u] = "done" /\ sessions'[j].last = at[u]
    BY <1>c, <1>t, <2>1
  <2>3. /\ Members(sessions[i].span)' = {t} /\ sessions'[i].last = start[t]
        /\ turn'[t] # "done" /\ at' = at /\ start' = start
    BY <1>b, <1>t, <1>e, <1>o
  <2> QED BY <1>c, <1>h, <2>2, <2>3 DEF LastInv
<1>8. InFlightInv' /\ TrackedBounded'
  <2>1. InFlight' = InFlight
    BY <1>b, <1>t DEF InFlight
  <2>2. /\ IsFiniteSet(kept) /\ Cardinality(kept) \in Nat
        /\ Cardinality(kept) + 1 <= Later(MaxTracked, MaxConcurrent)
    BY <1>b, RoomIsMade DEF kept
  <2>3. Cardinality(Tracked') = Cardinality(kept) + 1
    BY <1>c, <2>2, FS_AddElement
  <2> QED BY <1>a, <2>1, <2>2, <2>3 DEF InFlightInv, TrackedBounded
<1>9. NoSpanIsLost'
  <2>1. OpenSpansAreTracked'
    <3>1. \A s \in Turns : span'[s].state = "open"
                             <=> s = t \/ \E j \in kept : sessions[j].span = s
      BY <1>d, <1>f DEF kept
    <3>2. \A j \in kept : sessions'[j].span = sessions[j].span /\ sessions[j].span \in Turns
      BY <1>c, <1>g
    <3> QED BY <1>c, <1>o, <3>1, <3>2 DEF OpenSpansAreTracked
  <2>2. UnusedSessionsWillExpire'
    <3>1. \A j \in kept : sessions[j].refs = 0 => sessions[j].timer # {} \/ expiring[j] > 0
      BY <1>a, <1>s DEF NoSpanIsLost, UnusedSessionsWillExpire, Unused
    <3> QED BY <1>b, <1>c, <1>o, <3>1 DEF UnusedSessionsWillExpire, Unused
  <2> QED BY <2>1, <2>2 DEF NoSpanIsLost
<1>10. StampIsLastTurn'
  <2>1. ASSUME NEW s \in Turns, span'[s].state \in {"idle", "evicted"}
        PROVE  /\ \A u \in Members(s) : at[u] <= span'[s].end
               /\ \E u \in Members(s) : at[u] = span'[s].end
               /\ span'[s].requests = Cardinality(Members(s))
               /\ Members(s)' = Members(s)
    <3>1. s \in Turns \ {t} /\ span'[s] = f[s]
      BY <1>d, <2>1
    <3> QED BY <1>e, <1>f, <2>1, <3>1
  <2> QED BY <1>b, <2>1 DEF StampIsLastTurn
<1> QED BY <1>1, <1>2, <1>3, <1>4, <1>5, <1>6, <1>7, <1>8, <1>9, <1>10 DEF IInv

-----------------------------------------------------------------------------
(* The theorems *)

LEMMA NextIInv == IInv /\ [Next]_vars => IInv'
<1> SUFFICES ASSUME IInv, [Next]_vars PROVE IInv'
  OBVIOUS
<1>1. ASSUME NEW t \in Turns, Enter(t) \/ Acquire(t) \/ Exit(t) \/ Release(t)
      PROVE  IInv'
  BY <1>1, TurnSteps, AcquireLiveStep, AcquireNewStep, ReleaseStep DEF Acquire
<1>2. ASSUME NEW i \in Ids, TimerFires(i) \/ Expire(i)
      PROVE  IInv'
  BY <1>2, TimerSteps, ExpireDueStep DEF Expire
<1>3. CASE CloseAll
  BY <1>3, CloseAllStep
<1>4. CASE Tick
  BY <1>4, TimerSteps
<1>5. CASE UNCHANGED vars
  <2>1. TypeOK'
    BY <1>5 DEF IInv, TypeOK, vars, registryVars, turnVars
  <2>2. UnusedSessionsWillExpire'
    BY <1>5 DEF IInv, NoSpanIsLost, UnusedSessionsWillExpire, Unused, vars, registryVars
  <2>3. now' >= now /\ OnlyTimers
    BY <1>5 DEF IInv, TypeOK, OnlyTimers, vars, registryVars
  <2>4. UNCHANGED <<closed, turnVars, span>>
    BY <1>5 DEF vars, registryVars
  <2> QED BY <2>1, <2>2, <2>3, <2>4, TimerStep
<1> QED BY <1>1, <1>2, <1>3, <1>4, <1>5 DEF Next

\* The inductive invariant holds in every state the registry can reach.
THEOREM Invariance == Spec => []IInv
BY InitIInv, NextIInv, PTL DEF Spec

\* Every variable keeps its type, and no session has two pending timers.
THEOREM TypeCorrect == Spec => []TypeOK
<1>1. IInv => TypeOK
  BY DEF IInv
<1> QED BY <1>1, Invariance, PTL

\* Nothing is lost: a session span that has not ended is that of a tracked
\* session, and a session nobody holds has a timer pending or an expire waiting.
THEOREM SpansAreKept == Spec => []NoSpanIsLost
<1>1. IInv => NoSpanIsLost
  BY DEF IInv
<1> QED BY <1>1, Invariance, PTL

\* The reference count of a session is the number of turns that hold its span,
\* and a turn that holds a span finds the session of that very span under its
\* identifier: release, which looks it up there, decrements the right count.
THEOREM RefsAreRight == Spec => []RefsCountHolders
<1>1. IInv => RefsCountHolders
  BY DEF IInv, CountInv, HeldInv, ClosedInv, Inside, RefsCountHolders
<1> QED BY <1>1, Invariance, PTL

\* A span that ended idle or evicted carries the end of its last turn and the
\* number of its turns, in whatever order the turns came to the mutex.
THEOREM StampIsRight == Spec => []StampIsLastTurn
<1>1. IInv => StampIsLastTurn
  BY DEF IInv
<1> QED BY <1>1, Invariance, PTL

\* The registry never holds more sessions than the larger of its limit and the
\* number of turns that may be in flight.
THEOREM Bounded == Spec => []TrackedBounded
<1>1. IInv => TrackedBounded
  BY DEF IInv
<1> QED BY <1>1, Invariance, PTL

\* The states of the spans once some sessions are finished.
LEMMA FinishedStates ==
    ASSUME TypeOK, OwnerInv, NEW E \in SUBSET Tracked, NEW reason \in EndReason,
           NEW s \in Turns
    PROVE  Finished(E, reason)[s].state =
              IF \E i \in E : sessions[i].span = s THEN reason ELSE span[s].state
<1>1. CASE \E i \in E : sessions[i].span = s
  BY <1>1, FinishedSpans, EndOfFields
<1>2. CASE \A i \in E : sessions[i].span # s
  BY <1>2, FinishedSpans
<1> QED BY <1>1, <1>2

\* What is open ends as idle only by an expire that is due.
LEMMA IdleStep ==
    ASSUME IInv, [Next]_vars, NEW s \in Turns, span[s].state = "open", span'[s].state = "idle",
           NEW t \in Members(s)
    PROVE  turn[t] = "done" /\ at[t] + Idle <= now
<1>a. TypeOK /\ OwnerInv /\ LastInv
  BY DEF IInv
<1>1. ASSUME NEW u \in Turns, AcquireNew(u) PROVE FALSE
  <2>1. PICK E \in Evictions : span' = [Finished(E, "evicted") EXCEPT ![u].state = "open"]
    BY <1>1 DEF AcquireNew
  <2>2. E \in SUBSET Tracked /\ "evicted" \in EndReason
    BY DEF Evictions, Evictable, Unused, EndReason
  <2>3. /\ Finished(E, "evicted") \in [Turns -> Span]
        /\ Finished(E, "evicted")[s].state \in {"evicted", "open"}
    <3>1. Finished(E, "evicted") \in [Turns -> Span]
      BY <1>a, <2>2, FinishedSpans
    <3>2. Finished(E, "evicted")[s].state =
             IF \E i \in E : sessions[i].span = s THEN "evicted" ELSE span[s].state
      BY <1>a, <2>2, FinishedStates
    <3> QED BY <3>1, <3>2
  <2> DEFINE f == Finished(E, "evicted")
  <2> HIDE DEF f
  <2>4. span'[s].state \in {"evicted", "open"}
    BY <2>1, <2>3 DEF f, Span
  <2> QED BY <2>4
<1>2. ASSUME CloseAll PROVE FALSE
  <2>1. Tracked \in SUBSET Tracked /\ "shutdown" \in EndReason
    BY DEF EndReason
  <2> QED BY <1>a, <1>2, <2>1, FinishedStates DEF CloseAll
<1>3. ASSUME NEW i \in Ids, ExpireDue(i)
      PROVE  turn[t] = "done" /\ at[t] + Idle <= now
  <2>1. i \in Unused /\ i \in Tracked /\ span' = Finished({i}, "idle") /\ Remaining(i) = 0
    BY <1>3 DEF ExpireDue, Expirable, Unused
  <2>2. {i} \in SUBSET Tracked /\ "idle" \in EndReason
    BY <2>1 DEF EndReason
  <2>3. sessions[i].span = s
    BY <1>a, <2>1, <2>2, FinishedStates
  <2>4. turn[t] = "done" /\ t \in Turns
    BY <2>1, <2>3, UnusedIsQuiet DEF Members
  <2>5. at[t] <= sessions[i].last
    BY <1>a, <2>1, <2>3, <2>4 DEF LastInv
  <2>6. sessions[i].last \in Nat /\ at[t] \in Nat /\ now \in Nat
    BY <1>a, <2>1, <2>4 DEF TypeOK, Session
  <2>7. sessions[i].last + Idle <= now
    BY <2>1, <2>6, LimitsAssumption DEF Remaining
  <2> QED BY <2>4, <2>5, <2>6, <2>7, LimitsAssumption
<1>4. span' # span
  BY <1>a
<1> QED BY <1>1, <1>2, <1>3, <1>4
        DEF Next, Acquire, Expire, Enter, AcquireRefused, AcquireLive, Exit, Release,
            TimerFires, ExpireStale, ExpireEarly, Tick, vars

\* A span ends as idle only when each of its turns has been over for the idle
\* timeout: an expire that comes late for an earlier pause never ends it.
THEOREM IdleIsIdle == Spec => IdleMeansIdle
<1>1. IInv /\ [Next]_vars =>
        [\A s \in Turns : (span[s].state = "open" /\ span'[s].state = "idle") =>
            \A t \in Members(s) : turn[t] = "done" /\ at[t] + Idle <= now]_vars
  BY IdleStep
<1> QED BY <1>1, Invariance, PTL DEF Spec, IdleMeansIdle

-----------------------------------------------------------------------------
(* The registry implements SessionLife *)

Phase == [s \in Turns |-> IF span[s].state \in EndReason THEN "ended" ELSE span[s].state]
InsideTurns == {t \in Turns : turn[t] \in {"holding", "leaving"}}

LEMMA InitLife == Init => Life!Init
BY DEF Init, Life!Init, EndReason

\* Steps the abstract specification does not see.
LEMMA LifeStutters ==
    ASSUME Phase' = Phase, InsideTurns' = InsideTurns, UNCHANGED <<idOf, spanOf, closed>>
    PROVE  UNCHANGED Life!vars
BY DEF Life!vars, Phase, InsideTurns

\* The phase after some sessions are finished is that of Life!Ended.
LEMMA FinishedPhase ==
    ASSUME TypeOK, OwnerInv, NEW E \in SUBSET Tracked, NEW reason \in EndReason
    PROVE  LET f == Finished(E, reason)
           IN [s \in Turns |-> IF f[s].state \in EndReason THEN "ended" ELSE f[s].state]
                 = [s \in Turns |-> IF s \in {sessions[i].span : i \in E}
                                    THEN "ended" ELSE Phase[s]]
<1>1. ASSUME NEW s \in Turns
      PROVE  Finished(E, reason)[s].state =
                IF s \in {sessions[i].span : i \in E} THEN reason ELSE span[s].state
  BY FinishedStates
<1> QED BY <1>1 DEF Phase

\* The open spans of SessionLife are those of the sessions; those of unused
\* sessions are quiet.
LEMMA LifeOpen ==
    ASSUME IInv
    PROVE  /\ Life!Open = {sessions[i].span : i \in Tracked}
           /\ \A i \in Unused : Life!Quiet(sessions[i].span)
<1>1. Life!Open = {sessions[i].span : i \in Tracked}
  BY DEF IInv, NoSpanIsLost, OpenSpansAreTracked, Life!Open, EndReason
<1>2. ASSUME NEW i \in Unused, NEW t \in Turns, turn[t] \in {"holding", "leaving"}
      PROVE  spanOf[t] # {sessions[i].span}
  BY <1>2, UnusedIsQuiet DEF Members
<1> QED BY <1>1, <1>2 DEF Life!Quiet

LEMMA LifeSteps ==
    ASSUME IInv, [Next]_vars
    PROVE  [Life!Next]_Life!vars
<1>a. /\ TypeOK /\ OwnerInv /\ ClosedInv /\ ParentInv /\ NoSpanIsLost
      /\ Life!Open = {sessions[i].span : i \in Tracked}
      /\ \A i \in Unused : Life!Quiet(sessions[i].span)
  BY LifeOpen DEF IInv
<1>b. \A i \in Tracked : sessions[i].span \in Turns /\ idOf[sessions[i].span] = i
  BY <1>a, OpenSpan DEF OwnerInv
<1>1. ASSUME NEW t \in Turns, Enter(t) \/ AcquireRefused(t) \/ Exit(t)
      PROVE  UNCHANGED Life!vars
  <2>1. InsideTurns' = InsideTurns
    BY <1>a, <1>1 DEF Enter, AcquireRefused, Exit, InsideTurns, TypeOK
  <2> QED BY <1>1, <2>1, LifeStutters DEF Enter, AcquireRefused, Exit, Phase, registryVars
<1>2. ASSUME NEW i \in Ids, TimerFires(i) \/ ExpireStale(i) \/ ExpireEarly(i)
      PROVE  UNCHANGED Life!vars
  BY <1>2, LifeStutters
     DEF TimerFires, ExpireStale, ExpireEarly, Phase, InsideTurns, turnVars
<1>3. CASE Tick \/ UNCHANGED vars
  BY <1>3, LifeStutters DEF Tick, Phase, InsideTurns, vars, registryVars, turnVars
<1>4. ASSUME NEW t \in Turns, AcquireLive(t) PROVE Life!Join(t)
  <2>1. PICK i \in Tracked : i = idOf[t]
    BY <1>4 DEF AcquireLive
  <2>2. PICK p \in Life!Open : p = sessions[i].span
    BY <1>a, <2>1
  <2>3. idOf[p] = idOf[t]
    BY <1>b, <2>1, <2>2
  <2>4. spanOf[t] = {} /\ ~closed
    BY <1>4, Newcomer DEF AcquireLive, Accepting
  <2>5. InsideTurns' = InsideTurns \cup {t} /\ Phase' = Phase
    BY <1>a, <1>4 DEF AcquireLive, InsideTurns, Phase, TypeOK
  <2>6. /\ spanOf' = [spanOf EXCEPT ![t] = {p}]
        /\ UNCHANGED <<idOf, closed>>
    BY <1>4, <2>1, <2>2 DEF AcquireLive
  <2> QED BY <2>3, <2>4, <2>5, <2>6 DEF Life!Join, InsideTurns, Phase
<1>5. ASSUME NEW t \in Turns, AcquireNew(t) PROVE Life!Begin(t)
  <2>1. PICK E \in Evictions : span' = [Finished(E, "evicted") EXCEPT ![t].state = "open"]
    BY <1>5 DEF AcquireNew
  <2>2. E \in SUBSET Unused /\ E \in SUBSET Tracked /\ "evicted" \in EndReason
    BY DEF Evictions, Evictable, Unused, EndReason
  <2> DEFINE f == Finished(E, "evicted")
  <2>3. PICK S \in SUBSET {s \in Life!Open : Life!Quiet(s)} : S = {sessions[i].span : i \in E}
    BY <1>a, <2>2
  <2>4. spanOf[t] = {} /\ ~closed
    BY <1>5, Newcomer DEF AcquireNew, Accepting
  <2>5. \A s \in Life!Open : idOf[s] # idOf[t]
    BY <1>a, <1>b, <1>5 DEF AcquireNew
  <2>6. InsideTurns' = InsideTurns \cup {t}
    BY <1>a, <1>5 DEF AcquireNew, InsideTurns, TypeOK
  <2>7. /\ f \in [Turns -> Span]
        /\ [s \in Turns |-> IF f[s].state \in EndReason THEN "ended" ELSE f[s].state]
              = [s \in Turns |-> IF s \in S THEN "ended" ELSE Phase[s]]
    BY <1>a, <2>2, <2>3, FinishedSpans, FinishedPhase
  <2> HIDE DEF f
  <2>8. \A s \in Turns : span'[s].state = IF s = t THEN "open" ELSE f[s].state
    <3>1. span' = [f EXCEPT ![t].state = "open"]
      BY <2>1 DEF f
    <3> QED BY <2>7, <3>1 DEF Span
  <2>9. Phase' = [[s \in Turns |-> IF s \in S THEN "ended" ELSE Phase[s]] EXCEPT ![t] = "open"]
    <3>1. Phase' = [[s \in Turns |-> IF f[s].state \in EndReason THEN "ended" ELSE f[s].state]
                       EXCEPT ![t] = "open"]
      BY <2>8 DEF Phase, EndReason
    <3> QED BY <2>7, <3>1
  <2>10. /\ spanOf' = [spanOf EXCEPT ![t] = {t}]
         /\ UNCHANGED <<idOf, closed>>
    BY <1>5 DEF AcquireNew
  <2> QED BY <2>3, <2>4, <2>5, <2>6, <2>9, <2>10
          DEF Life!Begin, Life!Ended, InsideTurns, Phase
<1>6. ASSUME NEW t \in Turns, Release(t) PROVE Life!Leave(t)
  <2>1. InsideTurns' = InsideTurns \ {t} /\ t \in InsideTurns /\ Phase' = Phase
    BY <1>a, <1>6 DEF Release, InsideTurns, Phase, TypeOK
  <2> QED BY <1>6, <2>1 DEF Release, Life!Leave, InsideTurns, Phase
<1>7. ASSUME NEW i \in Ids, ExpireDue(i) PROVE \E s \in Turns : Life!End(s)
  <2>1. i \in Unused /\ i \in Tracked /\ span' = Finished({i}, "idle")
    BY <1>7 DEF ExpireDue, Expirable, Unused
  <2>2. PICK E \in SUBSET Tracked : E = {i}
    BY <2>1
  <2>3. PICK s \in Turns : s = sessions[i].span
    BY <1>b, <2>1
  <2>4. {sessions[j].span : j \in E} = {s} /\ "idle" \in EndReason
    BY <2>2, <2>3 DEF EndReason
  <2>5. Phase' = [r \in Turns |-> IF r \in {s} THEN "ended" ELSE Phase[r]]
    BY <1>a, <2>1, <2>2, <2>4, FinishedPhase DEF Phase
  <2>6. s \in Life!Open /\ Life!Quiet(s)
    BY <1>a, <2>1, <2>3
  <2>7. InsideTurns' = InsideTurns /\ UNCHANGED <<idOf, spanOf, closed>>
    BY <1>7 DEF ExpireDue, InsideTurns, turnVars
  <2>8. Life!End(s)
    BY <2>5, <2>6, <2>7 DEF Life!End, Life!Ended, InsideTurns, Phase
  <2> QED BY <2>8
<1>8. CASE CloseAll
  <2>1. PICK E \in SUBSET Tracked : E = Tracked
    OBVIOUS
  <2>2. span' = Finished(E, "shutdown") /\ "shutdown" \in EndReason
    BY <1>8, <2>1 DEF CloseAll, EndReason
  <2>3. Phase' = [s \in Turns |-> IF s \in Life!Open THEN "ended" ELSE Phase[s]]
    BY <1>a, <2>1, <2>2, FinishedPhase DEF Phase
  <2>4. InsideTurns' = InsideTurns /\ UNCHANGED <<idOf, spanOf>> /\ closed' = TRUE
    BY <1>8 DEF CloseAll, InsideTurns, turnVars
  <2> QED BY <2>3, <2>4 DEF Life!Close, Life!Next, Life!Ended, InsideTurns, Phase
<1> QED BY <1>1, <1>2, <1>3, <1>4, <1>5, <1>6, <1>7, <1>8
        DEF Next, Acquire, Expire, Life!Next

\* The registry implements SessionLife: at any time one open span per session
\* identifier, in which every turn of that identifier takes part; a span ends
\* only when nobody takes part in it or the registry closes, and stays ended.
THEOREM Implements == Spec => ImplementsSessionLife
<1>1. IInv /\ [Next]_vars => [Life!Next]_Life!vars
  BY LifeSteps
<1> QED BY <1>1, InitLife, Invariance, PTL DEF Spec, Life!Spec, ImplementsSessionLife
=============================================================================
