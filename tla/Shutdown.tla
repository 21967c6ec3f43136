------------------------------ MODULE Shutdown ------------------------------
(***************************************************************************)
(* The end of the process (cmd/llamaproxy/main.go): run and shutdownServer *)
(* around the proxy, whose admission control and session registry are the  *)
(* instances A and S.  Between them stands ServeHTTP, which opens a server *)
(* span for an instrumented request once the session has been acquired,    *)
(* and ends it before the deferred releases run, in the reverse order of   *)
(* their defer statements: the session's first, then the admission's.      *)
(*                                                                         *)
(* The HTTP server (net/http) is external: Shutdown returns without error  *)
(* once no connection it knows is busy, and it does not know the hijacked  *)
(* ones; Close drops the connections it knows, which cancels the contexts  *)
(* of their requests.  flush is the shutdown of the tracer provider: what  *)
(* has ended by then is exported, what ends later is dropped.              *)
(***************************************************************************)
EXTENDS Naturals, FiniteSets

CONSTANTS Requests, Instrumented, Slots, PassthroughSlots, Nobody,
          Main,                        \* the goroutine of main
          DrainWait, UnwindWait,       \* its two calls of WaitIdle
          Ids, MaxTracked, Idle, MaxTime

\* The two calls of WaitIdle are told apart.
ASSUME WaitsAssumption == DrainWait # UnwindWait
\* What Admission and Sessions assume of their constants.
ASSUME RequestsAssumption == /\ IsFiniteSet(Requests) /\ IsFiniteSet(Ids)
                             /\ Instrumented \subseteq Requests
                             /\ Nobody \notin Requests
ASSUME LimitsAssumption == /\ {Slots, PassthroughSlots, MaxTracked, Idle} \subseteq Nat \ {0}
                           /\ MaxTime \in Nat

VARIABLES pc, cause, active, used, idle, closedIdle, draining, forcedClose,
          activeMu, cpc, todo, wpc, waitOn
VARIABLES now, sessions, closed, expiring, turn, idOf, start, at, spanOf, span
VARIABLES mpc,          \* where main is
          serverSpan,   \* per instrumented request: "none", "open" or "ended"
          hijacked,     \* requests whose connection net/http has given away
          left,         \* requests whose client went away by itself
          conns,        \* connections: "open", "shut" by Shutdown, "dropped" by Close
          exported      \* the server spans that the flush found ended

A == INSTANCE Admission WITH Closers <- {Main}, Waiters <- {DrainWait, UnwindWait}
S == INSTANCE Sessions WITH Turns <- Instrumented, MaxConcurrent <- Slots

admissionVars == <<pc, cause, active, used, idle, closedIdle, draining, forcedClose,
                   activeMu, cpc, todo, wpc, waitOn>>
sessionVars == <<now, sessions, closed, expiring, turn, idOf, start, at, spanOf, span>>
connVars == <<hijacked, left, conns>>
mainVars == <<mpc, exported>>
vars == <<admissionVars, sessionVars, mainVars, serverSpan, connVars>>

MainState == {"running", "failed", "signalled", "draining", "drainWaiting",
              "forcing", "unwindWaiting", "finishing", "flushing",
              "stopped"}

Init == /\ A!Init
        /\ S!Init
        /\ mpc = "running"
        /\ serverSpan = [r \in Instrumented |-> "none"]
        /\ hijacked = {}
        /\ left = {}
        /\ conns = "open"
        /\ exported = {}

Running == mpc # "stopped"
OnlyAdmission == UNCHANGED <<sessionVars, mainVars, serverSpan, connVars>>
OnlySessions == UNCHANGED <<admissionVars, mainVars, serverSpan, connVars>>
OnlyMain == UNCHANGED <<admissionVars, sessionVars, serverSpan, connVars>>

-----------------------------------------------------------------------------
(* ServeHTTP.  Operators whose comment starts with "Slip" are mistakes this *)
(* code could have made, kept to show that a property notices them.         *)

\* net/http calls the handler until Shutdown has seen the last connection go;
\* a request it had read before Close may still come in after it.
Arrive(r) == /\ Running
             /\ pc[r] = "new" => conns # "shut"
             /\ A!Admit(r)
             /\ OnlyAdmission

\* start := time.Now(), once admitted.
ReadClock(r) == /\ Running
                /\ pc[r] = "serving"
                /\ S!Enter(r)
                /\ OnlySessions

AcquireSession(r) == /\ Running
                     /\ S!Acquire(r)
                     /\ OnlySessions

StartSpan(r) == /\ Running
                /\ turn[r] \in {"holding", "bare"}
                /\ serverSpan[r] = "none"
                /\ serverSpan' = [serverSpan EXCEPT ![r] = "open"]
                /\ UNCHANGED <<admissionVars, sessionVars, mainVars, connVars>>

\* requestState.end, when the reverse proxy has returned or panicked.
EndSpan(r) == /\ Running
              /\ serverSpan[r] = "open"
              /\ serverSpan' = [serverSpan EXCEPT ![r] = "ended"]
              /\ UNCHANGED <<admissionVars, sessionVars, mainVars, connVars>>

\* Slip: the session is released when the reverse proxy has not returned.
LeaveSessionEarly(r) == /\ Running
                        /\ serverSpan[r] # "none"
                        /\ S!Exit(r) \/ S!Release(r)
                        /\ OnlySessions
\* The session's release is deferred last and runs first.
LeaveSession(r) == /\ Running
                   /\ serverSpan[r] = "ended"
                   /\ S!Exit(r) \/ S!Release(r)
                   /\ OnlySessions

\* Slip: the admission's release runs before the span has ended.
ServedBeforeSpanEnds(r) == r \in Instrumented => turn[r] \in {"holding", "done", "bare"}
\* ServeHTTP has come to the admission's release.
Served(r) == r \in Instrumented => /\ serverSpan[r] = "ended"
                                   /\ turn[r] \in {"done", "bare"}

LeaveAdmission(r) == /\ Running
                     /\ pc[r] = "serving" => Served(r)
                     /\ A!Release(r)
                     /\ OnlyAdmission

\* A protocol upgrade takes the connection away from net/http.
Hijack(r) == /\ Running
             /\ pc[r] = "serving" /\ r \notin hijacked
             /\ hijacked' = hijacked \cup {r}
             /\ UNCHANGED <<admissionVars, sessionVars, mainVars, serverSpan, left, conns>>

\* net/http notices that the client has closed the connection.
ClientLeaves(r) == /\ Running
                   /\ r \notin hijacked
                   /\ A!ClientGone(r)
                   /\ left' = left \cup {r}
                   /\ UNCHANGED <<sessionVars, mainVars, serverSpan, hijacked, conns>>

\* net/http notices that srv.Close has closed it.
ConnectionDropped(r) == /\ Running
                        /\ conns = "dropped"
                        /\ pc[r] # "new"
                        /\ r \notin hijacked
                        /\ A!ClientGone(r)
                        /\ OnlyAdmission

-----------------------------------------------------------------------------
(* main *)

At(here, there) == mpc = here /\ mpc' = there

Signal == At("running", "signalled") /\ OnlyMain /\ UNCHANGED exported

\* ListenAndServe returns an error: sessions are closed and spans flushed
\* without a drain.
ListenFails == At("running", "failed") /\ OnlyMain /\ UNCHANGED exported

StartDrain == /\ At("signalled", "draining")
              /\ A!BeginDrain
              /\ UNCHANGED <<sessionVars, exported, serverSpan, connVars>>

\* srv.Shutdown returns nil: every request on a connection it knows is over.
NoBusyConnection == \A r \in Requests \ hijacked : pc[r] \in {"new", "rejected", "done"}
ShutdownReturns == /\ At("draining", "drainWaiting")
                   /\ NoBusyConnection
                   /\ conns' = "shut"
                   /\ UNCHANGED <<admissionVars, sessionVars, exported, serverSpan, hijacked, left>>

\* srv.Shutdown returns the error of drainCtx.
ShutdownTimesOut == At("draining", "forcing") /\ OnlyMain /\ UNCHANGED exported

\* A step of the call w of WaitIdle.
WaitStep(w) == /\ wpc[w] \in {"out", "parked"}
               /\ A!Wait(w)
               /\ OnlyAdmission

WaitForDrain == mpc = "drainWaiting" /\ WaitStep(DrainWait)
DrainEnds == /\ \/ wpc[DrainWait] = "idle" /\ At("drainWaiting", "finishing")
                \/ wpc[DrainWait] = "timeout" /\ At("drainWaiting", "forcing")
             /\ OnlyMain /\ UNCHANGED exported

ForceClose == /\ mpc = "forcing"
              /\ A!ForceClose(Main)
              /\ OnlyAdmission

\* srv.Close, if Shutdown has not closed everything already.
DropConnections == conns' = IF conns = "open" THEN "dropped" ELSE conns

\* Slip: srv.Close does not wait for BeginForcedClose to return.
CloseServerEarly == /\ At("forcing", IF cpc[Main] = "done" THEN "unwindWaiting" ELSE "forcing")
                    /\ DropConnections
                    /\ UNCHANGED <<admissionVars, sessionVars, exported, serverSpan, hijacked, left>>
CloseServer == /\ At("forcing", "unwindWaiting")
               /\ cpc[Main] = "done"
               /\ DropConnections
               /\ UNCHANGED <<admissionVars, sessionVars, exported, serverSpan, hijacked, left>>

WaitForUnwind == mpc = "unwindWaiting" /\ WaitStep(UnwindWait)
\* Slip: main does not wait for the handlers after srv.Close.
UnwindSkipped == At("unwindWaiting", "finishing") /\ OnlyMain /\ UNCHANGED exported
\* Handlers that are still running are only logged.
UnwindEnds == /\ wpc[UnwindWait] \in {"idle", "timeout"}
              /\ At("unwindWaiting", "finishing")
              /\ OnlyMain /\ UNCHANGED exported

CloseSessions == /\ At("finishing", "flushing") \/ At("failed", "flushing")
                 /\ S!CloseAll
                 /\ UNCHANGED <<admissionVars, exported, serverSpan, connVars>>

Flush == /\ At("flushing", "stopped")
         /\ exported' = {r \in Instrumented : serverSpan[r] = "ended"}
         /\ OnlyMain

MainStep == \/ Signal \/ ListenFails \/ StartDrain \/ ShutdownReturns
            \/ ShutdownTimesOut \/ WaitForDrain \/ DrainEnds \/ ForceClose
            \/ CloseServer \/ WaitForUnwind \/ UnwindEnds \/ CloseSessions \/ Flush

\* The timers of the sessions and the clock.
Background == /\ Running
              /\ S!Tick \/ \E i \in Ids : S!TimerFires(i) \/ S!Expire(i)
              /\ OnlySessions

\* The process has exited.
Exited == mpc = "stopped" /\ UNCHANGED vars

Serve(r) == \/ ReadClock(r) \/ AcquireSession(r) \/ StartSpan(r) \/ EndSpan(r)
            \/ LeaveSession(r)

Next == \/ \E r \in Requests : \/ Arrive(r) \/ LeaveAdmission(r) \/ Hijack(r)
                               \/ ClientLeaves(r) \/ ConnectionDropped(r)
        \/ \E r \in Instrumented : Serve(r)
        \/ MainStep
        \/ Background
        \/ Exited

Spec == Init /\ [][Next]_vars

(* Fairness: once a signal has come or the listener has failed, main goes    *)
(* on; drainCtx and unwindCtx have deadlines, so a wait for them ends; a     *)
(* request inside admitRequest leaves it.  Nothing makes a handler return.   *)
Fairness == /\ WF_vars(mpc # "running" /\ MainStep)
            /\ \A r \in Requests : WF_vars(pc[r] = "checked" /\ Arrive(r))

FairSpec == Spec /\ Fairness

-----------------------------------------------------------------------------
(* Properties *)

\* After a signal, only the timeout of the unwinding can lose a server span:
\* otherwise every span that was ever started has been ended and exported when
\* the process stops, hijacked connections included ("some spans may be lost"
\* is logged in no other case, main.go:160).
LostOnlyOnTimeout ==
    (mpc = "stopped" /\ draining /\ wpc[UnwindWait] # "timeout") =>
        /\ active = {}
        /\ \A r \in Instrumented : serverSpan[r] # "none" => r \in exported

\* Session spans never miss the flush, on the signal path and on the path of a
\* failed listener: none is open when the flush starts, and none opens later,
\* although handlers may still be running and acquiring sessions.
SessionsMakeTheFlush ==
    mpc \in {"flushing", "stopped"} => \A s \in Instrumented : span[s].state # "open"

\* What is exported when the process stops is all there was, but for server spans
\* when the unwinding times out or the listener fails.
NothingMissesTheFlush == LostOnlyOnTimeout /\ SessionsMakeTheFlush

\* A session span ends after the server spans of its turns, except when the
\* process gives up on handlers.
ParentEndsLast ==
    \A s \in Instrumented :
        \/ span[s].state \in {"unopened", "open"}
        \/ span[s].state = "shutdown" /\ (~draining \/ wpc[UnwindWait] = "timeout")
        \/ \A t \in S!Members(s) : serverSpan[t] = "ended"

\* A request that is cut off by the shutdown sees the forced close as the cause,
\* not a client that went away: srv.Close comes too late to be the first cause.
CutOffNotBlamedOnClient ==
    \A r \in Requests : (pc[r] = "serving" /\ cause[r] = "canceled") => r \in left

\* What Sessions assumes of its environment: the slots of the admission control
\* are what bounds the turns in flight, the bound never holds a turn back.
TurnsFitSlots ==
    \A r \in Instrumented :
        (pc[r] = "serving" /\ turn[r] = "new") => Cardinality(S!InFlight) < Slots

\* Once it has begun, the shutdown comes to its end, whatever the handlers do.
ShutdownTerminates == (mpc # "running") ~> (mpc = "stopped")
=============================================================================
