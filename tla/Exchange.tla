------------------------------ MODULE Exchange ------------------------------
(***************************************************************************)
(* One instrumented request between the start and the end of its server    *)
(* span: proxyTransport.RoundTrip, modifyResponse, errorHandler, the body  *)
(* observer the response is read through, the observed writer it is        *)
(* written to, and requestState, which decides what the spans say.         *)
(*                                                                         *)
(* The handler is one goroutine driven by net/http/httputil.ReverseProxy.  *)
(* Everything else is free to happen between two of its steps: the client  *)
(* disconnects, the forced close cancels the context, the upstream answers,*)
(* breaks off or falls silent, the client's connection refuses a write.    *)
(* The cause of the context is read three times on the way.                *)
(*                                                                         *)
(* One Read brings at most one server-sent event; an event is reduced to   *)
(* what decides outcomes: which output it concerns, whether it ends the    *)
(* stream, and which of the two JSON decoders understands it.              *)
(***************************************************************************)
EXTENDS Naturals, Sequences

CONSTANTS Outputs,   \* the outputs (choices) a stream may carry
          MaxReads   \* bound: reads of the response body

ASSUME MaxReadsAssumption == MaxReads \in Nat \ {0}

VARIABLES pc,         \* where the handler is
          cause,      \* context.Cause of the request's context
          failure,    \* the last error: of the transport, or of a body read
          struck,     \* the cause at the moment that error arose
          res,        \* the head of the upstream response
          reads,      \* body reads made so far
          obs,        \* bodyObserver, its parser and its accumulator
          body,       \* requestState.body: the result handed over, if any
          status,     \* requestState.statusCode
          upstreamErr,\* requestState.upstreamErr is set
          panicked,   \* requestState.panicRecorded
          writeErr,   \* observedWriter.err is set
          wire,       \* the status written to the client, 0 before
          copied,     \* the client got the body up to its end
          clientSpan, \* outcome of the CLIENT span, "open" until it ends
          serverSpan, \* outcome of the SERVER span, "open" until it ends
          ttft,       \* time-to-first-token spans recorded
          generation, \* outcomes of the generation spans recorded
          outputSpans \* for each output, the outcomes of its spans

upstreamVars == <<failure, struck, res, reads>>
stateVars == <<body, status, upstreamErr, panicked>>
clientVars == <<writeErr, wire, copied>>
outputVars == <<ttft, generation, outputSpans>>
spanVars == <<clientSpan, serverSpan, outputVars>>
vars == <<pc, cause, upstreamVars, obs, stateVars, clientVars, spanVars>>
allButPc == <<cause, upstreamVars, obs, stateVars, clientVars, spanVars>>

Cause == {"none", "canceled", "forced"}
Failure == {"none", "eof", "canceled", "timeout", "broken"}
Outcome == {"success", "upstream_error", "incomplete", "client_cancel",
            "shutdown", "observation_limited", "internal_error"}
PC == {"calling", "failed", "answered", "erring", "upgrading", "tunnel", "head",
       "reading", "writing", "closing", "aborting", "ending", "ended"}

\* A response: 101 stands for a protocol switch, 200 for success, 400 for any
\* status from 400 on.
Response == [status : {101, 200, 400}, sse : BOOLEAN, encoded : BOOLEAN,
             body : BOOLEAN]
Nothing == [status |-> 0, sse |-> FALSE, encoded |-> FALSE, body |-> FALSE]

\* What arrives in a stream.  "finish" ends one output, "whole" brings it and
\* ends it; "done" is [DONE]; "oversized" is a line beyond MaxLine; "other"
\* changes nothing.
Closing == {"done", "completed", "incomplete", "failed"}
AboutOutput == {"token", "finish", "whole"}
Event == LET Is(k, o, v, d, p) == [kind |-> k, output |-> o, valid |-> v,
                                   decodes |-> d, parses |-> p]
         IN {Is(k, o, TRUE, TRUE, p) : k \in AboutOutput, o \in Outputs, p \in BOOLEAN}
            \cup {Is(k, "none", TRUE, d, p) :
                     k \in {"completed", "incomplete", "failed", "other"},
                     d \in BOOLEAN, p \in BOOLEAN}
            \cup {Is("other", "none", FALSE, FALSE, FALSE),
                  Is("done", "none", TRUE, TRUE, TRUE),
                  Is("oversized", "none", TRUE, TRUE, TRUE)}

\* A StreamOutput, reduced to what its outcome depends on.
StreamOutput == [output : Outputs, complete : BOOLEAN, failed : BOOLEAN,
                 limited : BOOLEAN, cutShort : BOOLEAN]

\* ParseResponse of the last payload, or of a body that is no stream.
Payload == {"unparsed", "plain", "terminal", "incomplete", "failed"}
PayloadOf(e) == IF ~e.parses THEN "unparsed"
                ELSE CASE e.kind = "failed" -> "failed"
                       [] e.kind = "incomplete" -> "incomplete"
                       [] e.kind = "completed" -> "terminal"
                       [] OTHER -> "plain"

NoResult == [handed |-> FALSE, err |-> "none", truncated |-> FALSE,
             limited |-> FALSE, dropped |-> FALSE, sawDone |-> FALSE,
             last |-> "unparsed", outputs |-> {}, token |-> FALSE]

Fresh == [partial |-> FALSE, dropped |-> FALSE, sawDone |-> FALSE,
          last |-> "unparsed", groups |-> {}, over |-> {}, closed |-> FALSE,
          limited |-> FALSE, garbled |-> FALSE, cutShort |-> FALSE,
          terminal |-> FALSE, token |-> FALSE, bytes |-> FALSE,
          truncated |-> FALSE]

Init == /\ pc = "calling"
        /\ cause = "none"
        /\ failure = "none" /\ struck = "none" /\ res = Nothing /\ reads = 0
        /\ obs = Fresh
        /\ body = NoResult /\ status = 0 /\ upstreamErr = FALSE /\ panicked = FALSE
        /\ writeErr = FALSE /\ wire = 0 /\ copied = FALSE
        /\ clientSpan = "open" /\ serverSpan = "open"
        /\ ttft = 0 /\ generation = <<>> /\ outputSpans = [o \in Outputs |-> <<>>]

-----------------------------------------------------------------------------
(* The stream accumulator.  `groups` are the outputs that have had data,     *)
(* `over` those that are finished; the rest are still being assembled.       *)

Open(a) == a.groups \ a.over
ObservationGap(a) == a.limited \/ a.garbled

\* Slip: an event that was not understood does not taint what finishes later.
FinishOutputsUntainted(a, done, complete, failed) ==
    {[output |-> o, complete |-> complete, failed |-> failed,
      limited |-> a.limited, cutShort |-> a.cutShort /\ ~complete] : o \in done \cap a.groups}
\* What is handed out when `done` is finished in the state a.
FinishOutputs(a, done, complete, failed) ==
    {[output |-> o, complete |-> complete, failed |-> failed,
      limited |-> a.limited \/ (a.garbled /\ complete),
      cutShort |-> a.cutShort /\ ~complete] : o \in done \cap a.groups}

\* Slip: every event opens an output, also one that is about none.
GroupsAfterAny(a, e) == IF e.decodes THEN a.groups \cup {e.output} ELSE a.groups
\* Data opens an output, unless that output is finished.
GroupsAfter(a, e) ==
    IF e.decodes /\ e.kind \in {"token", "whole"} /\ e.output \notin a.over
    THEN a.groups \cup {e.output} ELSE a.groups

\* StreamAccumulator.Observe: the state after the event and what it finished.
\* An event that is valid JSON but cannot be decoded can still end the stream.
Observe(a, e) ==
    LET grown == GroupsAfter(a, e)
        ends == e.kind \in Closing
        now == CASE ends -> grown
                 [] e.decodes /\ e.kind \in {"finish", "whole"} -> {e.output}
                 [] OTHER -> {}
        mid == [a EXCEPT !.groups = grown,
                         !.closed = ends,
                         !.terminal = ends,
                         !.cutShort = e.kind = "incomplete",
                         !.garbled = @ \/ ~e.decodes,
                         !.limited = @ \/ (e.valid /\ ~e.decodes) \/ (ends /\ a.garbled)]
    IN IF a.closed THEN [state |-> a, outputs |-> {}]
       ELSE [state |-> [mid EXCEPT !.over = @ \cup now],
             outputs |-> FinishOutputs(mid, now \ a.over,
                                       e.kind \notin {"incomplete", "failed"},
                                       e.kind = "failed")]

\* StreamAccumulator.Finish: what was still open is handed out incomplete.
FinishAll(a) == IF a.closed THEN {} ELSE FinishOutputs(a, Open(a), FALSE, FALSE)

-----------------------------------------------------------------------------
(* The parser and the observer *)

\* Parser.dispatchEvent and observeStreamPayload for an event that came whole.
Dispatch(o, e) ==
    LET counted == [o EXCEPT !.partial = FALSE,
                             !.bytes = TRUE,
                             !.sawDone = @ \/ e.kind = "done",
                             !.last = IF e.kind = "done" THEN @ ELSE PayloadOf(e),
                             !.limited = @ \/ o.dropped]
        seen == Observe(counted, e)
        first == /\ ~o.token /\ ~o.dropped
                 /\ ~ObservationGap(seen.state)
                 /\ Open(seen.state) # {} \/ seen.outputs # {}
    IN [state |-> [seen.state EXCEPT !.token = o.token \/ first],
        outputs |-> seen.outputs, first |-> first]

\* Parser.dropLine: the line and the event it belongs to are gone.
Drop(o) == [state |-> [o EXCEPT !.partial = FALSE, !.bytes = TRUE, !.dropped = TRUE],
            outputs |-> {}, first |-> FALSE]

Received(o, e) == IF e.kind = "oversized" THEN Drop(o) ELSE Dispatch(o, e)

\* Nothing is dispatched: bytes of an event that is not complete, or none.
Quiet(o) == [state |-> o, outputs |-> {}, first |-> FALSE]

\* What a Read that returns bytes may bring.
Arrivals ==
    CASE res.encoded -> {Quiet([obs EXCEPT !.bytes = TRUE])}
      [] res.sse /\ ~res.encoded ->
            {Received(obs, e) : e \in Event}
            \cup {Quiet([obs EXCEPT !.bytes = TRUE, !.partial = TRUE])}
      [] OTHER ->
            {[state |-> [obs EXCEPT !.bytes = TRUE, !.token = TRUE, !.truncated = t],
              outputs |-> {}, first |-> ~obs.token] : t \in {obs.truncated, TRUE}}

\* Parser.Finish, on EOF only: an event without its blank line is dispatched.
Rest(o, err) == {Quiet(o)} \cup
                (IF err = "eof" /\ o.partial THEN {Received(o, e) : e \in Event} ELSE {})

\* ParseResponse of what the observer collected.
PayloadsOf(o) == CASE res.sse -> {o.last}
                   [] ~res.sse /\ o.bytes /\ ~o.truncated /\ ~res.encoded -> Payload
                   [] OTHER -> {"unparsed"}

\* The bodyResult: for a stream, with what the accumulator still held.
Result(o, err, p) ==
    [handed |-> TRUE, err |-> err, truncated |-> o.truncated,
     limited |-> o.limited \/ o.dropped, dropped |-> o.dropped,
     sawDone |-> o.sawDone \/ o.terminal, last |-> p,
     outputs |-> FinishAll([o EXCEPT !.limited = @ \/ o.dropped]), token |-> o.token]

\* Slip: done runs as often as it is called.
HandedAgain(o, err, p) == Result(o, err, p)
\* bodyObserver.done: the first call hands the result over.
Handed(o, err, p) == IF body.handed THEN body ELSE Result(o, err, p)

-----------------------------------------------------------------------------
(* What the spans say *)

\* requestState.streamOutputOutcome.
StreamOutputOutcome(x, fallback) ==
    IF status >= 400 \/ x.failed THEN "upstream_error"
    ELSE IF x.cutShort THEN "incomplete"
    ELSE IF x.limited THEN "observation_limited"
    ELSE IF x.complete THEN "success"
    ELSE IF fallback = "success" THEN "incomplete" ELSE fallback

\* One more span for every output of `outs`.
Recorded(spans, outs, fallback) ==
    [o \in Outputs |->
        IF \E x \in outs : x.output = o
        THEN Append(spans[o],
                    StreamOutputOutcome(CHOOSE x \in outs : x.output = o, fallback))
        ELSE spans[o]]

\* requestState.recordTimeToFirstToken: once, and for a 2xx status only.
TimeToFirstToken(first) == IF first /\ status = 200 THEN ttft + 1 ELSE ttft

Terminated == body.sawDone \/ body.last \in {"terminal", "incomplete", "failed"}

\* Slip: only the read side is asked whether the exchange broke off.
BrokenOffByRead == body.err = "canceled"
\* A cancelled read, or a write or flush the client's connection refused.
BrokenOff == body.err = "canceled" \/ writeErr

\* requestState.outcome when nothing interfered with the exchange.
Verdict ==
    IF upstreamErr \/ body.err = "broken" \/ status >= 400 \/ body.last = "failed"
    THEN "upstream_error"
    ELSE IF body.last = "incomplete" THEN "incomplete"
    ELSE IF BrokenOff THEN "client_cancel"
    ELSE IF res.encoded \/ body.truncated \/ body.limited \/ body.dropped
    THEN "observation_limited"
    ELSE IF res.sse /\ status = 200 /\ ~Terminated THEN "incomplete"
    ELSE "success"

\* requestState.outcome: the first of these that applies.
FinalOutcome == IF panicked THEN "internal_error"
                ELSE IF cause = "forced" THEN "shutdown"
                ELSE IF cause = "canceled" THEN "client_cancel"
                ELSE Verdict

-----------------------------------------------------------------------------
(* RoundTrip and errorHandler *)

\* The upstream answers: RoundTrip ends the CLIENT span and returns.
Respond ==
    /\ pc = "calling"
    /\ res' \in Response
    /\ res'.status = 101 => res'.body /\ ~res'.sse /\ ~res'.encoded
    /\ clientSpan' = IF res'.status >= 400 THEN "upstream_error" ELSE "success"
    /\ pc' = "answered"
    /\ UNCHANGED <<cause, failure, struck, reads, obs, stateVars, clientVars, serverSpan, outputVars>>

\* The transport gives up: because the context was cancelled, in which case the
\* error may be anything, or for a reason of its own.
TransportFails ==
    /\ pc = "calling"
    /\ failure' \in {"timeout", "broken"} \cup (IF cause # "none" THEN {"canceled"} ELSE {})
    /\ struck' = cause
    /\ pc' = "failed"
    /\ UNCHANGED <<cause, res, reads, obs, stateVars, clientVars, spanVars>>

\* Slip: the error is believed and the cause not looked at.
ClientOutcomeByError == IF failure = "canceled" THEN "client_cancel" ELSE "upstream_error"
\* What RoundTrip makes of an error, by the cause it reads now.
ClientOutcome == IF cause = "forced" THEN "shutdown"
                 ELSE IF cause # "none" \/ failure = "canceled" THEN "client_cancel"
                 ELSE "upstream_error"

SettleClientSpan ==
    /\ pc = "failed"
    /\ clientSpan' = ClientOutcome
    /\ pc' = "erring"
    /\ UNCHANGED <<cause, upstreamVars, obs, stateVars, clientVars, serverSpan, outputVars>>

\* errorHandler reads the cause again: the overload answer of a forced close ...
AnswerForcedClose ==
    /\ pc = "erring"
    /\ cause = "forced"
    /\ status' = IF status = 0 THEN 503 ELSE status
    /\ wire' = 503
    /\ pc' = "ending"
    /\ UNCHANGED <<cause, upstreamVars, obs, body, upstreamErr, panicked, writeErr, copied,
                   spanVars>>

\* ... nothing for a client that is gone ...
AnswerNobody ==
    /\ pc = "erring"
    /\ cause = "canceled" \/ (cause = "none" /\ failure = "canceled")
    /\ pc' = "ending"
    /\ UNCHANGED allButPc

\* Slip: every failure is answered 502 but a timeout is recorded as 504.
BadGatewayOnly ==
    /\ pc = "erring"
    /\ cause = "none" /\ failure # "canceled"
    /\ status' = IF failure = "timeout" THEN 504 ELSE 502
    /\ wire' = 502
    /\ upstreamErr' = TRUE
    /\ pc' = "ending"
    /\ UNCHANGED <<cause, upstreamVars, obs, body, panicked, writeErr, copied, spanVars>>

\* ... and 504 or 502 for an upstream that failed.
AnswerGatewayError ==
    /\ pc = "erring"
    /\ cause = "none" /\ failure # "canceled"
    /\ status' = IF failure = "timeout" THEN 504 ELSE 502
    /\ wire' = status'
    /\ upstreamErr' = TRUE
    /\ pc' = "ending"
    /\ UNCHANGED <<cause, upstreamVars, obs, body, panicked, writeErr, copied, spanVars>>

-----------------------------------------------------------------------------
(* The response *)

\* modifyResponse: responseStarted, and the observer around the body.
ModifyResponse ==
    /\ pc = "answered"
    /\ status' = res.status
    /\ pc' = IF res.status = 101 THEN "upgrading" ELSE "head"
    /\ UNCHANGED <<cause, upstreamVars, obs, body, upstreamErr, panicked, clientVars,
                   spanVars>>

\* ReverseProxy switches protocols, or finds that it cannot.
Upgrade ==
    /\ pc = "upgrading"
    /\ wire' = 101
    /\ pc' = "tunnel"
    /\ UNCHANGED <<cause, upstreamVars, obs, stateVars, writeErr, copied, spanVars>>

UpgradeFails ==
    /\ pc = "upgrading"
    /\ failure' = "broken" /\ struck' = cause
    /\ pc' = "erring"
    /\ UNCHANGED <<cause, res, reads, obs, stateVars, clientVars, spanVars>>

TunnelEnds ==
    /\ pc = "tunnel"
    /\ pc' = "ending"
    /\ UNCHANGED allButPc

\* ReverseProxy writes the head; without a body that is all.
SendHead ==
    /\ pc = "head"
    /\ wire' = res.status
    /\ copied' = ~res.body
    /\ pc' = IF res.body THEN "reading" ELSE "ending"
    /\ UNCHANGED <<cause, upstreamVars, obs, stateVars, writeErr, spanVars>>

\* bodyObserver.Read: what it brings is observed, then the error, if there is
\* one, ends the observation.  ReverseProxy still has the bytes to write.
Read(bytes, err) ==
    /\ pc = "reading"
    /\ bytes => reads < MaxReads
    /\ bytes \/ err # "none"
    /\ err = "canceled" => cause # "none"
    /\ reads' = IF bytes THEN reads + 1 ELSE reads
    /\ failure' = err
    /\ struck' = IF err = "none" THEN struck ELSE cause
    /\ \E got \in IF bytes THEN Arrivals ELSE {Quiet(obs)} :
          \E rest \in Rest(got.state, err) :
             \E p \in PayloadsOf(rest.state) :
                /\ obs' = rest.state
                /\ ttft' = TimeToFirstToken(got.first \/ rest.first)
                /\ outputSpans' = Recorded(Recorded(outputSpans, got.outputs, "success"),
                                           rest.outputs, "success")
                /\ body' = IF err = "none" THEN body
                           ELSE Handed(rest.state, IF err = "eof" THEN "none" ELSE err, p)
    /\ pc' = IF bytes THEN "writing" ELSE IF err = "eof" THEN "closing" ELSE "aborting"
    /\ UNCHANGED <<cause, res, status, upstreamErr, panicked, clientVars, clientSpan,
                   serverSpan, generation>>

\* The bytes go to the client; then comes the error of the Read, if any.
Write ==
    /\ pc = "writing"
    /\ pc' = IF failure = "none" THEN "reading"
             ELSE IF failure = "eof" THEN "closing" ELSE "aborting"
    /\ UNCHANGED allButPc

WriteFails ==
    /\ pc = "writing"
    /\ writeErr' = TRUE
    /\ pc' = "aborting"
    /\ UNCHANGED <<cause, upstreamVars, obs, stateVars, wire, copied, spanVars>>

\* FlushError: ReverseProxy ignores the error, observedWriter remembers it.
FlushFails ==
    /\ pc \in {"reading", "writing", "closing"}
    /\ writeErr' = TRUE
    /\ UNCHANGED <<pc, cause, upstreamVars, obs, stateVars, wire, copied, spanVars>>

\* The whole body is copied and closed.
CloseBody ==
    /\ pc = "closing"
    /\ copied' = TRUE
    /\ \E p \in PayloadsOf(obs) : body' = Handed(obs, "none", p)
    /\ pc' = "ending"
    /\ UNCHANGED <<cause, upstreamVars, obs, status, upstreamErr, panicked, writeErr, wire,
                   spanVars>>

\* Slip: the span ends before the body is closed.
AbortWithoutClose ==
    /\ pc = "aborting"
    /\ pc' = "ending"
    /\ UNCHANGED allButPc

\* Slip: end is not deferred, and the panic passes it by.
AbortUnrecorded ==
    /\ pc = "aborting"
    /\ pc' = "gone"
    /\ UNCHANGED allButPc

\* ReverseProxy panics with http.ErrAbortHandler; on the way out its deferred
\* Close hands the result over, and recordPanic does not count this panic.
Abort ==
    /\ pc = "aborting"
    /\ \E p \in PayloadsOf(obs) : body' = Handed(obs, "none", p)
    /\ pc' = "ending"
    /\ UNCHANGED <<cause, upstreamVars, obs, status, upstreamErr, panicked, clientVars,
                   spanVars>>

\* Any other panic, in the transport or while the body is copied: recordPanic.
HandlerPanics ==
    /\ pc \in {"calling", "reading", "writing"}
    /\ panicked' = TRUE
    /\ pc' = "ending"
    /\ UNCHANGED <<cause, upstreamVars, obs, body, status, upstreamErr, clientVars,
                   spanVars>>

-----------------------------------------------------------------------------
(* The end *)

\* emitPhaseSpans: a generation span for a stream that brought a token.
GenerationSpans(out) ==
    IF body.token /\ res.sse /\ status = 200 THEN Append(generation, out) ELSE generation

\* requestState.end: the outcome is decided once, for the span and for all that
\* is still to be recorded under it.
End ==
    /\ pc = "ending"
    /\ serverSpan' = FinalOutcome
    /\ outputSpans' = Recorded(outputSpans, body.outputs, FinalOutcome)
    /\ generation' = GenerationSpans(FinalOutcome)
    /\ pc' = "ended"
    /\ UNCHANGED <<cause, upstreamVars, obs, stateVars, clientVars, clientSpan, ttft>>

\* The first cause stays.
ClientGone ==
    /\ pc # "ended" /\ cause = "none"
    /\ cause' = "canceled"
    /\ UNCHANGED <<pc, upstreamVars, obs, stateVars, clientVars, spanVars>>

ForcedClose ==
    /\ pc # "ended" /\ cause = "none"
    /\ cause' = "forced"
    /\ UNCHANGED <<pc, upstreamVars, obs, stateVars, clientVars, spanVars>>

RoundTrip == Respond \/ TransportFails \/ SettleClientSpan
HandleError == AnswerForcedClose \/ AnswerNobody \/ AnswerGatewayError
Copy == \/ \E bytes \in BOOLEAN, err \in {"none", "eof", "broken", "canceled"} : Read(bytes, err)
        \/ Write \/ WriteFails \/ FlushFails \/ CloseBody \/ Abort

Next == \/ RoundTrip \/ HandleError
        \/ ModifyResponse \/ Upgrade \/ UpgradeFails \/ TunnelEnds \/ SendHead
        \/ Copy \/ HandlerPanics \/ End
        \/ ClientGone \/ ForcedClose

Spec == Init /\ [][Next]_vars

(* Fairness.  The handler's own steps are taken.  Once the context is       *)
(* cancelled the transport stops waiting, the body of the response breaks   *)
(* off, a tunnel is closed and a blocked write returns: the client's        *)
(* connection is gone, or closed by http.Server.Close after a forced close. *)
(* Nothing makes an upstream answer or a client read.                       *)
Fairness ==
    /\ WF_vars(SettleClientSpan \/ HandleError)
    /\ WF_vars(ModifyResponse \/ Upgrade \/ UpgradeFails \/ SendHead)
    /\ WF_vars(CloseBody \/ Abort)
    /\ WF_vars(End)
    /\ WF_vars(cause # "none" /\ (TransportFails \/ TunnelEnds))
    /\ WF_vars(cause # "none" /\ (Write \/ WriteFails))
    /\ SF_vars(cause # "none" /\ \E bytes \in BOOLEAN : Read(bytes, "canceled"))

FairSpec == Spec /\ Fairness

-----------------------------------------------------------------------------
(* Properties *)

\* Every variable has its type.
TypeOK ==
    /\ pc \in PC /\ cause \in Cause
    /\ failure \in Failure /\ struck \in Cause
    /\ res \in Response \cup {Nothing} /\ reads \in 0..MaxReads
    /\ obs.groups \subseteq Outputs /\ obs.over \subseteq Outputs /\ obs.last \in Payload
    /\ body.last \in Payload /\ body.outputs \subseteq StreamOutput
    /\ status \in {0, 101, 200, 400, 502, 503, 504}
    /\ {upstreamErr, panicked, writeErr, copied} \subseteq BOOLEAN
    /\ wire \in {0, 101, 200, 400, 502, 503, 504}
    /\ {clientSpan, serverSpan} \subseteq Outcome \cup {"open"}
    /\ ttft \in Nat
    /\ generation \in Seq(Outcome)
    /\ outputSpans \in [Outputs -> Seq(Outcome)]

\* "Success" means that the client has all of it: nobody cancelled, nothing that
\* was written failed, the body was copied to its end, and a stream was seen to
\* end with nothing missing from what was observed (state.go:158-198).
SuccessIsWhole ==
    serverSpan = "success" =>
        /\ cause = "none" /\ ~writeErr /\ ~panicked
        /\ res.status = 101 \/ (res.status = 200 /\ copied)
        /\ res.sse => /\ obs.terminal \/ obs.sawDone
                      /\ ~obs.dropped /\ ~ObservationGap(obs)

\* The CLIENT span and the SERVER span read the cause at different times and
\* still never tell two stories about who broke the request off.
SpansAgree ==
    pc = "ended" =>
        /\ clientSpan = "shutdown" => serverSpan = "shutdown"
        /\ clientSpan = "client_cancel" => serverSpan = "client_cancel"
        /\ clientSpan = "open" => panicked

\* A failure that struck after the context had been cancelled is not blamed on
\* the upstream by either span, whatever error it surfaced as; one with no
\* cancellation at all is, although Close follows and reports no error.
BlameFollowsCause ==
    pc = "ended" /\ ~panicked =>
        /\ failure \notin {"none", "eof"} /\ struck # "none" =>
              /\ serverSpan \in {"shutdown", "client_cancel"}
              /\ res = Nothing => clientSpan = serverSpan
        /\ failure \notin {"none", "eof"} /\ cause = "none" => serverSpan = "upstream_error"

\* The two spans of a request blame the same party, and the right one.
BlameIsRight == SpansAgree /\ BlameFollowsCause

\* Every output that had data gets one span: while the stream runs or at the
\* end of the request, never both, also when the copy is aborted.
OutputsRecordedOnce ==
    \A o \in Outputs :
        /\ Len(outputSpans[o]) <= 1
        /\ pc = "ended" /\ ~panicked =>
              Len(outputSpans[o]) = IF o \in obs.groups THEN 1 ELSE 0

\* No output is recorded as a success once something of the stream before it
\* was dropped or not understood.
NoSuccessAcrossGap ==
    [][\A o \in Outputs :
         Len(outputSpans'[o]) > Len(outputSpans[o]) /\ (obs.dropped \/ ObservationGap(obs))
            => outputSpans'[o][Len(outputSpans'[o])] # "success"]_vars

\* The first token is reported once, and a generation span exists exactly when a
\* stream reported one, although the two are recorded at different times.
PhaseSpansPair ==
    /\ ttft <= 1
    /\ pc = "ended" /\ ~panicked =>
          Len(generation) = IF ttft = 1 /\ res.sse THEN 1 ELSE 0

\* The spans under the SERVER span are recorded once, each by the right one of several
\* places that could.
ChildSpansOnce == OutputsRecordedOnce /\ PhaseSpansPair

\* The recorded status is the one the client was sent (but for a protocol switch
\* that failed while the proxy was closing: it stays recorded as 101).
StatusIsOnTheWire ==
    wire # 0 /\ pc \in {"ending", "ended"} =>
        status = wire \/ (res.status = 101 /\ wire = 503)

\* An error inside a stream is recorded on the SERVER span, as its test says
\* (proxy_feature_test.go:2214): a request with an output that the stream's error
\* ended is not a success, if the last payload is one ParseResponse understands.
StreamErrorIsRecorded ==
    serverSpan = "success" /\ body.last # "unparsed" =>
        \A o \in Outputs : \A i \in DOMAIN outputSpans[o] : outputSpans[o][i] # "upstream_error"

\* A cancelled exchange ends: what Admission assumes of handlers.
CancelledExchangeEnds == cause # "none" ~> pc = "ended"
=============================================================================
