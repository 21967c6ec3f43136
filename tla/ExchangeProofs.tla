--------------------------- MODULE ExchangeProofs ---------------------------
(***************************************************************************)
(* Theorems about Exchange, for every set of outputs and any number of     *)
(* reads: what the spans of a request say, whatever interferes with it.    *)
(*                                                                         *)
(* The argument has two halves.  `Sound` says what the observer knows of   *)
(* the stream, and `Follows` what one delivery may change in it; with them *)
(* the outputs recorded so far are those both opened and finished, and the *)
(* result handed over has the others.  The rest follows the handler: which *)
(* error it has met, who had cancelled then, and what requestState knows   *)
(* at each place.  The cause never changes once it is set, so that readers *)
(* at different times can only disagree in one direction.                  *)
(***************************************************************************)
EXTENDS Exchange, SequenceTheorems, TLAPS

Observer == [partial : BOOLEAN, dropped : BOOLEAN, sawDone : BOOLEAN, last : Payload,
             groups : SUBSET Outputs, over : SUBSET Outputs, closed : BOOLEAN,
             limited : BOOLEAN, garbled : BOOLEAN, cutShort : BOOLEAN, terminal : BOOLEAN,
             token : BOOLEAN, bytes : BOOLEAN, truncated : BOOLEAN]

BodyResult == [handed : BOOLEAN, err : Failure, truncated : BOOLEAN, limited : BOOLEAN,
               dropped : BOOLEAN, sawDone : BOOLEAN, last : Payload,
               outputs : SUBSET StreamOutput, token : BOOLEAN]

\* What an observer that has seen part of a stream knows.
Sound(o) == /\ o \in Observer
            /\ o.closed = o.terminal
            /\ o.closed => o.groups \subseteq o.over
            /\ o.sawDone => o.terminal
            /\ o.last \in {"terminal", "incomplete", "failed"} => o.terminal
            /\ o.garbled /\ o.terminal => o.limited

\* The outputs that have been opened and finished.
Finished(o) == o.groups \cap o.over
Gap(o) == o.dropped \/ ObservationGap(o)
OutputsOf(outs) == {x.output : x \in outs}

\* What a delivery r to the observer o may change and hand out.
Follows(o, r) ==
    /\ Sound(r.state)
    /\ r.outputs \subseteq StreamOutput
    /\ Finished(o) \subseteq Finished(r.state)
    /\ OutputsOf(r.outputs) = Finished(r.state) \ Finished(o)
    /\ r.first \in BOOLEAN
    /\ r.first => ~o.token
    /\ r.state.token = (o.token \/ r.first)
    /\ Gap(o) => Gap(r.state) /\ \A x \in r.outputs : x.complete => x.limited

Copying == {"reading", "writing", "closing", "aborting"}
Over == {"ending", "ended"}

\* What is known before anything of the body has been read, place by place.
BeforeInv ==
    /\ pc \notin Copying \cup Over =>
          obs = Fresh /\ body = NoResult /\ ~copied /\ ~writeErr /\ ~panicked /\ ~upstreamErr
    /\ pc \in {"calling", "failed"} =>
          res = Nothing /\ status = 0 /\ wire = 0 /\ clientSpan = "open"
    /\ pc = "calling" => failure = "none"
    /\ pc = "failed" => failure \in {"timeout", "broken", "canceled"}
    /\ pc = "answered" => res \in Response /\ status = 0 /\ wire = 0 /\ failure = "none"
    /\ pc = "erring" => /\ failure \in {"timeout", "broken", "canceled"}
                        /\ wire = 0
                        /\ \/ status = 0 /\ res = Nothing
                           \/ status = 101 /\ res \in Response /\ res.status = 101
    /\ pc \in {"upgrading", "tunnel"} =>
          res \in Response /\ res.status = 101 /\ status = 101 /\ failure = "none"
    /\ pc = "upgrading" => wire = 0
    /\ pc = "tunnel" => wire = 101
    /\ pc = "head" => /\ res \in Response /\ status = res.status /\ status # 101
                      /\ wire = 0 /\ failure = "none"

\* What is known while the body is copied.
CopyInv ==
    /\ pc \in Copying => /\ res \in Response /\ status = res.status /\ status # 101
                         /\ wire = status /\ ~panicked /\ ~upstreamErr
                         /\ failure \in {"none", "eof", "broken", "canceled"}
                         /\ body.handed <=> failure # "none"
                         /\ failure = "broken" => body.err = "broken"
    /\ pc = "reading" => failure = "none"
    /\ pc = "closing" => failure = "eof"
    /\ pc = "aborting" => writeErr \/ failure \in {"broken", "canceled"}

\* What the result says of the observation, once it has been handed over.
HandedInv ==
    /\ ~body.handed => body = NoResult
    /\ body.handed => /\ body.token = obs.token
                      /\ body.dropped = obs.dropped
                      /\ body.limited = (obs.limited \/ obs.dropped)
                      /\ body.sawDone = (obs.sawDone \/ obs.terminal)
                      /\ res \in Response
                      /\ res.sse => body.last = obs.last
                      /\ OutputsOf(body.outputs) = obs.groups \ obs.over
    /\ \A x \in body.outputs : ~x.complete

\* Who had cancelled when what went wrong, and what the CLIENT span says of it.
CauseInv ==
    /\ struck # "none" => cause = struck
    /\ failure = "canceled" => struck # "none"
    /\ clientSpan = "shutdown" => cause = "forced"
    /\ clientSpan = "client_cancel" => cause = "canceled"
    /\ clientSpan = "open" => pc \in {"calling", "failed"} \/ panicked
    /\ clientSpan \in {"shutdown", "client_cancel"} => pc \in {"erring"} \cup Over /\ ~panicked
    /\ res = Nothing /\ clientSpan # "open" /\ struck # "none" =>
          clientSpan = (IF struck = "forced" THEN "shutdown" ELSE "client_cancel")

\* How the handler can have come to the end.
EndInv ==
    pc \in Over /\ ~panicked =>
       /\ ~body.handed => obs = Fresh
       /\ failure \notin {"none", "eof"} /\ cause = "none" => upstreamErr \/ body.err = "broken"
       /\ \/ copied \/ res.status = 101 \/ upstreamErr
          \/ cause # "none" \/ writeErr \/ body.err = "broken"
       /\ upstreamErr \/ cause # "none" \/ (res \in Response /\ status = res.status)

\* One span for each of `outs`, and none for any other output.
OneSpanEach(spans, outs) == \A o \in Outputs : Len(spans[o]) = IF o \in outs THEN 1 ELSE 0

\* The spans recorded so far.
SpansInv ==
    /\ ttft = IF obs.token /\ status = 200 THEN 1 ELSE 0
    /\ pc # "ended" => /\ serverSpan = "open" /\ generation = <<>>
                       /\ OneSpanEach(outputSpans, Finished(obs))
    /\ pc = "ended" =>
          /\ serverSpan = FinalOutcome
          /\ Len(generation) = IF body.token /\ res.sse /\ status = 200 THEN 1 ELSE 0
          /\ OneSpanEach(outputSpans, Finished(obs) \cup OutputsOf(body.outputs))

\* The inductive invariant.
IInv == /\ TypeOK
        /\ Sound(obs)
        /\ body \in BodyResult
        /\ res.status = 101 => ~res.sse
        /\ BeforeInv
        /\ CopyInv
        /\ HandedInv
        /\ CauseInv
        /\ EndInv
        /\ SpansInv
        /\ StatusIsOnTheWire

-----------------------------------------------------------------------------
(* The observer *)

\* What is used of the shape of an event.
LEMMA EventFields ==
    ASSUME NEW e \in Event
    PROVE  /\ e.valid \in BOOLEAN /\ e.decodes \in BOOLEAN /\ e.parses \in BOOLEAN
           /\ e.kind \in AboutOutput => e.decodes /\ e.output \in Outputs
           /\ e.kind \in Closing => e.valid
<1> DEFINE Is(k, o, v, d, p) == [kind |-> k, output |-> o, valid |-> v,
                                 decodes |-> d, parses |-> p]
<1>1. CASE \E k \in AboutOutput, o \in Outputs, p \in BOOLEAN : e = Is(k, o, TRUE, TRUE, p)
  BY <1>1 DEF AboutOutput, Closing
<1>2. CASE \E k \in {"completed", "incomplete", "failed", "other"}, d \in BOOLEAN,
              p \in BOOLEAN : e = Is(k, "none", TRUE, d, p)
  BY <1>2 DEF AboutOutput, Closing
<1>3. CASE e = Is("other", "none", FALSE, FALSE, FALSE)
  BY <1>3 DEF AboutOutput, Closing
<1>4. CASE e = Is("done", "none", TRUE, TRUE, TRUE)
  BY <1>4 DEF AboutOutput, Closing
<1>5. CASE e = Is("oversized", "none", TRUE, TRUE, TRUE)
  BY <1>5 DEF AboutOutput, Closing
<1> QED BY <1>1, <1>2, <1>3, <1>4, <1>5 DEF Event

LEMMA PayloadOfEvent ==
    ASSUME NEW e \in Event
    PROVE  /\ PayloadOf(e) \in Payload
           /\ PayloadOf(e) \in {"terminal", "incomplete", "failed"} => e.kind \in Closing
BY DEF PayloadOf, Payload, Closing

\* What the accumulator hands out for the outputs that are finished now.
LEMMA FinishOutputsOf ==
    ASSUME NEW a \in Observer, NEW done, NEW complete \in BOOLEAN, NEW failed \in BOOLEAN
    PROVE  LET outs == FinishOutputs(a, done, complete, failed)
           IN /\ outs \subseteq StreamOutput
              /\ OutputsOf(outs) = done \cap a.groups
              /\ \A x \in outs : /\ x.complete = complete
                                 /\ a.limited => x.limited
                                 /\ a.garbled /\ complete => x.limited
<1> DEFINE outs == FinishOutputs(a, done, complete, failed)
           One(o) == [output |-> o, complete |-> complete, failed |-> failed,
                      limited |-> a.limited \/ (a.garbled /\ complete),
                      cutShort |-> a.cutShort /\ ~complete]
<1>1. outs = {One(o) : o \in done \cap a.groups}
  BY DEF FinishOutputs
<1>2. a.groups \subseteq Outputs /\ {a.limited, a.garbled, a.cutShort} \subseteq BOOLEAN
  BY DEF Observer
<1>3. \A o \in done \cap a.groups : One(o) \in StreamOutput
  BY <1>2 DEF StreamOutput
<1>a. \A o : /\ One(o).output = o /\ One(o).complete = complete
             /\ One(o).limited = (a.limited \/ (a.garbled /\ complete))
  OBVIOUS
<1> HIDE DEF outs, One
<1>4. outs \subseteq StreamOutput
  BY <1>1, <1>3
<1>5. OutputsOf(outs) = done \cap a.groups
  BY <1>1, <1>a DEF OutputsOf
<1>6. \A x \in outs : /\ x.complete = complete
                      /\ a.limited => x.limited
                      /\ a.garbled /\ complete => x.limited
  BY <1>1, <1>a
<1> QED BY <1>4, <1>5, <1>6 DEF outs

\* Nothing happens to an observer by looking at it.
LEMMA QuietFollows ==
    ASSUME NEW o, Sound(o)
    PROVE  Follows(o, Quiet(o))
<1>1. Quiet(o).state = o /\ Quiet(o).outputs = {} /\ Quiet(o).first = FALSE
  BY DEF Quiet
<1>2. o.token \in BOOLEAN
  BY DEF Sound, Observer
<1> QED BY <1>1, <1>2 DEF Follows, OutputsOf

\* Bytes that are no event leave all that matters of the observer alone.
LEMMA BytesFollow ==
    ASSUME NEW o, Sound(o), NEW r, r.state \in Observer, r.outputs = {}, r.first \in BOOLEAN,
           r.first => ~o.token, r.state.token = (o.token \/ r.first),
           r.state.sawDone = o.sawDone, r.state.last = o.last,
           r.state.groups = o.groups, r.state.over = o.over,
           r.state.closed = o.closed, r.state.terminal = o.terminal,
           r.state.limited = o.limited, r.state.garbled = o.garbled,
           o.dropped => r.state.dropped
    PROVE  Follows(o, r)
<1>1. Sound(r.state)
  BY DEF Sound
<1>2. Finished(r.state) = Finished(o) /\ (Gap(o) => Gap(r.state))
  BY DEF Finished, Gap, ObservationGap
<1> QED BY <1>1, <1>2 DEF Follows, OutputsOf

LEMMA DropFollows ==
    ASSUME NEW o, Sound(o)
    PROVE  Follows(o, Drop(o))
<1> DEFINE s == Drop(o).state
<1>1. s = [o EXCEPT !.partial = FALSE, !.bytes = TRUE, !.dropped = TRUE]
  BY DEF Drop
<1> HIDE DEF s
<1>2. o \in Observer
  BY DEF Sound
<1>3. /\ s \in Observer /\ s.token = o.token /\ s.sawDone = o.sawDone /\ s.last = o.last
      /\ s.groups = o.groups /\ s.over = o.over /\ s.closed = o.closed
      /\ s.terminal = o.terminal /\ s.limited = o.limited /\ s.garbled = o.garbled
      /\ s.dropped
  BY <1>1, <1>2 DEF Observer
<1>4. Drop(o).outputs = {} /\ Drop(o).first = FALSE
  BY DEF Drop
<1>5. o.token \in BOOLEAN
  BY <1>2 DEF Observer
<1> QED BY <1>3, <1>4, <1>5, BytesFollow DEF s

\* What one event does to the accumulator a: `seen` is what it leaves.
LEMMA ObserveFollows ==
    ASSUME NEW a \in Observer, NEW e \in Event,
           a.closed = a.terminal, a.closed => a.groups \subseteq a.over,
           a.garbled /\ a.terminal => a.limited
    PROVE  LET seen == Observe(a, e)
               s == seen.state
           IN /\ s \in Observer
              /\ s.partial = a.partial /\ s.bytes = a.bytes /\ s.truncated = a.truncated
              /\ s.dropped = a.dropped /\ s.sawDone = a.sawDone
              /\ s.last = a.last /\ s.token = a.token
              /\ s.closed = s.terminal
              /\ s.closed => s.groups \subseteq s.over
              /\ s.terminal = (a.terminal \/ e.kind \in Closing)
              /\ s.garbled /\ s.terminal => s.limited
              /\ a.limited => s.limited
              /\ a.garbled => s.garbled
              /\ Finished(a) \subseteq Finished(s)
              /\ seen.outputs \subseteq StreamOutput
              /\ OutputsOf(seen.outputs) = Finished(s) \ Finished(a)
              /\ ObservationGap(a) => \A x \in seen.outputs : x.complete => x.limited
<1> DEFINE grown == GroupsAfter(a, e)
           ends == e.kind \in Closing
           finishes == e.decodes /\ e.kind \in {"finish", "whole"}
           now == CASE ends -> grown
                    [] e.decodes /\ e.kind \in {"finish", "whole"} -> {e.output}
                    [] OTHER -> {}
           mid == [a EXCEPT !.groups = grown,
                            !.closed = ends,
                            !.terminal = ends,
                            !.cutShort = e.kind = "incomplete",
                            !.garbled = @ \/ ~e.decodes,
                            !.limited = @ \/ (e.valid /\ ~e.decodes) \/ (ends /\ a.garbled)]
           complete == e.kind \notin {"incomplete", "failed"}
           failed == e.kind = "failed"
           garbled == a.garbled \/ ~e.decodes
           limited == a.limited \/ (e.valid /\ ~e.decodes) \/ (ends /\ a.garbled)
           cut == e.kind = "incomplete"
           s == [mid EXCEPT !.over = @ \cup now]
           outs == FinishOutputs(mid, now \ a.over, complete, failed)
<1>0. /\ {a.partial, a.dropped, a.sawDone, a.closed, a.limited, a.garbled, a.cutShort,
           a.terminal, a.token, a.bytes, a.truncated} \subseteq BOOLEAN
      /\ a.last \in Payload /\ a.groups \subseteq Outputs /\ a.over \subseteq Outputs
  BY DEF Observer
<1>1. CASE a.closed
  <2>1. Observe(a, e).state = a /\ Observe(a, e).outputs = {}
    BY <1>1 DEF Observe
  <2> QED BY <1>0, <1>1, <2>1 DEF OutputsOf
<1>2. CASE ~a.closed
  <2>1. Observe(a, e) = [state |-> s, outputs |-> outs]
    BY <1>2 DEF Observe
  <2>2. /\ e.valid \in BOOLEAN /\ e.decodes \in BOOLEAN
        /\ e.kind \in AboutOutput => e.decodes /\ e.output \in Outputs
        /\ ends => e.valid
    BY EventFields
  <2>3. grown \subseteq Outputs /\ a.groups \subseteq grown /\ grown \ a.groups \subseteq Outputs \ a.over
    BY <2>2 DEF GroupsAfter, AboutOutput, Observer
  <2>4. now \subseteq Outputs /\ (ends => now = grown)
    <3>1. finishes => e.output \in Outputs /\ ~ends
      BY <2>2 DEF AboutOutput, Closing
    <3>2. now = IF ends THEN grown ELSE IF finishes THEN {e.output} ELSE {}
      BY <3>1
    <3> QED BY <2>3, <3>1, <3>2
  <2>c. complete \in BOOLEAN /\ failed \in BOOLEAN /\ ends \in BOOLEAN
    OBVIOUS
  <2> HIDE DEF grown, now, complete, failed
  <2>5. /\ mid \in Observer /\ mid.groups = grown /\ mid.over = a.over
        /\ mid.closed = ends /\ mid.terminal = ends
        /\ mid.garbled = (a.garbled \/ ~e.decodes)
        /\ mid.limited = (a.limited \/ (e.valid /\ ~e.decodes) \/ (ends /\ a.garbled))
        /\ mid.partial = a.partial /\ mid.bytes = a.bytes /\ mid.truncated = a.truncated
        /\ mid.dropped = a.dropped /\ mid.sawDone = a.sawDone
        /\ mid.last = a.last /\ mid.token = a.token
    <3>1. a = [partial |-> a.partial, dropped |-> a.dropped, sawDone |-> a.sawDone,
               last |-> a.last, groups |-> a.groups, over |-> a.over, closed |-> a.closed,
               limited |-> a.limited, garbled |-> a.garbled, cutShort |-> a.cutShort,
               terminal |-> a.terminal, token |-> a.token, bytes |-> a.bytes,
               truncated |-> a.truncated]
      BY DEF Observer
    <3>2. mid = [a EXCEPT !.groups = grown, !.closed = ends, !.terminal = ends,
                          !.cutShort = cut, !.garbled = garbled, !.limited = limited]
      OBVIOUS
    <3>3. {ends, cut, garbled, limited} \subseteq BOOLEAN
      BY <1>0, <2>2
    <3> HIDE DEF mid, ends, cut, garbled, limited
    <3>4. mid = [partial |-> a.partial, dropped |-> a.dropped, sawDone |-> a.sawDone,
                 last |-> a.last, groups |-> grown, over |-> a.over, closed |-> ends,
                 limited |-> limited, garbled |-> garbled, cutShort |-> cut,
                 terminal |-> ends, token |-> a.token, bytes |-> a.bytes,
                 truncated |-> a.truncated]
      BY <3>1, <3>2
    <3>5. mid \in Observer
      BY <1>0, <2>3, <3>3, <3>4 DEF Observer
    <3> QED BY <3>4, <3>5 DEF garbled, limited, ends
  <2> HIDE DEF mid
  <2>6. /\ s \in Observer /\ s.groups = grown /\ s.over = a.over \cup now
        /\ s.closed = ends /\ s.terminal = ends
        /\ s.garbled = mid.garbled /\ s.limited = mid.limited
        /\ s.partial = a.partial /\ s.bytes = a.bytes /\ s.truncated = a.truncated
        /\ s.dropped = a.dropped /\ s.sawDone = a.sawDone
        /\ s.last = a.last /\ s.token = a.token
    BY <2>4, <2>5 DEF Observer
  <2>7. /\ outs \subseteq StreamOutput
        /\ OutputsOf(outs) = (now \ a.over) \cap grown
        /\ \A x \in outs : /\ x.complete = complete
                           /\ mid.limited => x.limited
                           /\ mid.garbled /\ complete => x.limited
    <3> DEFINE done == now \ a.over
    <3> HIDE DEF done
    <3>a. PICK c \in BOOLEAN, f \in BOOLEAN : c = complete /\ f = failed
      BY <2>c
    <3>1. outs = FinishOutputs(mid, done, c, f)
      BY <3>a DEF done
    <3> HIDE DEF outs
    <3>2. /\ outs \subseteq StreamOutput
          /\ OutputsOf(outs) = done \cap mid.groups
          /\ \A x \in outs : /\ x.complete = c
                             /\ mid.limited => x.limited
                             /\ mid.garbled /\ c => x.limited
      BY <2>5, <3>1, FinishOutputsOf
    <3> QED BY <2>5, <3>a, <3>2 DEF done
  <2> HIDE DEF s, outs
  <2>8. /\ s.closed = s.terminal /\ (s.closed => s.groups \subseteq s.over)
        /\ s.terminal = (a.terminal \/ ends)
    BY <1>0, <1>2, <2>4, <2>6
  <2>9. s.garbled /\ s.terminal => s.limited
    BY <2>2, <2>5, <2>6
  <2>10. (a.limited => s.limited) /\ (a.garbled => s.garbled)
    BY <2>5, <2>6
  <2>11. Finished(a) \subseteq Finished(s) /\ OutputsOf(outs) = Finished(s) \ Finished(a)
    BY <2>3, <2>6, <2>7 DEF Finished
  <2>12. ObservationGap(a) => \A x \in outs : x.complete => x.limited
    BY <2>5, <2>7 DEF ObservationGap
  <2>13. Observe(a, e).state = s /\ Observe(a, e).outputs = outs
    BY <2>1
  <2> QED BY <2>6, <2>7, <2>8, <2>9, <2>10, <2>11, <2>12, <2>13
<1> QED BY <1>1, <1>2

LEMMA DispatchFollows ==
    ASSUME NEW o, Sound(o), NEW e \in Event
    PROVE  Follows(o, Dispatch(o, e))
<1> DEFINE sawDone == o.sawDone \/ e.kind = "done"
           last == IF e.kind = "done" THEN o.last ELSE PayloadOf(e)
           limited == o.limited \/ o.dropped
           counted == [o EXCEPT !.partial = FALSE, !.bytes = TRUE, !.sawDone = sawDone,
                                !.last = last, !.limited = limited]
           seen == Observe(counted, e)
           first == /\ ~o.token /\ ~o.dropped
                    /\ ~ObservationGap(seen.state)
                    /\ Open(seen.state) # {} \/ seen.outputs # {}
           token == o.token \/ first
           state == [seen.state EXCEPT !.token = token]
<1>1. /\ o \in Observer
      /\ o.closed = o.terminal /\ (o.closed => o.groups \subseteq o.over)
      /\ o.sawDone => o.terminal
      /\ o.last \in {"terminal", "incomplete", "failed"} => o.terminal
      /\ o.garbled /\ o.terminal => o.limited
  BY DEF Sound
<1>2. /\ {o.dropped, o.sawDone, o.limited, o.garbled, o.terminal, o.closed, o.token} \subseteq BOOLEAN
      /\ o.last \in Payload
  BY <1>1 DEF Observer
<1>3. /\ Dispatch(o, e).state = state /\ Dispatch(o, e).outputs = seen.outputs
      /\ Dispatch(o, e).first = first
  BY DEF Dispatch
<1>4. /\ last \in Payload
      /\ last \in {"terminal", "incomplete", "failed"} => o.terminal \/ e.kind \in Closing
      /\ sawDone => o.terminal \/ e.kind \in Closing
      /\ sawDone \in BOOLEAN /\ limited \in BOOLEAN
  BY <1>1, <1>2, PayloadOfEvent DEF Closing
<1>f. first \in BOOLEAN /\ token \in BOOLEAN /\ (first => ~o.token) /\ token = (o.token \/ first)
  BY <1>2
<1>l. limited = (o.limited \/ o.dropped)
  OBVIOUS
<1> HIDE DEF sawDone, last, limited
<1>5. /\ counted \in Observer
      /\ counted.sawDone = sawDone /\ counted.last = last /\ counted.limited = limited
      /\ counted.dropped = o.dropped /\ counted.groups = o.groups /\ counted.over = o.over
      /\ counted.closed = o.closed /\ counted.terminal = o.terminal
      /\ counted.garbled = o.garbled /\ counted.token = o.token
  BY <1>1, <1>4 DEF Observer
<1> HIDE DEF counted, seen, first, token
<1>6. LET s == seen.state
      IN /\ s \in Observer
         /\ s.dropped = o.dropped /\ s.sawDone = sawDone /\ s.last = last
         /\ s.closed = s.terminal /\ (s.closed => s.groups \subseteq s.over)
         /\ s.terminal = (o.terminal \/ e.kind \in Closing)
         /\ s.garbled /\ s.terminal => s.limited
         /\ limited => s.limited
         /\ o.garbled => s.garbled
         /\ Finished(counted) \subseteq Finished(s)
         /\ seen.outputs \subseteq StreamOutput
         /\ OutputsOf(seen.outputs) = Finished(s) \ Finished(counted)
         /\ ObservationGap(counted) => \A x \in seen.outputs : x.complete => x.limited
  <2>1. /\ counted.closed = counted.terminal
        /\ counted.closed => counted.groups \subseteq counted.over
        /\ counted.garbled /\ counted.terminal => counted.limited
    BY <1>1, <1>2, <1>5, <1>l
  <2> QED BY <1>5, <2>1, ObserveFollows DEF seen
<1>7. /\ state \in Observer /\ state.token = token
      /\ state.dropped = seen.state.dropped /\ state.sawDone = seen.state.sawDone
      /\ state.last = seen.state.last /\ state.closed = seen.state.closed
      /\ state.terminal = seen.state.terminal /\ state.garbled = seen.state.garbled
      /\ state.limited = seen.state.limited
      /\ state.groups = seen.state.groups /\ state.over = seen.state.over
  BY <1>6, <1>f DEF Observer
<1> HIDE DEF state
<1>8. Sound(state)
  BY <1>4, <1>6, <1>7 DEF Sound
<1>9. Finished(counted) = Finished(o) /\ Finished(state) = Finished(seen.state)
  BY <1>5, <1>7 DEF Finished
<1>10. Gap(o) => Gap(state) /\ \A x \in seen.outputs : x.complete => x.limited
  BY <1>5, <1>6, <1>7, <1>l DEF Gap, ObservationGap
<1> QED BY <1>3, <1>6, <1>7, <1>8, <1>9, <1>10, <1>f DEF Follows

LEMMA ReceivedFollows ==
    ASSUME NEW o, Sound(o), NEW e \in Event
    PROVE  Follows(o, Received(o, e))
BY DropFollows, DispatchFollows DEF Received

\* What a read may bring follows what the observer knows.
LEMMA ArrivalsFollow ==
    ASSUME Sound(obs), NEW r \in Arrivals
    PROVE  Follows(obs, r)
<1>a. obs \in Observer
  BY DEF Sound
<1>1. CASE res.encoded
  <2>1. r = Quiet([obs EXCEPT !.bytes = TRUE])
    BY <1>1 DEF Arrivals
  <2>2. r.state = [obs EXCEPT !.bytes = TRUE] /\ r.outputs = {} /\ r.first = FALSE
    BY <2>1 DEF Quiet
  <2>3. /\ r.state \in Observer /\ r.state.token = obs.token
        /\ r.state.sawDone = obs.sawDone /\ r.state.last = obs.last
        /\ r.state.groups = obs.groups /\ r.state.over = obs.over
        /\ r.state.closed = obs.closed /\ r.state.terminal = obs.terminal
        /\ r.state.limited = obs.limited /\ r.state.garbled = obs.garbled
        /\ r.state.dropped = obs.dropped /\ obs.token \in BOOLEAN
    BY <1>a, <2>2 DEF Observer
  <2> QED BY <2>2, <2>3, BytesFollow
<1>2. CASE ~res.encoded /\ res.sse
  <2>1. CASE \E e \in Event : r = Received(obs, e)
    BY <2>1, ReceivedFollows
  <2>2. CASE r = Quiet([obs EXCEPT !.bytes = TRUE, !.partial = TRUE])
    <3>1. /\ r.state = [obs EXCEPT !.bytes = TRUE, !.partial = TRUE]
          /\ r.outputs = {} /\ r.first = FALSE
      BY <2>2 DEF Quiet
    <3>2. /\ r.state \in Observer /\ r.state.token = obs.token
          /\ r.state.sawDone = obs.sawDone /\ r.state.last = obs.last
          /\ r.state.groups = obs.groups /\ r.state.over = obs.over
          /\ r.state.closed = obs.closed /\ r.state.terminal = obs.terminal
          /\ r.state.limited = obs.limited /\ r.state.garbled = obs.garbled
          /\ r.state.dropped = obs.dropped /\ obs.token \in BOOLEAN
      BY <1>a, <3>1 DEF Observer
    <3> QED BY <3>1, <3>2, BytesFollow
  <2> QED BY <1>2, <2>1, <2>2 DEF Arrivals
<1>3. CASE ~res.encoded /\ ~res.sse
  <2>1. PICK t \in {obs.truncated, TRUE} :
           r = [state |-> [obs EXCEPT !.bytes = TRUE, !.token = TRUE, !.truncated = t],
                outputs |-> {}, first |-> ~obs.token]
    BY <1>3 DEF Arrivals
  <2>2. /\ r.state = [obs EXCEPT !.bytes = TRUE, !.token = TRUE, !.truncated = t]
        /\ r.outputs = {} /\ r.first = ~obs.token
    BY <2>1
  <2>3. /\ r.state \in Observer /\ r.state.token = TRUE
        /\ r.state.sawDone = obs.sawDone /\ r.state.last = obs.last
        /\ r.state.groups = obs.groups /\ r.state.over = obs.over
        /\ r.state.closed = obs.closed /\ r.state.terminal = obs.terminal
        /\ r.state.limited = obs.limited /\ r.state.garbled = obs.garbled
        /\ r.state.dropped = obs.dropped /\ obs.token \in BOOLEAN
    BY <1>a, <2>2 DEF Observer
  <2> QED BY <2>2, <2>3, BytesFollow
<1> QED BY <1>1, <1>2, <1>3

\* What Parser.Finish dispatches too.
LEMMA RestFollows ==
    ASSUME NEW o, Sound(o), NEW err, NEW r \in Rest(o, err)
    PROVE  Follows(o, r)
BY QuietFollows, ReceivedFollows DEF Rest

-----------------------------------------------------------------------------
(* What is recorded and what is handed over *)

LEMMA RecordedSpans ==
    ASSUME NEW spans \in [Outputs -> Seq(Outcome)], NEW outs \in SUBSET StreamOutput,
           NEW fallback \in Outcome
    PROVE  LET after == Recorded(spans, outs, fallback)
           IN /\ after \in [Outputs -> Seq(Outcome)]
              /\ \A o \in Outputs :
                    /\ o \notin OutputsOf(outs) => after[o] = spans[o]
                    /\ o \in OutputsOf(outs) =>
                          /\ Len(after[o]) = Len(spans[o]) + 1
                          /\ \E x \in outs :
                                after[o][Len(after[o])] = StreamOutputOutcome(x, fallback)
<1> DEFINE after == Recorded(spans, outs, fallback)
           Of(o) == CHOOSE x \in outs : x.output = o
<1>1. \A x : StreamOutputOutcome(x, fallback) \in Outcome
  BY DEF StreamOutputOutcome, Outcome
<1>2. \A o \in Outputs :
         after[o] = IF \E x \in outs : x.output = o
                    THEN Append(spans[o], StreamOutputOutcome(Of(o), fallback)) ELSE spans[o]
  BY DEF Recorded
<1>3. \A o : o \in OutputsOf(outs) <=> \E x \in outs : x.output = o
  BY DEF OutputsOf
<1>4. \A o : o \in OutputsOf(outs) => Of(o) \in outs
  BY <1>3
<1>5. DOMAIN after = Outputs /\ after = [o \in Outputs |-> after[o]]
  BY DEF Recorded
<1> HIDE DEF Of
<1>6. ASSUME NEW o \in Outputs
      PROVE  /\ after[o] \in Seq(Outcome)
             /\ o \notin OutputsOf(outs) => after[o] = spans[o]
             /\ o \in OutputsOf(outs) =>
                   /\ Len(after[o]) = Len(spans[o]) + 1
                   /\ after[o][Len(after[o])] = StreamOutputOutcome(Of(o), fallback)
  <2>1. spans[o] \in Seq(Outcome)
    OBVIOUS
  <2>2. CASE o \in OutputsOf(outs)
    <3> DEFINE v == StreamOutputOutcome(Of(o), fallback)
    <3>1. after[o] = Append(spans[o], v) /\ v \in Outcome
      BY <1>1, <1>2, <1>3, <2>2
    <3> HIDE DEF v
    <3>2. /\ Append(spans[o], v) \in Seq(Outcome)
          /\ Len(Append(spans[o], v)) = Len(spans[o]) + 1
          /\ Append(spans[o], v)[Len(spans[o]) + 1] = v
      BY <2>1, <3>1
    <3> QED BY <2>2, <3>1, <3>2 DEF v
  <2>3. CASE o \notin OutputsOf(outs)
    BY <1>2, <1>3, <2>1, <2>3
  <2> QED BY <2>2, <2>3
<1>7. after \in [Outputs -> Seq(Outcome)]
  BY <1>5, <1>6
<1> QED BY <1>4, <1>6, <1>7

\* What is still open is handed out incomplete.
LEMMA FinishAllOf ==
    ASSUME NEW a \in Observer, a.closed => a.groups \subseteq a.over
    PROVE  /\ FinishAll(a) \subseteq StreamOutput
           /\ OutputsOf(FinishAll(a)) = a.groups \ a.over
           /\ \A x \in FinishAll(a) : x.complete = FALSE
<1>1. CASE a.closed
  BY <1>1 DEF FinishAll, OutputsOf
<1>2. CASE ~a.closed
  <2>0. PICK done : done = Open(a)
    OBVIOUS
  <2>1. PICK no \in BOOLEAN : no = FALSE
    OBVIOUS
  <2> DEFINE outs == FinishOutputs(a, done, no, no)
  <2>2. FinishAll(a) = outs
    BY <1>2, <2>0, <2>1 DEF FinishAll
  <2>3. done \cap a.groups = a.groups \ a.over
    BY <2>0 DEF Open
  <2>4. /\ outs \subseteq StreamOutput
        /\ OutputsOf(outs) = done \cap a.groups
        /\ \A x \in outs : x.complete = no
    BY FinishOutputsOf
  <2> HIDE DEF outs
  <2> QED BY <2>1, <2>2, <2>3, <2>4
<1> QED BY <1>1, <1>2

LEMMA ResultOf ==
    ASSUME NEW o, Sound(o), NEW err \in Failure, NEW p \in Payload
    PROVE  LET b == Result(o, err, p)
           IN /\ b \in BodyResult
              /\ b.handed /\ b.err = err /\ b.last = p /\ b.token = o.token
              /\ b.dropped = o.dropped /\ b.limited = (o.limited \/ o.dropped)
              /\ b.sawDone = (o.sawDone \/ o.terminal)
              /\ OutputsOf(b.outputs) = o.groups \ o.over
              /\ \A x \in b.outputs : ~x.complete
<1> DEFINE limited == o.limited \/ o.dropped
           sawDone == o.sawDone \/ o.terminal
           a == [o EXCEPT !.limited = @ \/ o.dropped]
           b == Result(o, err, p)
<1>1. /\ o \in Observer /\ (o.closed => o.groups \subseteq o.over)
      /\ {o.truncated, o.dropped, o.token, limited, sawDone} \subseteq BOOLEAN
  BY DEF Sound, Observer
<1>2. a \in Observer /\ a.closed = o.closed /\ a.groups = o.groups /\ a.over = o.over
  BY <1>1 DEF Observer
<1>3. b = [handed |-> TRUE, err |-> err, truncated |-> o.truncated, limited |-> limited,
           dropped |-> o.dropped, sawDone |-> sawDone, last |-> p,
           outputs |-> FinishAll(a), token |-> o.token]
  BY DEF Result
<1>s. limited = (o.limited \/ o.dropped) /\ sawDone = (o.sawDone \/ o.terminal)
  OBVIOUS
<1> HIDE DEF a, b, limited, sawDone
<1>4. /\ FinishAll(a) \subseteq StreamOutput
      /\ OutputsOf(FinishAll(a)) = o.groups \ o.over
      /\ \A x \in FinishAll(a) : x.complete = FALSE
  BY <1>1, <1>2, FinishAllOf
<1>5. /\ b.handed = TRUE /\ b.err = err /\ b.last = p /\ b.token = o.token
      /\ b.dropped = o.dropped /\ b.limited = limited /\ b.sawDone = sawDone
      /\ b.outputs = FinishAll(a)
  BY <1>3
<1>6. b \in BodyResult
  BY <1>1, <1>3, <1>4 DEF BodyResult
<1> QED BY <1>4, <1>5, <1>6, <1>s DEF b

LEMMA PayloadsAre ==
    ASSUME NEW o, Sound(o), NEW p \in PayloadsOf(o)
    PROVE  p \in Payload /\ (res.sse => p = o.last)
BY DEF PayloadsOf, Payload, Sound, Observer

-----------------------------------------------------------------------------
LEMMA InitIInv == Init => IInv
<1> SUFFICES ASSUME Init PROVE IInv
  OBVIOUS
<1>a. /\ pc = "calling" /\ cause = "none" /\ failure = "none" /\ struck = "none"
      /\ res = Nothing /\ reads = 0 /\ obs = Fresh /\ body = NoResult /\ status = 0
      /\ upstreamErr = FALSE /\ panicked = FALSE /\ writeErr = FALSE /\ wire = 0
      /\ copied = FALSE /\ clientSpan = "open" /\ serverSpan = "open" /\ ttft = 0
      /\ generation = <<>> /\ outputSpans = [o \in Outputs |-> <<>>]
  BY DEF Init
<1>1. obs \in Observer /\ Sound(obs) /\ Finished(obs) = {}
  BY <1>a DEF Observer, Sound, Fresh, Payload, Finished
<1>2. body \in BodyResult
  BY <1>a DEF BodyResult, NoResult, Failure, Payload
<1>3. /\ obs.groups = {} /\ obs.over = {} /\ obs.last = "unparsed" /\ obs.token = FALSE
      /\ body.last = "unparsed" /\ body.outputs = {} /\ body.handed = FALSE
      /\ res.status = 0
  BY <1>a DEF Fresh, NoResult, Nothing
<1>4. TypeOK
  <2>1. generation \in Seq(Outcome) /\ outputSpans \in [Outputs -> Seq(Outcome)]
    BY <1>a
  <2>2. {upstreamErr, panicked, writeErr, copied} \subseteq BOOLEAN
    BY <1>a
  <2>3. reads \in 0..MaxReads
    BY <1>a, MaxReadsAssumption
  <2>4. pc \in PC /\ cause \in Cause /\ failure \in Failure /\ struck \in Cause
    BY <1>a DEF PC, Cause, Failure
  <2> QED BY <1>a, <1>3, <2>1, <2>2, <2>3, <2>4 DEF TypeOK, Payload
<1>5. BeforeInv /\ CopyInv /\ HandedInv /\ CauseInv /\ EndInv /\ StatusIsOnTheWire
  BY <1>a, <1>3 DEF BeforeInv, CopyInv, HandedInv, CauseInv, EndInv, StatusIsOnTheWire,
                    Copying, Over
<1>6. SpansInv
  BY <1>a, <1>1, <1>3 DEF SpansInv, OneSpanEach
<1> QED BY <1>1, <1>2, <1>3, <1>4, <1>5, <1>6 DEF IInv

-----------------------------------------------------------------------------
(* Steps that observe nothing and record no span below the SERVER span. *)

\* What the handler and its surroundings know of each other.
PlacesInv == BeforeInv /\ CopyInv /\ CauseInv /\ EndInv /\ StatusIsOnTheWire

LEMMA FreshFields ==
    /\ Fresh.token = FALSE /\ Fresh.groups = {} /\ Fresh.over = {}
    /\ NoResult.handed = FALSE /\ NoResult.outputs = {} /\ NoResult.err = "none"
    /\ Nothing.status = 0 /\ Nothing \notin Response
BY DEF Fresh, NoResult, Nothing, Response

LEMMA PlaceStep ==
    ASSUME IInv, UNCHANGED <<obs, body, reads, serverSpan, outputVars>>,
           pc # "ended", pc' # "ended", TypeOK', PlacesInv',
           status' = status \/ obs = Fresh,
           res' = res \/ (body = NoResult /\ (res'.status = 101 => ~res'.sse))
    PROVE  IInv'
<1>1. HandedInv'
  BY FreshFields DEF IInv, HandedInv
<1>2. SpansInv'
  BY FreshFields DEF IInv, SpansInv, outputVars, Finished
<1> QED BY <1>1, <1>2 DEF IInv, PlacesInv, Sound

LEMMA RoundTripSteps ==
    ASSUME IInv, Respond \/ TransportFails \/ SettleClientSpan
    PROVE  IInv'
<1>a. TypeOK /\ BeforeInv /\ CopyInv /\ CauseInv /\ EndInv /\ StatusIsOnTheWire
  BY DEF IInv
<1> USE DEF Copying, Over, stateVars, upstreamVars, clientVars, spanVars, outputVars, allButPc
<1>1. CASE Respond
  <2>1. TypeOK'
    BY <1>a, <1>1 DEF Respond, TypeOK, PC, Cause, Failure, Outcome
  <2>2. PlacesInv'
    <3>1. BeforeInv'
      BY <1>a, <1>1 DEF Respond, BeforeInv
    <3>2. CopyInv'
      BY <1>a, <1>1, FreshFields DEF Respond, BeforeInv, CopyInv
    <3>3. CauseInv'
      BY <1>a, <1>1, FreshFields DEF Respond, BeforeInv, CopyInv, CauseInv, Cause, TypeOK
    <3>4. EndInv'
      BY <1>a, <1>1, FreshFields DEF Respond, BeforeInv, CopyInv, CauseInv, EndInv, Cause, TypeOK
    <3>5. StatusIsOnTheWire'
      BY <1>a, <1>1 DEF Respond, BeforeInv, CopyInv, CauseInv, StatusIsOnTheWire
    <3> QED BY <3>1, <3>2, <3>3, <3>4, <3>5 DEF PlacesInv
  <2>3. /\ UNCHANGED <<obs, body, reads, serverSpan, outputVars>>
        /\ pc # "ended" /\ pc' # "ended"
    BY <1>a, <1>1 DEF Respond
  <2>4. /\ status' = status \/ obs = Fresh
        /\ res' = res \/ (body = NoResult /\ (res'.status = 101 => ~res'.sse))
    BY <1>a, <1>1 DEF Respond, BeforeInv
  <2> QED BY <2>1, <2>2, <2>3, <2>4, PlaceStep
<1>2. CASE TransportFails
  <2>1. TypeOK'
    BY <1>a, <1>2 DEF TransportFails, TypeOK, PC, Cause, Failure, Outcome
  <2>2. PlacesInv'
    <3>1. BeforeInv'
      BY <1>a, <1>2 DEF TransportFails, BeforeInv
    <3>2. CopyInv'
      BY <1>a, <1>2, FreshFields DEF TransportFails, BeforeInv, CopyInv
    <3>3. CauseInv'
      BY <1>a, <1>2, FreshFields DEF TransportFails, BeforeInv, CopyInv, CauseInv, Cause, TypeOK
    <3>4. EndInv'
      BY <1>a, <1>2, FreshFields DEF TransportFails, BeforeInv, CopyInv, CauseInv, EndInv, Cause, TypeOK
    <3>5. StatusIsOnTheWire'
      BY <1>a, <1>2 DEF TransportFails, BeforeInv, CopyInv, CauseInv, StatusIsOnTheWire
    <3> QED BY <3>1, <3>2, <3>3, <3>4, <3>5 DEF PlacesInv
  <2>3. /\ UNCHANGED <<obs, body, reads, serverSpan, outputVars>>
        /\ pc # "ended" /\ pc' # "ended"
    BY <1>a, <1>2 DEF TransportFails
  <2>4. /\ status' = status \/ obs = Fresh
        /\ res' = res \/ (body = NoResult /\ (res'.status = 101 => ~res'.sse))
    BY <1>a, <1>2 DEF TransportFails, BeforeInv
  <2> QED BY <2>1, <2>2, <2>3, <2>4, PlaceStep
<1>3. CASE SettleClientSpan
  <2>1. TypeOK'
    BY <1>a, <1>3 DEF SettleClientSpan, TypeOK, PC, Cause, Failure, Outcome, ClientOutcome
  <2>2. PlacesInv'
    <3>1. BeforeInv'
      BY <1>a, <1>3 DEF SettleClientSpan, BeforeInv, ClientOutcome
    <3>2. CopyInv'
      BY <1>a, <1>3, FreshFields DEF SettleClientSpan, BeforeInv, CopyInv
    <3>3. CauseInv'
      BY <1>a, <1>3, FreshFields DEF SettleClientSpan, BeforeInv, CopyInv, CauseInv, Cause, TypeOK, ClientOutcome
    <3>4. EndInv'
      BY <1>a, <1>3, FreshFields DEF SettleClientSpan, BeforeInv, CopyInv, CauseInv, EndInv, Cause, TypeOK
    <3>5. StatusIsOnTheWire'
      BY <1>a, <1>3 DEF SettleClientSpan, BeforeInv, CopyInv, CauseInv, StatusIsOnTheWire
    <3> QED BY <3>1, <3>2, <3>3, <3>4, <3>5 DEF PlacesInv
  <2>3. /\ UNCHANGED <<obs, body, reads, serverSpan, outputVars>>
        /\ pc # "ended" /\ pc' # "ended"
    BY <1>a, <1>3 DEF SettleClientSpan
  <2>4. /\ status' = status \/ obs = Fresh
        /\ res' = res \/ (body = NoResult /\ (res'.status = 101 => ~res'.sse))
    BY <1>a, <1>3 DEF SettleClientSpan, BeforeInv
  <2> QED BY <2>1, <2>2, <2>3, <2>4, PlaceStep
<1> QED BY <1>1, <1>2, <1>3

LEMMA HandleErrorSteps ==
    ASSUME IInv, AnswerForcedClose \/ AnswerNobody \/ AnswerGatewayError
    PROVE  IInv'
<1>a. TypeOK /\ BeforeInv /\ CopyInv /\ CauseInv /\ EndInv /\ StatusIsOnTheWire
  BY DEF IInv
<1> USE DEF Copying, Over, stateVars, upstreamVars, clientVars, spanVars, outputVars, allButPc
<1>1. CASE AnswerForcedClose
  <2>1. TypeOK'
    BY <1>a, <1>1 DEF AnswerForcedClose, TypeOK, PC, Cause, Failure, Outcome
  <2>2. PlacesInv'
    <3>1. BeforeInv'
      BY <1>a, <1>1 DEF AnswerForcedClose, BeforeInv
    <3>2. CopyInv'
      BY <1>a, <1>1, FreshFields DEF AnswerForcedClose, BeforeInv, CopyInv
    <3>3. CauseInv'
      BY <1>a, <1>1, FreshFields DEF AnswerForcedClose, BeforeInv, CopyInv, CauseInv, Cause, TypeOK
    <3>4. EndInv'
      BY <1>a, <1>1, FreshFields DEF AnswerForcedClose, BeforeInv, CopyInv, CauseInv, EndInv, Cause, TypeOK
    <3>5. StatusIsOnTheWire'
      BY <1>a, <1>1 DEF AnswerForcedClose, BeforeInv, CopyInv, CauseInv, StatusIsOnTheWire
    <3> QED BY <3>1, <3>2, <3>3, <3>4, <3>5 DEF PlacesInv
  <2>3. /\ UNCHANGED <<obs, body, reads, serverSpan, outputVars>>
        /\ pc # "ended" /\ pc' # "ended"
    BY <1>a, <1>1 DEF AnswerForcedClose
  <2>4. /\ status' = status \/ obs = Fresh
        /\ res' = res \/ (body = NoResult /\ (res'.status = 101 => ~res'.sse))
    BY <1>a, <1>1 DEF AnswerForcedClose, BeforeInv
  <2> QED BY <2>1, <2>2, <2>3, <2>4, PlaceStep
<1>2. CASE AnswerNobody
  <2>1. TypeOK'
    BY <1>a, <1>2 DEF AnswerNobody, TypeOK, PC, Cause, Failure, Outcome
  <2>2. PlacesInv'
    <3>1. BeforeInv'
      BY <1>a, <1>2 DEF AnswerNobody, BeforeInv
    <3>2. CopyInv'
      BY <1>a, <1>2, FreshFields DEF AnswerNobody, BeforeInv, CopyInv
    <3>3. CauseInv'
      BY <1>a, <1>2, FreshFields DEF AnswerNobody, BeforeInv, CopyInv, CauseInv, Cause, TypeOK
    <3>4. EndInv'
      BY <1>a, <1>2, FreshFields DEF AnswerNobody, BeforeInv, CopyInv, CauseInv, EndInv, Cause, TypeOK
    <3>5. StatusIsOnTheWire'
      BY <1>a, <1>2 DEF AnswerNobody, BeforeInv, CopyInv, CauseInv, StatusIsOnTheWire
    <3> QED BY <3>1, <3>2, <3>3, <3>4, <3>5 DEF PlacesInv
  <2>3. /\ UNCHANGED <<obs, body, reads, serverSpan, outputVars>>
        /\ pc # "ended" /\ pc' # "ended"
    BY <1>a, <1>2 DEF AnswerNobody
  <2>4. /\ status' = status \/ obs = Fresh
        /\ res' = res \/ (body = NoResult /\ (res'.status = 101 => ~res'.sse))
    BY <1>a, <1>2 DEF AnswerNobody, BeforeInv
  <2> QED BY <2>1, <2>2, <2>3, <2>4, PlaceStep
<1>3. CASE AnswerGatewayError
  <2>1. TypeOK'
    BY <1>a, <1>3 DEF AnswerGatewayError, TypeOK, PC, Cause, Failure, Outcome
  <2>2. PlacesInv'
    <3>1. BeforeInv'
      BY <1>a, <1>3 DEF AnswerGatewayError, BeforeInv
    <3>2. CopyInv'
      BY <1>a, <1>3, FreshFields DEF AnswerGatewayError, BeforeInv, CopyInv
    <3>3. CauseInv'
      BY <1>a, <1>3, FreshFields DEF AnswerGatewayError, BeforeInv, CopyInv, CauseInv, Cause, TypeOK
    <3>4. EndInv'
      BY <1>a, <1>3, FreshFields DEF AnswerGatewayError, BeforeInv, CopyInv, CauseInv, EndInv, Cause, TypeOK
    <3>5. StatusIsOnTheWire'
      BY <1>a, <1>3 DEF AnswerGatewayError, BeforeInv, CopyInv, CauseInv, StatusIsOnTheWire
    <3> QED BY <3>1, <3>2, <3>3, <3>4, <3>5 DEF PlacesInv
  <2>3. /\ UNCHANGED <<obs, body, reads, serverSpan, outputVars>>
        /\ pc # "ended" /\ pc' # "ended"
    BY <1>a, <1>3 DEF AnswerGatewayError
  <2>4. /\ status' = status \/ obs = Fresh
        /\ res' = res \/ (body = NoResult /\ (res'.status = 101 => ~res'.sse))
    BY <1>a, <1>3 DEF AnswerGatewayError, BeforeInv
  <2> QED BY <2>1, <2>2, <2>3, <2>4, PlaceStep
<1> QED BY <1>1, <1>2, <1>3

LEMMA ResponseSteps ==
    ASSUME IInv, ModifyResponse \/ Upgrade \/ UpgradeFails \/ TunnelEnds \/ SendHead
    PROVE  IInv'
<1>a. TypeOK /\ BeforeInv /\ CopyInv /\ CauseInv /\ EndInv /\ StatusIsOnTheWire
  BY DEF IInv
<1> USE DEF Copying, Over, stateVars, upstreamVars, clientVars, spanVars, outputVars, allButPc
<1>1. CASE ModifyResponse
  <2>1. TypeOK'
    BY <1>a, <1>1 DEF ModifyResponse, TypeOK, PC, Cause, Failure, Outcome, BeforeInv, Response
  <2>2. PlacesInv'
    <3>1. BeforeInv'
      BY <1>a, <1>1 DEF ModifyResponse, BeforeInv
    <3>2. CopyInv'
      BY <1>a, <1>1, FreshFields DEF ModifyResponse, BeforeInv, CopyInv
    <3>3. CauseInv'
      BY <1>a, <1>1, FreshFields DEF ModifyResponse, BeforeInv, CopyInv, CauseInv, Cause, TypeOK
    <3>4. EndInv'
      BY <1>a, <1>1, FreshFields DEF ModifyResponse, BeforeInv, CopyInv, CauseInv, EndInv, Cause, TypeOK
    <3>5. StatusIsOnTheWire'
      BY <1>a, <1>1 DEF ModifyResponse, BeforeInv, CopyInv, CauseInv, StatusIsOnTheWire
    <3> QED BY <3>1, <3>2, <3>3, <3>4, <3>5 DEF PlacesInv
  <2>3. /\ UNCHANGED <<obs, body, reads, serverSpan, outputVars>>
        /\ pc # "ended" /\ pc' # "ended"
    BY <1>a, <1>1 DEF ModifyResponse
  <2>4. /\ status' = status \/ obs = Fresh
        /\ res' = res \/ (body = NoResult /\ (res'.status = 101 => ~res'.sse))
    BY <1>a, <1>1 DEF ModifyResponse, BeforeInv
  <2> QED BY <2>1, <2>2, <2>3, <2>4, PlaceStep
<1>2. CASE Upgrade
  <2>1. TypeOK'
    BY <1>a, <1>2 DEF Upgrade, TypeOK, PC, Cause, Failure, Outcome
  <2>2. PlacesInv'
    <3>1. BeforeInv'
      BY <1>a, <1>2 DEF Upgrade, BeforeInv
    <3>2. CopyInv'
      BY <1>a, <1>2, FreshFields DEF Upgrade, BeforeInv, CopyInv
    <3>3. CauseInv'
      BY <1>a, <1>2, FreshFields DEF Upgrade, BeforeInv, CopyInv, CauseInv, Cause, TypeOK
    <3>4. EndInv'
      BY <1>a, <1>2, FreshFields DEF Upgrade, BeforeInv, CopyInv, CauseInv, EndInv, Cause, TypeOK
    <3>5. StatusIsOnTheWire'
      BY <1>a, <1>2 DEF Upgrade, BeforeInv, CopyInv, CauseInv, StatusIsOnTheWire
    <3> QED BY <3>1, <3>2, <3>3, <3>4, <3>5 DEF PlacesInv
  <2>3. /\ UNCHANGED <<obs, body, reads, serverSpan, outputVars>>
        /\ pc # "ended" /\ pc' # "ended"
    BY <1>a, <1>2 DEF Upgrade
  <2>4. /\ status' = status \/ obs = Fresh
        /\ res' = res \/ (body = NoResult /\ (res'.status = 101 => ~res'.sse))
    BY <1>a, <1>2 DEF Upgrade, BeforeInv
  <2> QED BY <2>1, <2>2, <2>3, <2>4, PlaceStep
<1>3. CASE UpgradeFails
  <2>1. TypeOK'
    BY <1>a, <1>3 DEF UpgradeFails, TypeOK, PC, Cause, Failure, Outcome
  <2>2. PlacesInv'
    <3>1. BeforeInv'
      BY <1>a, <1>3 DEF UpgradeFails, BeforeInv
    <3>2. CopyInv'
      BY <1>a, <1>3, FreshFields DEF UpgradeFails, BeforeInv, CopyInv
    <3>3. CauseInv'
      BY <1>a, <1>3, FreshFields DEF UpgradeFails, BeforeInv, CopyInv, CauseInv, Cause, TypeOK
    <3>4. EndInv'
      BY <1>a, <1>3, FreshFields DEF UpgradeFails, BeforeInv, CopyInv, CauseInv, EndInv, Cause, TypeOK
    <3>5. StatusIsOnTheWire'
      BY <1>a, <1>3 DEF UpgradeFails, BeforeInv, CopyInv, CauseInv, StatusIsOnTheWire
    <3> QED BY <3>1, <3>2, <3>3, <3>4, <3>5 DEF PlacesInv
  <2>3. /\ UNCHANGED <<obs, body, reads, serverSpan, outputVars>>
        /\ pc # "ended" /\ pc' # "ended"
    BY <1>a, <1>3 DEF UpgradeFails
  <2>4. /\ status' = status \/ obs = Fresh
        /\ res' = res \/ (body = NoResult /\ (res'.status = 101 => ~res'.sse))
    BY <1>a, <1>3 DEF UpgradeFails, BeforeInv
  <2> QED BY <2>1, <2>2, <2>3, <2>4, PlaceStep
<1>4. CASE TunnelEnds
  <2>1. TypeOK'
    BY <1>a, <1>4 DEF TunnelEnds, TypeOK, PC, Cause, Failure, Outcome
  <2>2. PlacesInv'
    <3>1. BeforeInv'
      BY <1>a, <1>4 DEF TunnelEnds, BeforeInv
    <3>2. CopyInv'
      BY <1>a, <1>4, FreshFields DEF TunnelEnds, BeforeInv, CopyInv
    <3>3. CauseInv'
      BY <1>a, <1>4, FreshFields DEF TunnelEnds, BeforeInv, CopyInv, CauseInv, Cause, TypeOK
    <3>4. EndInv'
      BY <1>a, <1>4, FreshFields DEF TunnelEnds, BeforeInv, CopyInv, CauseInv, EndInv, Cause, TypeOK
    <3>5. StatusIsOnTheWire'
      BY <1>a, <1>4 DEF TunnelEnds, BeforeInv, CopyInv, CauseInv, StatusIsOnTheWire
    <3> QED BY <3>1, <3>2, <3>3, <3>4, <3>5 DEF PlacesInv
  <2>3. /\ UNCHANGED <<obs, body, reads, serverSpan, outputVars>>
        /\ pc # "ended" /\ pc' # "ended"
    BY <1>a, <1>4 DEF TunnelEnds
  <2>4. /\ status' = status \/ obs = Fresh
        /\ res' = res \/ (body = NoResult /\ (res'.status = 101 => ~res'.sse))
    BY <1>a, <1>4 DEF TunnelEnds, BeforeInv
  <2> QED BY <2>1, <2>2, <2>3, <2>4, PlaceStep
<1>5. CASE SendHead
  <2>1. TypeOK'
    BY <1>a, <1>5 DEF SendHead, TypeOK, PC, Cause, Failure, Outcome, BeforeInv, Response
  <2>2. PlacesInv'
    <3>1. BeforeInv'
      BY <1>a, <1>5 DEF SendHead, BeforeInv
    <3>2. CopyInv'
      BY <1>a, <1>5, FreshFields DEF SendHead, BeforeInv, CopyInv
    <3>3. CauseInv'
      BY <1>a, <1>5, FreshFields DEF SendHead, BeforeInv, CopyInv, CauseInv, Cause, TypeOK
    <3>4. EndInv'
      <4>1. /\ res \in Response /\ res.body \in BOOLEAN /\ status = res.status
            /\ failure = "none" /\ obs = Fresh
        BY <1>a, <1>5 DEF SendHead, BeforeInv, Response
      <4>2. CASE res.body
        BY <1>5, <4>2 DEF SendHead, EndInv
      <4>3. CASE ~res.body
        BY <1>5, <4>1, <4>3 DEF SendHead, EndInv
      <4> QED BY <4>2, <4>3
    <3>5. StatusIsOnTheWire'
      BY <1>a, <1>5 DEF SendHead, BeforeInv, CopyInv, CauseInv, StatusIsOnTheWire
    <3> QED BY <3>1, <3>2, <3>3, <3>4, <3>5 DEF PlacesInv
  <2>3. /\ UNCHANGED <<obs, body, reads, serverSpan, outputVars>>
        /\ pc # "ended" /\ pc' # "ended"
    BY <1>a, <1>5 DEF SendHead
  <2>4. /\ status' = status \/ obs = Fresh
        /\ res' = res \/ (body = NoResult /\ (res'.status = 101 => ~res'.sse))
    BY <1>a, <1>5 DEF SendHead, BeforeInv
  <2> QED BY <2>1, <2>2, <2>3, <2>4, PlaceStep
<1> QED BY <1>1, <1>2, <1>3, <1>4, <1>5

LEMMA WriteSteps ==
    ASSUME IInv, Write \/ WriteFails \/ FlushFails \/ HandlerPanics
    PROVE  IInv'
<1>a. TypeOK /\ BeforeInv /\ CopyInv /\ CauseInv /\ EndInv /\ StatusIsOnTheWire
  BY DEF IInv
<1> USE DEF Copying, Over, stateVars, upstreamVars, clientVars, spanVars, outputVars, allButPc
<1>1. CASE Write
  <2>1. TypeOK'
    BY <1>a, <1>1 DEF Write, TypeOK, PC, Cause, Failure, Outcome
  <2>2. PlacesInv'
    <3>1. BeforeInv'
      BY <1>a, <1>1 DEF Write, BeforeInv
    <3>2. CopyInv'
      BY <1>a, <1>1, FreshFields DEF Write, BeforeInv, CopyInv
    <3>3. CauseInv'
      BY <1>a, <1>1, FreshFields DEF Write, BeforeInv, CopyInv, CauseInv, Cause, TypeOK
    <3>4. EndInv'
      BY <1>a, <1>1, FreshFields DEF Write, BeforeInv, CopyInv, CauseInv, EndInv, Cause, TypeOK
    <3>5. StatusIsOnTheWire'
      BY <1>a, <1>1 DEF Write, BeforeInv, CopyInv, CauseInv, StatusIsOnTheWire
    <3> QED BY <3>1, <3>2, <3>3, <3>4, <3>5 DEF PlacesInv
  <2>3. /\ UNCHANGED <<obs, body, reads, serverSpan, outputVars>>
        /\ pc # "ended" /\ pc' # "ended"
    BY <1>a, <1>1 DEF Write
  <2>4. /\ status' = status \/ obs = Fresh
        /\ res' = res \/ (body = NoResult /\ (res'.status = 101 => ~res'.sse))
    BY <1>a, <1>1 DEF Write, BeforeInv
  <2> QED BY <2>1, <2>2, <2>3, <2>4, PlaceStep
<1>2. CASE WriteFails
  <2>1. TypeOK'
    BY <1>a, <1>2 DEF WriteFails, TypeOK, PC, Cause, Failure, Outcome
  <2>2. PlacesInv'
    <3>1. BeforeInv'
      BY <1>a, <1>2 DEF WriteFails, BeforeInv
    <3>2. CopyInv'
      BY <1>a, <1>2, FreshFields DEF WriteFails, BeforeInv, CopyInv
    <3>3. CauseInv'
      BY <1>a, <1>2, FreshFields DEF WriteFails, BeforeInv, CopyInv, CauseInv, Cause, TypeOK
    <3>4. EndInv'
      BY <1>a, <1>2, FreshFields DEF WriteFails, BeforeInv, CopyInv, CauseInv, EndInv, Cause, TypeOK
    <3>5. StatusIsOnTheWire'
      BY <1>a, <1>2 DEF WriteFails, BeforeInv, CopyInv, CauseInv, StatusIsOnTheWire
    <3> QED BY <3>1, <3>2, <3>3, <3>4, <3>5 DEF PlacesInv
  <2>3. /\ UNCHANGED <<obs, body, reads, serverSpan, outputVars>>
        /\ pc # "ended" /\ pc' # "ended"
    BY <1>a, <1>2 DEF WriteFails
  <2>4. /\ status' = status \/ obs = Fresh
        /\ res' = res \/ (body = NoResult /\ (res'.status = 101 => ~res'.sse))
    BY <1>a, <1>2 DEF WriteFails, BeforeInv
  <2> QED BY <2>1, <2>2, <2>3, <2>4, PlaceStep
<1>3. CASE FlushFails
  <2>1. TypeOK'
    BY <1>a, <1>3 DEF FlushFails, TypeOK, PC, Cause, Failure, Outcome
  <2>2. PlacesInv'
    <3>1. BeforeInv'
      BY <1>a, <1>3 DEF FlushFails, BeforeInv
    <3>2. CopyInv'
      BY <1>a, <1>3, FreshFields DEF FlushFails, BeforeInv, CopyInv
    <3>3. CauseInv'
      BY <1>a, <1>3, FreshFields DEF FlushFails, BeforeInv, CopyInv, CauseInv, Cause, TypeOK
    <3>4. EndInv'
      BY <1>a, <1>3, FreshFields DEF FlushFails, BeforeInv, CopyInv, CauseInv, EndInv, Cause, TypeOK
    <3>5. StatusIsOnTheWire'
      BY <1>a, <1>3 DEF FlushFails, BeforeInv, CopyInv, CauseInv, StatusIsOnTheWire
    <3> QED BY <3>1, <3>2, <3>3, <3>4, <3>5 DEF PlacesInv
  <2>3. /\ UNCHANGED <<obs, body, reads, serverSpan, outputVars>>
        /\ pc # "ended" /\ pc' # "ended"
    BY <1>a, <1>3 DEF FlushFails
  <2>4. /\ status' = status \/ obs = Fresh
        /\ res' = res \/ (body = NoResult /\ (res'.status = 101 => ~res'.sse))
    BY <1>a, <1>3 DEF FlushFails, BeforeInv
  <2> QED BY <2>1, <2>2, <2>3, <2>4, PlaceStep
<1>4. CASE HandlerPanics
  <2>1. TypeOK'
    BY <1>a, <1>4 DEF HandlerPanics, TypeOK, PC, Cause, Failure, Outcome
  <2>2. PlacesInv'
    <3>1. BeforeInv'
      BY <1>a, <1>4 DEF HandlerPanics, BeforeInv
    <3>2. CopyInv'
      BY <1>a, <1>4, FreshFields DEF HandlerPanics, BeforeInv, CopyInv
    <3>3. CauseInv'
      BY <1>a, <1>4, FreshFields DEF HandlerPanics, BeforeInv, CopyInv, CauseInv, Cause, TypeOK
    <3>4. EndInv'
      BY <1>a, <1>4, FreshFields DEF HandlerPanics, BeforeInv, CopyInv, CauseInv, EndInv, Cause, TypeOK
    <3>5. StatusIsOnTheWire'
      BY <1>a, <1>4 DEF HandlerPanics, BeforeInv, CopyInv, CauseInv, StatusIsOnTheWire
    <3> QED BY <3>1, <3>2, <3>3, <3>4, <3>5 DEF PlacesInv
  <2>3. /\ UNCHANGED <<obs, body, reads, serverSpan, outputVars>>
        /\ pc # "ended" /\ pc' # "ended"
    BY <1>a, <1>4 DEF HandlerPanics
  <2>4. /\ status' = status \/ obs = Fresh
        /\ res' = res \/ (body = NoResult /\ (res'.status = 101 => ~res'.sse))
    BY <1>a, <1>4 DEF HandlerPanics, BeforeInv
  <2> QED BY <2>1, <2>2, <2>3, <2>4, PlaceStep
<1> QED BY <1>1, <1>2, <1>3, <1>4

LEMMA CancelSteps ==
    ASSUME IInv, ClientGone \/ ForcedClose
    PROVE  IInv'
<1>a. TypeOK /\ BeforeInv /\ CopyInv /\ CauseInv /\ EndInv /\ StatusIsOnTheWire
  BY DEF IInv
<1> USE DEF Copying, Over, stateVars, upstreamVars, clientVars, spanVars, outputVars, allButPc
<1>1. CASE ClientGone
  <2>1. TypeOK'
    BY <1>a, <1>1 DEF ClientGone, TypeOK, PC, Cause, Failure, Outcome
  <2>2. PlacesInv'
    <3>1. BeforeInv'
      BY <1>a, <1>1 DEF ClientGone, BeforeInv
    <3>2. CopyInv'
      BY <1>a, <1>1, FreshFields DEF ClientGone, BeforeInv, CopyInv
    <3>3. CauseInv'
      BY <1>a, <1>1, FreshFields DEF ClientGone, BeforeInv, CopyInv, CauseInv, Cause, TypeOK
    <3>4. EndInv'
      BY <1>a, <1>1, FreshFields DEF ClientGone, BeforeInv, CopyInv, CauseInv, EndInv, Cause, TypeOK
    <3>5. StatusIsOnTheWire'
      BY <1>a, <1>1 DEF ClientGone, BeforeInv, CopyInv, CauseInv, StatusIsOnTheWire
    <3> QED BY <3>1, <3>2, <3>3, <3>4, <3>5 DEF PlacesInv
  <2>3. /\ UNCHANGED <<obs, body, reads, serverSpan, outputVars>>
        /\ pc # "ended" /\ pc' # "ended"
    BY <1>a, <1>1 DEF ClientGone
  <2>4. /\ status' = status \/ obs = Fresh
        /\ res' = res \/ (body = NoResult /\ (res'.status = 101 => ~res'.sse))
    BY <1>a, <1>1 DEF ClientGone, BeforeInv
  <2> QED BY <2>1, <2>2, <2>3, <2>4, PlaceStep
<1>2. CASE ForcedClose
  <2>1. TypeOK'
    BY <1>a, <1>2 DEF ForcedClose, TypeOK, PC, Cause, Failure, Outcome
  <2>2. PlacesInv'
    <3>1. BeforeInv'
      BY <1>a, <1>2 DEF ForcedClose, BeforeInv
    <3>2. CopyInv'
      BY <1>a, <1>2, FreshFields DEF ForcedClose, BeforeInv, CopyInv
    <3>3. CauseInv'
      BY <1>a, <1>2, FreshFields DEF ForcedClose, BeforeInv, CopyInv, CauseInv, Cause, TypeOK
    <3>4. EndInv'
      BY <1>a, <1>2, FreshFields DEF ForcedClose, BeforeInv, CopyInv, CauseInv, EndInv, Cause, TypeOK
    <3>5. StatusIsOnTheWire'
      BY <1>a, <1>2 DEF ForcedClose, BeforeInv, CopyInv, CauseInv, StatusIsOnTheWire
    <3> QED BY <3>1, <3>2, <3>3, <3>4, <3>5 DEF PlacesInv
  <2>3. /\ UNCHANGED <<obs, body, reads, serverSpan, outputVars>>
        /\ pc # "ended" /\ pc' # "ended"
    BY <1>a, <1>2 DEF ForcedClose
  <2>4. /\ status' = status \/ obs = Fresh
        /\ res' = res \/ (body = NoResult /\ (res'.status = 101 => ~res'.sse))
    BY <1>a, <1>2 DEF ForcedClose, BeforeInv
  <2> QED BY <2>1, <2>2, <2>3, <2>4, PlaceStep
<1> QED BY <1>1, <1>2

-----------------------------------------------------------------------------
(* Reading the body *)

\* An output handed out across a gap is not a success.
LEMMA GapIsNoSuccess ==
    ASSUME NEW x, x.complete => x.limited
    PROVE  StreamOutputOutcome(x, "success") # "success"
BY DEF StreamOutputOutcome

\* What a read records: what it delivers, and what Parser.Finish delivers after it.
LEMMA Delivery ==
    ASSUME NEW o, NEW got, NEW rest, Follows(o, got), Follows(got.state, rest),
           NEW spans \in [Outputs -> Seq(Outcome)],
           OneSpanEach(spans, Finished(o)),
           NEW after,
           after = Recorded(Recorded(spans, got.outputs, "success"), rest.outputs, "success")
    PROVE  /\ after \in [Outputs -> Seq(Outcome)]
           /\ OneSpanEach(after, Finished(rest.state))
           /\ Gap(o) => \A q \in Outputs : Len(after[q]) > Len(spans[q])
                           => after[q][Len(after[q])] # "success"
<1> DEFINE mid == Recorded(spans, got.outputs, "success")
<1>m. after = Recorded(mid, rest.outputs, "success")
  OBVIOUS
<1>1. /\ Finished(o) \subseteq Finished(got.state)
      /\ OutputsOf(got.outputs) = Finished(got.state) \ Finished(o)
      /\ Finished(got.state) \subseteq Finished(rest.state)
      /\ OutputsOf(rest.outputs) = Finished(rest.state) \ Finished(got.state)
      /\ got.outputs \in SUBSET StreamOutput /\ rest.outputs \in SUBSET StreamOutput
      /\ "success" \in Outcome
  BY DEF Follows, Outcome
<1>2. /\ mid \in [Outputs -> Seq(Outcome)]
      /\ \A q \in Outputs :
            /\ q \notin OutputsOf(got.outputs) => mid[q] = spans[q]
            /\ q \in OutputsOf(got.outputs) =>
                  /\ Len(mid[q]) = Len(spans[q]) + 1
                  /\ \E x \in got.outputs :
                        mid[q][Len(mid[q])] = StreamOutputOutcome(x, "success")
  <2>1. /\ spans \in [Outputs -> Seq(Outcome)] /\ got.outputs \in SUBSET StreamOutput
        /\ "success" \in Outcome
    BY <1>1
  <2> QED BY <2>1, RecordedSpans
<1> HIDE DEF mid
<1>3. /\ after \in [Outputs -> Seq(Outcome)]
      /\ \A q \in Outputs :
            /\ q \notin OutputsOf(rest.outputs) => after[q] = mid[q]
            /\ q \in OutputsOf(rest.outputs) =>
                  /\ Len(after[q]) = Len(mid[q]) + 1
                  /\ \E x \in rest.outputs :
                        after[q][Len(after[q])] = StreamOutputOutcome(x, "success")
  <2> DEFINE now == Recorded(mid, rest.outputs, "success")
  <2>1. /\ mid \in [Outputs -> Seq(Outcome)] /\ rest.outputs \in SUBSET StreamOutput
        /\ "success" \in Outcome
    BY <1>1, <1>2
  <2>2. /\ now \in [Outputs -> Seq(Outcome)]
        /\ \A q \in Outputs :
              /\ q \notin OutputsOf(rest.outputs) => now[q] = mid[q]
              /\ q \in OutputsOf(rest.outputs) =>
                    /\ Len(now[q]) = Len(mid[q]) + 1
                    /\ \E x \in rest.outputs :
                          now[q][Len(now[q])] = StreamOutputOutcome(x, "success")
    BY <2>1, RecordedSpans
  <2>3. after = now
    BY <1>m
  <2> HIDE DEF now
  <2> QED BY <2>2, <2>3
<1>4. ASSUME NEW q \in Outputs
      PROVE  Len(after[q]) = IF q \in Finished(rest.state) THEN 1 ELSE 0
  <2>1. Len(spans[q]) = IF q \in Finished(o) THEN 1 ELSE 0
    BY DEF OneSpanEach
  <2>2. Len(mid[q]) = IF q \in Finished(got.state) THEN 1 ELSE 0
    <3>1. CASE q \in OutputsOf(got.outputs)
      <4>1. q \in Finished(got.state) /\ q \notin Finished(o)
        BY <1>1, <3>1
      <4>2. Len(mid[q]) = Len(spans[q]) + 1
        BY <1>2, <3>1
      <4>3. Len(spans[q]) = 0
        BY <2>1, <4>1
      <4> QED BY <4>1, <4>2, <4>3
    <3>2. CASE q \notin OutputsOf(got.outputs)
      BY <1>1, <1>2, <2>1, <3>2
    <3> QED BY <3>1, <3>2
  <2>3. CASE q \in OutputsOf(rest.outputs)
    <3>1. q \in Finished(rest.state) /\ q \notin Finished(got.state)
      BY <1>1, <2>3
    <3>2. Len(after[q]) = Len(mid[q]) + 1
      BY <1>3, <2>3
    <3>3. Len(mid[q]) = 0
      BY <2>2, <3>1
    <3> QED BY <3>1, <3>2, <3>3
  <2>4. CASE q \notin OutputsOf(rest.outputs)
    BY <1>1, <1>3, <2>2, <2>4
  <2> QED BY <2>3, <2>4
<1>5. ASSUME Gap(o), NEW q \in Outputs, Len(after[q]) > Len(spans[q])
      PROVE  after[q][Len(after[q])] # "success"
  <2>1. /\ \A x \in got.outputs : x.complete => x.limited
        /\ \A x \in rest.outputs : x.complete => x.limited
    BY <1>5 DEF Follows
  <2>2. CASE q \in OutputsOf(rest.outputs)
    BY <1>3, <2>1, <2>2, GapIsNoSuccess
  <2>3. CASE q \notin OutputsOf(rest.outputs)
    <3>1. after[q] = mid[q]
      BY <1>3, <2>3
    <3>2. q \in OutputsOf(got.outputs)
      BY <1>2, <1>5, <3>1
    <3> QED BY <1>2, <2>1, <3>1, <3>2, GapIsNoSuccess
  <2> QED BY <2>2, <2>3
<1> QED BY <1>3, <1>4, <1>5 DEF OneSpanEach

\* The first token is reported by the step that sees it.
LEMMA FirstToken ==
    ASSUME NEW got, NEW rest, Sound(obs), Follows(obs, got), Follows(got.state, rest),
           ttft = IF obs.token /\ status = 200 THEN 1 ELSE 0
    PROVE  TimeToFirstToken(got.first \/ rest.first)
              = IF rest.state.token /\ status = 200 THEN 1 ELSE 0
<1>1. /\ obs.token \in BOOLEAN /\ got.first \in BOOLEAN /\ rest.first \in BOOLEAN
      /\ got.first => ~obs.token
      /\ rest.first => ~got.state.token
      /\ got.state.token = (obs.token \/ got.first)
      /\ rest.state.token = (got.state.token \/ rest.first)
  BY DEF Sound, Observer, Follows
<1> QED BY <1>1 DEF TimeToFirstToken

LEMMA ReadStep ==
    ASSUME IInv, NEW bytes \in BOOLEAN, NEW err \in {"none", "eof", "broken", "canceled"},
           Read(bytes, err)
    PROVE  IInv'
<1>a. /\ TypeOK /\ Sound(obs) /\ body \in BodyResult /\ (res.status = 101 => ~res.sse)
      /\ BeforeInv /\ CopyInv /\ HandedInv /\ CauseInv /\ EndInv /\ SpansInv
      /\ StatusIsOnTheWire
  BY DEF IInv
<1>b. /\ pc = "reading" /\ (bytes => reads < MaxReads)
      /\ (bytes \/ err # "none") /\ (err = "canceled" => cause # "none")
      /\ reads' = IF bytes THEN reads + 1 ELSE reads
      /\ failure' = err
      /\ struck' = IF err = "none" THEN struck ELSE cause
      /\ pc' = IF bytes THEN "writing" ELSE IF err = "eof" THEN "closing" ELSE "aborting"
      /\ UNCHANGED <<cause, res, status, upstreamErr, panicked, writeErr, wire, copied,
                     clientSpan, serverSpan, generation>>
  BY DEF Read, clientVars
<1>1. PICK got \in IF bytes THEN Arrivals ELSE {Quiet(obs)} :
         \E rest \in Rest(got.state, err) : \E p \in PayloadsOf(rest.state) :
            /\ obs' = rest.state
            /\ ttft' = TimeToFirstToken(got.first \/ rest.first)
            /\ outputSpans' = Recorded(Recorded(outputSpans, got.outputs, "success"),
                                       rest.outputs, "success")
            /\ body' = IF err = "none" THEN body
                       ELSE Handed(rest.state, IF err = "eof" THEN "none" ELSE err, p)
  BY DEF Read
<1>r. PICK rest \in Rest(got.state, err) : \E p \in PayloadsOf(rest.state) :
            /\ obs' = rest.state
            /\ ttft' = TimeToFirstToken(got.first \/ rest.first)
            /\ outputSpans' = Recorded(Recorded(outputSpans, got.outputs, "success"),
                                       rest.outputs, "success")
            /\ body' = IF err = "none" THEN body
                       ELSE Handed(rest.state, IF err = "eof" THEN "none" ELSE err, p)
  BY <1>1
<1>2. PICK p \in PayloadsOf(rest.state) :
            /\ obs' = rest.state
            /\ ttft' = TimeToFirstToken(got.first \/ rest.first)
            /\ outputSpans' = Recorded(Recorded(outputSpans, got.outputs, "success"),
                                       rest.outputs, "success")
            /\ body' = IF err = "none" THEN body
                       ELSE Handed(rest.state, IF err = "eof" THEN "none" ELSE err, p)
  BY <1>r
<1>3. Follows(obs, got)
  BY <1>a, ArrivalsFollow, QuietFollows
<1>4. Follows(got.state, rest) /\ Sound(rest.state)
  <2>1. Sound(got.state)
    BY <1>3 DEF Follows
  <2>2. Follows(got.state, rest)
    BY <2>1, RestFollows
  <2> QED BY <2>2 DEF Follows
<1>c. /\ res \in Response /\ status = res.status /\ status # 101 /\ wire = status
      /\ ~panicked /\ ~upstreamErr /\ ~body.handed /\ failure = "none" /\ body = NoResult
  BY <1>a, <1>b DEF CopyInv, HandedInv, Copying
<1>5. Sound(obs')
  BY <1>2, <1>4
<1>6. /\ outputSpans' \in [Outputs -> Seq(Outcome)]
      /\ OneSpanEach(outputSpans', Finished(rest.state))
  <2>1. /\ outputSpans \in [Outputs -> Seq(Outcome)]
        /\ OneSpanEach(outputSpans, Finished(obs))
    BY <1>a, <1>b DEF TypeOK, SpansInv
  <2>2. outputSpans' = Recorded(Recorded(outputSpans, got.outputs, "success"),
                                rest.outputs, "success")
    BY <1>2
  <2>3. PICK spans, now, o : spans = outputSpans /\ now = outputSpans' /\ o = obs
    OBVIOUS
  <2>4. /\ spans \in [Outputs -> Seq(Outcome)]
        /\ OneSpanEach(spans, Finished(o))
    BY <2>1, <2>3
  <2>5. now = Recorded(Recorded(spans, got.outputs, "success"), rest.outputs, "success")
    BY <2>2, <2>3
  <2>6. Follows(o, got) /\ Follows(got.state, rest)
    BY <1>3, <1>4, <2>3
  <2>7. /\ now \in [Outputs -> Seq(Outcome)]
        /\ OneSpanEach(now, Finished(rest.state))
    BY <2>4, <2>5, <2>6, Delivery
  <2> QED BY <2>3, <2>7
<1>7. ttft' = IF rest.state.token /\ status = 200 THEN 1 ELSE 0
  BY <1>a, <1>2, <1>3, <1>4, FirstToken DEF SpansInv
<1>8. /\ p \in Payload /\ (res.sse => p = rest.state.last)
  BY <1>4, PayloadsAre
<1>9. /\ body' \in BodyResult /\ HandedInv'
      /\ body'.handed <=> err # "none"
      /\ err = "broken" => body'.err = "broken"
  <2>1. CASE err = "none"
    <3>1. body' = body
      BY <1>2, <2>1
    <3> QED BY <1>a, <1>c, <2>1, <3>1 DEF HandedInv
  <2>2. CASE err # "none"
    <3>1. PICK e \in Failure : e = IF err = "eof" THEN "none" ELSE err
      BY <2>2 DEF Failure
    <3>2. body' = Result(rest.state, e, p)
      BY <1>2, <1>c, <2>2, <3>1 DEF Handed
    <3>3. /\ body' \in BodyResult
          /\ body'.handed /\ body'.err = e /\ body'.last = p
          /\ body'.token = rest.state.token /\ body'.dropped = rest.state.dropped
          /\ body'.limited = (rest.state.limited \/ rest.state.dropped)
          /\ body'.sawDone = (rest.state.sawDone \/ rest.state.terminal)
          /\ OutputsOf(body'.outputs) = rest.state.groups \ rest.state.over
          /\ \A x \in body'.outputs : ~x.complete
      BY <1>4, <1>8, <3>2, ResultOf
    <3>4. HandedInv'
      BY <1>b, <1>c, <1>2, <1>8, <3>3 DEF HandedInv
    <3> QED BY <2>2, <3>1, <3>3, <3>4
  <2> QED BY <2>1, <2>2
<1>10. TypeOK'
  <2>1. reads' \in 0..MaxReads
    BY <1>a, <1>b, MaxReadsAssumption DEF TypeOK
  <2>2. obs'.groups \subseteq Outputs /\ obs'.over \subseteq Outputs /\ obs'.last \in Payload
    BY <1>5 DEF Sound, Observer
  <2>3. body'.last \in Payload /\ body'.outputs \subseteq StreamOutput
    BY <1>9 DEF BodyResult
  <2>4. pc' \in PC /\ failure' \in Failure /\ struck' \in Cause
    BY <1>a, <1>b DEF TypeOK, PC, Failure
  <2>5. ttft' \in Nat
    BY <1>7
  <2> QED BY <1>a, <1>b, <1>6, <2>1, <2>2, <2>3, <2>4, <2>5 DEF TypeOK
<1>11. BeforeInv'
  BY <1>b DEF BeforeInv, Copying
<1>12. CopyInv'
  BY <1>b, <1>c, <1>9 DEF CopyInv, Copying
<1>13. CauseInv'
  BY <1>a, <1>b, <1>c, FreshFields DEF CauseInv, TypeOK, Cause, Over
<1>14. EndInv' /\ StatusIsOnTheWire'
  BY <1>b DEF EndInv, StatusIsOnTheWire, Over
<1>15. SpansInv'
  BY <1>a, <1>b, <1>2, <1>6, <1>7 DEF SpansInv
<1> QED BY <1>a, <1>b, <1>5, <1>9, <1>10, <1>11, <1>12, <1>13, <1>14, <1>15 DEF IInv, Sound

LEMMA CloseSteps ==
    ASSUME IInv, CloseBody \/ Abort
    PROVE  IInv'
<1>a. /\ TypeOK /\ Sound(obs) /\ body \in BodyResult
      /\ BeforeInv /\ CopyInv /\ HandedInv /\ CauseInv /\ EndInv /\ SpansInv
      /\ StatusIsOnTheWire
  BY DEF IInv
<1>b. /\ pc \in {"closing", "aborting"} /\ pc' = "ending"
      /\ UNCHANGED <<cause, failure, struck, res, reads, obs, status, upstreamErr, panicked,
                     writeErr, wire, clientSpan, serverSpan, outputVars>>
      /\ \/ pc = "closing" /\ copied' = TRUE
         \/ pc = "aborting" /\ copied' = copied
  BY DEF CloseBody, Abort, upstreamVars, spanVars, clientVars
<1>1. PICK p \in PayloadsOf(obs) : body' = Handed(obs, "none", p)
  BY DEF CloseBody, Abort
<1>2. p \in Payload /\ (res.sse => p = obs.last)
  BY <1>a, PayloadsAre
<1>c. /\ res \in Response /\ status = res.status /\ wire = status
      /\ ~panicked /\ ~upstreamErr
      /\ body.handed <=> failure # "none"
      /\ failure = "broken" => body.err = "broken"
      /\ failure \in {"none", "eof", "broken", "canceled"}
  BY <1>a, <1>b DEF CopyInv, Copying
<1>3. /\ body' \in BodyResult /\ HandedInv' /\ body'.handed
      /\ body.handed => body' = body
  <2>1. CASE body.handed
    <3>1. body' = body
      BY <1>1, <2>1 DEF Handed
    <3> QED BY <1>a, <1>b, <2>1, <3>1 DEF HandedInv
  <2>2. CASE ~body.handed
    <3>1. PICK e \in Failure : e = "none"
      BY DEF Failure
    <3>2. body' = Result(obs, e, p)
      BY <1>1, <2>2, <3>1 DEF Handed
    <3>3. /\ body' \in BodyResult
          /\ body'.handed /\ body'.last = p
          /\ body'.token = obs.token /\ body'.dropped = obs.dropped
          /\ body'.limited = (obs.limited \/ obs.dropped)
          /\ body'.sawDone = (obs.sawDone \/ obs.terminal)
          /\ OutputsOf(body'.outputs) = obs.groups \ obs.over
          /\ \A x \in body'.outputs : ~x.complete
      BY <1>a, <1>2, <3>2, ResultOf
    <3>4. HandedInv'
      BY <1>b, <1>c, <1>2, <3>3 DEF HandedInv
    <3> QED BY <2>2, <3>3, <3>4
  <2> QED BY <2>1, <2>2
<1>4. TypeOK'
  <2>1. body'.last \in Payload /\ body'.outputs \subseteq StreamOutput
    BY <1>3 DEF BodyResult
  <2>2. {upstreamErr', panicked', writeErr', copied'} \subseteq BOOLEAN /\ pc' \in PC
    BY <1>a, <1>b DEF TypeOK, PC
  <2> QED BY <1>a, <1>b, <2>1, <2>2 DEF TypeOK, outputVars
<1>5. BeforeInv' /\ CopyInv'
  BY <1>b DEF BeforeInv, CopyInv, Copying, Over
<1>6. CauseInv'
  BY <1>a, <1>b, <1>c DEF CauseInv, Over
<1>7. EndInv'
  <2>1. failure \notin {"none", "eof"} /\ cause = "none" => body'.err = "broken"
    BY <1>a, <1>c, <1>3 DEF CauseInv
  <2>2. copied' \/ cause # "none" \/ writeErr \/ body'.err = "broken"
    BY <1>a, <1>b, <1>c, <1>3 DEF CopyInv, CauseInv
  <2> QED BY <1>b, <1>c, <1>3, <2>1, <2>2 DEF EndInv
<1>8. StatusIsOnTheWire'
  BY <1>b, <1>c DEF StatusIsOnTheWire
<1>9. SpansInv'
  BY <1>a, <1>b DEF SpansInv, outputVars
<1> QED BY <1>a, <1>b, <1>3, <1>4, <1>5, <1>6, <1>7, <1>8, <1>9 DEF IInv, Sound

LEMMA EndStep ==
    ASSUME IInv, End
    PROVE  IInv'
<1>a. /\ TypeOK /\ Sound(obs) /\ body \in BodyResult
      /\ BeforeInv /\ CopyInv /\ HandedInv /\ CauseInv /\ EndInv /\ SpansInv
      /\ StatusIsOnTheWire
  BY DEF IInv
<1>b. /\ pc = "ending" /\ pc' = "ended"
      /\ serverSpan' = FinalOutcome
      /\ outputSpans' = Recorded(outputSpans, body.outputs, FinalOutcome)
      /\ generation' = GenerationSpans(FinalOutcome)
      /\ UNCHANGED <<cause, failure, struck, res, reads, obs, body, status, upstreamErr,
                     panicked, writeErr, wire, copied, clientSpan, ttft>>
  BY DEF End, upstreamVars, stateVars, clientVars
<1>1. FinalOutcome \in Outcome /\ FinalOutcome' = FinalOutcome
  <2>1. FinalOutcome \in Outcome
    BY DEF FinalOutcome, Verdict, Outcome
  <2>2. FinalOutcome' = FinalOutcome
    BY <1>b DEF FinalOutcome, Verdict, BrokenOff, Terminated
  <2> QED BY <2>1, <2>2
<1>2. /\ outputSpans' \in [Outputs -> Seq(Outcome)]
      /\ OneSpanEach(outputSpans', Finished(obs) \cup OutputsOf(body.outputs))
  <2>1. /\ outputSpans \in [Outputs -> Seq(Outcome)] /\ body.outputs \in SUBSET StreamOutput
        /\ OneSpanEach(outputSpans, Finished(obs))
    BY <1>a, <1>b DEF TypeOK, SpansInv
  <2>2. \A o \in OutputsOf(body.outputs) : o \notin Finished(obs)
    BY <1>a, FreshFields DEF HandedInv, OutputsOf, Finished
  <2>3. PICK out \in Outcome, outs \in SUBSET StreamOutput,
             spans \in [Outputs -> Seq(Outcome)] :
           out = FinalOutcome /\ outs = body.outputs /\ spans = outputSpans
    BY <1>1, <2>1
  <2> DEFINE after == Recorded(spans, outs, out)
  <2>4. /\ after \in [Outputs -> Seq(Outcome)]
        /\ \A o \in Outputs :
              /\ o \notin OutputsOf(outs) => after[o] = spans[o]
              /\ o \in OutputsOf(outs) => Len(after[o]) = Len(spans[o]) + 1
    BY RecordedSpans
  <2>5. outputSpans' = after
    BY <1>b, <2>3
  <2> HIDE DEF after
  <2>6. ASSUME NEW o \in Outputs
        PROVE  Len(outputSpans'[o]) =
                  IF o \in Finished(obs) \cup OutputsOf(body.outputs) THEN 1 ELSE 0
    <3>1. Len(spans[o]) = IF o \in Finished(obs) THEN 1 ELSE 0
      BY <2>1, <2>3 DEF OneSpanEach
    <3>2. CASE o \in OutputsOf(outs)
      <4>1. o \in OutputsOf(body.outputs) /\ o \notin Finished(obs)
        BY <2>2, <2>3, <3>2
      <4>2. Len(after[o]) = Len(spans[o]) + 1
        BY <2>4, <3>2
      <4>3. Len(spans[o]) = 0
        BY <3>1, <4>1
      <4> QED BY <2>5, <4>1, <4>2, <4>3
    <3>3. CASE o \notin OutputsOf(outs)
      BY <2>3, <2>4, <2>5, <3>1, <3>3
    <3> QED BY <3>2, <3>3
  <2> QED BY <2>4, <2>5, <2>6 DEF OneSpanEach
<1>3. /\ generation' \in Seq(Outcome)
      /\ Len(generation') = IF body.token /\ res.sse /\ status = 200 THEN 1 ELSE 0
  <2>1. generation = <<>>
    BY <1>a, <1>b DEF SpansInv
  <2> DEFINE out == FinalOutcome
  <2>2. generation' = IF body.token /\ res.sse /\ status = 200 THEN <<out>> ELSE <<>>
    BY <1>b, <2>1 DEF GenerationSpans
  <2>3. out \in Outcome
    BY <1>1
  <2> HIDE DEF out
  <2>4. <<out>> \in Seq(Outcome) /\ Len(<<out>>) = 1
    BY <2>3
  <2> QED BY <2>2, <2>4
<1>4. TypeOK'
  BY <1>a, <1>b, <1>1, <1>2, <1>3 DEF TypeOK, PC
<1>5. BeforeInv' /\ CopyInv' /\ HandedInv'
  BY <1>a, <1>b DEF BeforeInv, CopyInv, HandedInv, Copying, Over
<1>6. CauseInv' /\ EndInv' /\ StatusIsOnTheWire'
  BY <1>a, <1>b DEF CauseInv, EndInv, StatusIsOnTheWire, Over
<1>7. SpansInv'
  BY <1>a, <1>b, <1>1, <1>2, <1>3 DEF SpansInv
<1> QED BY <1>a, <1>b, <1>4, <1>5, <1>6, <1>7 DEF IInv, Sound

-----------------------------------------------------------------------------
(* The theorems *)

LEMMA NextIInv == IInv /\ [Next]_vars => IInv'
<1> SUFFICES ASSUME IInv, [Next]_vars PROVE IInv'
  OBVIOUS
<1>1. CASE RoundTrip \/ HandleError
  BY <1>1, RoundTripSteps, HandleErrorSteps DEF RoundTrip, HandleError
<1>2. CASE ModifyResponse \/ Upgrade \/ UpgradeFails \/ TunnelEnds \/ SendHead
  BY <1>2, ResponseSteps
<1>3. CASE Copy
  BY <1>3, ReadStep, WriteSteps, CloseSteps DEF Copy
<1>4. CASE HandlerPanics \/ End
  BY <1>4, WriteSteps, EndStep
<1>5. CASE ClientGone \/ ForcedClose
  BY <1>5, CancelSteps
<1>6. CASE UNCHANGED vars
  <2>1. UNCHANGED <<pc, cause, failure, struck, res, reads, obs, body, status, upstreamErr,
                    panicked, writeErr, wire, copied, clientSpan, serverSpan, ttft,
                    generation, outputSpans>>
    BY <1>6 DEF vars, upstreamVars, stateVars, clientVars, spanVars, outputVars
  <2>2. /\ TypeOK /\ Sound(obs) /\ body \in BodyResult /\ (res.status = 101 => ~res.sse)
        /\ BeforeInv /\ CopyInv /\ HandedInv /\ CauseInv /\ EndInv /\ SpansInv
        /\ StatusIsOnTheWire
    BY DEF IInv
  <2>3. TypeOK' /\ Sound(obs') /\ (body \in BodyResult)' /\ (res.status = 101 => ~res.sse)'
    BY <2>1, <2>2 DEF TypeOK
  <2>4. BeforeInv' /\ CopyInv' /\ HandedInv' /\ StatusIsOnTheWire'
    BY <2>1, <2>2 DEF BeforeInv, CopyInv, HandedInv, StatusIsOnTheWire
  <2>5. CauseInv' /\ EndInv'
    BY <2>1, <2>2 DEF CauseInv, EndInv
  <2>6. FinalOutcome' = FinalOutcome
    BY <2>1 DEF FinalOutcome, Verdict, BrokenOff, Terminated
  <2>7. SpansInv'
    BY <2>1, <2>2, <2>6 DEF SpansInv
  <2> QED BY <2>1, <2>2, <2>3, <2>4, <2>5, <2>7 DEF IInv, Sound
<1> QED BY <1>1, <1>2, <1>3, <1>4, <1>5, <1>6 DEF Next

\* The inductive invariant holds of every behaviour: it is what the other
\* theorems are read off.
THEOREM Invariance == Spec => []IInv
BY InitIInv, NextIInv, PTL DEF Spec

\* Every variable keeps its type.
THEOREM TypeCorrect == Spec => []TypeOK
<1>1. IInv => TypeOK
  BY DEF IInv
<1> QED BY <1>1, Invariance, PTL

\* A request recorded as a success reached the client whole: nobody cancelled,
\* no write failed, the body was copied to its end, and a stream was seen to end
\* with nothing missing from what was observed.
THEOREM SuccessWasWhole == Spec => []SuccessIsWhole
<1>1. IInv => SuccessIsWhole
  <2> SUFFICES ASSUME IInv, serverSpan = "success"
               PROVE  /\ cause = "none" /\ ~writeErr /\ ~panicked
                      /\ res.status = 101 \/ (res.status = 200 /\ copied)
                      /\ res.sse => /\ obs.terminal \/ obs.sawDone
                                    /\ ~obs.dropped /\ ~ObservationGap(obs)
    BY DEF SuccessIsWhole
  <2>a. /\ TypeOK /\ Sound(obs) /\ body \in BodyResult /\ (res.status = 101 => ~res.sse)
        /\ HandedInv /\ EndInv /\ SpansInv
    BY DEF IInv
  <2>1. pc = "ended" /\ FinalOutcome = "success"
    BY <2>a DEF SpansInv
  <2>2. ~panicked /\ cause = "none" /\ Verdict = "success"
    BY <2>1, <2>a DEF FinalOutcome, TypeOK, Cause
  <2>3. /\ ~upstreamErr /\ body.err # "broken" /\ ~(status >= 400)
        /\ ~writeErr /\ ~body.limited /\ ~body.dropped
        /\ res.sse /\ status = 200 => Terminated
    BY <2>2 DEF Verdict, BrokenOff
  <2>4. res \in Response /\ status = res.status /\ (copied \/ res.status = 101)
    BY <2>a, <2>1, <2>2, <2>3 DEF EndInv, Over
  <2>5. res.status = 101 \/ (res.status = 200 /\ copied)
    BY <2>3, <2>4 DEF Response
  <2>6. ASSUME res.sse
        PROVE  obs.terminal /\ ~obs.dropped /\ ~ObservationGap(obs)
    <3>1. Terminated
      BY <2>a, <2>3, <2>4, <2>5, <2>6
    <3>2. body.handed
      BY <2>a, <3>1 DEF Terminated, NoResult, HandedInv
    <3>3. obs.terminal
      BY <2>a, <2>6, <3>1, <3>2 DEF Terminated, HandedInv, Sound
    <3>4. ~obs.limited /\ ~obs.dropped
      BY <2>a, <2>3, <3>2 DEF HandedInv
    <3>5. ~obs.garbled
      BY <2>a, <3>3, <3>4 DEF Sound
    <3> QED BY <3>3, <3>4, <3>5 DEF ObservationGap
  <2> QED BY <2>2, <2>3, <2>5, <2>6
<1> QED BY <1>1, Invariance, PTL

\* The CLIENT span and the SERVER span of a request, which read the cause of its
\* context at different times, blame the same party: the one that had cancelled
\* when something failed, and the upstream if nobody had.
THEOREM TheRightPartyIsBlamed == Spec => []BlameIsRight
<1>1. IInv => BlameIsRight
  <2> SUFFICES ASSUME IInv, pc = "ended" PROVE BlameIsRight
    BY DEF BlameIsRight, SpansAgree, BlameFollowsCause
  <2>a. TypeOK /\ CauseInv /\ EndInv /\ serverSpan = FinalOutcome
    BY DEF IInv, SpansInv
  <2>1. SpansAgree
    BY <2>a DEF SpansAgree, CauseInv, FinalOutcome, TypeOK
  <2>2. ASSUME ~panicked, failure \notin {"none", "eof"}, struck # "none"
        PROVE  /\ serverSpan \in {"shutdown", "client_cancel"}
               /\ res = Nothing => clientSpan = serverSpan
    <3>1. cause = struck /\ struck \in {"canceled", "forced"}
      BY <2>a, <2>2 DEF CauseInv, TypeOK, Cause
    <3>2. serverSpan = IF struck = "forced" THEN "shutdown" ELSE "client_cancel"
      BY <2>a, <2>2, <3>1 DEF FinalOutcome
    <3>3. clientSpan # "open"
      BY <2>a, <2>2 DEF CauseInv
    <3> QED BY <2>a, <2>2, <3>2, <3>3 DEF CauseInv
  <2>3. ASSUME ~panicked, failure \notin {"none", "eof"}, cause = "none"
        PROVE  serverSpan = "upstream_error"
    BY <2>a, <2>3 DEF EndInv, Over, FinalOutcome, Verdict
  <2> QED BY <2>1, <2>2, <2>3 DEF BlameIsRight, BlameFollowsCause
<1> QED BY <1>1, Invariance, PTL

\* Every output of a stream gets one span and every reported first token one
\* generation span, though several places could record each of them.
THEOREM ChildSpansRecordedOnce == Spec => []ChildSpansOnce
<1>1. IInv => ChildSpansOnce
  <2> SUFFICES ASSUME IInv PROVE OutputsRecordedOnce /\ PhaseSpansPair
    BY DEF ChildSpansOnce
  <2>a. TypeOK /\ Sound(obs) /\ body \in BodyResult /\ HandedInv /\ EndInv /\ SpansInv
    BY DEF IInv
  <2>1. \A o \in Outputs : Len(outputSpans[o]) <= 1
    <3>1. PICK outs : OneSpanEach(outputSpans, outs)
      BY <2>a DEF SpansInv
    <3>2. \A o \in Outputs : Len(outputSpans[o]) = IF o \in outs THEN 1 ELSE 0
      BY <3>1 DEF OneSpanEach
    <3>3. ASSUME NEW o \in Outputs
          PROVE  Len(outputSpans[o]) <= 1
      <4>1. Len(outputSpans[o]) = IF o \in outs THEN 1 ELSE 0
        BY <3>2
      <4>2. CASE o \in outs
        BY <4>1, <4>2
      <4>3. CASE o \notin outs
        BY <4>1, <4>3
      <4> QED BY <4>2, <4>3
    <3> QED BY <3>3
  <2>2. ASSUME pc = "ended", ~panicked
        PROVE  /\ Finished(obs) \cup OutputsOf(body.outputs) = obs.groups
               /\ body.token = obs.token
    <3>1. CASE body.handed
      BY <2>a, <3>1 DEF HandedInv, Finished
    <3>2. CASE ~body.handed
      <4>1. obs = Fresh /\ body = NoResult
        BY <2>a, <2>2, <3>2 DEF EndInv, HandedInv, Over
      <4>2. NoResult.token = FALSE /\ Fresh.token = FALSE
        BY DEF NoResult, Fresh
      <4> QED BY <4>1, <4>2, FreshFields DEF OutputsOf, Finished
    <3> QED BY <3>1, <3>2
  <2>3. OutputsRecordedOnce
    BY <2>a, <2>1, <2>2 DEF OutputsRecordedOnce, SpansInv, OneSpanEach
  <2>4. ttft <= 1
    BY <2>a DEF SpansInv
  <2>5. ASSUME pc = "ended", ~panicked
        PROVE  Len(generation) = IF ttft = 1 /\ res.sse THEN 1 ELSE 0
    BY <2>a, <2>2, <2>5 DEF SpansInv
  <2> QED BY <2>3, <2>4, <2>5 DEF PhaseSpansPair
<1> QED BY <1>1, Invariance, PTL

\* The status recorded on the span is the one the client was sent.
THEOREM StatusWasSent == Spec => []StatusIsOnTheWire
<1>1. IInv => StatusIsOnTheWire
  BY DEF IInv
<1> QED BY <1>1, Invariance, PTL

\* No step records an output as a success once something of the stream before it
\* was dropped or not understood.
THEOREM GapsAreRemembered == Spec => NoSuccessAcrossGap
<1> DEFINE Honest == \A o \in Outputs :
                        Len(outputSpans'[o]) > Len(outputSpans[o])
                           /\ (obs.dropped \/ ObservationGap(obs))
                        => outputSpans'[o][Len(outputSpans'[o])] # "success"
<1>1. IInv /\ [Next]_vars => [Honest]_vars
  <2> SUFFICES ASSUME IInv, Next PROVE Honest
    OBVIOUS
  <2>a. /\ TypeOK /\ Sound(obs) /\ body \in BodyResult /\ HandedInv /\ SpansInv
    BY DEF IInv
  <2>b. \A o \in Outputs : Len(outputSpans[o]) \in Nat
    BY <2>a DEF TypeOK
  <2>1. CASE \E bytes \in BOOLEAN, err \in {"none", "eof", "broken", "canceled"} :
                Read(bytes, err)
    <3>1. PICK bytes \in BOOLEAN, err \in {"none", "eof", "broken", "canceled"} :
             Read(bytes, err)
      BY <2>1
    <3>2. PICK got \in IF bytes THEN Arrivals ELSE {Quiet(obs)} :
             \E rest \in Rest(got.state, err) :
                outputSpans' = Recorded(Recorded(outputSpans, got.outputs, "success"),
                                        rest.outputs, "success")
      BY <3>1 DEF Read
    <3>3. PICK rest \in Rest(got.state, err) :
             outputSpans' = Recorded(Recorded(outputSpans, got.outputs, "success"),
                                     rest.outputs, "success")
      BY <3>2
    <3>4. Follows(obs, got)
      BY <2>a, ArrivalsFollow, QuietFollows
    <3>5. Follows(got.state, rest)
      <4>1. Sound(got.state)
        BY <3>4 DEF Follows
      <4> QED BY <4>1, RestFollows
    <3>6. PICK spans, now, x : spans = outputSpans /\ now = outputSpans' /\ x = obs
      OBVIOUS
    <3>7. spans \in [Outputs -> Seq(Outcome)] /\ OneSpanEach(spans, Finished(x))
      BY <2>a, <3>1, <3>6 DEF TypeOK, SpansInv, Read
    <3>8. now = Recorded(Recorded(spans, got.outputs, "success"), rest.outputs, "success")
      BY <3>3, <3>6
    <3>9. Follows(x, got)
      BY <3>4, <3>6
    <3>10. Gap(x) => \A o \in Outputs : Len(now[o]) > Len(spans[o])
                                           => now[o][Len(now[o])] # "success"
      BY <3>5, <3>7, <3>8, <3>9, Delivery
    <3> QED BY <3>6, <3>10 DEF Gap
  <2>2. CASE End
    <3>1. outputSpans' = Recorded(outputSpans, body.outputs, FinalOutcome)
      BY <2>2 DEF End
    <3>2. FinalOutcome \in Outcome
      BY DEF FinalOutcome, Verdict, Outcome
    <3>3. outputSpans \in [Outputs -> Seq(Outcome)] /\ body.outputs \in SUBSET StreamOutput
      BY <2>a DEF TypeOK
    <3>4. PICK out \in Outcome, outs \in SUBSET StreamOutput,
               spans \in [Outputs -> Seq(Outcome)] :
             out = FinalOutcome /\ outs = body.outputs /\ spans = outputSpans
      BY <3>2, <3>3
    <3> DEFINE after == Recorded(spans, outs, out)
    <3>5. \A o \in Outputs :
             /\ o \notin OutputsOf(outs) => after[o] = spans[o]
             /\ o \in OutputsOf(outs) =>
                   \E x \in outs : after[o][Len(after[o])] = StreamOutputOutcome(x, out)
      BY RecordedSpans
    <3>6. outputSpans' = after
      BY <3>1, <3>4
    <3> HIDE DEF after
    <3>7. \A x \in outs : StreamOutputOutcome(x, out) # "success"
      BY <2>a, <3>4 DEF HandedInv, StreamOutputOutcome
    <3>8. ASSUME NEW o \in Outputs, Len(after[o]) > Len(spans[o])
          PROVE  after[o][Len(after[o])] # "success"
      <4>1. o \in OutputsOf(outs)
        BY <2>b, <3>4, <3>5, <3>8
      <4> QED BY <3>5, <3>7, <4>1
    <3> QED BY <3>4, <3>6, <3>8
  <2>3. CASE outputSpans' = outputSpans
    BY <2>b, <2>3
  <2>4. CASE RoundTrip \/ HandleError
    <3>1. outputSpans' = outputSpans
      BY <2>4 DEF RoundTrip, Respond, TransportFails, SettleClientSpan, HandleError,
                  AnswerForcedClose, AnswerNobody, AnswerGatewayError, allButPc, spanVars,
                  outputVars
    <3> QED BY <2>3, <3>1
  <2>5. CASE ModifyResponse \/ Upgrade \/ UpgradeFails \/ TunnelEnds \/ SendHead
    <3>1. outputSpans' = outputSpans
      BY <2>5 DEF ModifyResponse, Upgrade, UpgradeFails, TunnelEnds, SendHead, allButPc,
                  spanVars, outputVars
    <3> QED BY <2>3, <3>1
  <2>6. CASE Write \/ WriteFails \/ FlushFails \/ CloseBody \/ Abort \/ HandlerPanics
             \/ ClientGone \/ ForcedClose
    <3>1. outputSpans' = outputSpans
      BY <2>6 DEF Write, WriteFails, FlushFails, CloseBody, Abort, HandlerPanics, ClientGone,
                  ForcedClose, allButPc, spanVars, outputVars
    <3> QED BY <2>3, <3>1
  <2> QED BY <2>1, <2>2, <2>4, <2>5, <2>6 DEF Next, Copy
<1> QED BY <1>1, Invariance, PTL DEF Spec, NoSuccessAcrossGap
=============================================================================
