----------------------------- MODULE Recording -----------------------------
(***************************************************************************)
(* What the server span keeps of an exchange: the response captured on its *)
(* way (module Capture) and, when the span ends, both bodies split into    *)
(* attributes (module BodySplit), the request's first, and both headers:   *)
(* requestState.setExchangeAttributes.                                     *)
(*                                                                         *)
(* Which document a body was is settled when it is looked at: until then   *)
(* only its bytes are counted.                                             *)
(***************************************************************************)
EXTENDS Capture, BodySplit

CONSTANTS Bodies,          \* the documents a body may be
          MaxHeaders,      \* maxHeaderAttributes
          MaxHeaderValues, \* maxHeaderValues
          FixedCount,      \* attributes of the server span set elsewhere, at most
          SpanLimit        \* spanAttributeCountLimit

ASSUME HeaderAssumption == /\ {MaxHeaders, MaxHeaderValues, FixedCount, SpanLimit} \subseteq Nat
                           /\ \A h \in Headers : IsFiniteSet(DOMAIN h)

\* The limits of the proxy and of the tracer provider go together.
ASSUME SpanAssumption ==
    FixedCount + 2 * (MaxFields + MaxPaths + 1) + 2 * (MaxHeaders + 1) <= SpanLimit

VARIABLES stage,     \* what the handler does
          side,      \* the body being recorded
          bodyAttrs, \* the number of attributes set for bodies
          headerAttrs\* the number of attributes set for headers

recordVars == <<stage, side, bodyAttrs, headerAttrs>>
vars == <<captureVars, splitVars, recordVars>>

Sides == {"request", "response"}
Stage == {"serving", "recording", "splitting", "headers", "ended"}

Init == /\ CaptureInit
        /\ SplitInit
        /\ stage = "serving" /\ side = "request"
        /\ bodyAttrs = 0 /\ headerAttrs = 0

-----------------------------------------------------------------------------
Serve == /\ stage = "serving"
         /\ CaptureStep
         /\ UNCHANGED <<splitVars, recordVars>>

\* requestState.end, at any point of the response: a span that is not recorded
\* gets no attributes.
End == /\ stage = "serving"
       /\ stage' = IF recording THEN "recording" ELSE "ended"
       /\ UNCHANGED <<captureVars, splitVars, side, bodyAttrs, headerAttrs>>

\* After the request comes the response, then the headers.
Proceed == /\ side' = "response"
           /\ stage' = IF side = "request" THEN "recording" ELSE "headers"

\* The attributes of a body, and one more for a body that was cut.
Record(count, truncated) ==
    /\ bodyAttrs' = bodyAttrs + count + (IF truncated THEN 1 ELSE 0)
    /\ Proceed

\* traceBodyAttributes: a body that was cut, or is no object to be split, is one
\* text; an encoded response always is.
RecordText(d, truncated, split) ==
    /\ stage = "recording"
    /\ ~split \/ truncated \/ ~Splittable(d)
    /\ Record(1, truncated)
    /\ UNCHANGED <<captureVars, splitVars, headerAttrs>>

BeginSplit(d) ==
    /\ stage = "recording"
    /\ Splittable(d)
    /\ Begin(d)
    /\ stage' = "splitting"
    /\ UNCHANGED <<captureVars, side, bodyAttrs, headerAttrs>>

\* The request body, which PeekRequest or the trace limit may have cut.
RecordRequest == side = "request" /\ \E d \in Bodies :
                    \/ \E truncated \in BOOLEAN : RecordText(d, truncated, TRUE)
                    \/ BeginSplit(d)

\* The response body, by the kind modifyResponse has seen.
RecordResponse == side = "response" /\ \E d \in Bodies :
                    \/ kind = "encoded" /\ RecordText(d, Snapshot.truncated, FALSE)
                    \/ kind = "body" /\ RecordText(d, Snapshot.truncated, TRUE)
                    \/ kind = "body" /\ ~Snapshot.truncated /\ BeginSplit(d)

\* An event stream has no body attribute.
SkipStream == /\ stage = "recording" /\ side = "response" /\ kind = "stream"
              /\ Proceed
              /\ UNCHANGED <<captureVars, splitVars, bodyAttrs, headerAttrs>>

Split == /\ stage = "splitting"
         /\ SplitStep
         /\ UNCHANGED <<captureVars, recordVars>>

\* A body that turned out to have no leaf is one text after all.
EndSplit == /\ stage = "splitting" /\ SplitDone
            /\ Record(IF SplitInVain THEN 1 ELSE SplitCount, FALSE)
            /\ Begin(Leaf(""))
            /\ UNCHANGED <<captureVars, headerAttrs>>

\* headerAttributes: a header is a number of values for each name it has; of the
\* names as many as may be become attributes, and a loss is one more.
HeaderAttributes(h) ==
    LET keys == Cardinality(DOMAIN h)
        lost == keys > MaxHeaders \/ \E name \in DOMAIN h : h[name] > MaxHeaderValues
    IN (IF keys > MaxHeaders THEN MaxHeaders ELSE keys) + (IF lost THEN 1 ELSE 0)

RecordHeaders ==
    /\ stage = "headers"
    /\ \E h \in Headers :
          headerAttrs' = HeaderAttributes(h) + HeaderAttributes(Snapshot.header)
    /\ stage' = "ended"
    /\ UNCHANGED <<captureVars, splitVars, side, bodyAttrs>>

Next == \/ Serve \/ End
        \/ RecordRequest \/ RecordResponse \/ SkipStream
        \/ Split \/ EndSplit \/ RecordHeaders

Spec == Init /\ [][Next]_vars

-----------------------------------------------------------------------------
(* Properties *)

\* Whenever the span ends, what is recorded of the response is what the client was
\* sent: the header that was committed, although the map has held interim headers
\* before and holds trailers now, and the first bytes its connection took, all of
\* them unless the cut is marked or the response is a stream.
RecordedIsSent ==
    recording => /\ Snapshot.header = IF onWire = Nothing THEN live ELSE onWire
                 /\ IsPrefix(Snapshot.body, bytes)
                 /\ kind # "stream" => (Snapshot.truncated <=> Snapshot.body # bytes)
                 /\ kind = "stream" => Snapshot.body = <<>> /\ ~Snapshot.truncated

\* However large bodies and headers are, the server span keeps within the number of
\* attributes beyond which the SDK drops them (proxy_feature_test.go:1743).
SpanFits == FixedCount + bodyAttrs + headerAttrs <= SpanLimit
=============================================================================
