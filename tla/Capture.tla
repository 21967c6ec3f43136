------------------------------ MODULE Capture ------------------------------
(***************************************************************************)
(* What the server span remembers of the response: observedWriter, which   *)
(* stands between the reverse proxy and net/http and copies the header and *)
(* the beginning of the body on their way to the client.                   *)
(*                                                                         *)
(* The reverse proxy changes the header map whenever it likes: for interim *)
(* (1xx) responses, for the response, for trailers after the body.  The    *)
(* client gets the header as it was when the response was committed.  A    *)
(* body is a sequence of numbered bytes, so that what was captured can be  *)
(* compared with what was sent.                                            *)
(***************************************************************************)
EXTENDS Naturals, SequencesExt

CONSTANTS Headers,     \* what the header map may hold
          Nothing,     \* no header, nil
          MaxBody,     \* maxTracedBodySize
          MaxResponse  \* bound: bytes of a response

ASSUME CaptureAssumption == /\ Nothing \notin Headers
                            /\ MaxBody \in Nat /\ MaxResponse \in Nat

VARIABLES serving,     \* "before", "during" and "after" the final response head
          live,        \* ResponseWriter.Header(), shared with the reverse proxy
          onWire,      \* the header the client was sent, Nothing before
          bytes,       \* the bytes the client's connection took
          pending,     \* the reverse proxy has bytes of the response left to write
          recording,   \* observedWriter.capture: the span is recorded
          bodyCapture, \* observedWriter.bodyCapture
          header,      \* observedWriter.header, Nothing while nil
          captured,    \* observedWriter.body
          cut,         \* observedWriter.bodyTruncated
          kind         \* how the body is to be recorded, settled by modifyResponse

captureVars == <<serving, live, onWire, bytes, pending, recording, bodyCapture, header,
                 captured, cut, kind>>

Kind == {"body", "encoded", "stream"}

\* newObservedWriter and setCapture(span.IsRecording()).
CaptureInit ==
    /\ serving = "before" /\ live \in Headers /\ onWire = Nothing
    /\ bytes = <<>> /\ pending \in 0..MaxResponse
    /\ recording \in BOOLEAN /\ bodyCapture = TRUE
    /\ header = Nothing /\ captured = <<>> /\ cut = FALSE
    /\ kind = "body"

-----------------------------------------------------------------------------
\* captureHeader: the first call that finds the writer capturing keeps the map.
CaptureHeader(map) == header' = IF recording /\ header = Nothing THEN map ELSE header

\* net/http sends the map as it is at the first final status, write or flush.
CommitHeader(map) == onWire' = IF onWire = Nothing THEN map ELSE onWire

\* captureBody: as much of p as there is room for.
CaptureBody(p) ==
    IF ~recording \/ ~bodyCapture \/ cut THEN UNCHANGED <<captured, cut>>
    ELSE LET remaining == MaxBody - Len(captured)
         IN /\ captured' = captured \o SubSeq(p, 1, IF Len(p) > remaining THEN remaining ELSE Len(p))
            /\ cut' = (Len(p) > remaining)

\* The next n bytes of the response.
BytesOf(n) == [i \in 1..n |-> Len(bytes) + i]

-----------------------------------------------------------------------------
\* Slip: an interim status is taken for the final one.
InterimHeadCaptured ==
    /\ serving = "before"
    /\ \E map \in Headers : live' = map /\ CaptureHeader(map)
    /\ UNCHANGED <<serving, onWire, bytes, pending, recording, bodyCapture, captured, cut, kind>>
\* The transport reports an interim response: the reverse proxy puts its header
\* into the map and writes the 1xx status; it is not captured.
InterimHead ==
    /\ serving = "before"
    /\ live' \in Headers
    /\ UNCHANGED <<serving, onWire, bytes, pending, recording, bodyCapture, header, captured,
                   cut, kind>>

\* modifyResponse: the events of a stream become spans, so its body is not
\* captured (disableBodyCapture), unless it is encoded.
ModifyResponse ==
    /\ serving = "before" /\ kind = "body"
    /\ kind' \in Kind
    /\ bodyCapture' = (kind' # "stream")
    /\ captured' = IF kind' = "stream" THEN <<>> ELSE captured
    /\ cut' = IF kind' = "stream" THEN FALSE ELSE cut
    /\ UNCHANGED <<serving, live, onWire, bytes, pending, recording, header>>

\* WriteHeader with a final status, after the reverse proxy or errorHandler has
\* put the header together.
WriteHeader ==
    /\ serving = "before"
    /\ \E map \in Headers : live' = map /\ CaptureHeader(map) /\ CommitHeader(map)
    /\ serving' = "during"
    /\ UNCHANGED <<bytes, pending, recording, bodyCapture, captured, cut, kind>>

\* Write of n bytes, of which the connection takes `written`; after a failed
\* write the reverse proxy gives up.
Write(n, written) ==
    /\ serving = "during" /\ n <= pending /\ written <= n
    /\ CaptureHeader(live) /\ CommitHeader(live)
    /\ CaptureBody(BytesOf(written))
    /\ bytes' = bytes \o BytesOf(written)
    /\ pending' = IF written < n THEN 0 ELSE pending - n
    /\ UNCHANGED <<serving, live, recording, bodyCapture, kind>>

\* Trailers go into the header map after the body.
AnnounceTrailers ==
    /\ serving = "during" /\ pending = 0
    /\ live' \in Headers
    /\ serving' = "after"
    /\ UNCHANGED <<onWire, bytes, pending, recording, bodyCapture, header, captured, cut, kind>>

CaptureStep == \/ InterimHead \/ ModifyResponse \/ WriteHeader
               \/ \E n \in 1..MaxResponse, written \in 0..MaxResponse : Write(n, written)
               \/ AnnounceTrailers

-----------------------------------------------------------------------------
\* snapshot, as the span ends: a header that was never committed is taken as it is.
Snapshot == [header |-> IF recording /\ header = Nothing THEN live ELSE header,
             body |-> captured, truncated |-> cut]
=============================================================================
