-------------------------------- MODULE Peek --------------------------------
(***************************************************************************)
(* The body of an instrumented request on its way to the upstream:         *)
(* genai.PeekRequest reads the first bytes of it, decodes what it got and  *)
(* puts a body in their place that the transport reads from the beginning. *)
(* The client sends the body in pieces of any size, and its connection may *)
(* break at any point.                                                     *)
(*                                                                         *)
(* A body is a sequence of JSON tokens and its size is their number.  A    *)
(* token that is cut is no token: an incomplete string, true or false is   *)
(* an error of the decoder, and numbers are of no interest here.  "?"      *)
(* stands for anything that is not JSON; a request without a body is one   *)
(* with an empty body.                                                     *)
(***************************************************************************)
EXTENDS Naturals, FiniteSets, SequencesExt

CONSTANTS RequestBodies, \* what clients send
          Limit,         \* Options.RequestBodyLimit
          TraceLimit     \* maxTracedBodySize

Token == STRING

ASSUME BodiesAssumption == RequestBodies \subseteq Seq(Token)
ASSUME LimitAssumption == Limit \in Nat /\ TraceLimit \in Nat

Opening == {"{", "["}
Delimiter == Opening \cup {"}", "]"}
Bool == {"true", "false"}
NotAString == Delimiter \cup Bool \cup {"?", "7"}
Unknown == "unknown"

VARIABLES body,      \* the body the client sends
          arrives,   \* how much of it arrives before ...
          broken,    \* ... it ends, or the connection breaks
          read,      \* how much has been read from the connection
          head,      \* what PeekRequest has read, <<>> until then
          req,       \* its result, the record genai.Request
          spliced,   \* after the head the body goes on with the connection
          declared,  \* Request.ContentLength, or Unknown
          taken,     \* how much of the head the transport has read
          sent,      \* what the transport has sent to the upstream
          ending     \* how that ended: "open", "whole" or "cut"

clientVars == <<body, arrives, broken>>
peekVars == <<head, req, spliced, declared>>
forwardVars == <<taken, sent, ending>>
requestVars == <<clientVars, read, peekVars, forwardVars>>

NotPeeked == [done |-> FALSE, body |-> <<>>, truncated |-> FALSE,
              model |-> Unknown, stream |-> Unknown]

\* A client declares the length of its body or sends it in chunks.
PeekInit ==
    /\ body \in RequestBodies
    /\ arrives \in 0..Len(body)
    /\ broken \in BOOLEAN
    /\ ~broken => arrives = Len(body)
    /\ read = 0
    /\ head = <<>> /\ req = NotPeeked /\ spliced = FALSE
    /\ declared \in {Unknown, ToString(Len(body))}
    /\ taken = 0 /\ sent = <<>> /\ ending = "open"

Upto(s, n) == SubSeq(s, 1, n)
Smaller(a, b) == IF a < b THEN a ELSE b

-----------------------------------------------------------------------------
(* A body within the limit: json.Unmarshal into requestPayload, of which    *)
(* model and stream are kept here. *)

\* How many objects and arrays are open before the i-th token.
Depth(s, i) == Cardinality({j \in 1..(i - 1) : s[j] \in Opening})
               - Cardinality({j \in 1..(i - 1) : s[j] \in Delimiter \ Opening})

\* The tokens right inside the object s: its names, each with the beginning of
\* its value after it, and the end of the object if it is there.
Top(s) == SelectSeq([i \in 1..Len(s) |-> i], LAMBDA i : i > 1 /\ Depth(s, i) = 1)

\* The values of the fields of s called `name`, in order.
ValuesOf(s, name) ==
    LET top == Top(s)
        named == SelectSeq([k \in 1..Len(top) |-> k],
                           LAMBDA k : k % 2 = 1 /\ k < Len(top) /\ s[top[k]] = name)
    IN [n \in 1..Len(named) |-> s[top[named[n] + 1]]]

\* The body is one JSON object whose model is a string and stream a Boolean.
Decodes(s) == /\ s # <<>> /\ s[1] = "{" /\ Depth(s, Len(s) + 1) = 0
              /\ \A i \in DOMAIN s : s[i] # "?"
              /\ \A v \in Range(ValuesOf(s, "model")) : v \notin NotAString
              /\ \A v \in Range(ValuesOf(s, "stream")) : v \in Bool

LastOf(values, default) == IF values = <<>> THEN default ELSE Last(values)

\* The last field of a name counts; an empty model is none; no stream is false.
Decoded(s) == LET model == LastOf(ValuesOf(s, "model"), "")
              IN [model |-> IF model = "" THEN Unknown ELSE model,
                  stream |-> LastOf(ValuesOf(s, "stream"), "false")]

-----------------------------------------------------------------------------
(* A body that is cut: peekTruncatedRequest goes through its tokens. *)

\* Before the first name of the object: no name read, nothing recognised.
Scan == [name |-> Unknown, depth |-> 0, model |-> Unknown, stream |-> Unknown, stop |-> FALSE]

\* Slip: any closing bracket ends the nested value.
SkippedFlat(s, token) ==
    IF token \in Delimiter \ Opening THEN [s EXCEPT !.depth = 0] ELSE s
\* skipTruncatedValue, inside a nested value.
Skipped(s, token) == IF token \in Opening THEN [s EXCEPT !.depth = @ + 1]
                     ELSE IF token \in Delimiter THEN [s EXCEPT !.depth = @ - 1]
                     ELSE s

\* A value that is not nested, for the name before it.
Recognised(s, token) ==
    LET known == [s EXCEPT !.name = Unknown,
                  !.model = IF s.name = "model" /\ token \notin NotAString /\ token # ""
                            THEN token ELSE @,
                  !.stream = IF s.name = "stream" /\ token \in Bool THEN token ELSE @]
    IN [known EXCEPT !.stop = known.model # Unknown /\ known.stream # Unknown]

\* One token of the loop: the scan is over, within a nested value, at a name, at
\* the beginning of a nested value, or at any other value.
Step(s, token) ==
    IF s.stop \/ token = "?" THEN [s EXCEPT !.stop = TRUE]
    ELSE IF s.depth > 0 THEN Skipped(s, token)
    ELSE IF s.name = Unknown
         THEN IF token \in NotAString THEN [s EXCEPT !.stop = TRUE] ELSE [s EXCEPT !.name = token]
    ELSE IF token \in Opening THEN [s EXCEPT !.depth = 1, !.name = Unknown]
    ELSE Recognised(s, token)

ScanOf(s) == IF s = <<>> \/ s[1] # "{" THEN Scan ELSE FoldLeft(Step, Scan, Tail(s))

-----------------------------------------------------------------------------
(* PeekRequest *)

\* io.ReadAll reads at most one byte more than the limit, in pieces.
ReadSome(n) ==
    /\ ~req.done
    /\ n <= arrives - read /\ n <= Limit + 1 - Len(head)
    /\ head' = head \o SubSeq(body, read + 1, read + n)
    /\ read' = read + n
    /\ UNCHANGED <<clientVars, req, spliced, declared, forwardVars>>

\* Slip: what is kept for the trace is forwarded too.
PeekCutForwardsCut ==
    /\ ~req.done
    /\ Len(head) > Limit \/ (broken /\ read = arrives)
    /\ LET kept == Upto(head, Smaller(Limit, Len(head)))
       IN /\ req' = [done |-> TRUE, body |-> kept, truncated |-> TRUE,
                     model |-> ScanOf(kept).model, stream |-> ScanOf(kept).stream]
          /\ head' = kept
    /\ spliced' = TRUE
    /\ UNCHANGED <<clientVars, read, declared, forwardVars>>
\* The limit is exceeded, or the connection broke: what was read is scanned, and
\* the rest of the body is spliced behind it.
PeekCut ==
    /\ ~req.done
    /\ Len(head) > Limit \/ (broken /\ read = arrives)
    /\ LET kept == Upto(head, Smaller(Limit, Len(head)))
       IN req' = [done |-> TRUE, body |-> kept, truncated |-> TRUE,
                  model |-> ScanOf(kept).model, stream |-> ScanOf(kept).stream]
    /\ spliced' = TRUE
    /\ UNCHANGED <<clientVars, read, head, declared, forwardVars>>

\* The whole body was read: it is decoded, and its length is known now.
PeekWhole ==
    /\ ~req.done
    /\ ~broken /\ read = arrives /\ Len(head) <= Limit
    /\ LET decoded == IF Decodes(head) THEN Decoded(head)
                      ELSE [model |-> Unknown, stream |-> Unknown]
       IN req' = [done |-> TRUE, body |-> head, truncated |-> FALSE,
                  model |-> decoded.model, stream |-> decoded.stream]
    /\ declared' = ToString(Len(head))
    /\ UNCHANGED <<clientVars, read, head, spliced, forwardVars>>

-----------------------------------------------------------------------------
(* The transport reads the body PeekRequest left and sends it on. *)

Forwarding == req.done /\ ending = "open"

ForwardHead(n) ==
    /\ Forwarding /\ n <= Len(head) - taken
    /\ sent' = sent \o SubSeq(head, taken + 1, taken + n)
    /\ taken' = taken + n
    /\ UNCHANGED <<clientVars, read, peekVars, ending>>

ForwardRest(n) ==
    /\ Forwarding /\ spliced /\ taken = Len(head) /\ n <= arrives - read
    /\ sent' = sent \o SubSeq(body, read + 1, read + n)
    /\ read' = read + n
    /\ UNCHANGED <<clientVars, peekVars, taken, ending>>

ForwardEnds ==
    /\ Forwarding /\ taken = Len(head) /\ (spliced => read = arrives)
    /\ ending' = IF spliced /\ broken THEN "cut" ELSE "whole"
    /\ UNCHANGED <<clientVars, read, peekVars, taken, sent>>

\* The upstream closes an idle connection under a request: the transport sends it
\* again, from GetBody, which only a body that was read whole has.
Retry ==
    /\ req.done /\ ~spliced
    /\ taken' = 0 /\ sent' = <<>> /\ ending' = "open"
    /\ UNCHANGED <<clientVars, read, peekVars>>

PeekNext == \/ \E n \in 1..(Limit + 1) : ReadSome(n) \/ ForwardHead(n) \/ ForwardRest(n)
            \/ PeekCut \/ PeekWhole \/ ForwardEnds \/ Retry

PeekSpec == PeekInit /\ [][PeekNext]_requestVars

-----------------------------------------------------------------------------
(* What the server span keeps of the body *)

\* boundedTraceBody, and the mark the span gets.
RequestBody == [text |-> Upto(req.body, Smaller(TraceLimit, Len(req.body))),
                truncated |-> req.truncated \/ Len(req.body) > TraceLimit]

-----------------------------------------------------------------------------
(* Properties *)

\* Whatever the proxy reads for itself, the upstream gets the body of the client,
\* byte by byte, once: a body that ends regularly is the whole body and as long as
\* declared, and one the client did not finish does not end regularly
\* (config/config.example.yaml: "The body is always forwarded in full").
ForwardedInFull ==
    /\ IsPrefix(sent, body)
    /\ ending = "whole" => /\ ~broken /\ sent = body
                           /\ declared \in {Unknown, ToString(Len(sent))}
    /\ ending = "cut" => sent = Upto(body, arrives)

\* The values of the fields of s called `name` that are of the right type.
Candidates(s, name) ==
    {v \in Range(ValuesOf(s, name)) :
        IF name = "model" THEN v \notin NotAString /\ v # "" ELSE v \in Bool}
\* Nothing is known of a name without such a value, one of them otherwise.
Chosen(value, candidates) ==
    IF candidates = {} THEN value = Unknown ELSE value \in candidates

\* Past the limit exactly the top-level fields that lie before the cut are
\* recognised (config/config.example.yaml), nested ones and those after it never;
\* unless the cut hides a mistake or a second field of that name, the span tells
\* the same of the request as it would under a greater limit.
RecognisedBeforeTheCut ==
    LET garbled == {i \in DOMAIN req.body : req.body[i] = "?"}
        readable == IF garbled = {} THEN req.body
                    ELSE Upto(req.body, (CHOOSE i \in garbled : \A j \in garbled : i <= j) - 1)
        seen == IF readable # <<>> /\ readable[1] = "{" THEN readable ELSE <<>>
    IN req.done /\ req.truncated =>
          /\ Chosen(req.model, Candidates(seen, "model"))
          /\ Chosen(req.stream, Candidates(seen, "stream"))
          /\ Decodes(body) => /\ Len(ValuesOf(body, "model")) <= 1 =>
                                    req.model \in {Unknown, Decoded(body).model}
                              /\ Len(ValuesOf(body, "stream")) <= 1 =>
                                    req.stream \in {Unknown, Decoded(body).stream}

\* What the span keeps of the body is its beginning, and it is marked exactly when
\* that is not all of what the client had to send.
RequestLossIsMarked ==
    req.done => /\ IsPrefix(RequestBody.text, body)
                /\ RequestBody.truncated <=> (RequestBody.text # body \/ broken)

\* The request as the span describes it is the request the client made.
PeekIsHonest == RecognisedBeforeTheCut /\ RequestLossIsMarked
=============================================================================
