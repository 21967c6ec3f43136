---------------------------- MODULE EventStream ----------------------------
(***************************************************************************)
(* The parser of server-sent events (internal/serversentevents/parser.go): *)
(* Feed, one action per turn of its loop, and Finish.  A stream arrives in *)
(* chunks that are cut anywhere; what does not end a line is carried over  *)
(* to the next chunk.  Module Events says what the result has to be, and   *)
(* LineReader how it would be read if it were not cut.                     *)
(*                                                                         *)
(* Feed is sequential; its turns are separate actions so that what holds   *)
(* between them (the limits of what is kept) can be said.                  *)
(***************************************************************************)
EXTENDS EventLines

CONSTANT Streams   \* the streams that may arrive

ASSUME StreamsAssumption == Streams \subseteq Seq(Symbol)

VARIABLES stream,    \* the stream
          at,        \* how much of it has been handed to Feed
          b,         \* what the call of Feed in progress has not consumed
          parser,    \* Parser
          out,       \* the calls of OnEvent
          finished   \* Finish has been called

vars == <<stream, at, b, parser, out, finished>>

Init == /\ stream \in Streams
        /\ at = 0
        /\ b = <<>>
        /\ parser = NewParser
        /\ out = <<>>
        /\ finished = FALSE

-----------------------------------------------------------------------------
(* Lines.  Operators whose comment starts with "Slip" are not part of the    *)
(* model: each is a mistake this code could have made, kept to show that a   *)
(* property below would notice it.                                           *)

HasEOL(s) == \E i \in DOMAIN s : s[i] \in EOL
IndexEOL(s) == CHOOSE i \in DOMAIN s : /\ s[i] \in EOL
                                       /\ \A j \in 1..(i - 1) : s[j] \notin EOL

\* splitLine: the line, what follows it, and whether a CR ends the chunk, so that
\* an LF at the beginning of the next one still belongs to it.
LineOf(s) == SubSeq(s, 1, IndexEOL(s) - 1)
After(s) == SubSeq(s, LineStart(s, IndexEOL(s)), Len(s))
\* Slip: a CR LF that is cut in two is two line ends.
EndsInCRNever(s) == FALSE
EndsInCR(s) == HasEOL(s) /\ IndexEOL(s) = Len(s) /\ s[Len(s)] = "CR"

\* What is carried and what follows it.
Collected(piece) == parser.carry \o piece

\* Slip: what is carried already does not count.
OverflowsAlone(piece) == Len(piece) > MaxLine
Overflows(piece) == Len(parser.carry) + Len(piece) > MaxLine

-----------------------------------------------------------------------------
(* Feed *)

\* A chunk that is not empty arrives.
Feed(n) ==
    /\ b = <<>> /\ ~finished
    /\ n \in 1..(Len(stream) - at)
    /\ at' = at + n
    /\ b' = SubSeq(stream, at + 1, at + n)
    /\ UNCHANGED <<stream, parser, out, finished>>

LFIsPending == parser.pendingLF /\ b[1] = "LF"

\* A turn of the loop that ends with `rest` still to do.
Turn(rest) == b' = rest /\ UNCHANGED <<stream, at, finished>>

SkipLF ==
    /\ b # <<>> /\ LFIsPending
    /\ parser' = [parser EXCEPT !.pendingLF = FALSE]
    /\ out' = out
    /\ Turn(Tail(b))

\* The end of a line that is being dropped.
EndDropping ==
    /\ b # <<>> /\ ~LFIsPending
    /\ parser.dropping /\ HasEOL(b)
    /\ parser' = [parser EXCEPT !.dropping = FALSE, !.pendingLF = EndsInCR(b)]
    /\ out' = out
    /\ Turn(After(b))

KeepDropping ==
    /\ b # <<>> /\ ~LFIsPending
    /\ parser.dropping /\ ~HasEOL(b)
    /\ parser' = [parser EXCEPT !.pendingLF = FALSE]
    /\ out' = out
    /\ Turn(<<>>)

\* Slip: that an LF may follow is remembered when something else has followed.
CarryPartialStillPending ==
    /\ b # <<>> /\ ~LFIsPending
    /\ ~parser.dropping /\ ~HasEOL(b) /\ ~Overflows(b)
    /\ parser' = [parser EXCEPT !.carry = Collected(b)]
    /\ out' = out
    /\ Turn(<<>>)

\* The chunk ends in a line: carried over, unless the line is too long already.
CarryPartial ==
    /\ b # <<>> /\ ~LFIsPending
    /\ ~parser.dropping /\ ~HasEOL(b) /\ ~Overflows(b)
    /\ parser' = [parser EXCEPT !.carry = Collected(b), !.pendingLF = FALSE]
    /\ out' = out
    /\ Turn(<<>>)

DropPartial ==
    /\ b # <<>> /\ ~LFIsPending
    /\ ~parser.dropping /\ ~HasEOL(b) /\ Overflows(b)
    /\ parser' = [DropLine(parser) EXCEPT !.carry = <<>>, !.dropping = TRUE,
                                          !.pendingLF = FALSE]
    /\ out' = out
    /\ Turn(<<>>)

\* A line comes to its end, too long or not.
DropWhole ==
    /\ b # <<>> /\ ~LFIsPending
    /\ ~parser.dropping /\ HasEOL(b) /\ Overflows(LineOf(b))
    /\ parser' = [DropLine(parser) EXCEPT !.carry = <<>>, !.pendingLF = EndsInCR(b)]
    /\ out' = out
    /\ Turn(After(b))

TakeLine ==
    /\ b # <<>> /\ ~LFIsPending
    /\ ~parser.dropping /\ HasEOL(b) /\ ~Overflows(LineOf(b))
    /\ parser' = [Processed(parser, Collected(LineOf(b)))
                     EXCEPT !.carry = <<>>, !.pendingLF = EndsInCR(b)]
    /\ out' = out \o CallsOn(parser, Collected(LineOf(b)))
    /\ Turn(After(b))

-----------------------------------------------------------------------------
(* Finish *)

\* The stream is at its end: a line without an end is a line, an event without a
\* blank line is an event.
Finish ==
    /\ b = <<>> /\ ~finished /\ at = Len(stream)
    /\ LET p == [parser EXCEPT !.pendingLF = FALSE, !.dropping = FALSE, !.carry = <<>>]
           carried == ~parser.dropping /\ parser.carry # <<>>
           q == IF carried THEN Processed(p, parser.carry) ELSE p
       IN /\ parser' = Dispatched(q)
          /\ out' = out \o (IF carried THEN CallsOn(p, parser.carry) ELSE <<>>) \o Calls(q)
    /\ finished' = TRUE
    /\ UNCHANGED <<stream, at, b>>

Next == \/ \E n \in 1..Len(stream) : Feed(n)
        \/ SkipLF \/ EndDropping \/ KeepDropping \/ CarryPartial \/ DropPartial
        \/ DropWhole \/ TakeLine
        \/ Finish

Spec == Init /\ [][Next]_vars

-----------------------------------------------------------------------------
(* Properties *)

TypeOK == /\ stream \in Seq(Symbol)
          /\ at \in 0..Len(stream)
          /\ b \in Seq(Symbol)
          /\ parser \in Parser
          /\ out \in Seq(Call)
          /\ finished \in BOOLEAN

\* What the parser keeps of a stream it has not understood yet stays within its
\* limit, however long the lines and the events are and however the chunks are
\* cut: a partial line, the payload under assembly and the last payload each
\* (parser.go:52, 63, 149).
WithinLimits == /\ Len(parser.carry) <= MaxLine
                /\ Len(parser.data) <= MaxLine
                /\ Len(parser.last) <= MaxLine

\* The lines of what has been fed; a line too long counts before it ends.
LinesFed ==
    LET fed == SubSeq(stream, 1, at)
    IN IF finished THEN Lines(fed) \o <<RestOf(fed), <<>>>>
       ELSE IF Overlong(RestOf(fed)) THEN Append(Lines(fed), RestOf(fed))
       ELSE Lines(fed)

\* Whenever Feed has returned, and after Finish, OnEvent has been called for the
\* events that are complete in what was fed, all of them and in order, and the
\* last payload, the count and the terminal flag that the outcome of the request
\* depends on are theirs: it does not matter where the chunks were cut
\* (parser_test.go:24 tries one cut of one stream).
EventsAsFed ==
    b = <<>> =>
        LET events == EventsOf(LinesFed)
            data == SelectSeq(events, LAMBDA e : e # Done)
        IN /\ out = [k \in DOMAIN events |->
                        [payload |-> events[k], terminal |-> events[k] = Done]]
           /\ parser.chunks = Len(data)
           /\ parser.last = IF data = <<>> THEN <<>> ELSE data[Len(data)]
           /\ parser.sawDone = \E k \in DOMAIN events : events[k] = Done

\* Whatever was left out is accounted for, once: state.go:187 takes a stream of
\* which something was dropped for one that was not observed in full.
DropsAsFed == b = <<>> => parser.dropped = DropsOf(LinesFed)

\* Between two calls of Feed the parser knows what splitting the stream fed so far says,
\* and no more: events and drops do not depend on how the stream was cut.
AsFed == EventsAsFed /\ DropsAsFed

-----------------------------------------------------------------------------
(* The reader that has the whole stream before it *)

\* How much of the stream Feed has consumed, and whether the LF that follows still
\* belongs to the line before.
Consumed == at - Len(b)
LFFollows == parser.pendingLF /\ Consumed < Len(stream) /\ stream[Consumed + 1] = "LF"
LineBegins == IF LFFollows THEN Consumed + 2 ELSE Consumed - Len(parser.carry) + 1
BetweenLines(p) == [p EXCEPT !.carry = <<>>, !.pendingLF = FALSE, !.dropping = FALSE]

AsReader == INSTANCE LineReader WITH pos <- LineBegins, skipping <- parser.dropping,
                                     reader <- BetweenLines(parser)

\* However the stream is cut, Feed and Finish take its lines one after the other, each
\* once and whole, and do with it what a reader does that has the whole stream before it:
\* a line cut in the middle of a prefix, or between the CR and the LF at its end, or
\* given up in an earlier chunk, is still one line.
ReadsByLines == AsReader!Spec
=============================================================================
