------------------------------- MODULE Events -------------------------------
(***************************************************************************)
(* The events of a whole stream, defined without regard to how it arrives: *)
(* split into lines, the lines into blocks at the blank ones, and join the *)
(* data lines of each block.  The reference that module EventStream, the   *)
(* incremental parser, is compared with.                                   *)
(*                                                                         *)
(* A byte is a symbol; the prefix "data:" is two, so that a stream can be  *)
(* cut inside it, and "[DONE]" and the byte order mark are one each.       *)
(***************************************************************************)
EXTENDS SequencesExt

CONSTANT MaxLine   \* the longest line, and the longest payload, in symbols

ASSUME MaxLineAssumption == MaxLine \in Nat

EOL == {"CR", "LF"}
Symbol == EOL \cup {"da", "ta:", " ", "x", "[DONE]", "BOM"}
dataPrefix == <<"da", "ta:">>
byteOrder == <<"BOM">>
Done == <<"[DONE]">>

\* The positions of s that satisfy Test, in order.
Positions(s, Test(_)) == SelectSeq([i \in 1..Len(s) |-> i], Test)

\* Where a line of s ends: CR, LF, or both of CR LF, which counts as the CR.
Breaks(s) ==
    Positions(s, LAMBDA i : s[i] \in EOL /\ ~(s[i] = "LF" /\ i > 1 /\ s[i - 1] = "CR"))

\* The first position of the line after the break at e; e = 0 is the beginning.
LineStart(s, e) ==
    IF e > 0 /\ e < Len(s) /\ s[e] = "CR" /\ s[e + 1] = "LF" THEN e + 2 ELSE e + 1

\* The lines of s that are ended, and what follows the last of them.
Lines(s) ==
    LET breaks == Breaks(s)
        from(k) == LineStart(s, IF k = 1 THEN 0 ELSE breaks[k - 1])
    IN [k \in 1..Len(breaks) |-> SubSeq(s, from(k), breaks[k] - 1)]
RestOf(s) ==
    LET breaks == Breaks(s)
    IN SubSeq(s, LineStart(s, IF breaks = <<>> THEN 0 ELSE breaks[Len(breaks)]), Len(s))

Overlong(line) == Len(line) > MaxLine

\* The byte order mark goes from the first line that is not overlong.
Unmarked(lines) ==
    [k \in DOMAIN lines |->
        IF /\ \A j \in 1..(k - 1) : Overlong(lines[j])
           /\ ~Overlong(lines[k])
           /\ IsPrefix(byteOrder, lines[k])
        THEN Tail(lines[k]) ELSE lines[k]]

\* The lines between blank ones; the last block is still open.
Blocks(lines) ==
    LET blanks == Positions(lines, LAMBDA i : lines[i] = <<>>)
        from(k) == IF k = 1 THEN 1 ELSE blanks[k - 1] + 1
    IN [k \in 1..Len(blanks) + 1 |->
           SubSeq(lines, from(k), IF k > Len(blanks) THEN Len(lines) ELSE blanks[k] - 1)]

\* The value of a data line, without the one space that may lead it.
ValueOf(line) ==
    LET value == SubSeq(line, Len(dataPrefix) + 1, Len(line))
    IN IF value # <<>> /\ value[1] = " " THEN Tail(value) ELSE value

\* The values of the data lines of a block, joined with line feeds.
Payload(block) ==
    LET data == SelectSeq(block, LAMBDA line : IsPrefix(dataPrefix, line))
    IN IF data = <<>> THEN <<>>
       ELSE FoldLeft(LAMBDA text, line : text \o <<"LF">> \o ValueOf(line),
                     ValueOf(Head(data)), Tail(data))

\* A block with an overlong line, or too long a payload, is no event, nor is one
\* without data.
Void(block) == \/ \E i \in DOMAIN block : Overlong(block[i])
               \/ Len(Payload(block)) > MaxLine
               \/ Payload(block) = <<>>

\* The payloads of the events of `lines`, in order.
EventsOf(lines) ==
    LET blocks == Front(Blocks(Unmarked(lines)))
        events == SelectSeq(blocks, LAMBDA block : ~Void(block))
    IN [k \in DOMAIN events |-> Payload(events[k])]

\* A block whose payload outgrows the limit before a line does.
Outgrown(block) ==
    \E n \in 0..Len(block) :
        /\ \A i \in 1..n : ~Overlong(block[i])
        /\ Len(Payload(SubSeq(block, 1, n))) > MaxLine

\* How often something was dropped: every overlong line, and every payload.
DropsOf(lines) ==
    LET blocks == Blocks(Unmarked(lines))
    IN Cardinality({i \in DOMAIN lines : Overlong(lines[i])})
       + Cardinality({k \in DOMAIN blocks : Outgrown(blocks[k])})
=============================================================================
