----------------------------- MODULE LineReader -----------------------------
(***************************************************************************)
(* What the parser of server-sent events promises about chunks: nothing.   *)
(* This reader has the whole stream before it and takes it line by line;   *)
(* no chunk, nothing carried over, no CR whose LF has yet to come.  That   *)
(* EventStream implements it says that it does not matter how a stream is  *)
(* cut.                                                                    *)
(*                                                                         *)
(* A line that is too long may be given up before its end has been seen,   *)
(* as soon as it is too long; it is void once.                             *)
(***************************************************************************)
EXTENDS EventLines

VARIABLES stream,    \* the stream, any
          pos,       \* where the line to be read begins, or goes on if it is given up
          skipping,  \* the line at pos has been given up
          reader,    \* Parser: what it knows from the lines before
          out,       \* the events it has reported
          finished   \* the end of the stream has been taken account of

vars == <<stream, pos, skipping, reader, out, finished>>

Init == /\ stream \in Seq(Symbol)
        /\ pos = 1
        /\ skipping = FALSE
        /\ reader = NewParser
        /\ out = <<>>
        /\ finished = FALSE

-----------------------------------------------------------------------------
\* The stream from pos up to n is part of one line; that line ends at e.
InLine(n) == \A i \in pos..n : stream[i] \notin EOL
EndsAt(e) == pos <= e /\ stream[e] \in EOL /\ InLine(e - 1)

Read(e) ==
    /\ ~finished /\ ~skipping
    /\ EndsAt(e) /\ ~Overlong(SubSeq(stream, pos, e - 1))
    /\ reader' = Processed(reader, SubSeq(stream, pos, e - 1))
    /\ out' = out \o CallsOn(reader, SubSeq(stream, pos, e - 1))
    /\ pos' = LineStart(stream, e)
    /\ UNCHANGED <<stream, skipping, finished>>

Drop(e) ==
    /\ ~finished /\ ~skipping
    /\ EndsAt(e) /\ Overlong(SubSeq(stream, pos, e - 1))
    /\ reader' = DropLine(reader)
    /\ pos' = LineStart(stream, e)
    /\ UNCHANGED <<stream, skipping, out, finished>>

GiveUp(n) ==
    /\ ~finished /\ ~skipping
    /\ InLine(n) /\ Overlong(SubSeq(stream, pos, n))
    /\ reader' = DropLine(reader)
    /\ skipping' = TRUE
    /\ pos' = n + 1
    /\ UNCHANGED <<stream, out, finished>>

PassOver(n) ==
    /\ ~finished /\ skipping
    /\ pos <= n /\ InLine(n)
    /\ pos' = n + 1
    /\ UNCHANGED <<stream, skipping, reader, out, finished>>

EndSkipping(e) ==
    /\ ~finished /\ skipping
    /\ EndsAt(e)
    /\ skipping' = FALSE
    /\ pos' = LineStart(stream, e)
    /\ UNCHANGED <<stream, reader, out, finished>>

\* What follows the last line end is a line if there is something, and an event
\* without a blank line behind it is an event.
Close ==
    /\ ~finished
    /\ InLine(Len(stream))
    /\ LET line == SubSeq(stream, pos, Len(stream))
           left == ~skipping /\ line # <<>>
           last == IF left THEN Processed(reader, line) ELSE reader
       IN /\ left => ~Overlong(line)
          /\ reader' = Dispatched(last)
          /\ out' = out \o (IF left THEN CallsOn(reader, line) ELSE <<>>) \o Calls(last)
    /\ pos' = Len(stream) + 1
    /\ skipping' = FALSE
    /\ finished' = TRUE
    /\ UNCHANGED stream

Next == \/ \E e \in 1..Len(stream) : \/ Read(e) \/ Drop(e) \/ EndSkipping(e)
                                     \/ GiveUp(e) \/ PassOver(e)
        \/ Close

Spec == Init /\ [][Next]_vars
=============================================================================
