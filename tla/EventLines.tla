----------------------------- MODULE EventLines -----------------------------
(***************************************************************************)
(* What a parser of server-sent events does with a line that is whole, or  *)
(* too long: processLine, dropLine and dispatchEvent of                    *)
(* internal/serversentevents/parser.go.  EventStream and LineReader use    *)
(* these operators; they differ in how they come by the lines.             *)
(***************************************************************************)
EXTENDS Events

Parser == [carry : Seq(Symbol), pendingLF : BOOLEAN, lineSeen : BOOLEAN,
           data : Seq(Symbol), dataSeen : BOOLEAN, dataDropped : BOOLEAN,
           last : Seq(Symbol), chunks : Nat, dropping : BOOLEAN, dropped : Nat,
           sawDone : BOOLEAN]

Call == [payload : Seq(Symbol), terminal : BOOLEAN]

NewParser == [carry |-> <<>>, pendingLF |-> FALSE, lineSeen |-> FALSE,
              data |-> <<>>, dataSeen |-> FALSE, dataDropped |-> FALSE,
              last |-> <<>>, chunks |-> 0, dropping |-> FALSE,
              dropped |-> 0, sawDone |-> FALSE]

-----------------------------------------------------------------------------
\* dropLine: the event that is being assembled is void.
DropLine(p) == [p EXCEPT !.dropped = @ + 1, !.data = <<>>, !.dataSeen = FALSE,
                         !.dataDropped = TRUE]

\* dispatchEvent: whether there is an event, and the parser after it.
Dispatches(p) == ~p.dataDropped /\ p.dataSeen /\ p.data # <<>>
Dispatched(p) ==
    LET q == [p EXCEPT !.data = <<>>, !.dataSeen = FALSE, !.dataDropped = FALSE]
    IN IF ~Dispatches(p) THEN q
       ELSE IF p.data = Done THEN [q EXCEPT !.sawDone = TRUE]
       ELSE [q EXCEPT !.chunks = @ + 1, !.last = p.data]
Calls(p) == IF Dispatches(p) THEN <<[payload |-> p.data, terminal |-> p.data = Done]>>
            ELSE <<>>

\* One more data line of the event.
WithValue(p, value) ==
    LET joined == p.data \o (IF p.dataSeen THEN <<"LF">> ELSE <<>>) \o value
    IN IF Len(joined) > MaxLine THEN DropLine(p)
       ELSE [p EXCEPT !.data = joined, !.dataSeen = TRUE]

\* The line without the byte order mark, if it is the first one.
Text(p, line) == IF ~p.lineSeen /\ IsPrefix(byteOrder, line) THEN Tail(line) ELSE line

\* processLine: the parser after the line, and the events it dispatches.
Processed(p, line) ==
    LET text == Text(p, line)
        q == [p EXCEPT !.lineSeen = TRUE]
    IN IF text = <<>> THEN Dispatched(q)
       ELSE IF IsPrefix(dataPrefix, text) /\ ~p.dataDropped
            THEN WithValue(q, ValueOf(text))
       ELSE q
CallsOn(p, line) == IF Text(p, line) = <<>> THEN Calls(p) ELSE <<>>
=============================================================================
