--------------------------- MODULE MCEventStream ---------------------------
(* EventStream on streams put together from lines: MCEventStream.cfg. *)
EXTENDS EventStream

\* With MaxLine = 4: nothing, another field, data that fits, just fits and is
\* one and two too long, [DONE], no data, the byte order mark alone and before data.
Data(value) == dataPrefix \o value
MCLines == {<<>>, <<"x">>, Data(<<"x">>), Data(<<" ", "x">>), Data(<<"x", "x">>),
            Data(<<"x", "x", "x">>), Data(<<"x", "x", "x", "x">>), Data(Done),
            Data(<<>>), byteOrder, byteOrder \o Data(<<"x">>)}
MCEnds == {<<"LF">>, <<"CR">>, <<"CR", "LF">>}
MCEnded == {line \o end : line \in MCLines, end \in MCEnds}

\* Two lines with any ends and one without; four lines, where blocks of several
\* lines are formed.
Fewer == {<<>>, Data(<<"x">>), Data(<<"x", "x">>), Data(<<"x", "x", "x">>), byteOrder}
LF(line) == Append(line, "LF")
MCStreams ==
    {first \o second \o rest : first \in MCEnded, second \in MCEnded, rest \in MCLines}
    \cup {LF(k) \o LF(l) \o LF(m) \o LF(n) : k \in Fewer, l \in Fewer, m \in Fewer, n \in Fewer}
=============================================================================
