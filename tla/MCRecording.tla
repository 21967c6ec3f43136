---------------------------- MODULE MCRecording ----------------------------
(***************************************************************************)
(* Recording with small limits, over headers below, at and above theirs,   *)
(* and bodies that meet every limit of the splitter, hold names that       *)
(* cannot be used or are used twice, and messages with and without a role. *)
(***************************************************************************)
EXTENDS Documents

\* The real limits: attrs.go:88-95 and tracing.go:29.
ASSUME RealLimits == 37 + 2 * (64 + 256 + 1) + 2 * (64 + 1) <= 1024

MCNameOrder == << <<"a">>, <<"a", "b">>, <<"b">>, <<"c">>, <<"d">>, <<"e">>, <<"f">>, <<"g">>,
                  <<"h">>, <<"messages">>, <<"role">> >>

MCHeaders == {<<>>, ("x" :> 1 @@ "y" :> 3), ("x" :> 1 @@ "y" :> 1 @@ "z" :> 1)}

Field(name, value) == << <<name>>, value >>
X == Leaf("x")
Y == Leaf("y")
Empty == Object(<<>>)
Twice == Object(<<Field("a", X), Field("a", Y)>>)
Unnamed == Object(<<Field("!", X)>>)
Pair == Object(<<Field("b", Y), Field("a", X)>>)
Deep(value) == Object(<<Field("a", Object(<<Field("b", Object(<<Field("a", value)>>))>>))>>)
Of(value) == Object(<<Field("a", value)>>)

\* Values that are no messages, at most two levels high.
Parts == {X, Number("1"), Empty, Twice, Unnamed, Pair, Array(<<>>), Array(<<X, Y>>),
          Array(<<X, Y, X>>), Array(<<Pair, Pair>>), Array(<<Array(<<X>>), Y>>), Deep(X)}
RoleOfMessage(role, value) == Object(<<Field("role", role), Field("c", value)>>)
Conversations ==
    {Array(<<RoleOfMessage(X, Y), RoleOfMessage(X, X)>>),
     Array(<<RoleOfMessage(Leaf("!"), Y), RoleOfMessage(Number("1"), X)>>),
     Array(<<Y, Array(<<X>>), Unnamed>>), Array(<<Twice>>), Array(<<RoleOfMessage(Y, Deep(X))>>)}

\* A field and what follows it, alone or beside another.
MCBodies ==
    {X, Array(<<X>>), Empty, Twice, Unnamed}
    \cup {Of(v) : v \in Parts}
    \cup {Object(<<Field("b", v), Field("a", w)>>) : v, w \in {X, Pair, Array(<<X, Y>>), Deep(Y)}}
    \cup {Object(<<Field("messages", v), Field("a", X)>>) : v \in Conversations \cup {Pair}}
    \cup {Object(<< << <<"a", "b">>, v >>, Field("a", Pair) >>) : v \in {X, Pair}}
    \cup {Object([i \in 1..n |-> <<MCNameOrder[i], X>>]) : n \in {3, 4, 9}}
=============================================================================
