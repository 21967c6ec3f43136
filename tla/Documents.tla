----------------------------- MODULE Documents -----------------------------
(***************************************************************************)
(* The leaves of a JSON body, each with its path, defined by recursion     *)
(* over the document and without regard to any limit: what the attributes  *)
(* of a body that is split (modules BodySplit and Recording) are compared  *)
(* with.                                                                   *)
(***************************************************************************)
EXTENDS Recording

\* The fields of an object, but for those in Omitted, in the order of `order`.
FieldsInOrder(object, order, Omitted) ==
    LET wanted == SelectSeq(order, LAMBDA name :
                     name \notin Omitted /\ \E i \in DOMAIN object.fields : object.fields[i][1] = name)
    IN [k \in DOMAIN wanted |->
          object.fields[CHOOSE i \in DOMAIN object.fields : object.fields[i][1] = wanted[k]]]

RECURSIVE LeavesOf(_, _, _)
LeavesOf(path, value, order) ==
    LET fields == FieldsInOrder(value, order, {})
    IN CASE value.kind = "leaf" -> << <<path, value.text>> >>
         [] value.kind = "array" ->
               FlattenSeq([k \in DOMAIN value.items |-> LeavesOf(path, value.items[k], order)])
         [] value.kind = "object" ->
               FlattenSeq([k \in DOMAIN fields |->
                              LeavesOf(path \o fields[k][1], fields[k][2], order)])

\* The leaves of a message are found under its role, unless that is no name.
MessageLeaves(message, order) ==
    LET roles == {field[2].text : field \in {f \in Range(message.fields) :
                     f[1] = <<"role">> /\ f[2].kind = "leaf" /\ f[2].string}} \ {"!"}
        role == IF message.kind = "object" /\ roles # {} THEN CHOOSE r \in roles : TRUE
                                                         ELSE "default"
        fields == FieldsInOrder(message, order, {<<"role">>})
    IN IF message.kind = "object"
       THEN FlattenSeq([k \in DOMAIN fields |->
               LeavesOf(<<"message", role>> \o fields[k][1], fields[k][2], order)])
       ELSE LeavesOf(<<"message", "default">>, message, order)

\* The leaves of a body in the order they are met.
BodyLeaves(body, order) ==
    FlattenSeq([k \in DOMAIN body.fields |->
        LET name == body.fields[k][1]
            value == body.fields[k][2]
        IN IF name = <<"messages">> /\ value.kind = "array"
           THEN FlattenSeq([j \in DOMAIN value.items |-> MessageLeaves(value.items[j], order)])
           ELSE LeavesOf(name, value, order)])

-----------------------------------------------------------------------------
(* Properties *)

\* Two attributes of one name, of which the span keeps one: the path of a leaf is
\* also the name of a top-level scalar ("a.b" beside "a").
KeyClash == \E scalar \in scalars : scalar[1] \in DOMAIN values

\* What is recorded of a path, and the texts the leaves of doc have there.
Recorded(path) == TextsOf(path) \o SetToSeq({s[2] : s \in {t \in scalars : t[1] = path}})
TextsAt(path) ==
    LET here == SelectSeq(BodyLeaves(doc, NameOrder), LAMBDA leaf : leaf[1] = path)
    IN [i \in DOMAIN here |-> here[i][2]]

\* A body that is split is recorded leaf by leaf, each at its path and in order, and
\* nothing besides, or the loss is marked: no depth, no number of names or values
\* and no unusable name loses anything silently.
LossIsMarked ==
    stage = "splitting" /\ SplitDone /\ ~limited /\ ~KeyClash =>
        \A path \in {leaf[1] : leaf \in Range(BodyLeaves(doc, NameOrder))}
                    \cup DOMAIN values \cup {s[1] : s \in scalars} :
            Recorded(path) = TextsAt(path)
=============================================================================
