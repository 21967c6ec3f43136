------------------------------- MODULE MCPeek -------------------------------
(* Peek on bodies of up to three fields, within and beyond the limit. *)
EXTENDS Peek

Object(fields) == <<"{">> \o FlattenSeq(fields) \o <<"}">>

\* A model, another, none and one of a wrong type; a stream; a field that is
\* named in a value; nested values that name the same fields.
MCFields == {<<"model", "m1">>, <<"model", "m2">>, <<"model", "">>, <<"model", "7">>,
             <<"stream", "true">>, <<"stream", "7">>, <<"x", "model">>,
             <<"x", "{", "model", "m2", "}">>, <<"x", "[", "{", "}", "stream", "false", "]">>,
             <<"model", "[", "]">>}
MCBodies == {Object(fields) : fields \in UNION {[1..n -> MCFields] : n \in 0..3}}
            \cup {Append(Object(<<f, g>>), "?") : f \in MCFields, g \in MCFields}
            \cup {<<"{">> \o f \o <<"?">> \o g : f \in MCFields, g \in MCFields}
            \cup {<<>>, <<"[", "model", "m1", "]">>, <<"7">>}
=============================================================================
