---------------------------- MODULE SessionLife ----------------------------
(***************************************************************************)
(* What the session registry promises to the trace: one span per session   *)
(* identifier at a time, in which the turns (requests) that carry that     *)
(* identifier take part, and which ends only when nobody takes part in it  *)
(* or when the registry is closed.  A span is named by the turn that       *)
(* opened it.  Module Sessions is shown to implement this specification.   *)
(***************************************************************************)
CONSTANTS Turns,     \* the requests that carry a session identifier
          Ids        \* the session identifiers

VARIABLES phase,     \* per span: "unopened", "open" or "ended"
          idOf,      \* per turn: the identifier it carries
          spanOf,    \* per turn: the span it takes or took part in, or none
          inside,    \* the turns that take part in a span now
          shut       \* the registry has been closed

vars == <<phase, idOf, spanOf, inside, shut>>

Init == /\ phase = [t \in Turns |-> "unopened"]
        /\ idOf \in [Turns -> Ids]
        /\ spanOf = [t \in Turns |-> {}]
        /\ inside = {}
        /\ shut = FALSE

Open == {s \in Turns : phase[s] = "open"}
Quiet(s) == \A t \in inside : spanOf[t] # {s}
Ended(S) == [s \in Turns |-> IF s \in S THEN "ended" ELSE phase[s]]

\* A turn whose identifier has an open span takes part in it.
Join(t) == \E s \in Open :
             /\ ~shut /\ spanOf[t] = {} /\ idOf[s] = idOf[t]
             /\ spanOf' = [spanOf EXCEPT ![t] = {s}]
             /\ inside' = inside \cup {t}
             /\ UNCHANGED <<phase, idOf, shut>>

\* Otherwise it opens one; quiet spans may be ended to make room for it.
Begin(t) == \E S \in SUBSET {s \in Open : Quiet(s)} :
              /\ ~shut /\ spanOf[t] = {}
              /\ \A s \in Open : idOf[s] # idOf[t]
              /\ phase' = [Ended(S) EXCEPT ![t] = "open"]
              /\ spanOf' = [spanOf EXCEPT ![t] = {t}]
              /\ inside' = inside \cup {t}
              /\ UNCHANGED <<idOf, shut>>

Leave(t) == /\ t \in inside
            /\ inside' = inside \ {t}
            /\ UNCHANGED <<phase, idOf, spanOf, shut>>

\* A span that nobody takes part in may end; a span never opens again.
End(s) == /\ s \in Open /\ Quiet(s)
          /\ phase' = Ended({s})
          /\ UNCHANGED <<idOf, spanOf, inside, shut>>

Close == /\ phase' = Ended(Open)
         /\ shut' = TRUE
         /\ UNCHANGED <<idOf, spanOf, inside>>

Next == \/ \E t \in Turns : Join(t) \/ Begin(t) \/ Leave(t) \/ End(t)
        \/ Close

Spec == Init /\ [][Next]_vars
=============================================================================
