----------------------------- MODULE DrainGate -----------------------------
(***************************************************************************)
(* What the admission control of the proxy promises to the code that shuts *)
(* the process down (cmd/llamaproxy/main.go, shutdownServer): requests     *)
(* enter only while the gate is open, a caller that waits for idleness is  *)
(* told "idle" only at an instant when nobody is inside, and once a forced *)
(* close has been carried out everybody who is still inside has been told  *)
(* to stop.  Module Admission is shown to implement this specification.    *)
(***************************************************************************)
CONSTANTS Requests,   \* the requests that may ask to be let in
          Waiters     \* the callers that wait for the gate to be empty

VARIABLES open,       \* the gate still lets requests in
          inside,     \* the requests that are in
          told,       \* those of them whose context has been cancelled
          gone,       \* the requests that have left
          cut,        \* progress of the forced close: "no", "cutting", "cut"
          verdict     \* what each waiter has been told

vars == <<open, inside, told, gone, cut, verdict>>

Init == /\ open = TRUE
        /\ inside = {}
        /\ told = {}
        /\ gone = {}
        /\ cut = "no"
        /\ verdict = [w \in Waiters |-> "none"]

\* A request is let in; its client may already have disconnected.
Enter(r) == /\ open
            /\ r \notin inside \cup gone
            /\ inside' = inside \cup {r}
            /\ told' \in {told, told \cup {r}}
            /\ UNCHANGED <<open, gone, cut, verdict>>

Leave(r) == /\ r \in inside
            /\ inside' = inside \ {r}
            /\ told' = told \ {r}
            /\ gone' = gone \cup {r}
            /\ UNCHANGED <<open, cut, verdict>>

\* A request that is inside is told to stop, by its client or by the cut.
Tell(r) == /\ r \in inside \ told
           /\ told' = told \cup {r}
           /\ UNCHANGED <<open, inside, gone, cut, verdict>>

Shut == /\ open' = FALSE
        /\ UNCHANGED <<inside, told, gone, cut, verdict>>

\* The forced close shuts the gate, tells everybody, and only then is over.
Cut == /\ cut = "no"
       /\ cut' = "cutting"
       /\ open' = FALSE
       /\ UNCHANGED <<inside, told, gone, verdict>>

CutOver == /\ cut = "cutting"
           /\ inside \subseteq told
           /\ cut' = "cut"
           /\ UNCHANGED <<open, inside, told, gone, verdict>>

ReportIdle(w) == /\ verdict[w] = "none"
                 /\ inside = {}
                 /\ verdict' = [verdict EXCEPT ![w] = "idle"]
                 /\ UNCHANGED <<open, inside, told, gone, cut>>

GiveUp(w) == /\ verdict[w] = "none"
             /\ verdict' = [verdict EXCEPT ![w] = "timeout"]
             /\ UNCHANGED <<open, inside, told, gone, cut>>

Next == \/ \E r \in Requests : Enter(r) \/ Leave(r) \/ Tell(r)
        \/ Shut \/ Cut \/ CutOver
        \/ \E w \in Waiters : ReportIdle(w) \/ GiveUp(w)

Spec == Init /\ [][Next]_vars
=============================================================================
