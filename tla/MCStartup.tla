----------------------------- MODULE MCStartup -----------------------------
(***************************************************************************)
(* Startup with every pair of a local and a system file, every file asked  *)
(* for by name, and environments in which each variable meets each of its  *)
(* values beside variables that are set and not set.                       *)
(***************************************************************************)
EXTENDS Startup

MCFileSystems ==
    {[explicit |-> "absent", local |-> l, system |-> s] : l, s \in Status}
    \cup {[explicit |-> e, local |-> "valid", system |-> "valid"] : e \in Status}

Environment(endpoint, traces, headers, tracesHeaders, other) ==
    [v \in Variables |-> CASE v = "ENDPOINT" -> endpoint
                           [] v = "TRACES_ENDPOINT" -> traces
                           [] v = "HEADERS" -> headers
                           [] v = "TRACES_HEADERS" -> tracesHeaders
                           [] OTHER -> other]

MCEnvironments ==
    {Environment(e, t, "unset", "good", "unset") : e \in Value, t \in Value}
    \cup {Environment("good", "unset", h, t, "good") : h \in Value \ {"path"}, t \in {"unset", "malformed"}}
    \cup {Environment("malformed", "good", "blank", "malformed", o) : o \in {"unset", "malformed"}}
=============================================================================
