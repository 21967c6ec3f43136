----------------------------- MODULE MCExchange -----------------------------
(* Exchange on a small instance: see the configurations MCExchange*.cfg. *)
EXTENDS Exchange, TLC

CONSTANTS o1, o2

\* One output for each choice of a generation with two choices.
MCOutputs == {o1, o2}

\* One output, for the run that is meant to have a short counterexample.
MCOneOutput == {o1}
=============================================================================
