----------------------------- MODULE MCShutdown -----------------------------
(* Shutdown on a small instance: see the configurations MCShutdown*.cfg. *)
EXTENDS Shutdown, TLC

CONSTANTS r1, r2, a

MCInstrumented == {r1, r2}
MCIds == {a}

MCSymmetry == Permutations(Instrumented)
=============================================================================
