----------------------------- MODULE MCSessions -----------------------------
(* Sessions on a small instance: see the configurations MCSessions*.cfg. *)
EXTENDS Sessions, TLC

CONSTANTS t1, t2, t3, a, b, c

MCTurns == {t1, t2, t3}
MCIds == {a, b, c}
MCOneId == {a}

\* Turns are not told apart, nor are identifiers.
MCSymmetry == Permutations(MCTurns) \cup Permutations(Ids)
=============================================================================
