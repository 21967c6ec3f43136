---------------------------- MODULE MCAdmission ----------------------------
(* Admission on a small instance: see the configurations MCAdmission*.cfg. *)
EXTENDS Admission, TLC

CONSTANTS r1, r2, r3, c1, c2, w1

\* r1 and r2 ask for an instrumented operation, r3 is passed through.
MCRequests == {r1, r2, r3}
MCInstrumented == {r1, r2}
MCClosers == {c1, c2}
MCWaiters == {w1}
=============================================================================
