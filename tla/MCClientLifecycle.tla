------------------------- MODULE MCClientLifecycle -------------------------
(* ClientLifecycle for TLC: two callers, the receiver and the destroyer. *)
EXTENDS ClientLifecycle, TLC

\* The callers run the same code.
CallerSymmetry == Permutations(Users)
=============================================================================
