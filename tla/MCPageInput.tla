----------------------------- MODULE MCPageInput -----------------------------
(* PageInput for TLC: the sessions are interchangeable.                      *)
EXTENDS PageInput, TLC

SessionSymmetry == Permutations(Session)
=============================================================================
