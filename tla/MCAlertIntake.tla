----------------------------- MODULE MCAlertIntake -----------------------------
(* Instances of AlertIntake for TLC. *)
EXTENDS AlertIntake, TLC

Symmetry == Permutations(Firings) \cup Permutations(Requests) \cup Permutations(Digests)
=============================================================================
