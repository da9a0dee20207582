-------------------------- MODULE MCIncidentMessages --------------------------
(* Instances of IncidentMessages for TLC. *)
EXTENDS IncidentMessages, TLC

Symmetry == Permutations(Clicks)
=============================================================================
