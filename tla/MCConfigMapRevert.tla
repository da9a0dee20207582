---------------------------- MODULE MCConfigMapRevert ----------------------------
(* Instances of ConfigMapRevert for TLC. *)
EXTENDS ConfigMapRevert, TLC

CONSTANTS k1, k2, v1, v2

MCInitial == (k1 :> v1) @@ (k2 :> v1)
(* One key, another, both at once, and every key taken out. *)
MCEdits == {k1 :> v1, k1 :> v2, k2 :> v2, (k1 :> v2) @@ (k2 :> v2), (k1 :> Absent) @@ (k2 :> Absent)}

Symmetry == Permutations(Objects)
=============================================================================
