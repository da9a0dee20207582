------------------------------ MODULE MCGrowthCycle ------------------------------
(* Instances of GrowthCycle for TLC. *)
EXTENDS GrowthCycle, TLC

CONSTANTS gA, e1, e2, e3, m1, m2

(* One gap that takes a generated writer, or widens an entry.  A person undid the first change as *)
(* the candidate would, which led to an incident of its own, and may undo it otherwise later.     *)
MCOrder == <<gA>>
MCRungs == {gA :> 3, gA :> 1}
MCGapOf == [e \in {e1, e2, e3} |-> gA]
MCUndoes == (e2 :> e1) @@ (e3 :> e1)
=============================================================================
