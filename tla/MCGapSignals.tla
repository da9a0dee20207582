------------------------------ MODULE MCGapSignals ------------------------------
(* Instances of GapSignals for TLC. *)
EXTENDS GapSignals, TLC

CONSTANTS i1, c1, c2, c3

(* The incident may be about either of two changes of one moment, or both.  A third, made after it *)
(* fired, is what undoes them.  The identity map learns late that a person made the first, and     *)
(* that automation made the third.                                                                 *)
MCFiredAt == i1 :> 1
MCOccurredAt == (c1 :> 0) @@ (c2 :> 0) @@ (c3 :> 2)
MCPlace == (c1 :> 1) @@ (c2 :> 2) @@ (c3 :> 3)
MCActorKind == (c1 :> "unknown") @@ (c2 :> "service_account") @@ (c3 :> "human")
MCCorrected == (c1 :> "human") @@ (c3 :> "service_account")
=============================================================================
