---------------------------- MODULE MCCoverageWatch ----------------------------
(* Instances of CoverageWatch for TLC: a source that lags and one that lags longer. *)
EXTENDS CoverageWatch, TLC

CONSTANTS quick, slow, e1, e2, e3

QuickAndSlow == quick :> 2 @@ slow :> 4
Makers == e1 :> quick @@ e2 :> slow @@ e3 :> slow
Moments == e1 :> 1 @@ e2 :> 0 @@ e3 :> 1
Scores == e1 :> 2 @@ e2 :> 1 @@ e3 :> 3
=============================================================================
