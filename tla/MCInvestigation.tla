----------------------------- MODULE MCInvestigation -----------------------------
(* Two investigations of one incident, over a gap and a change the catalog reverts. *)
EXTENDS Investigation, TLC

CONSTANTS r1, r2, audit, gap, closed, ghost, service, stranger, k1, k2

MCSourceOf == (gap :> audit) @@ (closed :> audit)
MCRanking == <<gap, closed>>
MCInRadius == (service :> {gap, closed})
MCClaims == {{gap}, {closed, ghost}}
MCKeyOf == (gap :> k1) @@ (closed :> k2)
=============================================================================
