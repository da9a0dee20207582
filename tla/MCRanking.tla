----------------------------- MODULE MCRanking -----------------------------
EXTENDS Ranking, TLC

MCDependsOn == ("api" :> {"db"}) @@ ("db" :> {"api", "disk"}) @@ ("disk" :> {})

Event(owner, age, shape, qualified) ==
  [owners |-> {owner}, age |-> age, shape |-> shape, qualified |-> qualified]

\* The alert's own, one hop away and two; recent and old; one after the alert.
MCAttributes ==
  {Event("api", 2, "configmap", TRUE), Event("api", 2, "configmap", FALSE),
   Event("api", 0, "configmap", TRUE), Event("db", 1, "rollout", FALSE),
   Event("db", 2, "parameters", FALSE), Event("disk", 1, "configmap", TRUE),
   Event("api", 3, "rollout", TRUE)}

MCHistories == {<<>>, <<{"rollout"}, {}>>, <<{"configmap"}>>}

Weights(r, t, p, c) ==
  [f \in Features |-> CASE f = "radius_overlap" -> r [] f = "temporal_proximity" -> t
                        [] f = "type_prior" -> p [] f = "recurrence" -> c]

\* The shipped weights as ratios of .05, and two a deployment may tune them to.
MCWeightings == {Weights(8, 7, 5, 0), Weights(1, 2, 1, 1), Weights(0, 1, 2, 0)}

\* Rows in file order: the qualified row above the one it refines.
Row(shape, qualifier, level) == [shape |-> shape, qualifier |-> qualifier, level |-> level]
MCPriors == <<Row("configmap", TRUE, 7), Row("configmap", FALSE, 2), Row("parameters", FALSE, 6)>>
=============================================================================
