SPECIFICATION FairSpec
CONSTANTS
  r1 = r1
  r2 = r2
  audit = audit
  gap = gap
  closed = closed
  ghost = ghost
  service = service
  stranger = stranger
  k1 = k1
  k2 = k2
  Runs = {r1, r2}
  NoRun = NoRun
  Sources = {audit}
  Events = {gap, closed}
  SourceOf <- MCSourceOf
  Ranking <- MCRanking
  Ghost = ghost
  Services = {service}
  AlertService = stranger
  InRadius <- MCInRadius
  Claims <- MCClaims
  Keys = {k1, k2}
  KeyOf <- MCKeyOf
  Closed = {closed}
  Restorable = {gap, closed}
  Observed = {gap, closed}
  Written = {}
  Contracted = {gap}
  MaxTurns = 3
INVARIANTS
  UndegradedBriefIsComplete
  ProposalFollowsTheNarrative
  GapsAreNotLost
PROPERTIES
  OneOutcomePerKey
  EveryAlertGetsItsBrief
