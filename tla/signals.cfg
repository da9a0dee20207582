SPECIFICATION Spec
CONSTANTS
  i1 = i1
  c1 = c1
  c2 = c2
  c3 = c3
  Incidents = {i1}
  NoIncident = NoIncident
  Changes = {c1, c2, c3}
  FiredAt <- MCFiredAt
  OccurredAt <- MCOccurredAt
  Place <- MCPlace
  ActorKind <- MCActorKind
  Corrected <- MCCorrected
  Window = 3
  Quiet = 2
  Widest = 3
  MaxNow = 4
  MaxRestarts = 1
CHECK_DEADLOCK FALSE
INVARIANTS
  HonestSignalsAreVouched
PROPERTIES
  MiningIsIdempotent
  VerdictsStand
