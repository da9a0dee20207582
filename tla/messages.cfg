SPECIFICATION Spec
CONSTANTS
  Clicks = {c1, c2}
  OneShots = {TRUE, FALSE}
  MaxUpdates = 2
  Decisions = {"executed"}
  NoSession = NoSession
CHECK_DEADLOCK FALSE
SYMMETRY Symmetry
INVARIANTS
  DecisionReachesTheBrief
  MessagesAreCurrent
  DecisionIsOnRecord
PROPERTIES
  ReopensOnlyInFlight
