SPECIFICATION FairWatch
CONSTANTS
  quick = quick
  slow = slow
  e1 = e1
  e2 = e2
  e3 = e3
  Sources = {quick, slow}
  Lag <- QuickAndSlow
  Events = {e1, e2, e3}
  SourceOf <- Makers
  OccursAt <- Moments
  Score <- Scores
  NoEvent = NoEvent
  WindowEnd = 1
  Poll = 2
  Margin = 2
  Tolerance = 1
  Early = 1
  Malformed = TRUE
  EditsFail = TRUE
  Horizon = 9
CHECK_DEADLOCK FALSE
INVARIANTS
  CaughtUpMeansComplete
PROPERTIES
  EveryGapCloses
