SPECIFICATION FairCycle
CONSTANTS
  gA = gA
  e1 = e1
  e2 = e2
  e3 = e3
  m1 = m1
  m2 = m2
  Candidates = {gA}
  CycleOrder <- MCOrder
  Rungs <- MCRungs
  Events = {e1, e2, e3}
  GapOf <- MCGapOf
  OldEvents = {e1, e2}
  Remediations = {e2, e3}
  Undoes <- MCUndoes
  Agreeing = {e2}
  Correctable = {e2}
  Threshold = 2
  Modules = {m1, m2}
  Acceptable = {m1, m2}
  NoModule = NoModule
  EvidenceKeys = {1, 2}
  Unrecorded = TRUE
INVARIANTS
  PushedWriterWasContained
  PushedEvidenceResolves
PROPERTIES
  PushedWasChecked
  CommitGetsItsPullRequest
