SPECIFICATION Spec
CONSTANTS
  k = k
  l = l
  old = old
  new = new
  Corpora <- MCCorpora
  Keys = {k, l}
  Decoy = Decoy
  Untouched = Untouched
  Values = {old, new, Untouched}
  Absent = Absent
  Current <- MCCurrent
  Prior <- MCPrior
  Bodies <- MCBodies
  OtherMap = OtherMap
  Unseen = Unseen
  NoReport = NoReport
  MaxCalls = 2
  MaxRotations = 2
CHECK_DEADLOCK FALSE
INVARIANTS
  ContainedMeansContained
  NothingIsLeftBehind
