SPECIFICATION Spec
CONSTANTS
  Objects = {o1, o2}
  k1 = k1
  k2 = k2
  v1 = v1
  v2 = v2
  Initial <- MCInitial
  Edits <- MCEdits
  Keys = {k1, k2}
  Values = {v1, v2}
  Absent = Absent
  Unknown = Unknown
  NoHint = NoHint
  NoCard = NoCard
  Catalogs = {"shipped", "widened"}
  Window = 2
  MaxRequests = 3
  MaxRotations = 1
SYMMETRY Symmetry
CHECK_DEADLOCK FALSE
INVARIANTS
  BeforeIsWhatWasThere
  UndoGivesBackWhatWasReplaced
  ClosedChangesCanBeProposed
