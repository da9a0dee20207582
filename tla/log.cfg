SPECIFICATION Spec
CONSTANTS
  server = server
  job = job
  r1 = r1
  r2 = r2
  r3 = r3
  NoMac = NoMac
  Fragment = Fragment
  Nothing = Nothing
  NoKey = NoKey
  EvidenceKeys = {k1}
  Records = {r1, r2, r3}
  Writers = {server, job}
  StartKeys = {k1, NoKey}
  Batches <- BatchOfTwo
  FiringsOf <- ServerFires
  MaxRecords = 4
  MaxCrashes = 2
  MaxEdits = 1
CHECK_DEADLOCK FALSE
INVARIANTS
  ChainVerifies
  AcknowledgedIsDurable
  EditsAreDetected
  OneLinePerFiring
