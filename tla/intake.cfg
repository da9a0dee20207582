SPECIFICATION FairSpec
CONSTANTS
  Firings = {f1, f2}
  Requests = {a, b}
  Digests = {d1, d2}
  NoDigest = NoDigest
  Ttl = 2
  MaxEntries = 2
  Longest = 2
  MaxTime = 5
  MaxRestarts = 1
CHECK_DEADLOCK FALSE
INVARIANTS
  OneInvestigation
  CardOnScreenIsRegistered
PROPERTIES
  OneAnswerPerTtl
  EveryFiringIsPosted
