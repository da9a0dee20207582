SPECIFICATION FairSpec
CONSTANTS
  revert = revert
  oneshot = oneshot
  Keys <- OneShotOnly
  CatalogActions <- NoActions
  Declared <- NoneDeclared
  Digests = {d1}
  NoDigest = NoDigest
  Deciders = {t1, t2}
  ActorRole = FALSE
  ExpiresAfter = 0
  CredentialTTL = 1
  MaxNow = 0
  MaxCalls = 3
  MaxLives = 1
CHECK_DEADLOCK FALSE
PROPERTIES
  EveryCallEnds
