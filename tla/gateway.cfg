SPECIFICATION Spec
CONSTANTS
  revert = revert
  oneshot = oneshot
  Keys <- RevertOnly
  CatalogActions <- RevertOnly
  Declared <- ManagerTier
  Digests = {d1, d2}
  NoDigest = NoDigest
  Deciders = {t1, t2}
  ActorRole = TRUE
  ExpiresAfter = 1
  CredentialTTL = 1
  MaxNow = 1
  MaxCalls = 2
  MaxLives = 2
SYMMETRY Symmetry
INVARIANTS
  ClaimIsExclusive
  ExecutesAtMostOnce
  MutationIsRecorded
  AnswersAgree
  CredentialIsJustified
  ObserverHearsDecisions
PROPERTIES
  ImplementsDecideOnce
