\* Two threads, three requests over three tokens, room for two revocations.
SPECIFICATION Spec
CONSTANTS
  None = None
  Blank = Blank
  Malformed = Malformed
  Star = Star
  t1 = t1
  t2 = t2
  AbsoluteUris = {}
  PqcAlgs = {}
  Thread = {t1, t2}
  Requests <- Mixed
  Config <- OneTarget
  MaxSeen = 2
  SweepEvery = 2
  MaxTime = 3
  MaxRequests = 3
SYMMETRY Symmetry
INVARIANTS
  StoresBounded
  RevocationKept
PROPERTIES
  RevokedIsInactive
  RepeatedRevocationAccepted
