\* The same requests and configurations, for the claim on empty actor tokens.
SPECIFICATION Spec
CONSTANTS
  None = None
  Blank = Blank
  Malformed = Malformed
  Star = Star
  t1 = t1
  t2 = t2
  AbsoluteUris = {"uri"}
  PqcAlgs = {"ML-DSA-65", "ML-DSA-44"}
  Thread = {t1}
  Batch <- OneOfAnyKind
  MaxSeen = 3
  SweepEvery = 3
  MaxTime = 2
INVARIANTS
  EmptyActorNeverImpersonates
