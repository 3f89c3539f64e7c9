\* One actor token in two delegations, the second in the leeway after its expiry.
SPECIFICATION Spec
CONSTANTS
  None = None
  Blank = Blank
  Malformed = Malformed
  Star = Star
  t1 = t1
  t2 = t2
  AbsoluteUris = {"uri"}
  PqcAlgs = {"ML-DSA-65", "ML-DSA-44"}
  Thread = {t1, t2}
  Batch <- SharedActor
  MaxSeen = 3
  SweepEvery = 1
  MaxTime = 3
SYMMETRY Symmetry
INVARIANTS
  ActorTokenSingleUse
