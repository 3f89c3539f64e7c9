\* Two threads, three competing requests or one of any kind, room for three
\* records, a sweep every third call; credentials expire at 1, verification
\* accepts them until 2.
SPECIFICATION Spec
CONSTANTS
  None = None
  Blank = Blank
  Malformed = Malformed
  Star = Star
  t1 = t1
  t2 = t2
  AbsoluteUris = {"uri"}
  PqcAlgs = {"ML-DSA-65", "ML-DSA-44"}
  Thread = {t1, t2}
  Batch <- CompetingAndAllKinds
  MaxSeen = 3
  SweepEvery = 3
  MaxTime = 3
SYMMETRY Symmetry
INVARIANTS
  TypeOK
  BurnedOnlyAfterGates
  SingleUseWhileRecorded
  ReuseYieldsDeadToken
  MintedWithinGrant
