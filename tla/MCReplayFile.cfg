\* Two replicas with one worker each, two keys and room for one file.
SPECIFICATION Spec
CONSTANTS
  w1 = w1
  w2 = w2
  r1 = r1
  r2 = r2
  NoWorker = NoWorker
  Key = {k1, k2, blank}
  BlankKey = {blank}
  Replica = {r1, r2}
  Worker = {w1, w2}
  ReplicaOf <- OneEach
  Exps = {0, 1}
  MaxSeen = 1
  SweepEvery = 2
  MaxTime = 1
SYMMETRY Symmetry
INVARIANTS
  TypeOK
  GrantOnDisk
  BoundedOvershoot
PROPERTIES
  OneWinnerUntilExpiry
