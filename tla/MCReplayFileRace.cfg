\* The race of two replicas on a key whose first record has expired.
SPECIFICATION Spec
CONSTANTS
  w1 = w1
  w2 = w2
  r1 = r1
  r2 = r2
  NoWorker = NoWorker
  Key = {k1}
  BlankKey = {}
  Replica = {r1, r2}
  Worker = {w1, w2}
  ReplicaOf <- OneEach
  Exps = {0, 1}
  MaxSeen = 2
  SweepEvery = 2
  MaxTime = 1
PROPERTIES
  ExactlyOneWinner
