\* Three keys and room for two, two request threads, a sweep every second
\* call, two expiry times and a clock that passes both.
SPECIFICATION Spec
CONSTANTS
  Key = {k1, k2, k3, blank}
  BlankKey = {blank}
  Caller = {c1, c2}
  Exps = {0, 1}
  MaxSeen = 2
  SweepEvery = 2
  MaxTime = 2
INVARIANTS
  TypeOK
  CapacityBound
  RetainedUntilExpiry
PROPERTIES
  ImplementsPromise
  FullOnlyOfUnexpired
