\* Three commands side by side, two replicas and one rotation; MCExchangeClient bounds
\* each script.  Once its commands have run nothing is left to do: behaviours end.
SPECIFICATION Spec
CONSTANTS
  None = None
  c1 = c1
  c2 = c2
  c3 = c3
  s1 = s1
  s2 = s2
  Command = {c1, c2, c3}
  Path = {"holder", "private", "public"}
  Script <- Scripts
  Server = {s1, s2}
  FirstKey <- Key1
  ForeignKey <- OtherKey
  MaxDrawn = 2
CHECK_DEADLOCK FALSE
INVARIANTS
  TypeOK
  PublicMatchesPrivate
  ReportedKeyKept
  VerifiedIsMinted
  HolderBound
  RefusedOnlyMidRollout
  OneLiveTokenPerActorToken
PROPERTIES
  FreshActorTokenServed
