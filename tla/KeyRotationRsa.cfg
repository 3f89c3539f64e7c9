\* Two rotations of an RSA key that compete, three generated keys, two replicas.
SPECIFICATION Spec
CONSTANTS
  p1 = p1
  p2 = p2
  s1 = s1
  s2 = s2
  Tool = {p1, p2}
  Server = {s1, s2}
  Kind = "rsa"
  Kids = {}
  MaxKeys = 3
  NoTool = NoTool
  Dead = Dead
SYMMETRY Symmetry
INVARIANTS
  RotationInv
  JwksVerifiesMinted
  RestartedVerifiesAll
PROPERTIES
  ImplementsRing
