\* Two rotations of an ML-DSA key that compete.
SPECIFICATION Spec
CONSTANTS
  p1 = p1
  p2 = p2
  s1 = s1
  s2 = s2
  Tool = {p1, p2}
  Server = {s1}
  Kind = "pqc"
  Kids = {0}
  MaxKeys = 3
  NoTool = NoTool
  Dead = Dead
PROPERTIES
  OldKeyStaged
