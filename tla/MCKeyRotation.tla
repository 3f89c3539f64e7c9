---------------------------- MODULE MCKeyRotation -----------------------------
(***************************************************************************)
(* Small instances of KeyRotation; tools and servers are interchangeable.  *)
(***************************************************************************)
EXTENDS KeyRotation, TLC

CONSTANTS p1, p2, s1, s2

Symmetry == Permutations(Tool) \cup Permutations(Server)
===============================================================================
