----------------------------- MODULE MCReplayFile -----------------------------
(***************************************************************************)
(* Small instances of ReplayFile: two workers in two replicas.             *)
(***************************************************************************)
EXTENDS ReplayFile, TLC

CONSTANTS w1, w2, r1, r2

OneEach == (w1 :> r1) @@ (w2 :> r2)

\* The keys are interchangeable, and so are the two replicas with their workers.
SwapReplicas == (w1 :> w2) @@ (w2 :> w1) @@ (r1 :> r2) @@ (r2 :> r1)
Symmetry ==
  Permutations(Key \ BlankKey)
    \cup {SwapReplicas}
    \cup {p @@ SwapReplicas : p \in Permutations(Key \ BlankKey)}
===============================================================================
