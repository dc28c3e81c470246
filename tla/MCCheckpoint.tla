---------------------------- MODULE MCCheckpoint ----------------------------
(* Instances of Checkpoint for TLC. *)
EXTENDS CheckpointInv

CONSTANTS a, b, e1, e2, e3, s1, s2

\* Two callers in one process, or in two.
OneService == (a :> s1) @@ (b :> s1)
TwoServices == (a :> s1) @@ (b :> s2)

Symmetry == Permutations(EventId)
SymmetryOneService == Permutations(EventId) \cup Permutations(Caller)
=============================================================================
