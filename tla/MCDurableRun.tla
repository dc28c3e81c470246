---------------------------- MODULE MCDurableRun ----------------------------
(* Instances of DurableRun for TLC. *)
EXTENDS DurableRunProps

Symmetry == Permutations(Call) \cup Permutations(Worker)
=============================================================================
