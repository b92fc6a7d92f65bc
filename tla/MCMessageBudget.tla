-------------------------- MODULE MCMessageBudget --------------------------
(* Instances of MessageBudget for TLC.                                     *)
EXTENDS MessageBudget

Symmetry == Permutations(Senders)
=============================================================================
