-------------------------- MODULE MCIncomingQueue --------------------------
(* Instances of IncomingQueue for TLC.                                     *)
EXTENDS IncomingQueue

Symmetry == Permutations(Clients)
=============================================================================
