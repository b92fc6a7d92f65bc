--------------------------- MODULE DurableConfig ---------------------------
(***************************************************************************)
(* What internal/config/config.go promises: a configuration in memory and  *)
(* one on disk, where saving is a single step that makes the second the    *)
(* first, and a start continues with what was saved.                       *)
(***************************************************************************)
EXTENDS Naturals

CONSTANTS Fields, Defaults, Missing, Corrupt

VARIABLES config, disk

Init == config = Defaults /\ disk \in {Missing, Corrupt, Defaults}

\* One field changes in memory; values are numbered.
Update ==
  /\ \E f \in Fields :
       config'[f] \in Nat /\ config' = [config EXCEPT ![f] = config'[f]]
  /\ UNCHANGED disk

\* Everything in memory replaces everything on disk.
Save == disk' = config /\ UNCHANGED config

\* A file that is missing or corrupt is replaced by the defaults, if it can
\* be; one that cannot be read is left alone, and the defaults are used.
Start ==
  \/ /\ disk \in {Missing, Corrupt}
     /\ config' = Defaults /\ disk' \in {Defaults, disk}
  \/ /\ disk \notin {Missing, Corrupt}
     /\ config' = disk /\ UNCHANGED disk
  \/ config' = Defaults /\ UNCHANGED disk

Next == Update \/ Save \/ Start

Spec == Init /\ [][Next]_<<config, disk>>
=============================================================================
