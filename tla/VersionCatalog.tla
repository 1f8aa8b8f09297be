---------------------------- MODULE VersionCatalog ----------------------------
(***************************************************************************)
(* What registration promises: under each (key, version) at most one plan  *)
(* is ever published, for good, and only a plan the executor can run       *)
(* (docs/architecture/03-workflow-engine.md, 7: rows are immutable once    *)
(* published).  No sessions, no rows, no errors.                           *)
(***************************************************************************)
CONSTANTS
  Slots,         \* the pairs of a key and a version
  Plans,         \* the plans worth publishing
  Unpublished

VARIABLE catalog

Init == catalog = [slot \in Slots |-> Unpublished]

Publish(slot, plan) ==
  /\ catalog[slot] = Unpublished
  /\ catalog' = [catalog EXCEPT ![slot] = plan]

Next == \E slot \in Slots, plan \in Plans : Publish(slot, plan)

Spec == Init /\ [][Next]_catalog
===============================================================================
