---------------------------- MODULE MCInventory ----------------------------
(* Small instances of InventoryRequests.  Operators and edits are           *)
(* interchangeable: no rule tells one from another.                         *)
EXTENDS InventoryProperties, TLC

Symmetry == Permutations(Operators) \union Permutations(Edits)
=============================================================================
