----------------------------- MODULE MCVaultItems -----------------------------
(***************************************************************************)
(* Instances of VaultItems for TLC.                                         *)
(***************************************************************************)
EXTENDS VaultItems

CONSTANTS c1, c2, vA, vB, a1, b1, x1

\* One vault with one item.
OneItem == {a1}
OneVaultOf == [i \in OneItem |-> vA]

\* An item to copy or move from vA to vB.
TwoItems == {a1, b1}
TwoVaultsOf == [i \in TwoItems |-> IF i = b1 THEN vB ELSE vA]

UpdateOps == {"list_vaults", "get_item", "update_item"}
MoveOps == {"trash_item", "delete_item", "move_item"}
===============================================================================
