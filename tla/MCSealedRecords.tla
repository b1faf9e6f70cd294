--------------------------- MODULE MCSealedRecords ---------------------------
(***************************************************************************)
(* Instances of SealedRecords for TLC.                                      *)
(***************************************************************************)
EXTENDS SealedRecords, TLC

CONSTANTS p1, p2, vA, vB, i1, i2, a1, m1

\* Two items in one vault, so that one key seals several rows.
OneVaultOf == [i \in Items |-> vA]
FirstItemOf == [a \in Attachments |-> i1]

Interchangeable == Permutations(Identities)
==============================================================================
