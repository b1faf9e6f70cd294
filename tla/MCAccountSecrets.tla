--------------------------- MODULE MCAccountSecrets ---------------------------
(***************************************************************************)
(* Instances of AccountSecrets for TLC.                                     *)
(***************************************************************************)
EXTENDS AccountSecrets, TLC

CONSTANTS d1, d2, p1, p2, strong, below

\* Devices and passwords are interchangeable.
Interchangeable == Permutations(Devices) \cup Permutations(Passwords)
===============================================================================
