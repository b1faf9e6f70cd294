------------------------- MODULE MCGuardedAttachments -------------------------
(***************************************************************************)
(* Instances of GuardedAttachments for TLC.                                 *)
(***************************************************************************)
EXTENDS GuardedAttachments, TLC

CONSTANTS c1, c2, a1, b1, f1, f2, f3, s1, s2

\* f1 and f2 are the same bytes under two names, f3 has other bytes.
ThreeFiles == {f1, f2, f3}
TwoShas == [f \in ThreeFiles |-> IF f = f3 THEN s2 ELSE s1]

\* Hosts are interchangeable, and so are the two names of the same bytes.
Interchangeable == Permutations(Clients) \cup Permutations({f1, f2})
===============================================================================
