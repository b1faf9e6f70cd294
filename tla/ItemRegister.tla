---------------------------- MODULE ItemRegister ----------------------------
(***************************************************************************)
(* What an item promises to the applications that edit it: it is a set of  *)
(* independent registers, one for each field of its content.  A save       *)
(* changes the field the user edited and no other one, whoever else saved  *)
(* since the application read the item.                                    *)
(***************************************************************************)
CONSTANT Initial    \* the contents an item may start with

VARIABLE contents   \* the value of every field

Init == contents \in Initial

Write ==
  /\ DOMAIN contents' = DOMAIN contents
  /\ \E f \in DOMAIN contents :
       \A g \in DOMAIN contents \ {f} : contents'[g] = contents[g]

Spec == Init /\ [][Write]_contents
=============================================================================
