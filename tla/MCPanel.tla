-------------------------------- MODULE MCPanel --------------------------------
(* Small instances of Panel for TLC. *)
EXTENDS Panel, TLC

\* What can be done on the other pages can be done on one of these.
MCPages == {destinations, users, deliveries}

\* Users and records are alike, and no property names one.
Alike == Permutations(Users) \cup Permutations(Ids)
==============================================================================
