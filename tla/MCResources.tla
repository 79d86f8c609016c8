----------------------------- MODULE MCResources -----------------------------
(***************************************************************************)
(* Instances of Resources for TLC: two users, two destinations a route may *)
(* change between, two deliveries so that a replay can stand beside its    *)
(* original, and one of everything else.                                   *)
(***************************************************************************)
EXTENDS Resources, TLC

Symmetric == Permutations(Users) \cup Permutations(Destinations) \cup Permutations(Deliveries)

==============================================================================
