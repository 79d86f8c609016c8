----------------------------- MODULE MCAccounts ------------------------------
(***************************************************************************)
(* Accounts on small instances.                                            *)
(***************************************************************************)
EXTENDS Accounts, TLC

CONSTANTS root, ann, bob, s1, s2, k1, r1, r2

\* Bob is Ann's second account: it can only be made when the first is gone.
Names == [u \in Users |-> IF u = bob THEN ann ELSE u]

Symmetric == Permutations(Requests)
==============================================================================
