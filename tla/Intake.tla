-------------------------------- MODULE Intake --------------------------------
(***************************************************************************)
(* What ingest promises about one Telegram update, whatever the number of  *)
(* times Telegram sends it: it is taken once, and it fans out at most once,*)
(* to all the routes of one match together.  Ingest implements it.         *)
(***************************************************************************)
EXTENDS Naturals

CONSTANTS Updates, Routes

VARIABLES
    stage,    \* new, taken (its routes are being matched) or closed
    fanOut    \* the routes it has a delivery for

intakeVars == <<stage, fanOut>>

Init ==
    /\ stage = [u \in Updates |-> "new"]
    /\ fanOut = [u \in Updates |-> {}]

Take(u) ==
    /\ stage[u] = "new"
    /\ stage' = [stage EXCEPT ![u] = "taken"]
    /\ UNCHANGED fanOut

FanOut(u, matched) ==
    /\ stage[u] = "taken"
    /\ stage' = [stage EXCEPT ![u] = "closed"]
    /\ fanOut' = [fanOut EXCEPT ![u] = matched]

\* The requests in hand are cut short: their updates stay without deliveries.
CutShort(U) ==
    /\ \A u \in U : stage[u] = "taken"
    /\ stage' = [u \in Updates |-> IF u \in U THEN "closed" ELSE stage[u]]
    /\ UNCHANGED fanOut

\* The bot goes and takes everything along, but for the matching in hand.
Forget ==
    /\ stage' = [u \in Updates |-> IF stage[u] = "taken" THEN "taken" ELSE "closed"]
    /\ fanOut' = [u \in Updates |-> {}]

Next ==
    \/ \E u \in Updates : Take(u) \/ \E matched \in SUBSET Routes : FanOut(u, matched)
    \/ \E U \in SUBSET Updates : CutShort(U)
    \/ Forget

Spec == Init /\ [][Next]_intakeVars
==============================================================================
