--------------------------- MODULE MCDeliveryQueue ---------------------------
(***************************************************************************)
(* DeliveryQueue on small instances.                                       *)
(***************************************************************************)
EXTENDS DeliveryQueue, TLC

CONSTANTS d1, d2, w1, w2, w3

\* Backoff schedules, in poll intervals.
OneStep  == <<1>>
TwoSteps == <<1, 2>>
==============================================================================
