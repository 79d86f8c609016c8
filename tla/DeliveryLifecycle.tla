-------------------------- MODULE DeliveryLifecycle --------------------------
(***************************************************************************)
(* What the queue promises about one delivery, without leases, statements, *)
(* ticks or processes: it waits, it runs, and it either goes back to wait  *)
(* for another attempt or ends for good, after at most MaxAttempts         *)
(* recorded attempts.  DeliveryQueue implements it as long as one process  *)
(* at a time uses the database and no run outlives its lease.              *)
(***************************************************************************)
EXTENDS Naturals

CONSTANTS Deliveries, MaxAttempts

VARIABLES
    stage,   \* where each delivery is in its life
    count    \* attempts recorded against it

lifecycleVars == <<stage, count>>

Stage == {"absent", "waiting", "running", "success", "failed", "deleted"}

Init ==
    /\ stage = [d \in Deliveries |-> "absent"]
    /\ count = [d \in Deliveries |-> 0]

\* A set of deliveries goes from one stage to another together.
Move(D, from, to) ==
    /\ D # {} /\ \A d \in D : stage[d] = from
    /\ stage' = [d \in Deliveries |-> IF d \in D THEN to ELSE stage[d]]
    /\ UNCHANGED count

Enqueue(D) == Move(D, "absent", "waiting")
Claim(d)   == Move({d}, "waiting", "running")
Release(D) == Move(D, "running", "waiting")

\* One more attempt is on record and the delivery leaves the running stage.
Conclude(d, to) ==
    /\ stage[d] = "running" /\ count[d] < MaxAttempts
    /\ stage' = [stage EXCEPT ![d] = to]
    /\ count' = [count EXCEPT ![d] = @ + 1]

Succeed(d) == Conclude(d, "success")
Fail(d)    == Conclude(d, "failed")
Retry(d)   == count[d] + 1 < MaxAttempts /\ Conclude(d, "waiting")

Delete(d) ==
    /\ stage[d] \notin {"absent", "deleted"}
    /\ stage' = [stage EXCEPT ![d] = "deleted"]
    /\ count' = [count EXCEPT ![d] = 0]

Next ==
    \/ \E D \in SUBSET Deliveries : Enqueue(D) \/ Release(D)
    \/ \E d \in Deliveries : Claim(d) \/ Succeed(d) \/ Fail(d) \/ Retry(d) \/ Delete(d)

Spec == Init /\ [][Next]_lifecycleVars
==============================================================================
