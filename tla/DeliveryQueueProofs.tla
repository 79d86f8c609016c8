------------------------- MODULE DeliveryQueueProofs -------------------------
(***************************************************************************)
(* Theorems about DeliveryQueue, for every set of deliveries and workers,  *)
(* every schedule of delays and every length of lease and run.             *)
(***************************************************************************)
EXTENDS DeliveryQueue, FiniteSetTheorems, TLAPS

------------------------------------------------------------------------------
\* Types

\* A backoff step is a duration.
LEMMA DelayType ==
    ASSUME NEW n \in Nat
    PROVE  nextRetryDelay(n, RetryDelays) \in Nat
  BY QueueAssumption DEF nextRetryDelay

LEMMA RowTypes ==
    /\ NoRow \in Row /\ NewRow \in Row /\ Deleted \in Row
    /\ \A d \in Deliveries, w \in Workers :
          TypeOK => Claimed(w, d) \in Row /\ Unlocked(d) \in Row
    /\ \A j \in Job : Recorded(j) \in Row
  <1>1. NoRow \in Row /\ NewRow \in Row /\ Deleted \in Row
    BY DEF NoRow, NewRow, Deleted, Row, Status, Open, Completed
  <1>2. ASSUME NEW d \in Deliveries, NEW w \in Workers, TypeOK
        PROVE  Claimed(w, d) \in Row /\ Unlocked(d) \in Row
    <2>1. row[d] \in Row /\ worker[w].age \in Nat
      BY <1>2 DEF TypeOK, Worker
    <2>2. QED
      BY <2>1 DEF Claimed, Unlocked, Row, Status, Open
  <1>3. ASSUME NEW j \in Job
        PROVE  Recorded(j) \in Row
    BY DEF Job, Recorded, Row, Status, Open, Completed
  <1>4. QED
    BY <1>1, <1>2, <1>3

\* What a tick leaves of its worker is a worker.
LEMMA TickDoneType ==
    ASSUME TypeOK, NEW w \in Workers
    PROVE  TickDone(w) \in Worker
  BY DEF TypeOK, TickDone, Worker, Phase

\* A batch is finite, so its length is a number.
LEMMA BatchFinite ==
    ASSUME TypeOK, NEW w \in Workers
    PROVE  /\ IsFiniteSet(Batch(w))
           /\ Cardinality(Batch(w)) \in Nat
  <1>1. Batch(w) \subseteq jobs
    BY DEF Batch, JobsOf
  <1>2. IsFiniteSet(Batch(w))
    BY <1>1, FS_Subset DEF TypeOK
  <1>3. QED
    BY <1>2, FS_CardinalityType

\* The image of a finite set is finite, stated for a function.
LEMMA ImageFinite ==
    ASSUME NEW S, IsFiniteSet(S), NEW g
    PROVE  IsFiniteSet({g[x] : x \in S})
  <1> DEFINE h == [x \in S |-> g[x]]
             T == {g[x] : x \in S}
  <1>1. h \in Surjection(S, T)
    BY DEF Surjection
  <1>2. QED
    BY <1>1, FS_Surjection

\* A failing job keeps the others and its worker well typed.
LEMMA ThrowType ==
    ASSUME TypeOK, NEW j \in jobs, Throw(j)
    PROVE  jobs' \subseteq Job /\ IsFiniteSet(jobs') /\ worker' \in [Workers -> Worker]
  <1>1. j \in Job /\ j.worker \in Workers
    BY DEF TypeOK, Job
  <1>2. IsFiniteSet(jobs \ {j})
    BY FS_Subset DEF TypeOK
  <1>3. CASE j.inBatch
    <2> DEFINE f(k) == IF k.worker = j.worker THEN [k EXCEPT !.inBatch = FALSE] ELSE k
    <2>1. jobs' = {f(k) : k \in jobs \ {j}}
      BY <1>3 DEF Throw
    <2>2. \A k \in jobs : f(k) \in Job
      BY DEF TypeOK, Job
    <2>3. IsFiniteSet({f(k) : k \in jobs \ {j}})
      <3> DEFINE g == [k \in jobs \ {j} |-> f(k)]
      <3>1. {f(k) : k \in jobs \ {j}} = {g[k] : k \in jobs \ {j}}
        OBVIOUS
      <3>2. IsFiniteSet({g[k] : k \in jobs \ {j}})
        <4> HIDE DEF g
        <4> QED BY <1>2, ImageFinite
      <3> QED BY <3>1, <3>2
    <2>4. worker' = [worker EXCEPT ![j.worker] = TickDone(j.worker)]
      BY <1>3 DEF Throw
    <2>5. QED
      BY <1>1, <2>1, <2>2, <2>3, <2>4, TickDoneType DEF TypeOK
  <1>4. CASE ~j.inBatch
    BY <1>2, <1>4 DEF Throw, TypeOK
  <1>5. QED
    BY <1>3, <1>4

\* An answered job is a job: its retry delay is a duration.
LEMMA AnsweredType ==
    ASSUME NEW j \in Job, NEW response \in Nat
    PROVE  Answered(j, response) \in Job
  <1> DEFINE delay == decideRetry(j.attempt, response, MaxAttempts, RetryDelays).delay
  <1>1. delay \in Nat
    BY DelayType DEF decideRetry, Job
  <1>2. (IF Succeeded(response) THEN 0 ELSE delay) \in Nat
    BY <1>1
  <1>3. "answered" \in {"leased", "sending", "answered", "logged"}
    OBVIOUS
  <1>4. QED
    BY <1>2, <1>3, Zenon DEF Answered, Job

\* A job that moves on stays a job.
LEMMA AdvanceType ==
    ASSUME TypeOK, NEW j \in jobs, NEW next \in Job, Advance(j, next)
    PROVE  jobs' \subseteq Job /\ IsFiniteSet(jobs')
  <1>1. IsFiniteSet(jobs \ {j})
    BY FS_Subset DEF TypeOK
  <1>2. QED
    BY <1>1, FS_AddElement DEF TypeOK, Advance

LEMMA InitType == Init => TypeOK
  BY RowTypes, FS_EmptySet, QueueAssumption DEF Init, TypeOK, NewWorker, Worker, Phase

LEMMA NextType == TypeOK /\ [Next]_vars => TypeOK'
  <1> SUFFICES ASSUME TypeOK, [Next]_vars PROVE TypeOK'
    OBVIOUS
  <1> USE QueueAssumption
  <1>1. ASSUME NEW D \in SUBSET Deliveries, Enqueue(D) PROVE TypeOK'
    BY <1>1, RowTypes DEF TypeOK, Enqueue
  <1>2. ASSUME NEW d \in Deliveries, Purge(d) \/ Cascade(d) PROVE TypeOK'
    <2>1. Delete(d)
      BY <1>2 DEF Purge, Cascade
    <2>2. row' \in [Deliveries -> Row]
      BY <2>1, RowTypes DEF TypeOK, Delete
    <2>3. attempts' \in [Deliveries -> Seq([attempt: Nat, succeeded: BOOLEAN])]
      BY <2>1 DEF TypeOK, Delete
    <2>4. QED
      BY <2>1, <2>2, <2>3 DEF TypeOK, Delete
  <1>3. ASSUME NEW w \in Workers, WorkerStep(w) PROVE TypeOK'
    <2>1. CASE Start(w)
      <3>1. [worker[w] EXCEPT !.phase = "due"] \in Worker
        BY DEF TypeOK, Worker, Phase
      <3>2. QED
        BY <2>1, <3>1 DEF TypeOK, Start
    <2>2. CASE SelectCandidates(w)
      <3>1. \A K \in SUBSET Deliveries :
               [worker[w] EXCEPT !.phase = "claiming", !.todo = K, !.age = 0] \in Worker
        BY DEF TypeOK, Worker, Phase
      <3>2. \E K \in SUBSET Deliveries :
               worker' = [worker EXCEPT ![w] =
                 IF K = {} THEN TickDone(w)
                 ELSE [worker[w] EXCEPT !.phase = "claiming", !.todo = K, !.age = 0]]
        BY <2>2 DEF SelectCandidates
      <3>3. worker' \in [Workers -> Worker]
        BY <3>1, <3>2, TickDoneType DEF TypeOK
      <3>4. QED
        BY <2>2, <3>3 DEF TypeOK, SelectCandidates
    <2>3. CASE StartBatch(w)
      <3>1. InBatch(w) \in Worker
        <4>1. worker[w] \in Worker /\ worker[w].inFlight + Cardinality(Batch(w)) \in Nat
          BY BatchFinite DEF TypeOK, Worker
        <4>2. "batch" \in Phase /\ 0 \in Nat
          BY DEF Phase
        <4>3. QED
          BY <4>1, <4>2, Zenon DEF Worker, InBatch
      <3>2. worker' \in [Workers -> Worker]
        BY <2>3, <3>1, TickDoneType DEF TypeOK, StartBatch
      <3>3. QED
        BY <2>3, <3>2 DEF TypeOK, StartBatch
    <2>4. CASE EndBatch(w)
      BY <2>4, TickDoneType DEF TypeOK, EndBatch
    <2>5. CASE Release(w)
      <3>1. row' \in [Deliveries -> Row]
        BY <2>5, RowTypes DEF TypeOK, Release
      <3>2. worker' \in [Workers -> Worker]
        <4>1. \A v \in Workers : [worker[v] EXCEPT !.phase = "released"] \in Worker
          BY DEF TypeOK, Worker, Phase
        <4>2. worker' = [worker EXCEPT ![w] = [worker[w] EXCEPT !.phase = "released"]]
          BY <2>5 DEF Release, TypeOK
        <4>3. QED
          BY <4>1, <4>2 DEF TypeOK
      <3>3. QED
        BY <2>5, <3>1, <3>2 DEF TypeOK, Release
    <2>6. CASE Exit(w)
      <3>1. [NewWorker EXCEPT !.phase = "dead"] \in Worker
        BY DEF NewWorker, Worker, Phase
      <3>2. QED
        BY <2>6, <3>1, FS_Subset DEF TypeOK, Exit, Dies, JobsOf
    <2>7. ASSUME NEW d \in Deliveries, ClaimUpdate(w, d) PROVE TypeOK'
      <3>1. row' \in [Deliveries -> Row]
        <4>1. row' = row \/ (Present(d) /\ row' = [row EXCEPT ![d] = Claimed(w, d)])
          BY <2>7 DEF ClaimUpdate
        <4>2. QED
          <5>1. row \in [Deliveries -> Row] /\ (Present(d) => Claimed(w, d) \in Row)
            BY RowTypes DEF TypeOK
          <5>2. QED
            BY <4>1, <5>1
      <3>2. PICK leased \in SUBSET Deliveries :
               worker' = [worker EXCEPT ![w].todo = @ \ {d}, ![w].leased = leased]
        BY <2>7 DEF ClaimUpdate
      <3>3. [worker[w] EXCEPT !.todo = @ \ {d}, !.leased = leased] \in Worker
        BY DEF TypeOK, Worker
      <3>4. worker' \in [Workers -> Worker]
        BY <3>2, <3>3 DEF TypeOK
      <3>5. QED
        BY <2>7, <3>1, <3>4 DEF TypeOK, ClaimUpdate
    <2>8. ASSUME NEW d \in Deliveries, ClaimReread(w, d) PROVE TypeOK'
      <3>1. worker' \in [Workers -> Worker]
        BY <2>8 DEF TypeOK, ClaimReread, Worker
      <3> DEFINE new == [worker |-> w, delivery |-> d, attempt |-> row[d].attemptCount + 1,
                         age |-> worker[w].age, phase |-> "leased",
                         response |-> NoResponse, wait |-> 0, inBatch |-> TRUE]
      <3>0. new \in Job
        <4>1. row[d].attemptCount \in Nat /\ worker[w].age \in Nat
          BY DEF TypeOK, Worker, Row
        <4>2. QED
          BY <4>1 DEF Job, NoResponse
      <3>2. jobs' \subseteq Job
        <4>1. jobs' = jobs \/ jobs' = jobs \cup {new}
          BY <2>8 DEF ClaimReread
        <4> HIDE DEF new
        <4>2. QED
          BY <3>0, <4>1 DEF TypeOK
      <3>3. IsFiniteSet(jobs')
        BY <2>8, FS_AddElement DEF TypeOK, ClaimReread
      <3>4. QED
        BY <2>8, <3>1, <3>2, <3>3 DEF TypeOK, ClaimReread
    <2>9. QED
      BY <1>3, <2>1, <2>2, <2>3, <2>4, <2>5, <2>6, <2>7, <2>8 DEF WorkerStep
  <1>4. ASSUME NEW w \in Workers, Disturbance(w) PROVE TypeOK'
    <2>1. CASE ClaimFails(w)
      BY <2>1, TickDoneType, FS_Subset DEF TypeOK, ClaimFails
    <2>2. CASE Stop(w)
      <3>1. [worker[w] EXCEPT !.stopping = TRUE,
                              !.phase = IF @ \in Idle THEN "drained" ELSE @] \in Worker
        BY DEF TypeOK, Worker, Phase
      <3>2. worker' = [worker EXCEPT ![w] =
               [worker[w] EXCEPT !.stopping = TRUE,
                                 !.phase = IF @ \in Idle THEN "drained" ELSE @]]
        BY <2>2 DEF Stop, TypeOK
      <3>3. QED
        BY <2>2, <3>1, <3>2 DEF TypeOK, Stop
    <2>3. CASE Crash(w)
      <3>1. [NewWorker EXCEPT !.phase = "dead"] \in Worker
        BY DEF NewWorker, Worker, Phase
      <3>2. QED
        BY <2>3, <3>1, FS_Subset DEF TypeOK, Crash, Dies, JobsOf
    <2>4. CASE ReleaseFails(w)
      <3>1. [worker[w] EXCEPT !.phase = "unreleased"] \in Worker
        BY DEF TypeOK, Worker, Phase
      <3>2. worker' = [worker EXCEPT ![w] = [worker[w] EXCEPT !.phase = "unreleased"]]
        BY <2>4 DEF ReleaseFails, TypeOK
      <3>3. faults' \in 0..MaxFaults
        BY <2>4, QueueAssumption DEF TypeOK, ReleaseFails
      <3>4. QED
        BY <2>4, <3>1, <3>2, <3>3 DEF TypeOK, ReleaseFails
    <2>5. QED
      BY <1>4, <2>1, <2>2, <2>3, <2>4 DEF Disturbance
  <1>5. ASSUME NEW j \in jobs, JobStep(j) PROVE TypeOK'
    <2>0. j \in Job
      BY DEF TypeOK
    <2>1. CASE Send(j) \/ Refuse(j)
      <3>1. [j EXCEPT !.phase = "sending"] \in Job /\ Answered(j, NoResponse) \in Job
        BY <2>0, AnsweredType DEF Job, NoResponse
      <3>2. QED
        BY <2>1, <3>1, AdvanceType DEF TypeOK, Send, Refuse
    <2>2. CASE SigningFails(j)
      BY <2>2, ThrowType DEF TypeOK, SigningFails
    <2>3. ASSUME NEW response \in Responses, Answer(j, response) PROVE TypeOK'
      BY <2>0, <2>3, AnsweredType, AdvanceType DEF TypeOK, Answer
    <2>4. CASE RecordInsert(j)
      <3>1. CASE Present(j.delivery)
        <4> DEFINE entry == [attempt |-> j.attempt, succeeded |-> Succeeded(j.response)]
        <4>1. entry \in [attempt: Nat, succeeded: BOOLEAN]
          BY <2>0 DEF Job, Succeeded
        <4>2. attempts' = [attempts EXCEPT ![j.delivery] = Append(@, entry)]
          BY <2>4, <3>1 DEF RecordInsert
        <4>3. attempts' \in [Deliveries -> Seq([attempt: Nat, succeeded: BOOLEAN])]
          <5> HIDE DEF entry
          <5> QED BY <2>0, <4>1, <4>2 DEF TypeOK, Job
        <4>4. [j EXCEPT !.phase = "logged"] \in Job
          BY <2>0 DEF Job
        <4>5. jobs' \subseteq Job /\ IsFiniteSet(jobs')
          BY <2>4, <3>1, <4>4, AdvanceType DEF RecordInsert
        <4>6. QED
          BY <2>4, <3>1, <4>3, <4>5 DEF TypeOK, RecordInsert
      <3>2. CASE ~Present(j.delivery)
        BY <2>4, <3>2, ThrowType DEF TypeOK, RecordInsert
      <3>3. QED
        BY <3>1, <3>2
    <2>5. CASE RecordUpdate(j)
      BY <2>0, <2>5, RowTypes, FS_Subset DEF TypeOK, RecordUpdate, Job
    <2>6. QED
      BY <1>5, <2>1, <2>2, <2>3, <2>4, <2>5 DEF JobStep
  <1>6. ASSUME NEW j \in jobs, StatementFails(j) PROVE TypeOK'
    BY <1>6, ThrowType DEF TypeOK, StatementFails
  <1>7. CASE TimePasses
    <2>1. row' \in [Deliveries -> Row]
      <3>1. \A d \in Deliveries :
               [row[d] EXCEPT !.dueIn = Less(@),
                              !.lockAge = IF row[d].lockedBy = Nobody THEN 0 ELSE Older(@)]
               \in Row
        <4> TAKE d \in Deliveries
        <4>1. row[d] \in Row
          BY DEF TypeOK
        <4>2. Less(row[d].dueIn) \in Nat
          BY <4>1 DEF Row, Less
        <4>3. (IF row[d].lockedBy = Nobody THEN 0 ELSE Older(row[d].lockAge)) \in Nat
          BY <4>1 DEF Row, Older
        <4>4. QED
          BY <4>1, <4>2, <4>3, Zenon DEF Row
      <3>2. QED
        BY <1>7, <3>1 DEF TimePasses
    <2>2. worker' \in [Workers -> Worker]
      <3>1. \A w \in Workers :
               [worker[w] EXCEPT !.phase = IF @ = "waiting" THEN "due" ELSE @,
                                 !.age = IF worker[w].phase = "claiming" THEN @ + 1 ELSE 0]
               \in Worker
        <4> TAKE w \in Workers
        <4>1. worker[w] \in Worker
          BY DEF TypeOK
        <4>2. (IF worker[w].phase = "waiting" THEN "due" ELSE worker[w].phase) \in Phase
          BY <4>1 DEF Worker, Phase
        <4>3. (IF worker[w].phase = "claiming" THEN worker[w].age + 1 ELSE 0) \in Nat
          BY <4>1 DEF Worker
        <4>4. QED
          BY <4>1, <4>2, <4>3, Zenon DEF Worker
      <3>2. QED
        BY <1>7, <3>1 DEF TimePasses
    <2>3. jobs' \subseteq Job
      <3>1. \A j \in Job : [j EXCEPT !.age = @ + 1, !.wait = Less(@)] \in Job
        <4> TAKE j \in Job
        <4>1. j.age + 1 \in Nat /\ Less(j.wait) \in Nat
          BY DEF Job, Less
        <4>2. QED
          BY <4>1, Zenon DEF Job
      <3>2. QED
        BY <1>7, <3>1 DEF TimePasses, TypeOK
    <2>4. IsFiniteSet(jobs')
      <3> DEFINE g == [j \in jobs |-> [j EXCEPT !.age = @ + 1, !.wait = Less(@)]]
      <3>1. jobs' = {g[j] : j \in jobs}
        BY <1>7 DEF TimePasses
      <3>2. IsFiniteSet({g[j] : j \in jobs})
        <4> HIDE DEF g
        <4>1. IsFiniteSet(jobs)
          BY DEF TypeOK
        <4>2. QED
          BY <4>1, ImageFinite
      <3> QED BY <3>1, <3>2
    <2>5. QED
      BY <1>7, <2>1, <2>2, <2>3, <2>4 DEF TypeOK, TimePasses
  <1>8. CASE UNCHANGED vars
    BY <1>8 DEF TypeOK, vars
  <1>9. QED
    BY <1>1, <1>2, <1>3, <1>4, <1>5, <1>6, <1>7, <1>8 DEF Next

\* The tables and the worker objects keep their types, whatever fails.
THEOREM TypeCorrect == Spec => []TypeOK
  BY InitType, NextType, PTL DEF Spec

------------------------------------------------------------------------------
\* The lease.  The argument: while a job exists its row cannot be claimed, for
\* the lock it runs under is younger than LOCK_TIMEOUT; so a claim never meets a
\* job, a job never meets another, and nobody but the job changes its row.

\* What LeaseInv says with any number of processes: OneAlive is left out.
HandInv == TypeOK /\ Ages /\ InHand /\ ClaimHeld /\ LeaseHeld /\ NoConcurrentRun

\* Nobody claims while a job runs whose worker has given the leases back.
Orderly ==
    \A j \in jobs : worker[j.worker].phase = "released" =>
        \A w \in Workers : worker[w].phase # "claiming"

\* What a claim has leased is a set of deliveries.
LEMMA LeasedExist ==
    HandInv => \A w \in Workers : worker[w].leased \subseteq Deliveries
  BY DEF HandInv, TypeOK, Worker

\* A row in the hands of a job cannot be claimed.
LEMMA HeldNotLeasable ==
    ASSUME HandInv, MaxRun < LockTimeout, NEW j \in jobs, Present(j.delivery),
           worker[j.worker].phase # "released", NEW age \in Nat
    PROVE  ~Leasable(j.delivery, age)
  <1>1. j.age \in Nat /\ j.age <= MaxRun /\ j.worker \in Workers
    BY DEF HandInv, TypeOK, Ages, Job
  <1>2. row[j.delivery].lockedBy = j.worker /\ row[j.delivery].lockAge = j.age
    BY DEF HandInv, LeaseHeld
  <1>3. QED
    BY <1>1, <1>2, QueueAssumption DEF Leasable

\* Nor can a row that a claim has leased.
LEMMA LeasedNotLeasable ==
    ASSUME HandInv, MaxRun < LockTimeout, NEW w \in Workers, NEW d \in worker[w].leased,
           Present(d), NEW age \in Nat
    PROVE  ~Leasable(d, age)
  <1>1. worker[w].age \in Nat /\ worker[w].age <= MaxRun
    BY DEF HandInv, TypeOK, Worker, Ages, InHand
  <1>2. row[d].lockedBy = w /\ row[d].lockAge = worker[w].age
    BY DEF HandInv, ClaimHeld
  <1>3. QED
    BY <1>1, <1>2, QueueAssumption DEF Leasable

\* Nobody runs the delivery or is about to.
Free(d) ==
    /\ \A j \in jobs : j.delivery # d
    /\ \A w \in Workers : d \notin worker[w].leased

\* What the conditional UPDATE of a claim takes is free.
ClaimsFree ==
    \A w \in Workers : worker[w].phase = "claiming" /\ worker[w].leased = {} =>
        \A d \in worker[w].todo : Present(d) /\ Leasable(d, worker[w].age) => Free(d)

\* It is when no run outlives LOCK_TIMEOUT.
LEMMA TimelyClaims ==
    ASSUME HandInv, Orderly, MaxRun < LockTimeout
    PROVE  ClaimsFree
  <1> SUFFICES ASSUME NEW w \in Workers, worker[w].phase = "claiming",
                      NEW d \in worker[w].todo, Present(d), Leasable(d, worker[w].age)
               PROVE  Free(d)
    BY DEF ClaimsFree
  <1>1. worker[w].age \in Nat
    BY DEF HandInv, TypeOK, Worker
  <1>2. \A j \in jobs : worker[j.worker].phase # "released"
    BY DEF Orderly
  <1>3. QED
    BY <1>1, <1>2, HeldNotLeasable, LeasedNotLeasable DEF Free

\* A job that moves on keeps its delivery, its worker and its age, and with
\* them its lease.
LEMMA AdvanceKeeps ==
    ASSUME HandInv, TypeOK', NEW j \in jobs, NEW next \in Job, Advance(j, next),
           next.worker = j.worker, next.delivery = j.delivery, next.age = j.age,
           next.inBatch = j.inBatch, UNCHANGED <<row, worker>>
    PROVE  HandInv'
  <1> DEFINE Same(k, l) == /\ k.worker = l.worker /\ k.delivery = l.delivery
                           /\ k.age = l.age /\ k.inBatch = l.inBatch
  <1>1. \A k \in jobs' : \E l \in jobs : Same(k, l)
    BY DEF Advance
  <1>2. \A d \in Deliveries : Present(d)' <=> Present(d)
    BY DEF Present
  <1>3. \A v \in Workers : Alive(v)' <=> Alive(v)
    BY DEF Alive
  <1>4. \A k \in jobs : k.worker \in Workers /\ k.delivery \in Deliveries
    BY DEF HandInv, TypeOK, Job
  <1>5. Ages' /\ InHand'
    BY <1>1, <1>3, <1>4 DEF HandInv, Ages, InHand
  <1>6. ClaimHeld'
    BY <1>1, <1>2, LeasedExist DEF HandInv, ClaimHeld
  <1>7. LeaseHeld'
    BY <1>1, <1>2, <1>4 DEF HandInv, LeaseHeld
  <1>8. NoConcurrentRun'
    BY DEF HandInv, NoConcurrentRun, Advance
  <1>9. QED
    BY <1>5, <1>6, <1>7, <1>8 DEF HandInv

\* A job that throws leaves the others where they are, awaited or not.
LEMMA ThrowKeeps ==
    ASSUME HandInv, TypeOK', NEW j \in jobs, Throw(j), UNCHANGED row
    PROVE  HandInv'
  <1> DEFINE v == j.worker
  <1>1. v \in Workers /\ Alive(v)
    BY DEF HandInv, TypeOK, Job, InHand
  <1> DEFINE f(l) == IF j.inBatch /\ l.worker = v THEN [l EXCEPT !.inBatch = FALSE] ELSE l
  <1>2. jobs' = {f(l) : l \in jobs \ {j}}
    <2>1. CASE j.inBatch
      BY <2>1 DEF Throw
    <2>2. CASE ~j.inBatch
      BY <2>2 DEF Throw
    <2>3. QED
      BY <2>1, <2>2
  <1>3. \A l \in jobs :
           /\ f(l).worker = l.worker /\ f(l).delivery = l.delivery /\ f(l).age = l.age
           /\ f(l).inBatch => l.inBatch /\ ~(j.inBatch /\ l.worker = v)
    BY DEF HandInv, TypeOK, Job
  <1> HIDE DEF f
  <1>4. \A k \in jobs' : \E l \in jobs \ {j} :
           /\ k.worker = l.worker /\ k.delivery = l.delivery /\ k.age = l.age
           /\ k.inBatch => l.inBatch /\ ~(j.inBatch /\ l.worker = v)
           /\ k = f(l)
    BY <1>2, <1>3
  <1>5. \A k \in jobs : k.worker \in Workers /\ k.delivery \in Deliveries
    BY DEF HandInv, TypeOK, Job
  <1>6. worker' = worker
        \/ /\ worker' = [worker EXCEPT ![v] = TickDone(v)]
           /\ j.inBatch
           /\ worker[v].phase \in {"claiming", "batch"}
    BY DEF Throw, HandInv, InHand
  <1>7. \A u \in Workers :
           /\ Alive(u)' <=> Alive(u)
           /\ worker'[u] = worker[u]
              \/ (u = v /\ j.inBatch /\ worker'[u].leased = {} /\ worker[u].phase # "released"
                  /\ worker'[u].phase \in {"drained", "waiting"})
    <2>1. worker[v] \in Worker
      BY <1>1 DEF HandInv, TypeOK
    <2>2. TickDone(v).leased = {} /\ TickDone(v).phase \in {"drained", "waiting"}
      BY <2>1 DEF TickDone, Worker
    <2>3. worker \in [Workers -> Worker]
      BY DEF HandInv, TypeOK
    <2>4. QED
      BY <1>1, <1>6, <2>2, <2>3 DEF Alive
  <1>8. \A d \in Deliveries : Present(d)' <=> Present(d)
    BY DEF Present
  <1>9. Ages'
    BY <1>4, <1>7 DEF HandInv, Ages
  <1>10. InHand'
    BY <1>4, <1>5, <1>7 DEF HandInv, InHand
  <1>11. ClaimHeld'
    BY <1>4, <1>7, <1>8, LeasedExist DEF HandInv, ClaimHeld
  <1>12. LeaseHeld'
    BY <1>4, <1>5, <1>7, <1>8 DEF HandInv, LeaseHeld
  <1>13. NoConcurrentRun'
    BY <1>4 DEF HandInv, NoConcurrentRun
  <1>14. QED
    BY <1>9, <1>10, <1>11, <1>12, <1>13 DEF HandInv

LEMMA HandInit == Init => HandInv
  <1> SUFFICES ASSUME Init PROVE HandInv
    OBVIOUS
  <1>1. \A w \in Workers : ~Alive(w) /\ worker[w].leased = {} /\ worker[w].phase = "off"
    BY DEF Init, Alive, NewWorker
  <1>2. jobs = {}
    BY DEF Init
  <1>3. QED
    BY <1>1, <1>2, InitType
       DEF HandInv, Ages, InHand, ClaimHeld, LeaseHeld, NoConcurrentRun

\* The invariant speaks of rows only through what it says of the rows in hand:
\* it survives every change to the others that leaves none of these absent.
LEMMA OtherRows ==
    ASSUME HandInv, TypeOK', UNCHANGED <<worker, jobs>>,
           \A d \in Deliveries :
              row[d].status # "absent" =>
                 \/ row'[d] = row[d]
                 \/ row'[d].status # "absent" /\ ~Present(d)'
    PROVE  HandInv'
  <1>1. \A j \in jobs : j.worker \in Workers /\ j.delivery \in Deliveries
    BY DEF HandInv, TypeOK, Job
  <1>2. \A v \in Workers : Alive(v)' <=> Alive(v)
    BY DEF Alive
  <1>3. \A d \in Deliveries : Present(d)' /\ row[d].status # "absent" =>
           row'[d] = row[d] /\ Present(d)
    BY DEF Present
  <1>4. \A d \in Deliveries : row[d].status # "absent" => row'[d].status # "absent"
    OBVIOUS
  <1>5. Ages' /\ InHand'
    BY <1>1, <1>2, <1>4 DEF HandInv, Ages, InHand
  <1>6. ClaimHeld'
    BY <1>3, <1>4, LeasedExist DEF HandInv, ClaimHeld
  <1>7. LeaseHeld'
    BY <1>1, <1>3 DEF HandInv, LeaseHeld, InHand
  <1>8. NoConcurrentRun'
    BY DEF HandInv, NoConcurrentRun
  <1>9. QED
    BY <1>5, <1>6, <1>7, <1>8 DEF HandInv

\* A worker that changes phase with nothing under claim keeps the invariant, as
\* long as its awaited jobs stay awaited and it is alive if it has jobs.
LEMMA PhaseKeeps ==
    ASSUME HandInv, TypeOK', NEW w \in Workers, NEW new \in Worker,
           worker' = [worker EXCEPT ![w] = new], UNCHANGED row, jobs' \subseteq jobs,
           new.leased = {}, new.phase \notin {"off", "dead"}, worker[w].phase # "released",
           new.phase = "claiming" => new.age <= MaxRun,
           \A j \in jobs' : j.worker = w /\ j.inBatch => new.phase \in {"claiming", "batch"}
    PROVE  HandInv'
  <1>1. worker \in [Workers -> Worker]
    BY DEF HandInv, TypeOK
  <1>2. \A j \in jobs : j.worker \in Workers /\ j.delivery \in Deliveries
    BY DEF HandInv, TypeOK, Job
  <1>3. /\ worker'[w] = new /\ Alive(w)'
        /\ \A v \in Workers \ {w} : worker'[v] = worker[v] /\ (Alive(v)' <=> Alive(v))
    BY <1>1 DEF Alive
  <1>4. \A d \in Deliveries : Present(d)' <=> Present(d)
    BY DEF Present
  <1>5. Ages'
    BY <1>3 DEF HandInv, Ages, Alive
  <1>6. InHand'
    BY <1>2, <1>3 DEF HandInv, InHand
  <1>7. ClaimHeld'
    BY <1>3, <1>4, LeasedExist DEF HandInv, ClaimHeld
  <1>8. LeaseHeld'
    BY <1>2, <1>3, <1>4 DEF HandInv, LeaseHeld
  <1>9. NoConcurrentRun'
    BY DEF HandInv, NoConcurrentRun
  <1>10. QED
    BY <1>5, <1>6, <1>7, <1>8, <1>9 DEF HandInv

\* The claim of a tick: only rows no job runs are leased, and a leased row
\* becomes at most one job.
LEMMA ClaimKeeps ==
    ASSUME HandInv, Orderly, TypeOK', ClaimsFree, NEW w \in Workers,
           NEW d \in Deliveries, ClaimUpdate(w, d) \/ ClaimReread(w, d)
    PROVE  HandInv'
  <1>1. /\ worker \in [Workers -> Worker] /\ row \in [Deliveries -> Row]
        /\ worker[w] \in Worker /\ jobs \subseteq Job
    BY DEF HandInv, TypeOK
  <1>2. worker[w].phase = "claiming" /\ Alive(w)
    BY DEF ClaimUpdate, ClaimReread, Alive
  <1>3. \A v \in Workers \ {w} : worker[v].leased # {} => worker[v].phase = "claiming"
    BY DEF HandInv, InHand
  <1>4. \A j \in jobs : /\ j.worker \in Workers /\ j.delivery \in Deliveries
                        /\ worker[j.worker].phase # "released"
    BY <1>1, <1>2 DEF Job, Orderly
  <1>5. CASE ClaimUpdate(w, d)
    <2> DEFINE affected == Present(d) /\ Leasable(d, worker[w].age)
    <2>1. affected => /\ \A j \in jobs : j.delivery # d
                      /\ \A v \in Workers : d \notin worker[v].leased
      BY <1>5 DEF ClaimUpdate, ClaimsFree, Free
    <2>2. /\ worker'[w].phase = "claiming" /\ worker'[w].age = worker[w].age
          /\ worker'[w].leased = IF affected THEN {d} ELSE {}
          /\ \A v \in Workers \ {w} : worker'[v] = worker[v]
      BY <1>1, <1>2, <1>5 DEF ClaimUpdate, Worker
    <2>3. /\ \A e \in Deliveries : ~(affected /\ e = d) => row'[e] = row[e]
          /\ affected => row'[d] = Claimed(w, d)
      BY <1>1, <1>5 DEF ClaimUpdate
    <2>4. Claimed(w, d).status = "processing" /\ Claimed(w, d).lockedBy = w
          /\ Claimed(w, d).lockAge = worker[w].age
      BY <1>1 DEF Claimed, Row
    <2>5. jobs' = jobs
      BY <1>5 DEF ClaimUpdate
    <2>6. \A v \in Workers : Alive(v)' <=> Alive(v)
      BY <1>2, <2>2 DEF Alive
    <2> HIDE DEF affected
    <2>7. \A j \in jobs : row'[j.delivery] = row[j.delivery] /\ (Present(j.delivery)' <=> Present(j.delivery))
      BY <1>4, <2>1, <2>3 DEF Present
    <2>8. Ages'
      BY <1>2, <2>2, <2>5 DEF HandInv, Ages
    <2>9. InHand'
      <3>1. \A j \in jobs : Alive(j.worker)' /\ row'[j.delivery].status # "absent"
                            /\ (j.inBatch => worker'[j.worker].phase \in {"claiming", "batch"})
        BY <1>2, <1>4, <2>2, <2>6, <2>7 DEF HandInv, InHand
      <3>2. QED
        BY <1>3, <2>2, <2>5, <2>6, <3>1 DEF HandInv, InHand
    <2>10. ClaimHeld'
      <3>1. \A e \in worker'[w].leased : e = d /\ affected
        BY <2>2
      <3>2. affected => /\ \A j \in jobs' : j.delivery # d
                        /\ row'[d].status = "processing" /\ row'[d].lockedBy = w
                        /\ row'[d].lockAge = worker'[w].age
        BY <2>1, <2>2, <2>3, <2>4, <2>5
      <3>3. ASSUME NEW v \in Workers \ {w}, NEW e \in worker'[v].leased
            PROVE  /\ \A j \in jobs' : j.delivery # e
                   /\ row'[e].status # "absent"
                   /\ Present(e)' => /\ row'[e].status = "processing" /\ row'[e].lockedBy = v
                                     /\ row'[e].lockAge = worker'[v].age
        <4>1. e \in worker[v].leased /\ e \in Deliveries /\ worker'[v] = worker[v]
          BY <2>2, LeasedExist
        <4>2. row'[e] = row[e] /\ (Present(e)' <=> Present(e))
          BY <2>1, <2>3, <4>1 DEF Present
        <4>3. QED
          BY <2>5, <4>1, <4>2 DEF HandInv, ClaimHeld
      <3>4. QED
        BY <2>2, <3>1, <3>2, <3>3 DEF ClaimHeld
    <2>11. LeaseHeld'
      BY <1>2, <1>4, <2>2, <2>5, <2>7 DEF HandInv, LeaseHeld
    <2>12. NoConcurrentRun'
      BY <2>5 DEF HandInv, NoConcurrentRun
    <2>13. QED
      BY <2>8, <2>9, <2>10, <2>11, <2>12 DEF HandInv
  <1>6. CASE ClaimReread(w, d)
    <2> DEFINE new == [worker |-> w, delivery |-> d, attempt |-> row[d].attemptCount + 1,
                       age |-> worker[w].age, phase |-> "leased",
                       response |-> NoResponse, wait |-> 0, inBatch |-> TRUE]
    <2>1. jobs' = jobs \/ (Present(d) /\ jobs' = jobs \cup {new})
      BY <1>6 DEF ClaimReread
    <2>2. new.worker = w /\ new.delivery = d /\ new.age = worker[w].age
      OBVIOUS
    <2> HIDE DEF new
    <2>3. /\ worker'[w].phase = "claiming" /\ worker'[w].age = worker[w].age
          /\ worker'[w].leased = {}
          /\ \A v \in Workers \ {w} : worker'[v] = worker[v]
          /\ row' = row
      BY <1>1, <1>2, <1>6 DEF ClaimReread, Worker
    <2>4. /\ \A j \in jobs : j.delivery # d
          /\ row[d].status # "absent"
          /\ Present(d) => /\ row[d].status = "processing" /\ row[d].lockedBy = w
                           /\ row[d].lockAge = worker[w].age
      BY <1>6 DEF ClaimReread, HandInv, ClaimHeld
    <2>5. \A v \in Workers : Alive(v)' <=> Alive(v)
      BY <1>2, <2>3 DEF Alive
    <2>6. \A e \in Deliveries : Present(e)' <=> Present(e)
      BY <2>3 DEF Present
    <2>7. Ages'
      BY <1>2, <1>3, <2>1, <2>2, <2>3 DEF HandInv, Ages
    <2>8. InHand'
      BY <1>2, <1>3, <1>4, <2>1, <2>2, <2>3, <2>4, <2>5 DEF HandInv, InHand
    <2>9. ClaimHeld'
      <3>1. ASSUME NEW v \in Workers, NEW e \in worker'[v].leased PROVE v # w /\ e \in worker[v].leased
        BY <2>3, <3>1
      <3>2. ASSUME NEW v \in Workers, NEW e \in worker'[v].leased, Present(d), e = d PROVE FALSE
        BY <2>4, <3>1, <3>2 DEF HandInv, ClaimHeld
      <3>3. QED
        BY <2>1, <2>2, <2>3, <2>6, <3>1, <3>2, LeasedExist DEF HandInv, ClaimHeld
    <2>10. LeaseHeld'
      BY <1>2, <1>4, <2>1, <2>2, <2>3, <2>4, <2>6 DEF HandInv, LeaseHeld
    <2>11. NoConcurrentRun'
      BY <2>1, <2>2, <2>4 DEF HandInv, NoConcurrentRun
    <2>12. QED
      BY <2>7, <2>8, <2>9, <2>10, <2>11 DEF HandInv
  <1>7. QED
    BY <1>5, <1>6

\* Time ages a lock and the job under it together.
LEMMA TimeKeeps ==
    ASSUME HandInv, TypeOK', TimePasses
    PROVE  HandInv'
  <1>1. /\ worker \in [Workers -> Worker] /\ row \in [Deliveries -> Row]
        /\ jobs \subseteq Job
    BY DEF HandInv, TypeOK
  <1> DEFINE aged(j) == [j EXCEPT !.age = @ + 1, !.wait = Less(@)]
  <1>2. jobs' = {aged(j) : j \in jobs}
    BY DEF TimePasses
  <1>3. \A j \in jobs : /\ aged(j).worker = j.worker /\ aged(j).delivery = j.delivery
                        /\ aged(j).age = j.age + 1 /\ aged(j).inBatch = j.inBatch
    BY <1>1 DEF Job
  <1> HIDE DEF aged
  <1>4. \A j \in jobs : /\ j.age \in Nat /\ j.age < MaxRun /\ j.worker \in Workers
                        /\ j.delivery \in Deliveries
    BY <1>1 DEF TimePasses, MayRunOn, Job
  <1>5. \A w \in Workers :
           /\ worker'[w].phase = IF worker[w].phase = "waiting" THEN "due" ELSE worker[w].phase
           /\ worker'[w].age = IF worker[w].phase = "claiming" THEN worker[w].age + 1 ELSE 0
           /\ worker'[w].leased = worker[w].leased
    BY <1>1 DEF TimePasses, Worker
  <1>6. \A d \in Deliveries :
           /\ row'[d].status = row[d].status /\ row'[d].lockedBy = row[d].lockedBy
           /\ row'[d].lockAge = IF row[d].lockedBy = Nobody THEN 0 ELSE Older(row[d].lockAge)
    BY <1>1 DEF TimePasses, Row
  <1>7. \A age \in Nat : age < MaxRun => Older(age) = age + 1
    BY QueueAssumption DEF Older
  <1>8. \A w \in Workers : worker[w].phase = "claiming" =>
           worker[w].age \in Nat /\ worker[w].age < MaxRun
    BY <1>1 DEF TimePasses, MayRunOn, Worker
  <1>9. \A w \in Workers : Alive(w)' <=> Alive(w)
    BY <1>5 DEF Alive
  <1>10. \A d \in Deliveries : Present(d)' <=> Present(d)
    BY <1>6 DEF Present
  <1>11. \A d \in Deliveries : \A w \in Workers :
            row[d].lockedBy = w /\ row[d].lockAge \in Nat /\ row[d].lockAge < MaxRun =>
               row'[d].lockAge = row[d].lockAge + 1
    BY <1>6, <1>7, QueueAssumption
  <1>12. Ages'
    BY <1>2, <1>3, <1>4, <1>5, <1>8, QueueAssumption DEF Ages
  <1>13. InHand'
    BY <1>2, <1>3, <1>4, <1>5, <1>6, <1>9 DEF HandInv, InHand
  <1>14. ClaimHeld'
    <2>1. ASSUME NEW w \in Workers, NEW d \in worker[w].leased
          PROVE  /\ \A j \in jobs' : j.delivery # d
                 /\ row'[d].status # "absent"
                 /\ Present(d)' => /\ row'[d].status = "processing" /\ row'[d].lockedBy = w
                                   /\ row'[d].lockAge = worker'[w].age
      <3>1. d \in Deliveries /\ worker[w].phase = "claiming"
        BY LeasedExist DEF HandInv, InHand
      <3>2. \A j \in jobs' : j.delivery # d
        BY <1>2, <1>3 DEF HandInv, ClaimHeld
      <3>3. row'[d].status # "absent"
        BY <1>6, <3>1 DEF HandInv, ClaimHeld
      <3>4. ASSUME Present(d)
            PROVE  /\ row'[d].status = "processing" /\ row'[d].lockedBy = w
                   /\ row'[d].lockAge = worker'[w].age
        <4>1. row[d].status = "processing" /\ row[d].lockedBy = w
              /\ row[d].lockAge = worker[w].age
          BY <3>4 DEF HandInv, ClaimHeld
        <4>2. QED
          BY <1>5, <1>6, <1>8, <1>11, <3>1, <4>1
      <3>5. QED
        BY <1>10, <3>1, <3>2, <3>3, <3>4
    <2>2. QED
      BY <1>5, <2>1 DEF ClaimHeld
  <1>15. LeaseHeld'
    <2>1. ASSUME NEW j \in jobs, worker[j.worker].phase # "released", Present(j.delivery)
          PROVE  /\ row'[j.delivery].status = "processing"
                 /\ row'[j.delivery].lockedBy = j.worker
                 /\ row'[j.delivery].lockAge = j.age + 1
      <3>1. /\ row[j.delivery].status = "processing" /\ row[j.delivery].lockedBy = j.worker
            /\ row[j.delivery].lockAge = j.age
        BY <2>1 DEF HandInv, LeaseHeld
      <3>2. QED
        BY <1>4, <1>6, <1>11, <3>1
    <2>2. QED
      BY <1>2, <1>3, <1>4, <1>5, <1>10, <2>1 DEF LeaseHeld
  <1>16. NoConcurrentRun'
    BY <1>2, <1>3 DEF HandInv, NoConcurrentRun
  <1>17. QED
    BY <1>12, <1>13, <1>14, <1>15, <1>16 DEF HandInv

\* A process that dies leaves nothing in hand.
LEMMA DiesKeeps ==
    ASSUME HandInv, TypeOK', NEW w \in Workers, Dies(w)
    PROVE  HandInv'
  <1>1. \A j \in jobs : j.worker \in Workers /\ j.delivery \in Deliveries
    BY DEF HandInv, TypeOK, Job
  <1>2. /\ \A j \in jobs' : j \in jobs /\ j.worker # w
        /\ UNCHANGED row
    BY DEF Dies, JobsOf
  <1>3. /\ worker'[w].phase = "dead" /\ worker'[w].leased = {}
        /\ \A v \in Workers \ {w} : worker'[v] = worker[v]
    BY DEF Dies, NewWorker, HandInv, TypeOK
  <1>4. \A v \in Workers \ {w} : Alive(v)' <=> Alive(v)
    BY <1>3 DEF Alive
  <1>5. \A d \in Deliveries : Present(d)' <=> Present(d)
    BY <1>2 DEF Present
  <1>6. Ages' /\ InHand'
    BY <1>1, <1>2, <1>3, <1>4 DEF HandInv, Ages, InHand
  <1>7. ClaimHeld' /\ LeaseHeld' /\ NoConcurrentRun'
    BY <1>1, <1>2, <1>3, <1>5, LeasedExist DEF HandInv, ClaimHeld, LeaseHeld, NoConcurrentRun
  <1>8. QED
    BY <1>6, <1>7 DEF HandInv

LEMMA HandNext ==
    ASSUME HandInv, Orderly, ClaimsFree, [Next]_vars
    PROVE  HandInv'
  <1>1. TypeOK' /\ worker \in [Workers -> Worker] /\ row \in [Deliveries -> Row]
        /\ jobs \subseteq Job
    BY NextType DEF HandInv, TypeOK
  <1>2. ASSUME NEW D \in SUBSET Deliveries, Enqueue(D) PROVE HandInv'
    <2>1. \A d \in Deliveries : row[d].status # "absent" => row'[d] = row[d]
      BY <1>2 DEF Enqueue
    <2>2. QED
      BY <1>1, <1>2, <2>1, OtherRows DEF Enqueue
  <1>3. ASSUME NEW d \in Deliveries, Purge(d) \/ Cascade(d) PROVE HandInv'
    <2>1. Delete(d)
      BY <1>3 DEF Purge, Cascade
    <2>2. Deleted.status = "deleted" /\ "deleted" \notin Open \cup Completed
      BY DEF Deleted, NoRow, Open, Completed
    <2>3. row'[d] = Deleted /\ \A e \in Deliveries \ {d} : row'[e] = row[e]
      BY <1>1, <2>1 DEF Delete
    <2>4. QED
      BY <1>1, <2>1, <2>2, <2>3, OtherRows DEF Delete, Present
  <1>4. ASSUME NEW w \in Workers, WorkerStep(w) PROVE HandInv'
    <2>1. \A j \in jobs : j.worker \in Workers /\ Alive(j.worker)
      BY <1>1 DEF HandInv, InHand, Job
    <2>2. TickDone(w) \in Worker /\ TickDone(w).leased = {}
          /\ TickDone(w).phase \in {"drained", "waiting"}
      BY <1>1, TickDoneType DEF HandInv, TickDone, Worker
    <2>3. CASE Start(w)
      <3> DEFINE new == [worker[w] EXCEPT !.phase = "due"]
      <3>1. worker[w] \in Worker /\ worker[w].leased = {}
        BY <1>1, <2>3 DEF Start, HandInv, InHand
      <3>2. new \in Worker /\ new.leased = {} /\ new.phase = "due"
        BY <3>1 DEF Worker, Phase
      <3>3. worker[w].phase = "off"
        BY <2>3 DEF Start
      <3>4. \A j \in jobs : j.worker # w
        BY <2>1, <3>3 DEF Alive
      <3>5. worker' = [worker EXCEPT ![w] = new] /\ UNCHANGED <<row, jobs>>
        BY <1>1, <2>3 DEF Start
      <3> HIDE DEF new
      <3>6. QED
        BY <1>1, <2>3, <3>2, <3>3, <3>4, <3>5, PhaseKeeps DEF Start
    <2>4. CASE SelectCandidates(w)
      <3> DEFINE claiming(K) == [worker[w] EXCEPT !.phase = "claiming", !.todo = K, !.age = 0]
      <3>1. worker[w] \in Worker /\ worker[w].leased = {} /\ worker[w].phase = "due" /\ Alive(w)
        BY <1>1, <2>4 DEF SelectCandidates, HandInv, InHand, Alive
      <3>2. \A K \in SUBSET Deliveries :
               claiming(K) \in Worker /\ claiming(K).leased = {}
               /\ claiming(K).phase = "claiming" /\ claiming(K).age = 0
        BY <3>1 DEF Worker, Phase
      <3>3. \A j \in jobs : j.worker = w => ~j.inBatch
        BY <3>1 DEF HandInv, InHand
      <3>4. PICK K \in SUBSET Deliveries :
               worker' = [worker EXCEPT ![w] = IF K = {} THEN TickDone(w) ELSE claiming(K)]
        BY <2>4 DEF SelectCandidates
      <3>5. UNCHANGED <<row, jobs>>
        BY <2>4 DEF SelectCandidates
      <3> DEFINE new == IF K = {} THEN TickDone(w) ELSE claiming(K)
      <3> HIDE DEF claiming
      <3>6. new \in Worker /\ new.leased = {} /\ new.phase \in {"drained", "waiting", "claiming"}
            /\ (new.phase = "claiming" => new.age <= MaxRun)
        BY <2>2, <3>2, QueueAssumption
      <3> HIDE DEF new
      <3>7. worker' = [worker EXCEPT ![w] = new]
        BY <3>4 DEF new
      <3>8. jobs' \subseteq jobs /\ UNCHANGED row /\ worker[w].phase # "released"
        BY <3>1, <3>5
      <3>9. QED
        BY <1>1, <3>3, <3>6, <3>7, <3>8, PhaseKeeps
    <2>5. CASE StartBatch(w)
      <3> DEFINE new == IF Batch(w) = {} THEN TickDone(w) ELSE InBatch(w)
      <3>1. worker[w].phase = "claiming" /\ worker[w].leased = {} /\ Alive(w)
        BY <2>5 DEF StartBatch, Alive
      <3>2. worker' = [worker EXCEPT ![w] = new] /\ UNCHANGED <<row, jobs>>
        BY <2>5 DEF StartBatch
      <3>3. InBatch(w).phase = "batch" /\ InBatch(w).leased = {}
        BY <1>1, <3>1 DEF InBatch, Worker
      <3>4. worker'[w] = new /\ worker'[w] \in Worker
        BY <1>1, <3>2 DEF TypeOK
      <3>5. new \in Worker /\ new.leased = {} /\ new.phase \in {"drained", "waiting", "batch"}
            /\ (Batch(w) # {} => new.phase = "batch")
        BY <2>2, <3>3, <3>4
      <3>6. \A j \in jobs : j.worker = w /\ j.inBatch => Batch(w) # {}
        BY DEF Batch, JobsOf
      <3> HIDE DEF new
      <3>7. QED
        BY <1>1, <2>1, <3>1, <3>2, <3>5, <3>6, PhaseKeeps
    <2>6. CASE EndBatch(w)
      <3>1. worker[w].phase = "batch" /\ Alive(w) /\ Batch(w) = {}
            /\ worker' = [worker EXCEPT ![w] = TickDone(w)] /\ UNCHANGED <<row, jobs>>
        BY <2>6 DEF EndBatch, Alive
      <3>2. jobs' \subseteq jobs /\ \A j \in jobs' : j.worker = w => ~j.inBatch
        BY <3>1 DEF Batch, JobsOf
      <3> DEFINE new == TickDone(w)
      <3>3. new \in Worker /\ new.leased = {} /\ new.phase \in {"drained", "waiting"}
        BY <2>2
      <3>4. worker' = [worker EXCEPT ![w] = new] /\ UNCHANGED row /\ worker[w].phase # "released"
        BY <3>1
      <3> HIDE DEF new
      <3>5. QED
        BY <1>1, <3>2, <3>3, <3>4, PhaseKeeps
    <2>7. CASE Release(w)
      <3>1. worker[w].phase = "drained" /\ Alive(w) /\ worker[w].leased = {}
        BY <2>7 DEF Release, Alive, HandInv, InHand
      <3>2. \A j \in jobs : j.worker \in Workers /\ j.delivery \in Deliveries
        BY <1>1 DEF Job
      <3>3. \A d \in Deliveries :
               /\ row'[d].status # "absent" <=> row[d].status # "absent"
               /\ row[d].lockedBy # w => row'[d] = row[d]
               /\ Present(d)' <=> Present(d)
        BY <1>1, <2>7 DEF Release, Unlocked, Row, Present, Open
      <3>4. /\ worker'[w].phase = "released" /\ worker'[w].leased = {}
            /\ \A v \in Workers \ {w} : worker'[v] = worker[v]
            /\ jobs' = jobs
        BY <1>1, <2>7, <3>1 DEF Release, Worker
      <3>5. \A v \in Workers : Alive(v)' <=> Alive(v)
        BY <3>1, <3>4 DEF Alive
      <3>6. Ages' /\ NoConcurrentRun'
        BY <3>4 DEF HandInv, Ages, NoConcurrentRun
      <3>7. InHand'
        BY <3>1, <3>2, <3>3, <3>4, <3>5 DEF HandInv, InHand
      <3>8. ClaimHeld'
        BY <3>3, <3>4, LeasedExist DEF HandInv, ClaimHeld
      <3>9. LeaseHeld'
        BY <3>2, <3>3, <3>4 DEF HandInv, LeaseHeld
      <3>10. QED
        BY <1>1, <3>6, <3>7, <3>8, <3>9 DEF HandInv
    <2>8. CASE Exit(w)
      BY <1>1, <2>8, DiesKeeps DEF Exit
    <2>9. ASSUME NEW d \in Deliveries, ClaimUpdate(w, d) \/ ClaimReread(w, d) PROVE HandInv'
      BY <1>1, <2>9, ClaimKeeps
    <2>10. QED
      BY <1>4, <2>3, <2>4, <2>5, <2>6, <2>7, <2>8, <2>9 DEF WorkerStep
  <1>5. ASSUME NEW w \in Workers, Disturbance(w) PROVE HandInv'
    <2>1. CASE ClaimFails(w)
      <3>1. worker[w].phase = "claiming" /\ Alive(w) /\ jobs' = jobs \ Batch(w)
            /\ worker' = [worker EXCEPT ![w] = TickDone(w)] /\ UNCHANGED row
        BY <2>1 DEF ClaimFails, Alive
      <3> DEFINE new == TickDone(w)
      <3>2. new \in Worker /\ new.leased = {} /\ new.phase \in {"drained", "waiting"}
        BY <1>1, TickDoneType DEF HandInv, TickDone, Worker
      <3>3. jobs' \subseteq jobs /\ \A j \in jobs' : j.worker = w => ~j.inBatch
        BY <3>1 DEF Batch, JobsOf
      <3>4. worker' = [worker EXCEPT ![w] = new] /\ UNCHANGED row /\ worker[w].phase # "released"
        BY <3>1
      <3> HIDE DEF new
      <3>5. QED
        BY <1>1, <3>2, <3>3, <3>4, PhaseKeeps
    <2>2. CASE Stop(w)
      <3> DEFINE new == [worker[w] EXCEPT !.stopping = TRUE,
                                          !.phase = IF @ \in Idle THEN "drained" ELSE @]
      <3>1. worker[w] \in Worker /\ Alive(w) /\ UNCHANGED <<row, jobs>>
        BY <1>1, <2>2 DEF Stop
      <3>2. worker' = [worker EXCEPT ![w] = new]
        BY <1>1, <2>2 DEF Stop
      <3>3. new.leased = worker[w].leased /\ new.age = worker[w].age
            /\ new.phase = IF worker[w].phase \in Idle THEN "drained" ELSE worker[w].phase
        BY <3>1 DEF Worker
      <3> HIDE DEF new
      <3>4. \A v \in Workers :
               /\ worker'[v].leased = worker[v].leased
               /\ worker'[v].age = worker[v].age
               /\ \/ worker'[v].phase = worker[v].phase
                  \/ worker[v].phase \in Idle /\ worker'[v].phase = "drained"
        <4>1. worker'[w] = new /\ \A v \in Workers \ {w} : worker'[v] = worker[v]
          BY <1>1, <3>2
        <4>2. QED
          BY <3>3, <4>1
      <3>5. \A v \in Workers : Alive(v)' <=> Alive(v)
        BY <3>4 DEF Alive, Idle
      <3>6. \A d \in Deliveries : Present(d)' <=> Present(d)
        BY <3>1 DEF Present
      <3>7. \A j \in jobs : j.worker \in Workers /\ j.delivery \in Deliveries
        BY <1>1 DEF Job
      <3>8. Ages'
        BY <3>1, <3>4 DEF HandInv, Ages
      <3>9. InHand'
        BY <3>1, <3>4, <3>7, <3>5 DEF HandInv, InHand, Idle
      <3>10. ClaimHeld'
        BY <3>1, <3>4, <3>6, LeasedExist DEF HandInv, ClaimHeld, InHand, Idle
      <3>11. LeaseHeld' /\ NoConcurrentRun'
        BY <3>1, <3>4, <3>6, <3>7 DEF HandInv, LeaseHeld, NoConcurrentRun, Idle
      <3>12. QED
        BY <1>1, <3>8, <3>9, <3>10, <3>11 DEF HandInv
    <2>3. CASE Crash(w)
      BY <1>1, <2>3, DiesKeeps DEF Crash
    <2>4. CASE ReleaseFails(w)
      <3> DEFINE new == [worker[w] EXCEPT !.phase = "unreleased"]
      <3>1. worker[w].phase = "drained" /\ Alive(w) /\ worker[w].leased = {}
        BY <2>4 DEF ReleaseFails, Alive, HandInv, InHand
      <3>2. worker' = [worker EXCEPT ![w] = new] /\ UNCHANGED <<row, jobs>>
        BY <1>1, <2>4 DEF ReleaseFails
      <3>3. new \in Worker /\ new.leased = {} /\ new.phase = "unreleased"
        BY <1>1, <3>1 DEF Worker, Phase
      <3> HIDE DEF new
      <3>4. \A j \in jobs' : j.worker = w => ~j.inBatch
        BY <3>1, <3>2 DEF HandInv, InHand
      <3>5. QED
        BY <1>1, <3>1, <3>2, <3>3, <3>4, PhaseKeeps
    <2>5. QED
      BY <1>5, <2>1, <2>2, <2>3, <2>4 DEF Disturbance
  <1>6. ASSUME NEW j \in jobs, JobStep(j) \/ StatementFails(j) PROVE HandInv'
    <2>1. j \in Job
      BY <1>1
    <2>2. CASE Send(j)
      <3> DEFINE next == [j EXCEPT !.phase = "sending"]
      <3>1. next \in Job /\ next.worker = j.worker /\ next.delivery = j.delivery
            /\ next.age = j.age /\ next.inBatch = j.inBatch
        BY <2>1 DEF Job
      <3>2. Advance(j, next) /\ UNCHANGED <<row, worker>>
        BY <2>2 DEF Send
      <3> HIDE DEF next
      <3>3. QED
        BY <1>1, <3>1, <3>2, AdvanceKeeps
    <2>3. \A response \in Nat :
             LET next == Answered(j, response)
             IN  next \in Job /\ next.worker = j.worker /\ next.delivery = j.delivery
                 /\ next.age = j.age /\ next.inBatch = j.inBatch
      BY <2>1, AnsweredType DEF Answered, Job
    <2>4. CASE Refuse(j) \/ \E response \in Responses : Answer(j, response)
      <3>1. PICK response \in Nat : Advance(j, Answered(j, response))
        BY <2>4, QueueAssumption DEF Refuse, Answer, NoResponse
      <3>2. UNCHANGED <<row, worker>>
        BY <2>4 DEF Refuse, Answer
      <3>3. QED
        BY <1>1, <2>3, <3>1, <3>2, AdvanceKeeps
    <2>5. CASE SigningFails(j) \/ StatementFails(j)
      BY <1>1, <2>5, ThrowKeeps DEF SigningFails, StatementFails
    <2>6. CASE RecordInsert(j)
      <3> DEFINE next == [j EXCEPT !.phase = "logged"]
      <3>1. next \in Job /\ next.worker = j.worker /\ next.delivery = j.delivery
            /\ next.age = j.age /\ next.inBatch = j.inBatch
        BY <2>1 DEF Job
      <3>2. Throw(j) \/ (Advance(j, next) /\ UNCHANGED worker)
        BY <2>6 DEF RecordInsert
      <3>3. UNCHANGED row
        BY <2>6 DEF RecordInsert
      <3> HIDE DEF next
      <3>4. QED
        BY <1>1, <3>1, <3>2, <3>3, AdvanceKeeps, ThrowKeeps
    <2>7. CASE RecordUpdate(j)
      <3>1. jobs' = jobs \ {j} /\ UNCHANGED worker
        BY <2>7 DEF RecordUpdate
      <3>2. j.delivery \in Deliveries /\ row[j.delivery].status # "absent"
        BY <2>1 DEF Job, HandInv, InHand
      <3>3. \A d \in Deliveries \ {j.delivery} : row'[d] = row[d]
        BY <1>1, <2>7 DEF RecordUpdate
      <3>4. row'[j.delivery].status # "absent"
        <4>1. CASE Present(j.delivery)
          <5>1. row'[j.delivery] = Recorded(j)
            BY <1>1, <2>7, <3>2, <4>1 DEF RecordUpdate
          <5>2. QED
            BY <5>1 DEF Recorded
        <4>2. CASE ~Present(j.delivery)
          BY <2>7, <3>2, <4>2 DEF RecordUpdate
        <4>3. QED
          BY <4>1, <4>2
      <3>5. \A k \in jobs' : k \in jobs /\ k.delivery # j.delivery /\ k.delivery \in Deliveries
                             /\ k.worker \in Workers
        BY <1>1, <3>1 DEF HandInv, NoConcurrentRun, Job
      <3>6. \A v \in Workers : Alive(v)' <=> Alive(v)
        BY <3>1 DEF Alive
      <3>7. \A d \in Deliveries \ {j.delivery} : Present(d)' <=> Present(d)
        BY <3>3 DEF Present
      <3>8. Ages' /\ InHand'
        BY <3>1, <3>3, <3>5, <3>6 DEF HandInv, Ages, InHand
      <3>9. ClaimHeld'
        <4>1. \A w \in Workers : \A d \in worker[w].leased : d \in Deliveries \ {j.delivery}
          BY LeasedExist DEF HandInv, ClaimHeld
        <4>2. QED
          BY <3>1, <3>3, <3>5, <3>7, <4>1 DEF HandInv, ClaimHeld
      <3>10. LeaseHeld' /\ NoConcurrentRun'
        BY <3>1, <3>3, <3>5, <3>7 DEF HandInv, LeaseHeld, NoConcurrentRun
      <3>11. QED
        BY <1>1, <3>8, <3>9, <3>10 DEF HandInv
    <2>8. QED
      BY <1>6, <2>2, <2>4, <2>5, <2>6, <2>7 DEF JobStep
  <1>7. CASE TimePasses
    BY <1>1, <1>7, TimeKeeps
  <1>8. CASE UNCHANGED vars
    BY <1>1, <1>8, OtherRows DEF vars
  <1>9. QED
    BY <1>2, <1>3, <1>4, <1>5, <1>6, <1>7, <1>8 DEF Next

------------------------------------------------------------------------------
\* One process at a time

LEMMA LeaseParts == LeaseInv <=> HandInv /\ OneAlive
  BY DEF LeaseInv, HandInv

\* The only worker alive has everything that is in hand.
LEMMA OnlyOne ==
    ASSUME LeaseInv, NEW w \in Workers, Alive(w)
    PROVE  /\ \A v \in Workers \ {w} : ~Alive(v) /\ worker[v].leased = {}
           /\ \A j \in jobs : j.worker = w
  <1>1. \A v \in Workers : Alive(v) => v = w
    BY DEF LeaseInv, OneAlive
  <1>2. \A v \in Workers : worker[v].leased # {} => Alive(v)
    BY DEF LeaseInv, InHand, Alive
  <1>3. \A j \in jobs : j.worker \in Workers /\ Alive(j.worker)
    BY DEF LeaseInv, InHand, TypeOK, Job
  <1>4. QED
    BY <1>1, <1>2, <1>3

LEMMA AloneOrderly == LeaseInv => Orderly
  <1> SUFFICES ASSUME LeaseInv, NEW j \in jobs, NEW w \in Workers,
                      worker[w].phase = "claiming"
               PROVE  worker[j.worker].phase # "released"
    BY DEF Orderly
  <1>1. j.worker = w
    BY OnlyOne DEF Alive
  <1>2. QED
    BY <1>1

LEMMA OneAliveNext ==
    ASSUME ~SharedVolume, LeaseInv, [Next]_vars
    PROVE  OneAlive'
  <1>1. /\ OneAlive /\ worker \in [Workers -> Worker] /\ \A w \in Workers : worker[w] \in Worker
        /\ \A j \in jobs : j.worker \in Workers /\ Alive(j.worker)
    BY DEF LeaseInv, InHand, TypeOK, Job
  <1>2. ASSUME NEW w \in Workers, Alive(w) \/ worker'[w].phase = "dead",
               \A v \in Workers \ {w} : worker'[v] = worker[v]
        PROVE  OneAlive'
    <2>1. \A v \in Workers : Alive(v)' => Alive(v)
      BY <1>2 DEF Alive
    <2>2. QED
      BY <1>1, <2>1 DEF OneAlive
  <1>3. ASSUME NEW w \in Workers, WorkerStep(w) PROVE OneAlive'
    <2>1. CASE Start(w)
      <3>1. \A v \in Workers \ {w} : ~Alive(v) /\ worker'[v] = worker[v]
        BY <1>1, <2>1 DEF Start
      <3>2. QED
        BY <3>1 DEF OneAlive, Alive
    <2>2. ASSUME worker[w].phase \notin {"off", "dead"},
                 \A v \in Workers \ {w} : worker'[v] = worker[v]
          PROVE  OneAlive'
      BY <1>2, <2>2 DEF Alive
    <2>3. CASE SelectCandidates(w)
      BY <1>1, <2>2, <2>3 DEF SelectCandidates
    <2>4. CASE StartBatch(w) \/ EndBatch(w) \/ Release(w)
      BY <1>1, <2>2, <2>4 DEF StartBatch, EndBatch, Release
    <2>5. CASE Exit(w)
      BY <1>1, <2>2, <2>5 DEF Exit, Dies, Stopped
    <2>6. ASSUME NEW d \in Deliveries, ClaimUpdate(w, d) \/ ClaimReread(w, d) PROVE OneAlive'
      BY <1>1, <2>2, <2>6 DEF ClaimUpdate, ClaimReread
    <2>7. QED
      BY <1>3, <2>1, <2>3, <2>4, <2>5, <2>6 DEF WorkerStep
  <1>4. ASSUME NEW w \in Workers, Disturbance(w) PROVE OneAlive'
    <2>1. Alive(w)
      BY <1>4 DEF Disturbance, ClaimFails, ReleaseFails, Stop, Crash, Alive
    <2>2. \A v \in Workers \ {w} : worker'[v] = worker[v]
      BY <1>1, <1>4 DEF Disturbance, ClaimFails, ReleaseFails, Stop, Crash, Dies
    <2>3. QED
      BY <1>2, <2>1, <2>2
  <1>5. ASSUME UNCHANGED worker PROVE OneAlive'
    BY <1>1, <1>5 DEF OneAlive, Alive
  <1>6. ASSUME NEW j \in jobs, JobStep(j) \/ StatementFails(j) PROVE OneAlive'
    <2>1. UNCHANGED worker \/ worker' = [worker EXCEPT ![j.worker] = TickDone(j.worker)]
      BY <1>6 DEF JobStep, StatementFails, Send, Refuse, SigningFails, Answer, RecordInsert,
                  RecordUpdate, Throw
    <2>2. QED
      BY <1>1, <1>2, <1>5, <2>1
  <1>7. CASE TimePasses
    <2>1. \A v \in Workers : Alive(v)' <=> Alive(v)
      BY <1>1, <1>7 DEF TimePasses, Alive, Worker
    <2>2. QED
      BY <1>1, <2>1 DEF OneAlive
  <1>8. QED
    BY <1>3, <1>4, <1>5, <1>6, <1>7 DEF Next, vars, Enqueue, Purge, Cascade, Delete

LEMMA LeaseInit == Init => LeaseInv
  BY HandInit, LeaseParts DEF Init, OneAlive, Alive, NewWorker

------------------------------------------------------------------------------
\* What a step makes of a row and of a job

\* The changes of a row, each with the statement that makes it.
RowMoves(d) ==
    \/ row'[d] = row[d]
    \/ row[d].status = "absent" /\ row'[d] = NewRow
    \/ (Purge(d) \/ Cascade(d)) /\ Present(d) /\ row'[d] = Deleted /\ attempts'[d] = <<>>
    \/ \E w \in Workers : ClaimUpdate(w, d) /\ Present(d) /\ row'[d] = Claimed(w, d)
    \/ \E j \in jobs : /\ RecordUpdate(j) /\ j.delivery = d
                       /\ Present(d) /\ row'[d] = Recorded(j)
    \/ \E w \in Workers : /\ Release(w) /\ row[d].lockedBy = w /\ row[d].status = "processing"
                          /\ row'[d] = Unlocked(d)
    \/ TimePasses /\ row'[d] = [row[d] EXCEPT !.dueIn = Less(@),
                                  !.lockAge = IF row[d].lockedBy = Nobody THEN 0 ELSE Older(@)]

LEMMA RowStep ==
    ASSUME TypeOK, [Next]_vars, NEW d \in Deliveries
    PROVE  RowMoves(d)
  <1>1. row \in [Deliveries -> Row] /\ \A j \in jobs : j.delivery \in Deliveries
    BY DEF TypeOK, Job
  <1>2. ASSUME NEW D \in SUBSET Deliveries, Enqueue(D) PROVE RowMoves(d)
    BY <1>2 DEF Enqueue, RowMoves
  <1>3. ASSUME NEW e \in Deliveries, Purge(e) \/ Cascade(e) PROVE RowMoves(d)
    BY <1>1, <1>3 DEF Purge, Cascade, Delete, Present, RowMoves, TypeOK
  <1>4. ASSUME UNCHANGED row PROVE RowMoves(d)
    BY <1>4 DEF RowMoves
  <1>5. ASSUME NEW w \in Workers, WorkerStep(w) PROVE RowMoves(d)
    <2>1. CASE Release(w)
      BY <2>1 DEF Release, RowMoves
    <2>2. ASSUME NEW e \in Deliveries, ClaimUpdate(w, e) PROVE RowMoves(d)
      BY <1>1, <2>2 DEF ClaimUpdate, RowMoves
    <2>3. QED
      BY <1>4, <1>5, <2>1, <2>2
         DEF WorkerStep, Start, SelectCandidates, StartBatch, EndBatch, Exit, Dies, ClaimReread
  <1>6. ASSUME NEW w \in Workers, Disturbance(w) PROVE RowMoves(d)
    BY <1>4, <1>6 DEF Disturbance, ClaimFails, ReleaseFails, Stop, Crash, Dies
  <1>7. ASSUME NEW j \in jobs, JobStep(j) \/ StatementFails(j) PROVE RowMoves(d)
    <2>1. CASE RecordUpdate(j)
      <3>1. CASE Present(j.delivery) /\ d = j.delivery
        <4>1. row'[d] = Recorded(j)
          BY <1>1, <2>1, <3>1 DEF RecordUpdate
        <4>2. QED
          BY <2>1, <3>1, <4>1 DEF RowMoves
      <3>2. CASE ~(Present(j.delivery) /\ d = j.delivery)
        BY <1>1, <2>1, <3>2 DEF RecordUpdate, RowMoves
      <3>3. QED
        BY <3>1, <3>2
    <2>2. QED
      BY <1>4, <1>7, <2>1
         DEF JobStep, Send, Refuse, SigningFails, Answer, RecordInsert, StatementFails
  <1>8. CASE TimePasses
    BY <1>8 DEF TimePasses, RowMoves
  <1>9. CASE UNCHANGED vars
    BY <1>4, <1>9 DEF vars
  <1>10. QED
    BY <1>2, <1>3, <1>5, <1>6, <1>7, <1>8, <1>9 DEF Next

\* The job ClaimReread makes of a row.
NewJob(w, d) ==
    [worker |-> w, delivery |-> d, attempt |-> row[d].attemptCount + 1,
     age |-> worker[w].age, phase |-> "leased",
     response |-> NoResponse, wait |-> 0, inBatch |-> TRUE]

\* j is what a step may leave of the job k.
Heir(j, k) ==
    /\ j.worker = k.worker /\ j.delivery = k.delivery /\ j.attempt = k.attempt
    /\ \/ j.phase = k.phase /\ j.response = k.response /\ j.wait \in {k.wait, Less(k.wait)}
       \/ j.phase = "sending"
       \/ j.phase = "answered" /\ \E response \in Nat : j = Answered(k, response)
       \/ /\ j.phase = "logged" /\ k.phase = "answered" /\ RecordInsert(k)
          /\ Present(k.delivery) /\ j.response = k.response /\ j.wait = k.wait

LEMMA JobsFollow ==
    ASSUME TypeOK, [Next]_vars, NEW j \in jobs'
    PROVE  \/ \E k \in jobs : Heir(j, k)
           \/ \E w \in Workers, d \in Deliveries :
                 ClaimReread(w, d) /\ Present(d) /\ j = NewJob(w, d)
  <1> DEFINE Goal == \/ \E k \in jobs : Heir(j, k)
                     \/ \E w \in Workers, d \in Deliveries :
                           ClaimReread(w, d) /\ Present(d) /\ j = NewJob(w, d)
  <1>1. jobs \subseteq Job
    BY DEF TypeOK
  <1>2. j \in jobs => \E k \in jobs : Heir(j, k)
    BY DEF Heir
  <1>3. ASSUME jobs' \subseteq jobs PROVE Goal
    BY <1>2, <1>3
  <1>4. ASSUME NEW k \in jobs, Throw(k) PROVE Goal
    <2>1. CASE j \in jobs
      BY <1>2, <2>1
    <2>2. CASE j \notin jobs
      <3>1. PICK l \in jobs : j = [l EXCEPT !.inBatch = FALSE]
        BY <1>4, <2>2 DEF Throw
      <3>2. Heir(j, l)
        BY <1>1, <3>1 DEF Heir, Job
      <3>3. QED
        BY <3>2
    <2>3. QED
      BY <2>1, <2>2
  <1>5. ASSUME NEW w \in Workers, WorkerStep(w) PROVE Goal
    <2>1. ASSUME NEW d \in Deliveries, ClaimReread(w, d) PROVE Goal
      BY <1>2, <2>1 DEF ClaimReread, NewJob
    <2>2. QED
      BY <1>3, <1>5, <2>1
         DEF WorkerStep, Start, SelectCandidates, StartBatch, EndBatch, Release, Exit, Dies,
             ClaimUpdate
  <1>6. ASSUME NEW w \in Workers, Disturbance(w) PROVE Goal
    BY <1>3, <1>6 DEF Disturbance, ClaimFails, ReleaseFails, Stop, Crash, Dies
  <1>7. ASSUME NEW k \in jobs, JobStep(k) \/ StatementFails(k) PROVE Goal
    <2>1. k \in Job
      BY <1>1
    <2>2. CASE Send(k)
      <3>1. j \in jobs \/ j = [k EXCEPT !.phase = "sending"]
        BY <2>2 DEF Send, Advance
      <3>2. Heir([k EXCEPT !.phase = "sending"], k)
        BY <2>1 DEF Heir, Job
      <3>3. QED
        BY <1>2, <3>1, <3>2
    <2>3. CASE Refuse(k) \/ \E response \in Responses : Answer(k, response)
      <3>1. PICK response \in Nat : j \in jobs \/ j = Answered(k, response)
        BY <2>3, QueueAssumption DEF Refuse, Answer, Advance, NoResponse
      <3>2. /\ Answered(k, response).phase = "answered"
            /\ Answered(k, response).worker = k.worker
            /\ Answered(k, response).delivery = k.delivery
            /\ Answered(k, response).attempt = k.attempt
        BY <2>1 DEF Answered, Job
      <3>3. Heir(Answered(k, response), k)
        BY <3>2, Zenon DEF Heir
      <3>4. QED
        BY <1>2, <3>1, <3>3
    <2>4. CASE SigningFails(k) \/ StatementFails(k)
      BY <1>4, <2>4 DEF SigningFails, StatementFails
    <2>5. CASE RecordInsert(k)
      <3>1. CASE Present(k.delivery)
        <4>1. j \in jobs \/ j = [k EXCEPT !.phase = "logged"]
          BY <2>5, <3>1 DEF RecordInsert, Advance
        <4>2. Heir([k EXCEPT !.phase = "logged"], k)
          <5>1. k.phase = "answered"
            BY <2>5 DEF RecordInsert
          <5>2. [k EXCEPT !.phase = "logged"].phase = "logged"
                /\ \A field \in {"worker", "delivery", "attempt", "response", "wait"} :
                      [k EXCEPT !.phase = "logged"][field] = k[field]
            BY <2>1 DEF Job
          <5>3. QED
            BY <2>5, <3>1, <5>1, <5>2 DEF Heir
        <4>3. QED
          BY <1>2, <4>1, <4>2
      <3>2. CASE ~Present(k.delivery)
        BY <1>4, <2>5, <3>2 DEF RecordInsert
      <3>3. QED
        BY <3>1, <3>2
    <2>6. QED
      BY <1>3, <1>7, <2>2, <2>3, <2>4, <2>5 DEF JobStep, RecordUpdate
  <1>8. CASE TimePasses
    <2>1. PICK k \in jobs : j = [k EXCEPT !.age = @ + 1, !.wait = Less(@)]
      BY <1>8 DEF TimePasses
    <2>2. Heir(j, k)
      BY <1>1, <2>1 DEF Heir, Job
    <2>3. QED
      BY <2>2
  <1>9. ASSUME UNCHANGED jobs PROVE Goal
    BY <1>3, <1>9
  <1>10. QED
    BY <1>5, <1>6, <1>7, <1>8, <1>9 DEF Next, vars, Enqueue, Purge, Cascade, Delete

\* A row that only ages or changes hands, or does not change.
SameCount(d) ==
    /\ row'[d].attemptCount = row[d].attemptCount
    /\ Present(d)' <=> Present(d)
    /\ row'[d].status \in Completed => row'[d].status = row[d].status

\* What a step does to a row, as far as its history tells.
LEMMA CountStep ==
    ASSUME TypeOK, [Next]_vars, NEW d \in Deliveries
    PROVE  \/ SameCount(d)
           \/ row[d].status = "absent" /\ row'[d] = NewRow
           \/ /\ Purge(d) \/ Cascade(d)
              /\ Present(d) /\ row'[d] = Deleted /\ attempts'[d] = <<>>
           \/ \E j \in jobs : /\ RecordUpdate(j) /\ j.delivery = d
                              /\ Present(d) /\ row'[d] = Recorded(j)
  <1>1. RowMoves(d) /\ row[d] \in Row
    BY RowStep DEF TypeOK
  <1>2. row'[d] = row[d] => SameCount(d)
    BY DEF SameCount, Present
  <1>3. ASSUME NEW w \in Workers, Present(d), row'[d] = Claimed(w, d) PROVE SameCount(d)
    BY <1>1, <1>3 DEF SameCount, Claimed, Row, Present, Open, Completed
  <1>4. ASSUME NEW w \in Workers, row[d].status = "processing", row'[d] = Unlocked(d)
        PROVE  SameCount(d)
    BY <1>1, <1>4 DEF SameCount, Unlocked, Row, Present, Open, Completed
  <1>5. ASSUME row'[d] = [row[d] EXCEPT !.dueIn = Less(@),
                            !.lockAge = IF row[d].lockedBy = Nobody THEN 0 ELSE Older(@)]
        PROVE  SameCount(d)
    <2>1. row'[d].status = row[d].status /\ row'[d].attemptCount = row[d].attemptCount
      BY <1>1, <1>5 DEF Row
    <2>2. QED
      BY <2>1 DEF SameCount, Present
  <1>6. QED
    BY <1>1, <1>2, <1>3, <1>4, <1>5 DEF RowMoves

------------------------------------------------------------------------------
\* Jobs left behind.  Promise.all of a batch rejects with its first failure and
\* the tick goes on without the rest.  It leaves nothing behind if there is no
\* rest, or if nothing can fail; then a worker that reads candidates or gives its
\* leases back has no job left.

NoneLeftBehind ==
    \/ Concurrency = 1 /\ IsFiniteSet(Deliveries)
    \/ MaxFaults = 0 /\ Poisoned = {} /\ Deletable = {}

\* Every job is awaited by the tick that claimed it.
AllAwaited == \A j \in jobs : j.inBatch

\* With one slot a worker has one delivery in hand, as a candidate, a lease or a
\* job.
InHandOf(w) == worker[w].todo \cup worker[w].leased \cup {j.delivery : j \in JobsOf(w)}
OneSlot ==
    Concurrency = 1 /\ IsFiniteSet(Deliveries) =>
        \A w \in Workers :
            /\ worker[w].phase # "batch" => worker[w].inFlight = 0
            /\ \A d, e \in InHandOf(w) : d = e

\* Only a deletion takes the row of a job away.
RowsPresent == Deletable = {} => \A j \in jobs : Present(j.delivery)

AwaitedInv == AllAwaited /\ OneSlot /\ RowsPresent

LEMMA AwaitedInit == Init => AwaitedInv
  BY DEF Init, AwaitedInv, AllAwaited, OneSlot, RowsPresent, InHandOf, JobsOf, NewWorker

\* A job that is awaited has a worker that waits for it.
LEMMA AwaitedPhase ==
    ASSUME HandInv, AllAwaited, NEW j \in jobs
    PROVE  worker[j.worker].phase \in {"claiming", "batch"}
  BY DEF HandInv, InHand, AllAwaited

LEMMA AwaitedOrderly == HandInv /\ AllAwaited => Orderly
  <1> SUFFICES ASSUME HandInv, AllAwaited, NEW j \in jobs, worker[j.worker].phase = "released"
               PROVE  FALSE
    BY DEF Orderly
  <1>1. QED
    BY AwaitedPhase

LEMMA RowsPresentNext ==
    ASSUME HandInv, AllAwaited, RowsPresent, [Next]_vars
    PROVE  RowsPresent'
  <1> SUFFICES ASSUME Deletable = {}, NEW j \in jobs' PROVE Present(j.delivery)'
    BY DEF RowsPresent
  <1> DEFINE d == j.delivery
  <1>1. TypeOK /\ \A k \in jobs : k.delivery \in Deliveries
    BY DEF HandInv, TypeOK, Job
  <1>2. ASSUME NEW w \in Workers, NEW e \in Deliveries, ClaimReread(w, e), Present(e), j = NewJob(w, e)
        PROVE  Present(d)'
    BY <1>2 DEF ClaimReread, NewJob, Present
  <1>3. ASSUME NEW k \in jobs, Heir(j, k) PROVE Present(d)'
    <2>1. k.delivery = d /\ Present(d) /\ d \in Deliveries
      BY <1>1, <1>3 DEF Heir, RowsPresent
    <2>2. row[d].status = "processing"
      BY <2>1, AwaitedPhase DEF HandInv, LeaseHeld
    <2>3. ~Purge(d) /\ ~Cascade(d) /\ row[d].status # "absent"
      BY <2>2 DEF Purge, Cascade, Completed
    <2>4. \A l \in jobs : Recorded(l).status \in Open \cup Completed
      BY DEF Recorded, Open, Completed
    <2>5. QED
      BY <1>1, <2>1, <2>3, <2>4, CountStep DEF SameCount, Present
  <1>4. QED
    BY <1>1, <1>2, <1>3, JobsFollow

\* A job that throws was the only one of its batch, or does not exist.
LEMMA ThrowEnds ==
    ASSUME HandInv, AwaitedInv, NoneLeftBehind, NEW k \in jobs, Throw(k),
           SigningFails(k) \/ StatementFails(k) \/ (RecordInsert(k) /\ ~Present(k.delivery))
    PROVE  /\ jobs' = jobs \ {k}
           /\ worker' = [worker EXCEPT ![k.worker] = TickDone(k.worker)]
  <1>1. k.inBatch /\ k \in Job /\ NoConcurrentRun /\ faults \in 0..MaxFaults
    BY DEF AwaitedInv, AllAwaited, HandInv, TypeOK
  <1>2. Concurrency = 1 /\ IsFiniteSet(Deliveries)
    <2>1. ASSUME MaxFaults = 0, Poisoned = {}, Deletable = {} PROVE FALSE
      BY <1>1, <2>1 DEF SigningFails, StatementFails, AwaitedInv, RowsPresent
    <2>2. QED
      BY <2>1 DEF NoneLeftBehind
  <1>3. \A j \in jobs \ {k} : j.worker # k.worker
    <2> SUFFICES ASSUME NEW j \in jobs, j.worker = k.worker PROVE j = k
      OBVIOUS
    <2>1. k.worker \in Workers /\ {j.delivery, k.delivery} \subseteq InHandOf(k.worker)
      BY <1>1 DEF InHandOf, JobsOf, Job
    <2>2. j.delivery = k.delivery
      BY <1>2, <2>1 DEF AwaitedInv, OneSlot
    <2>3. QED
      BY <1>1, <2>2 DEF NoConcurrentRun
  <1>4. jobs' = {IF j.worker = k.worker THEN [j EXCEPT !.inBatch = FALSE] ELSE j :
                   j \in jobs \ {k}}
    BY <1>1 DEF Throw
  <1>5. QED
    BY <1>1, <1>3, <1>4 DEF Throw

LEMMA AllAwaitedNext ==
    ASSUME HandInv, AwaitedInv, NoneLeftBehind, [Next]_vars
    PROVE  AllAwaited'
  <1>1. jobs \subseteq Job /\ AllAwaited
    BY DEF HandInv, TypeOK, AwaitedInv
  <1>2. ASSUME jobs' \subseteq jobs PROVE AllAwaited'
    BY <1>1, <1>2 DEF AllAwaited
  <1>3. ASSUME NEW w \in Workers, WorkerStep(w) PROVE AllAwaited'
    <2>1. ASSUME NEW d \in Deliveries, ClaimReread(w, d) PROVE AllAwaited'
      BY <1>1, <2>1 DEF ClaimReread, AllAwaited
    <2>2. QED
      BY <1>2, <1>3, <2>1 DEF WorkerStep, Start, SelectCandidates, StartBatch, EndBatch, Release,
                              Exit, Dies, ClaimUpdate
  <1>4. ASSUME NEW w \in Workers, Disturbance(w) PROVE AllAwaited'
    BY <1>2, <1>4 DEF Disturbance, ClaimFails, ReleaseFails, Stop, Crash, Dies
  <1>5. ASSUME NEW k \in jobs, NEW j \in Job, Advance(k, j), j.inBatch = k.inBatch
        PROVE  AllAwaited'
    BY <1>1, <1>5 DEF Advance, AllAwaited
  <1>6. ASSUME NEW k \in jobs, JobStep(k) \/ StatementFails(k) PROVE AllAwaited'
    <2>1. k \in Job
      BY <1>1
    <2>2. CASE \/ SigningFails(k) \/ StatementFails(k)
               \/ RecordInsert(k) /\ ~Present(k.delivery)
      <3>1. Throw(k)
        BY <2>2 DEF SigningFails, StatementFails, RecordInsert
      <3>2. jobs' \subseteq jobs
        BY <2>2, <3>1, ThrowEnds
      <3>3. QED
        BY <1>2, <3>2
    <2>3. CASE \/ Send(k) \/ Refuse(k) \/ (\E response \in Responses : Answer(k, response))
               \/ RecordInsert(k) /\ Present(k.delivery)
      <3>1. /\ [k EXCEPT !.phase = "sending"] \in Job /\ [k EXCEPT !.phase = "logged"] \in Job
            /\ [k EXCEPT !.phase = "sending"].inBatch = k.inBatch
            /\ [k EXCEPT !.phase = "logged"].inBatch = k.inBatch
        BY <2>1 DEF Job
      <3>2. \A response \in Nat :
               Answered(k, response) \in Job /\ Answered(k, response).inBatch = k.inBatch
        BY <2>1, AnsweredType DEF Answered, Job
      <3>3. QED
        BY <1>5, <2>3, <3>1, <3>2, QueueAssumption DEF Send, Refuse, RecordInsert, Answer, NoResponse
    <2>4. CASE RecordUpdate(k)
      BY <1>2, <2>4 DEF RecordUpdate
    <2>5. QED
      BY <1>6, <2>2, <2>3, <2>4 DEF JobStep
  <1>7. CASE TimePasses
    BY <1>1, <1>7 DEF TimePasses, AllAwaited, Job
  <1>8. QED
    BY <1>2, <1>3, <1>4, <1>6, <1>7 DEF Next, vars, Enqueue, Purge, Cascade, Delete

LEMMA OneSlotNext ==
    ASSUME HandInv, AwaitedInv, NoneLeftBehind, [Next]_vars
    PROVE  OneSlot'
  <1> SUFFICES ASSUME Concurrency = 1, IsFiniteSet(Deliveries)
               PROVE  OneSlot'
    BY DEF OneSlot
  <1>1. /\ TypeOK /\ OneSlot /\ AllAwaited /\ jobs \subseteq Job
        /\ worker \in [Workers -> Worker] /\ \A w \in Workers : worker[w] \in Worker
    BY DEF HandInv, TypeOK, AwaitedInv
  \* Between two ticks nothing is in hand but what the last claim left to try.
  <1>2. ASSUME NEW w \in Workers, worker[w].phase \notin {"claiming", "batch"}
        PROVE  JobsOf(w) = {} /\ worker[w].leased = {}
    BY <1>1, <1>2, AwaitedPhase DEF JobsOf, HandInv, InHand
  \* Jobs that only go, or only change, leave the worker nothing new.
  <1>3. ASSUME NEW v \in Workers, worker'[v].todo \subseteq worker[v].todo,
               worker'[v].leased \subseteq worker[v].leased,
               \A j \in jobs' : j.worker = v =>
                  \E k \in jobs : k.worker = v /\ j.delivery = k.delivery
        PROVE  InHandOf(v)' \subseteq InHandOf(v)
    BY <1>3 DEF InHandOf, JobsOf
  <1>4. \A w \in Workers :
           /\ TickDone(w).inFlight = 0 /\ TickDone(w).todo = {} /\ TickDone(w).leased = {}
           /\ InBatch(w).phase = "batch" /\ InBatch(w).todo = worker[w].todo
           /\ InBatch(w).leased = worker[w].leased
    BY <1>1 DEF TickDone, InBatch, Worker
  \* A worker changes phase or ends its tick; jobs only go.
  <1>5. ASSUME NEW w \in Workers, jobs' \subseteq jobs,
               worker'[w].todo \subseteq worker[w].todo, worker'[w].leased \subseteq worker[w].leased,
               \/ worker'[w].inFlight = 0
               \/ worker'[w].phase = "batch"
               \/ worker'[w].inFlight = worker[w].inFlight /\ worker[w].phase # "batch",
               \A v \in Workers \ {w} : worker'[v] = worker[v]
        PROVE  OneSlot'
    <2>1. \A v \in Workers : InHandOf(v)' \subseteq InHandOf(v)
      BY <1>3, <1>5
    <2>2. \A v \in Workers : worker'[v].phase = "batch" \/ worker'[v].inFlight = 0
      BY <1>1, <1>5 DEF OneSlot
    <2>3. QED
      BY <1>1, <2>1, <2>2 DEF OneSlot
  <1>6. ASSUME UNCHANGED worker,
               \A j \in jobs' : \E k \in jobs : j.worker = k.worker /\ j.delivery = k.delivery
        PROVE  OneSlot'
    <2>1. \A v \in Workers : InHandOf(v)' \subseteq InHandOf(v)
      BY <1>3, <1>6
    <2>2. QED
      BY <1>1, <1>6, <2>1 DEF OneSlot
  <1>7. ASSUME NEW w \in Workers, WorkerStep(w) PROVE OneSlot'
    <2>1. CASE Start(w) \/ Release(w)
      <3>1. /\ worker'[w].todo = worker[w].todo /\ worker'[w].leased = worker[w].leased
            /\ worker'[w].inFlight = worker[w].inFlight /\ worker[w].phase # "batch"
            /\ \A v \in Workers \ {w} : worker'[v] = worker[v]
        BY <1>1, <2>1 DEF Start, Release, Worker
      <3>2. QED
        BY <1>5, <2>1, <3>1 DEF Start, Release
    <2>2. CASE StartBatch(w) \/ EndBatch(w)
      <3>1. worker'[w] \in {TickDone(w), InBatch(w)} /\ jobs' = jobs
            /\ \A v \in Workers \ {w} : worker'[v] = worker[v]
        BY <1>1, <2>2 DEF StartBatch, EndBatch
      <3>2. QED
        BY <1>4, <1>5, <3>1
    <2>3. CASE Exit(w)
      BY <1>1, <1>5, <2>3 DEF Exit, Dies, NewWorker
    <2>4. CASE SelectCandidates(w)
      <3>1. worker[w].phase = "due" /\ worker[w].inFlight = 0 /\ Capacity(w) = 1
        BY <1>1, <2>4 DEF SelectCandidates, OneSlot, Capacity
      <3>2. JobsOf(w) = {} /\ worker[w].leased = {} /\ jobs' = jobs
        BY <1>2, <2>4, <3>1 DEF SelectCandidates
      <3>3. PICK K \in SUBSET {d \in Deliveries : Due(d)} :
               /\ Cardinality(K) <= 1
               /\ worker' = [worker EXCEPT ![w] =
                    IF K = {} THEN TickDone(w)
                    ELSE [worker[w] EXCEPT !.phase = "claiming", !.todo = K, !.age = 0]]
        BY <2>4, <3>1 DEF SelectCandidates
      <3>4. CASE K = {}
        BY <1>1, <1>4, <1>5, <2>4, <3>3, <3>4 DEF SelectCandidates
      <3>5. CASE K # {}
        <4>1. \A d, e \in K : d = e
          <5>1. IsFiniteSet(K) /\ Cardinality(K) \in Nat
            BY <3>3, FS_Subset, FS_CardinalityType
          <5>2. Cardinality(K) = 1
            BY <3>3, <3>5, <5>1, FS_EmptySet
          <5>3. QED
            BY <5>1, <5>2, FS_Singleton
        <4>2. /\ worker'[w].todo = K /\ worker'[w].leased = {} /\ worker'[w].inFlight = 0
              /\ \A v \in Workers \ {w} : worker'[v] = worker[v]
          BY <1>1, <3>1, <3>2, <3>3, <3>5 DEF Worker
        <4>3. InHandOf(w)' = K /\ \A v \in Workers \ {w} : InHandOf(v)' = InHandOf(v)
          BY <3>2, <4>2 DEF InHandOf, JobsOf
        <4>4. QED
          BY <1>1, <4>1, <4>2, <4>3 DEF OneSlot
      <3>6. QED
        BY <3>4, <3>5
    <2>5. ASSUME NEW d \in Deliveries, ClaimUpdate(w, d) PROVE OneSlot'
      <3>1. /\ worker'[w].todo \subseteq worker[w].todo /\ worker'[w].leased \subseteq {d}
            /\ worker'[w].inFlight = worker[w].inFlight /\ worker[w].phase # "batch"
            /\ d \in worker[w].todo /\ jobs' = jobs
            /\ \A v \in Workers \ {w} : worker'[v] = worker[v]
        BY <1>1, <2>5 DEF ClaimUpdate, Worker
      <3>2. \A v \in Workers : InHandOf(v)' \subseteq InHandOf(v)
        BY <3>1 DEF InHandOf, JobsOf
      <3>3. QED
        BY <1>1, <3>1, <3>2 DEF OneSlot
    <2>6. ASSUME NEW d \in Deliveries, ClaimReread(w, d) PROVE OneSlot'
      <3>1. /\ worker'[w].todo = worker[w].todo /\ worker'[w].leased = {}
            /\ worker'[w].inFlight = worker[w].inFlight /\ worker[w].phase # "batch"
            /\ d \in worker[w].leased
            /\ \A v \in Workers \ {w} : worker'[v] = worker[v]
        BY <1>1, <2>6 DEF ClaimReread, Worker
      <3>2. \A j \in jobs' : j \in jobs \/ (j.worker = w /\ j.delivery = d)
        BY <2>6 DEF ClaimReread
      <3>3. \A v \in Workers : InHandOf(v)' \subseteq InHandOf(v)
        BY <3>1, <3>2 DEF InHandOf, JobsOf
      <3>4. QED
        BY <1>1, <3>1, <3>3 DEF OneSlot
    <2>7. QED
      BY <1>7, <2>1, <2>2, <2>3, <2>4, <2>5, <2>6 DEF WorkerStep
  <1>8. ASSUME NEW w \in Workers, Disturbance(w) PROVE OneSlot'
    <2>1. CASE ClaimFails(w)
      BY <1>1, <1>4, <1>5, <2>1 DEF ClaimFails
    <2>2. CASE Crash(w)
      BY <1>1, <1>5, <2>2 DEF Crash, Dies, NewWorker
    <2>3. CASE ReleaseFails(w)
      <3>1. /\ worker'[w].todo = worker[w].todo /\ worker'[w].leased = worker[w].leased
            /\ worker'[w].inFlight = worker[w].inFlight /\ worker[w].phase # "batch"
            /\ \A v \in Workers \ {w} : worker'[v] = worker[v]
        BY <1>1, <2>3 DEF ReleaseFails, Worker
      <3>2. QED
        BY <1>5, <2>3, <3>1 DEF ReleaseFails
    <2>4. CASE Stop(w)
      <3>1. /\ worker'[w].todo = worker[w].todo /\ worker'[w].leased = worker[w].leased
            /\ worker'[w].inFlight = worker[w].inFlight
            /\ worker[w].phase = "batch" => worker'[w].phase = "batch"
            /\ \A v \in Workers \ {w} : worker'[v] = worker[v]
        BY <1>1, <2>4 DEF Stop, Worker, Idle
      <3>2. QED
        BY <1>5, <2>4, <3>1 DEF Stop
    <2>5. QED
      BY <1>8, <2>1, <2>2, <2>3, <2>4 DEF Disturbance
  <1>9. ASSUME NEW k \in jobs, JobStep(k) \/ StatementFails(k) PROVE OneSlot'
    <2>1. k \in Job
      BY <1>1
    <2>2. CASE \/ SigningFails(k) \/ StatementFails(k)
               \/ RecordInsert(k) /\ ~Present(k.delivery)
      <3>1. Throw(k)
        BY <2>2 DEF SigningFails, StatementFails, RecordInsert
      <3>2. jobs' \subseteq jobs /\ worker' = [worker EXCEPT ![k.worker] = TickDone(k.worker)]
        BY <2>2, <3>1, ThrowEnds
      <3>3. QED
        BY <1>1, <1>4, <1>5, <2>1, <3>2 DEF Job
    <2>3. CASE ~( \/ SigningFails(k) \/ StatementFails(k)
                  \/ RecordInsert(k) /\ ~Present(k.delivery))
      <3>1. UNCHANGED worker
        BY <1>9, <2>3 DEF JobStep, Send, Refuse, Answer, RecordInsert, RecordUpdate
      <3>2. \A j \in jobs' : \E l \in jobs : j.worker = l.worker /\ j.delivery = l.delivery
        <4>1. \A w \in Workers, d \in Deliveries : ~ClaimReread(w, d)
          BY <1>1, <3>1 DEF ClaimReread, Worker
        <4>2. QED
          BY <1>1, <4>1, JobsFollow DEF Heir
      <3>3. QED
        BY <1>6, <3>1, <3>2
    <2>4. QED
      BY <2>2, <2>3
  <1>10. CASE TimePasses
    <2>1. \A w \in Workers :
             /\ worker'[w].todo = worker[w].todo /\ worker'[w].leased = worker[w].leased
             /\ worker'[w].inFlight = worker[w].inFlight
             /\ worker[w].phase = "batch" <=> worker'[w].phase = "batch"
      BY <1>1, <1>10 DEF TimePasses, Worker
    <2>2. \A j \in jobs' : \E l \in jobs : j.worker = l.worker /\ j.delivery = l.delivery
      BY <1>1, <1>10 DEF TimePasses, Job
    <2>3. \A w \in Workers : InHandOf(w)' \subseteq InHandOf(w)
      BY <1>3, <2>1, <2>2
    <2>4. QED
      BY <1>1, <2>1, <2>3 DEF OneSlot
  <1>11. ASSUME UNCHANGED <<worker, jobs>> PROVE OneSlot'
    BY <1>6, <1>11
  <1>12. QED
    BY <1>7, <1>8, <1>9, <1>10, <1>11 DEF Next, vars, Enqueue, Purge, Cascade, Delete

------------------------------------------------------------------------------
\* The lease of one process.  What a claim has still to try nobody but the claim
\* can touch; so its UPDATE, which looks at the lock alone, meets no job.  For the
\* SELECT the lock must be younger than LOCK_TIMEOUT, or no job left behind.

\* What a claim has still to try it found due, and nobody has touched it since.
CandidatesKept ==
    \A w \in Workers :
        /\ worker[w].todo # {} => worker[w].phase = "claiming"
        /\ \A d \in worker[w].todo :
              /\ d \notin worker[w].leased
              /\ \A j \in jobs : j.delivery # d
              /\ row[d].status \in {"pending", "retrying", "processing", "deleted"}
              /\ row[d].status = "retrying" => row[d].dueIn = 0

\* As long as no batch leaves a job behind, all jobs are awaited.
Awaits == NoneLeftBehind => AwaitedInv

AloneInv == LeaseInv /\ CandidatesKept /\ Awaits

LEMMA CandidatesInit == Init => CandidatesKept
  BY DEF Init, CandidatesKept, NewWorker

\* Candidates stay candidates unless their worker is done with them.
LEMMA CandidatesStay ==
    ASSUME CandidatesKept,
           \A w \in Workers :
              \/ worker'[w].todo = {}
              \/ /\ worker'[w].phase = "claiming" /\ worker'[w].todo \subseteq worker[w].todo
                 /\ worker'[w].leased \subseteq worker[w].leased,
           \A j \in jobs' : \E k \in jobs : j.delivery = k.delivery,
           \A w \in Workers : \A d \in worker[w].todo :
              \/ row'[d].status = "deleted"
              \/ row'[d].status = row[d].status /\ (row[d].dueIn = 0 => row'[d].dueIn = 0)
    PROVE  CandidatesKept'
  BY DEF CandidatesKept

LEMMA CandidatesNext ==
    ASSUME MaxRun < LockTimeout \/ NoneLeftBehind, LeaseInv, CandidatesKept, Awaits, [Next]_vars
    PROVE  CandidatesKept'
  <1>1. /\ worker \in [Workers -> Worker] /\ row \in [Deliveries -> Row] /\ jobs \subseteq Job
        /\ \A v \in Workers : worker[v].todo \subseteq Deliveries
    BY DEF LeaseInv, TypeOK, Worker
  <1>2. \A v \in Workers : worker[v].todo # {} => worker[v].phase = "claiming" /\ Alive(v)
    BY DEF CandidatesKept, Alive
  <1>3. ASSUME UNCHANGED <<worker, jobs>>,
               \A d \in Deliveries : row[d].status # "absent" =>
                  row'[d] = row[d] \/ row'[d].status = "deleted"
        PROVE  CandidatesKept'
    BY <1>1, <1>2, <1>3, CandidatesStay DEF CandidatesKept
  <1>4. ASSUME NEW w \in Workers, UNCHANGED row, jobs' \subseteq jobs,
               worker'[w].todo = {}, \A v \in Workers \ {w} : worker'[v] = worker[v]
        PROVE  CandidatesKept'
    BY <1>2, <1>4, CandidatesStay
  <1>5. ASSUME NEW k \in jobs, \/ /\ \E j \in Job : Advance(k, j) /\ j.delivery = k.delivery
                                  /\ UNCHANGED worker
                               \/ Throw(k),
               UNCHANGED row
        PROVE  CandidatesKept'
    <2>1. \A j \in jobs' : \E l \in jobs : j.delivery = l.delivery
      BY <1>1, <1>5 DEF Advance, Throw, Job
    <2>2. \A v \in Workers : worker'[v] = worker[v] \/ worker'[v].todo = {}
      <3>1. worker' = worker \/ worker' = [worker EXCEPT ![k.worker] = TickDone(k.worker)]
        BY <1>5 DEF Throw
      <3>2. \A v \in Workers : TickDone(v).todo = {}
        BY <1>1 DEF TickDone, Worker
      <3>3. QED
        BY <1>1, <3>1, <3>2
    <2>3. QED
      BY <1>2, <1>5, <2>1, <2>2, CandidatesStay
  <1>6. ASSUME NEW D \in SUBSET Deliveries, Enqueue(D) PROVE CandidatesKept'
    BY <1>3, <1>6 DEF Enqueue
  <1>7. ASSUME NEW d \in Deliveries, Purge(d) \/ Cascade(d) PROVE CandidatesKept'
    <2>1. \A e \in Deliveries : row'[e] = row[e] \/ row'[e].status = "deleted"
      BY <1>1, <1>7 DEF Purge, Cascade, Delete, Deleted, NoRow
    <2>2. QED
      BY <1>3, <1>7, <2>1 DEF Purge, Cascade, Delete
  <1>8. ASSUME NEW w \in Workers, WorkerStep(w) PROVE CandidatesKept'
    <2>0. TickDone(w).todo = {} /\ worker[w] \in Worker
      BY <1>1 DEF TickDone, Worker
    <2>1. CASE Start(w) \/ StartBatch(w) \/ EndBatch(w) \/ Exit(w)
      <3>1. ASSUME Start(w) PROVE worker'[w].todo = {}
        BY <1>1, <1>2, <2>0, <3>1 DEF Start, Worker
      <3>2. ASSUME StartBatch(w) PROVE worker'[w].todo = {}
        <4>1. worker[w].todo = {} /\ InBatch(w).todo = worker[w].todo
          BY <2>0, <3>2 DEF StartBatch, InBatch, Worker
        <4>2. worker'[w] \in {TickDone(w), InBatch(w)}
          BY <1>1, <3>2 DEF StartBatch
        <4>3. QED
          BY <2>0, <4>1, <4>2
      <3>3. ASSUME EndBatch(w) PROVE worker'[w].todo = {}
        BY <1>1, <2>0, <3>3 DEF EndBatch
      <3>4. ASSUME Exit(w) PROVE worker'[w].todo = {}
        BY <1>1, <3>4 DEF Exit, Dies, NewWorker
      <3>5. worker'[w].todo = {}
        BY <2>1, <3>1, <3>2, <3>3, <3>4
      <3>6. QED
        BY <1>1, <1>4, <2>1, <3>5 DEF Start, StartBatch, EndBatch, Exit, Dies
    <2>2. CASE Release(w)
      <3>1. \A v \in Workers : worker[v].todo = {}
        BY <1>2, <2>2, OnlyOne DEF Release, Alive
      <3>2. \A v \in Workers : worker'[v].todo = {}
        BY <1>1, <2>2, <3>1 DEF Release, Worker
      <3>3. QED
        BY <3>2 DEF CandidatesKept
    <2>3. CASE SelectCandidates(w)
      <3>1. worker[w].phase = "due" /\ Alive(w) /\ worker[w].leased = {}
        BY <2>3 DEF SelectCandidates, Alive, LeaseInv, InHand
      <3>2. PICK K \in SUBSET {d \in Deliveries : Due(d)} :
               worker' = [worker EXCEPT ![w] =
                 IF K = {} THEN TickDone(w)
                 ELSE [worker[w] EXCEPT !.phase = "claiming", !.todo = K, !.age = 0]]
        BY <2>3 DEF SelectCandidates
      <3>3. CASE K = {}
        BY <1>1, <1>4, <2>0, <2>3, <3>2, <3>3 DEF SelectCandidates
      <3>4. CASE K # {}
        <4>1. /\ worker'[w].todo = K /\ worker'[w].phase = "claiming" /\ worker'[w].leased = {}
              /\ \A v \in Workers \ {w} : worker'[v] = worker[v] /\ worker[v].todo = {}
          BY <1>1, <1>2, <3>1, <3>2, <3>4, OnlyOne DEF Worker
        <4>2. ASSUME NEW d \in K
              PROVE  /\ \A j \in jobs : j.delivery # d
                     /\ row[d].status \in {"pending", "retrying", "processing"}
                     /\ row[d].dueIn = 0
          <5>1. d \in Deliveries /\ row[d].status \in Open /\ row[d].dueIn = 0 /\ Leasable(d, 0)
            BY <4>2 DEF Due
          <5>2. Present(d)
            BY <5>1 DEF Present
          <5>3. ASSUME NEW j \in jobs, j.delivery = d PROVE FALSE
            <6>1. HandInv /\ worker[j.worker].phase # "released"
              BY <3>1, OnlyOne, LeaseParts
            <6>2. CASE MaxRun < LockTimeout
              BY <5>1, <5>2, <5>3, <6>1, <6>2, HeldNotLeasable
            <6>3. CASE NoneLeftBehind
              <7>1. worker[j.worker].phase \in {"claiming", "batch"}
                BY <6>1, <6>3, AwaitedPhase DEF Awaits, AwaitedInv
              <7>2. QED
                BY <3>1, <7>1, OnlyOne
            <6>4. QED
              BY <6>2, <6>3
          <5>4. QED
            BY <5>1, <5>3 DEF Open
        <4>3. UNCHANGED <<row, jobs>>
          BY <2>3 DEF SelectCandidates
        <4>4. QED
          BY <4>1, <4>2, <4>3 DEF CandidatesKept
      <3>5. QED
        BY <3>3, <3>4
    <2>4. ASSUME NEW d \in Deliveries, ClaimUpdate(w, d) PROVE CandidatesKept'
      <3>1. /\ worker'[w].todo = worker[w].todo \ {d} /\ worker'[w].phase = "claiming"
            /\ worker'[w].leased \subseteq {d}
            /\ \A v \in Workers \ {w} : worker'[v] = worker[v]
            /\ \A e \in Deliveries \ {d} : row'[e] = row[e]
            /\ jobs' = jobs
        BY <1>1, <2>0, <2>4 DEF ClaimUpdate, Worker
      <3>2. \A v \in Workers \ {w} : worker[v].todo = {}
        BY <1>2, <2>4, OnlyOne DEF ClaimUpdate, Alive
      <3>3. QED
        BY <1>1, <3>1, <3>2 DEF CandidatesKept
    <2>5. ASSUME NEW d \in Deliveries, ClaimReread(w, d) PROVE CandidatesKept'
      <3>1. /\ worker'[w].todo = worker[w].todo /\ worker'[w].phase = "claiming"
            /\ worker'[w].leased = {} /\ d \in worker[w].leased /\ row' = row
            /\ \A v \in Workers \ {w} : worker'[v] = worker[v]
            /\ \A j \in jobs' : j \in jobs \/ j.delivery = d
        BY <1>1, <2>0, <2>5 DEF ClaimReread, Worker
      <3>2. \A v \in Workers \ {w} : worker[v].todo = {}
        BY <1>2, <2>5, OnlyOne DEF ClaimReread, Alive
      <3>3. QED
        BY <1>1, <3>1, <3>2 DEF CandidatesKept
    <2>6. QED
      BY <1>8, <2>1, <2>2, <2>3, <2>4, <2>5 DEF WorkerStep
  <1>9. ASSUME NEW w \in Workers, Disturbance(w) PROVE CandidatesKept'
    <2>0. TickDone(w).todo = {} /\ worker[w] \in Worker
      BY <1>1 DEF TickDone, Worker
    <2>1. CASE ClaimFails(w) \/ ReleaseFails(w) \/ Crash(w)
      <3>1. worker'[w].todo = {}
        BY <1>1, <1>2, <2>0, <2>1 DEF ClaimFails, ReleaseFails, Crash, Dies, NewWorker, Worker
      <3>2. QED
        BY <1>1, <1>4, <2>1, <3>1 DEF ClaimFails, ReleaseFails, Crash, Dies
    <2>2. CASE Stop(w)
      <3>1. /\ worker'[w].todo = worker[w].todo /\ worker'[w].leased = worker[w].leased
            /\ worker[w].phase = "claiming" => worker'[w].phase = "claiming"
            /\ \A v \in Workers \ {w} : worker'[v] = worker[v]
        BY <1>1, <2>0, <2>2 DEF Stop, Worker, Idle
      <3>2. QED
        BY <1>2, <2>2, <3>1, CandidatesStay DEF Stop
    <2>3. QED
      BY <1>9, <2>1, <2>2 DEF Disturbance
  <1>10. ASSUME NEW k \in jobs, JobStep(k) \/ StatementFails(k) PROVE CandidatesKept'
    <2>1. k \in Job
      BY <1>1
    <2>2. CASE Send(k) \/ Refuse(k) \/ RecordInsert(k) \/ \E response \in Responses : Answer(k, response)
      <3>1. [k EXCEPT !.phase = "sending"] \in Job /\ [k EXCEPT !.phase = "logged"] \in Job
            /\ [k EXCEPT !.phase = "sending"].delivery = k.delivery
            /\ [k EXCEPT !.phase = "logged"].delivery = k.delivery
        BY <2>1 DEF Job
      <3>2. \A response \in Nat :
               Answered(k, response) \in Job /\ Answered(k, response).delivery = k.delivery
        BY <2>1, AnsweredType DEF Answered, Job
      <3>3. QED
        BY <1>5, <2>2, <3>1, <3>2, QueueAssumption DEF Send, Refuse, RecordInsert, Answer, NoResponse
    <2>3. CASE SigningFails(k) \/ StatementFails(k)
      BY <1>5, <2>3 DEF SigningFails, StatementFails
    <2>4. CASE RecordUpdate(k)
      <3>1. \A d \in Deliveries \ {k.delivery} : row'[d] = row[d]
        BY <1>1, <2>4 DEF RecordUpdate
      <3>2. \A v \in Workers : k.delivery \notin worker[v].todo
        BY DEF CandidatesKept
      <3>3. QED
        BY <1>1, <1>2, <2>4, <3>1, <3>2, CandidatesStay DEF RecordUpdate
    <2>5. QED
      BY <1>10, <2>2, <2>3, <2>4 DEF JobStep
  <1>11. CASE TimePasses
    <2>1. \A w \in Workers : /\ worker'[w].todo = worker[w].todo
                             /\ worker'[w].leased = worker[w].leased
                             /\ worker[w].phase = "claiming" => worker'[w].phase = "claiming"
      BY <1>1, <1>11 DEF TimePasses, Worker
    <2>2. \A d \in Deliveries : row'[d].status = row[d].status
                                /\ (row[d].dueIn = 0 => row'[d].dueIn = 0)
      <3>1. \A d \in Deliveries :
               row'[d].status = row[d].status /\ row'[d].dueIn = Less(row[d].dueIn)
        BY <1>1, <1>11 DEF TimePasses, Row
      <3>2. QED
        BY <3>1 DEF Less
    <2>3. \A j \in jobs' : \E k \in jobs : j.delivery = k.delivery
      BY <1>1, <1>11 DEF TimePasses, Job
    <2>4. QED
      BY <1>1, <1>2, <2>1, <2>2, <2>3, CandidatesStay
  <1>12. CASE UNCHANGED vars
    BY <1>3, <1>12 DEF vars
  <1>13. QED
    BY <1>6, <1>7, <1>8, <1>9, <1>10, <1>11, <1>12 DEF Next

LEMMA AloneClaims ==
    ASSUME LeaseInv, CandidatesKept
    PROVE  ClaimsFree
  <1> SUFFICES ASSUME NEW w \in Workers, worker[w].phase = "claiming", worker[w].leased = {},
                      NEW d \in worker[w].todo
               PROVE  Free(d)
    BY DEF ClaimsFree
  <1>1. \A j \in jobs : j.delivery # d
    BY DEF CandidatesKept
  <1>2. \A v \in Workers : worker[v].leased = {}
    BY OnlyOne DEF Alive
  <1>3. QED
    BY <1>1, <1>2 DEF Free

LEMMA LeaseNext ==
    ASSUME ~SharedVolume, LeaseInv, CandidatesKept, [Next]_vars
    PROVE  LeaseInv'
  <1>1. HandInv' /\ OneAlive'
    BY HandNext, AloneOrderly, AloneClaims, LeaseParts, OneAliveNext
  <1>2. QED
    BY <1>1 DEF LeaseInv, HandInv

LEMMA AwaitsNext ==
    ASSUME HandInv, Awaits, [Next]_vars
    PROVE  Awaits'
  <1> SUFFICES ASSUME NoneLeftBehind PROVE AwaitedInv'
    BY DEF Awaits
  <1>1. AwaitedInv /\ AllAwaited /\ RowsPresent
    BY DEF Awaits, AwaitedInv
  <1>2. AllAwaited' /\ OneSlot' /\ RowsPresent'
    BY <1>1, AllAwaitedNext, OneSlotNext, RowsPresentNext
  <1>3. QED
    BY <1>2 DEF AwaitedInv

LEMMA AloneInit == Init => AloneInv
  BY LeaseInit, CandidatesInit, AwaitedInit DEF AloneInv, Awaits

LEMMA AloneNext ==
    ASSUME ~SharedVolume, MaxRun < LockTimeout \/ NoneLeftBehind, AloneInv, [Next]_vars
    PROVE  AloneInv'
  <1>1. LeaseInv /\ CandidatesKept /\ Awaits /\ HandInv
    BY LeaseParts DEF AloneInv
  <1>2. LeaseInv' /\ CandidatesKept' /\ Awaits'
    BY <1>1, LeaseNext, CandidatesNext, AwaitsNext
  <1>3. QED
    BY <1>2 DEF AloneInv

\* While one process at a time uses the database, the lease invariant always holds,
\* whatever crashes, stops, fails or is deleted, if no run outlives LOCK_TIMEOUT;
\* and however long the runs take when no batch leaves a job behind.
THEOREM LeaseSafe ==
    ASSUME ~SharedVolume, MaxRun < LockTimeout \/ NoneLeftBehind
    PROVE  Spec => []LeaseInv
  <1>1. Init => AloneInv
    BY AloneInit
  <1>2. AloneInv /\ [Next]_vars => AloneInv'
    BY AloneNext
  <1>3. AloneInv => LeaseInv
    BY DEF AloneInv
  <1>4. QED
    BY <1>1, <1>2, <1>3, PTL DEF Spec

------------------------------------------------------------------------------
\* Completed deliveries and backoffs.  The claim's UPDATE checks the lock and not
\* the status, recordAttempt's checks nothing: what protects a completed row is
\* that neither can be about it.

\* Nothing is left to count down on a completed row, nor locked.
Settled ==
    \A d \in Deliveries : row[d].status \in Completed =>
        row[d].dueIn = 0 /\ row[d].lockedBy = Nobody /\ row[d].lockAge = 0

\* A job that outlives stop() finds its row as releaseWorkerLeases left it.
HandedBack ==
    \A j \in jobs : worker[j.worker].phase = "released" /\ Present(j.delivery) =>
        row[j.delivery].status = "pending"

\* Only a job that is going to be retried has a delay to wait.
WaitChosen ==
    \A j \in jobs :
        /\ j.phase \in {"answered", "logged"}
        /\ Succeeded(j.response) \/ ~shouldRetry(j.attempt, j.response, MaxAttempts)
        => j.wait = 0

FinalInv == LeaseInv /\ CandidatesKept /\ Awaits /\ Settled /\ HandedBack /\ WaitChosen

\* While a job is there, so is its row, neither waiting for a retry nor completed.
LEMMA JobsRow ==
    ASSUME LeaseInv, HandedBack, NEW j \in jobs, Present(j.delivery)
    PROVE  row[j.delivery].status \in {"processing", "pending"}
  BY DEF HandedBack, LeaseInv, LeaseHeld

LEMMA SettledInit == Init => Settled /\ HandedBack /\ WaitChosen
  BY DEF Init, Settled, HandedBack, WaitChosen, NoRow, Completed

LEMMA SettledNext ==
    ASSUME FinalInv, [Next]_vars
    PROVE  Settled'
  <1> SUFFICES ASSUME NEW d \in Deliveries, row'[d].status \in Completed
               PROVE  row'[d].dueIn = 0 /\ row'[d].lockedBy = Nobody /\ row'[d].lockAge = 0
    BY DEF Settled
  <1>1. TypeOK /\ RowMoves(d) /\ row[d] \in Row
    BY RowStep DEF FinalInv, LeaseInv, TypeOK
  <1>2. CASE row'[d] = row[d]
    BY <1>2 DEF FinalInv, Settled
  <1>3. CASE row'[d] \in {NewRow, Deleted}
    BY <1>3 DEF NewRow, Deleted, NoRow, Completed
  <1>4. ASSUME NEW w \in Workers PROVE row'[d] # Claimed(w, d) /\ row'[d] # Unlocked(d)
    BY <1>1 DEF Claimed, Unlocked, Row, Completed
  <1>5. ASSUME NEW j \in jobs, RecordUpdate(j), row'[d] = Recorded(j)
        PROVE  row'[d].dueIn = 0 /\ row'[d].lockedBy = Nobody /\ row'[d].lockAge = 0
    <2>1. Succeeded(j.response) \/ ~shouldRetry(j.attempt, j.response, MaxAttempts)
      BY <1>5 DEF Recorded, Completed
    <2>2. j.wait = 0
      BY <1>5, <2>1 DEF FinalInv, WaitChosen, RecordUpdate
    <2>3. QED
      BY <1>5, <2>2 DEF Recorded
  <1>6. ASSUME row'[d] = [row[d] EXCEPT !.dueIn = Less(@),
                            !.lockAge = IF row[d].lockedBy = Nobody THEN 0 ELSE Older(@)]
        PROVE  row'[d].dueIn = 0 /\ row'[d].lockedBy = Nobody /\ row'[d].lockAge = 0
    <2>1. /\ row'[d].status = row[d].status /\ row'[d].lockedBy = row[d].lockedBy
          /\ row'[d].dueIn = Less(row[d].dueIn)
          /\ row[d].lockedBy = Nobody => row'[d].lockAge = 0
      BY <1>1, <1>6 DEF Row
    <2>2. QED
      BY <2>1 DEF FinalInv, Settled, Less
  <1>7. QED
    BY <1>1, <1>2, <1>3, <1>4, <1>5, <1>6 DEF RowMoves

LEMMA WaitNext ==
    ASSUME FinalInv, [Next]_vars
    PROVE  WaitChosen'
  <1> SUFFICES ASSUME NEW j \in jobs', j.phase \in {"answered", "logged"},
                      Succeeded(j.response) \/ ~shouldRetry(j.attempt, j.response, MaxAttempts)
               PROVE  j.wait = 0
    BY DEF WaitChosen
  <1>1. TypeOK /\ jobs \subseteq Job
    BY DEF FinalInv, LeaseInv, TypeOK
  <1>2. ASSUME NEW w \in Workers, NEW d \in Deliveries PROVE j # NewJob(w, d)
    BY DEF NewJob
  <1>3. PICK k \in jobs : Heir(j, k)
    BY <1>1, <1>2, JobsFollow
  <1>4. CASE j.phase = k.phase /\ j.response = k.response /\ j.wait \in {k.wait, Less(k.wait)}
    <2>1. k.wait = 0
      BY <1>3, <1>4 DEF Heir, FinalInv, WaitChosen
    <2>2. QED
      BY <1>4, <2>1 DEF Less
  <1>5. ASSUME NEW response \in Nat, j = Answered(k, response) PROVE j.wait = 0
    <2>1. k \in Job
      BY <1>1
    <2>2. /\ j.response = response
          /\ j.wait = IF Succeeded(response) THEN 0
                      ELSE decideRetry(k.attempt, response, MaxAttempts, RetryDelays).delay
      BY <1>5, <2>1 DEF Answered, Job
    <2>3. Succeeded(response) \/ ~shouldRetry(k.attempt, response, MaxAttempts)
      BY <1>3, <2>2 DEF Heir
    <2>4. QED
      BY <2>2, <2>3 DEF decideRetry
  <1>6. CASE k.phase = "answered" /\ j.response = k.response /\ j.wait = k.wait
    BY <1>3, <1>6 DEF Heir, FinalInv, WaitChosen
  <1>7. QED
    BY <1>3, <1>4, <1>5, <1>6 DEF Heir

LEMMA HandedBackNext ==
    ASSUME ~SharedVolume, FinalInv, [Next]_vars
    PROVE  HandedBack'
  <1> SUFFICES ASSUME NEW j \in jobs', worker'[j.worker].phase = "released", Present(j.delivery)'
               PROVE  row'[j.delivery].status = "pending"
    BY DEF HandedBack
  <1>1. /\ LeaseInv /\ LeaseInv' /\ TypeOK /\ jobs \subseteq Job
        /\ worker \in [Workers -> Worker] /\ row \in [Deliveries -> Row]
    BY LeaseNext DEF FinalInv, LeaseInv, TypeOK
  <1> DEFINE v == j.worker
             d == j.delivery
  <1>2. v \in Workers /\ d \in Deliveries /\ Alive(v)'
    BY <1>1 DEF LeaseInv, TypeOK, Job, Alive
  <1>3. ASSUME worker'[v].phase = worker[v].phase, Alive(v)
        PROVE  row'[d].status = "pending"
    <2>1. \A w \in Workers : worker[w].phase \in {"claiming", "drained"} => w # v /\ ~Alive(v)
      BY <1>1, <1>2, <1>3, OnlyOne DEF Alive
    <2>2. PICK k \in jobs : Heir(j, k)
      BY <1>1, <1>3, <2>1, JobsFollow DEF ClaimReread
    <2>3. k.worker = v /\ k.delivery = d /\ row[d].status # "absent"
      BY <2>2, <1>1 DEF Heir, LeaseInv, InHand
    <2>4. Present(d) => row[d].status = "pending"
      BY <1>3, <2>3 DEF FinalInv, HandedBack
    <2>5. Deleted.status = "deleted" /\ NewRow.status = "pending" /\ Deleted.status \notin Open \cup Completed
      BY DEF Deleted, NewRow, NoRow, Open, Completed
    <2>6. ASSUME NEW l \in jobs, RecordUpdate(l), l.delivery = d PROVE FALSE
      <3>1. l = k
        BY <1>1, <2>3, <2>6 DEF LeaseInv, NoConcurrentRun
      <3>2. j \in jobs \ {l}
        BY <2>6 DEF RecordUpdate
      <3>3. QED
        BY <1>1, <2>6, <3>2 DEF LeaseInv, NoConcurrentRun
    <2>7. RowMoves(d)
      BY <1>1, <1>2, RowStep
    <2>8. CASE row'[d] = row[d]
      BY <1>2, <2>4, <2>8 DEF Present
    <2>9. CASE TimePasses /\ row'[d] = [row[d] EXCEPT !.dueIn = Less(@),
                             !.lockAge = IF row[d].lockedBy = Nobody THEN 0 ELSE Older(@)]
      <3>1. row'[d].status = row[d].status
        BY <1>1, <1>2, <2>9 DEF Row
      <3>2. QED
        BY <2>4, <3>1 DEF Present
    <2>10. \A w \in Workers : ~ClaimUpdate(w, d) /\ ~Release(w)
      BY <1>3, <2>1 DEF ClaimUpdate, Release
    <2>11. row'[d] # Deleted
      BY <2>5 DEF Present
    <2>12. QED
      BY <2>3, <2>6, <2>7, <2>8, <2>9, <2>10, <2>11 DEF RowMoves
  <1>4. ASSUME NEW w \in Workers, Release(w) PROVE row'[d].status = "pending"
    <2>1. Alive(w) /\ worker[w].phase = "drained" /\ jobs' = jobs
      BY <1>4 DEF Release, Alive
    <2>2. v = w
      BY <1>1, <2>1, OnlyOne
    <2>3. row'[d].status = IF row[d].lockedBy = w /\ row[d].status = "processing" THEN "pending"
                           ELSE row[d].status
      BY <1>1, <1>2, <1>4 DEF Release, Unlocked, Row
    <2>4. Present(d)
      BY <1>2, <2>3 DEF Present, Open
    <2>5. row[d].lockedBy = w /\ row[d].status = "processing"
      BY <1>1, <2>1, <2>2, <2>4 DEF LeaseInv, LeaseHeld
    <2>6. QED
      BY <2>3, <2>5
  <1>5. ASSUME NEW w \in Workers, WorkerStep(w) \/ Disturbance(w), ~Release(w)
        PROVE  worker'[v].phase = worker[v].phase /\ Alive(v)
    <2>1. CASE v # w
      <3>1. worker'[v] = worker[v]
        BY <1>1, <1>2, <1>5, <2>1
           DEF WorkerStep, Disturbance, Start, SelectCandidates, StartBatch, EndBatch, Exit, Dies,
               ClaimUpdate, ClaimReread, ClaimFails, ReleaseFails, Stop, Crash
      <3>2. QED
        BY <1>2, <3>1 DEF Alive
    <2>2. CASE v = w
      <3>1. worker[w] \in Worker /\ TickDone(w).phase # "released" /\ InBatch(w).phase # "released"
            /\ [NewWorker EXCEPT !.phase = "dead"].phase # "released"
        BY <1>1 DEF TickDone, InBatch, Worker, NewWorker
      <3>2. ~(Start(w) \/ StartBatch(w) \/ EndBatch(w) \/ Exit(w) \/ Crash(w) \/ ClaimFails(w)
              \/ ReleaseFails(w))
        <4>1. [worker[w] EXCEPT !.phase = "due"].phase # "released"
              /\ [worker[w] EXCEPT !.phase = "unreleased"].phase # "released"
          BY <3>1 DEF Worker
        <4>2. ~Start(w) /\ ~ReleaseFails(w)
          BY <1>1, <2>2, <4>1 DEF Start, ReleaseFails
        <4>3. ~StartBatch(w) /\ ~EndBatch(w) /\ ~ClaimFails(w)
          BY <1>1, <2>2, <3>1 DEF StartBatch, EndBatch, ClaimFails
        <4>4. ~Exit(w) /\ ~Crash(w)
          BY <1>1, <2>2, <3>1 DEF Exit, Crash, Dies
        <4>5. QED
          BY <4>2, <4>3, <4>4
      <3>3. ~SelectCandidates(w)
        <4>1. ASSUME NEW K \in SUBSET Deliveries
              PROVE  [worker[w] EXCEPT !.phase = "claiming", !.todo = K, !.age = 0].phase # "released"
          BY <3>1 DEF Worker
        <4>2. ASSUME SelectCandidates(w) PROVE FALSE
          <5>1. PICK K \in SUBSET Deliveries :
                   worker' = [worker EXCEPT ![w] =
                     IF K = {} THEN TickDone(w)
                     ELSE [worker[w] EXCEPT !.phase = "claiming", !.todo = K, !.age = 0]]
            BY <4>2 DEF SelectCandidates
          <5>2. QED
            BY <1>1, <2>2, <3>1, <4>1, <5>1
        <4>3. QED
          BY <4>2
      <3>4. \A e \in Deliveries : ~ClaimUpdate(w, e) /\ ~ClaimReread(w, e)
        BY <1>1, <2>2, <3>1 DEF ClaimUpdate, ClaimReread, Worker
      <3>5. Stop(w)
        BY <1>5, <3>2, <3>3, <3>4 DEF WorkerStep, Disturbance
      <3>6. QED
        BY <1>1, <2>2, <3>1, <3>5 DEF Stop, Worker, Idle
    <2>3. QED
      BY <2>1, <2>2
  <1>6. ASSUME NEW k \in jobs, JobStep(k) \/ StatementFails(k)
        PROVE  worker'[v].phase = worker[v].phase /\ Alive(v)
    <2>1. worker' = worker \/ worker' = [worker EXCEPT ![k.worker] = TickDone(k.worker)]
      BY <1>6 DEF JobStep, StatementFails, Send, Refuse, SigningFails, Answer, RecordInsert,
                  RecordUpdate, Throw
    <2>2. TickDone(v).phase # "released"
      BY <1>1, <1>2 DEF TickDone, Worker
    <2>3. worker'[v] = worker[v]
      BY <1>1, <1>2, <2>1, <2>2
    <2>4. QED
      BY <1>2, <2>3 DEF Alive
  <1>7. CASE TimePasses
    <2>1. worker'[v].phase = worker[v].phase
      BY <1>1, <1>2, <1>7 DEF TimePasses, Worker
    <2>2. QED
      BY <1>3, <2>1 DEF Alive
  <1>8. ASSUME UNCHANGED worker
        PROVE  worker'[v].phase = worker[v].phase /\ Alive(v)
    BY <1>2, <1>8 DEF Alive
  <1>9. QED
    BY <1>3, <1>4, <1>5, <1>6, <1>7, <1>8
       DEF Next, vars, Enqueue, Purge, Cascade, Delete

LEMMA FinalNext ==
    ASSUME ~SharedVolume, MaxRun < LockTimeout \/ NoneLeftBehind, FinalInv, [Next]_vars
    PROVE  FinalInv'
  BY AloneNext, SettledNext, WaitNext, HandedBackNext DEF FinalInv, AloneInv

LEMMA FinalAlways ==
    ASSUME ~SharedVolume, MaxRun < LockTimeout \/ NoneLeftBehind
    PROVE  Spec => []FinalInv
  <1>1. Init => FinalInv
    BY AloneInit, SettledInit DEF FinalInv, AloneInv
  <1>2. FinalInv /\ [Next]_vars => FinalInv'
    BY FinalNext
  <1>3. QED
    BY <1>1, <1>2, PTL DEF Spec

LEMMA FinalStep ==
    ASSUME FinalInv, [Next]_vars, NEW d \in Deliveries, row[d].status \in Completed
    PROVE  row'[d] \in {row[d], Deleted}
  <1>1. TypeOK /\ RowMoves(d) /\ row[d] \in Row
    BY RowStep DEF FinalInv, LeaseInv, TypeOK
  <1>2. ASSUME NEW w \in Workers, ClaimUpdate(w, d) PROVE FALSE
    BY <1>2 DEF ClaimUpdate, FinalInv, CandidatesKept, Completed
  <1>3. ASSUME NEW j \in jobs, j.delivery = d, Present(d) PROVE FALSE
    BY <1>3, JobsRow DEF FinalInv, Completed
  <1>4. ASSUME row'[d] = [row[d] EXCEPT !.dueIn = Less(@),
                            !.lockAge = IF row[d].lockedBy = Nobody THEN 0 ELSE Older(@)]
        PROVE  row'[d] = row[d]
    <2>1. row[d].dueIn = 0 /\ row[d].lockedBy = Nobody /\ row[d].lockAge = 0 /\ Less(0) = 0
      BY DEF FinalInv, Settled, Less
    <2>2. \A r \in Row : r.dueIn = 0 /\ r.lockAge = 0 =>
             [r EXCEPT !.dueIn = 0, !.lockAge = 0] = r
      BY DEF Row
    <2>3. row'[d] = [row[d] EXCEPT !.dueIn = 0, !.lockAge = 0]
      BY <1>4, <2>1
    <2>4. QED
      BY <1>1, <2>1, <2>2, <2>3
  <1>5. row[d].status # "absent" /\ row[d].status # "processing"
    BY DEF Completed
  <1>6. QED
    <2>1. \A w \in Workers : ~ClaimUpdate(w, d)
      BY <1>2
    <2>2. \A j \in jobs : ~(j.delivery = d /\ Present(d))
      BY <1>3
    <2>3. QED
      BY <1>1, <1>4, <1>5, <2>1, <2>2, Zenon DEF RowMoves

\* A completed delivery is history.  The claim and recordAttempt write by id without
\* looking at the status; still no interleaving lets them reach a completed row.
THEOREM CompletedStays ==
    ASSUME ~SharedVolume, MaxRun < LockTimeout \/ NoneLeftBehind
    PROVE  Spec => CompletedIsFinal
  <1>1. FinalInv /\ [Next]_vars =>
           \A d \in Deliveries : row[d].status \in Completed => row'[d] \in {row[d], Deleted}
    BY FinalStep
  <1>2. QED
    BY <1>1, FinalAlways, PTL DEF Spec, CompletedIsFinal

LEMMA NotEarlyStep ==
    ASSUME FinalInv, [Next]_vars, NEW d \in Deliveries,
           row[d].status = "retrying", row[d].dueIn > 0
    PROVE  row'[d].status # "processing"
  <1>1. TypeOK /\ RowMoves(d) /\ row[d] \in Row
    BY RowStep DEF FinalInv, LeaseInv, TypeOK
  <1>2. ASSUME NEW w \in Workers, ClaimUpdate(w, d) PROVE FALSE
    BY <1>1, <1>2 DEF ClaimUpdate, FinalInv, CandidatesKept, Row
  <1>3. \A j \in jobs : Recorded(j).status # "processing"
    BY DEF Recorded
  <1>4. NewRow.status # "processing" /\ Deleted.status # "processing"
    BY DEF NewRow, Deleted, NoRow
  <1>5. [row[d] EXCEPT !.dueIn = Less(@),
           !.lockAge = IF row[d].lockedBy = Nobody THEN 0 ELSE Older(@)].status # "processing"
    BY <1>1 DEF Row
  <1>6. QED
    BY <1>1, <1>2, <1>3, <1>4, <1>5 DEF RowMoves

\* A delivery is claimed for a retry only when its backoff is over, also by a claim
\* that read its candidates some time ago.
THEOREM BackoffIsKept ==
    ASSUME ~SharedVolume, MaxRun < LockTimeout \/ NoneLeftBehind
    PROVE  Spec => RetryNotEarly
  <1>1. FinalInv /\ [Next]_vars =>
           \A d \in Deliveries :
              row[d].status = "retrying" /\ row[d].dueIn > 0 => row'[d].status # "processing"
    BY NotEarlyStep
  <1>2. QED
    BY <1>1, FinalAlways, PTL DEF Spec, RetryNotEarly

------------------------------------------------------------------------------
\* The history.  An attempt is logged in one statement and counted in another, and
\* a worker may die or fail in between: the row is then one behind its log until
\* the next attempt, which takes the same number again.

\* The log and the counter belong to the row.
NoLogElsewhere ==
    \A d \in Deliveries : ~Present(d) => attempts[d] = <<>> /\ row[d].attemptCount = 0

\* A job makes the attempt after those counted, and once logged it is the last.
JobsCounted ==
    \A j \in jobs : Present(j.delivery) =>
        LET log == attempts[j.delivery]
        IN  /\ j.attempt = row[j.delivery].attemptCount + 1
            /\ j.phase = "logged" =>
                  /\ log # <<>>
                  /\ log[Len(log)].attempt = j.attempt
                  /\ log[Len(log)].succeeded <=> Succeeded(j.response)

HistoryInv == HandInv /\ HistoryExplainsRow /\ NoLogElsewhere /\ JobsCounted

\* What an insert needs to know: the row of a job is not completed.
Unsettled == \A j \in jobs : Present(j.delivery) => row[j.delivery].status \notin Completed

\* The changes of a log: it goes with its row, or an attempt is added to it.
LogMoves(d) ==
    \/ attempts'[d] = attempts[d]
    \/ attempts'[d] = <<>> /\ row'[d] = Deleted
    \/ \E k \in jobs :
          /\ RecordInsert(k) /\ k.delivery = d /\ Present(d)
          /\ attempts'[d] = Append(attempts[d],
                               [attempt |-> k.attempt, succeeded |-> Succeeded(k.response)])

LEMMA LogStep ==
    ASSUME TypeOK, [Next]_vars, NEW d \in Deliveries
    PROVE  LogMoves(d)
  <1>1. /\ row \in [Deliveries -> Row] /\ \A j \in jobs : j.delivery \in Deliveries
        /\ attempts \in [Deliveries -> Seq([attempt: Nat, succeeded: BOOLEAN])]
    BY DEF TypeOK, Job
  <1>2. ASSUME NEW e \in Deliveries, Purge(e) \/ Cascade(e) PROVE LogMoves(d)
    BY <1>1, <1>2 DEF Purge, Cascade, Delete, LogMoves
  <1>3. ASSUME NEW k \in jobs, RecordInsert(k), Present(k.delivery) PROVE LogMoves(d)
    <2> DEFINE entry == [attempt |-> k.attempt, succeeded |-> Succeeded(k.response)]
    <2>1. attempts' = [attempts EXCEPT ![k.delivery] = Append(@, entry)] /\ row' = row
      BY <1>3 DEF RecordInsert
    <2>2. CASE d = k.delivery
      <3>1. attempts'[d] = Append(attempts[d], entry)
        BY <1>1, <2>1, <2>2
      <3>2. QED
        BY <1>3, <2>2, <3>1 DEF LogMoves
    <2>3. CASE d # k.delivery
      <3> HIDE DEF entry
      <3> QED BY <1>1, <2>1, <2>3 DEF LogMoves
    <2>4. QED
      BY <2>2, <2>3
  <1>4. ASSUME UNCHANGED attempts PROVE LogMoves(d)
    BY <1>4 DEF LogMoves
  <1>5. UNCHANGED attempts \/ (\E e \in Deliveries : Purge(e) \/ Cascade(e))
        \/ \E k \in jobs : RecordInsert(k) /\ Present(k.delivery)
    BY DEF Next, vars, Enqueue, WorkerStep, Disturbance, JobStep, Start, SelectCandidates,
           ClaimUpdate, ClaimReread, StartBatch, EndBatch, Release, Exit, Dies, ClaimFails,
           ReleaseFails, Stop, Crash, Send, Refuse, SigningFails, Answer, RecordInsert,
           RecordUpdate, StatementFails, TimePasses
  <1>6. QED
    BY <1>2, <1>3, <1>4, <1>5

\* What HistoryExplainsRow says of a log alone, of its end, and of a delivery.
Grows(log) ==
    \A i \in 1..Len(log) :
        LET before == IF i = 1 THEN 0 ELSE log[i - 1].attempt
        IN  log[i].attempt \in {before, before + 1} \ {0}
LastOf(log) == IF log = <<>> THEN 0 ELSE log[Len(log)].attempt
Explains(log, r) ==
    /\ Grows(log)
    /\ LastOf(log) \in {r.attemptCount, r.attemptCount + 1}
    /\ r.status \in Completed =>
          /\ LastOf(log) = r.attemptCount
          /\ log[Len(log)].succeeded <=> r.status = "success"

LEMMA ExplainsIsHistory == HistoryExplainsRow <=> \A d \in Deliveries : Explains(attempts[d], row[d])
  BY DEF HistoryExplainsRow, Explains, Grows, LastOf

Entry == [attempt: Nat, succeeded: BOOLEAN]

\* An entry that repeats or follows the last one leaves the log growing.
LEMMA AppendGrows ==
    ASSUME NEW log \in Seq(Entry), NEW entry \in Entry, Grows(log),
           entry.attempt \in {LastOf(log), LastOf(log) + 1} \ {0}
    PROVE  /\ Grows(Append(log, entry)) /\ LastOf(Append(log, entry)) = entry.attempt
           /\ Append(log, entry) # <<>>
           /\ Append(log, entry)[Len(Append(log, entry))] = entry
  <1> DEFINE new == Append(log, entry)
  <1>1. /\ Len(new) = Len(log) + 1 /\ new[Len(new)] = entry /\ new # <<>> /\ Len(log) \in Nat
        /\ \A i \in 1..Len(log) : new[i] = log[i]
    OBVIOUS
  <1>2. log # <<>> => Len(log) \in 1..Len(log)
    OBVIOUS
  <1>3. log = <<>> => Len(log) = 0
    OBVIOUS
  <1> HIDE DEF new
  <1>4. ASSUME NEW i \in 1..Len(new)
        PROVE  new[i].attempt \in {IF i = 1 THEN 0 ELSE new[i - 1].attempt,
                                   (IF i = 1 THEN 0 ELSE new[i - 1].attempt) + 1} \ {0}
    <2>1. CASE i \in 1..Len(log)
      <3>1. i # 1 => i - 1 \in 1..Len(log)
        BY <1>1, <2>1
      <3>2. QED
        BY <1>1, <2>1, <3>1 DEF Grows
    <2>2. CASE i = Len(log) + 1
      <3>1. LastOf(log) = IF i = 1 THEN 0 ELSE new[i - 1].attempt
        BY <1>1, <1>2, <1>3, <2>2 DEF LastOf
      <3>2. QED
        BY <1>1, <2>2, <3>1
    <2>3. QED
      BY <1>1, <2>1, <2>2
  <1>5. Grows(new)
    BY <1>4 DEF Grows
  <1>6. LastOf(new) = entry.attempt
    BY <1>1 DEF LastOf
  <1>7. QED
    BY <1>1, <1>5, <1>6 DEF new

\* An insert meets a row in progress, and makes its log one ahead.
LEMMA InsertExplains ==
    ASSUME HistoryInv, Unsettled, NEW k \in jobs, Present(k.delivery), NEW log,
           log = Append(attempts[k.delivery],
                        [attempt |-> k.attempt, succeeded |-> Succeeded(k.response)])
    PROVE  /\ Explains(log, row[k.delivery])
           /\ log # <<>> /\ log[Len(log)].attempt = k.attempt
           /\ log[Len(log)].succeeded <=> Succeeded(k.response)
  <1> DEFINE d == k.delivery
             entry == [attempt |-> k.attempt, succeeded |-> Succeeded(k.response)]
  <1>1. /\ d \in Deliveries /\ k \in Job /\ row[d] \in Row /\ attempts[d] \in Seq(Entry)
        /\ k.attempt = row[d].attemptCount + 1 /\ row[d].attemptCount \in Nat
    BY DEF HistoryInv, HandInv, TypeOK, Job, Row, Entry, JobsCounted
  <1>2. entry \in Entry /\ entry.attempt = k.attempt /\ entry.succeeded = Succeeded(k.response)
    BY <1>1 DEF Entry, Job, Succeeded
  <1>3. row[d].status \notin Completed
    BY DEF Unsettled
  <1>4. Grows(attempts[d]) /\ LastOf(attempts[d]) \in {row[d].attemptCount, row[d].attemptCount + 1}
    BY <1>1, ExplainsIsHistory DEF HistoryInv, Explains
  <1> HIDE DEF entry
  <1>5. entry.attempt \in {LastOf(attempts[d]), LastOf(attempts[d]) + 1} \ {0}
    BY <1>1, <1>2, <1>4
  <1>6. log = Append(attempts[d], entry)
    BY DEF entry
  <1>7. Grows(log) /\ LastOf(log) = entry.attempt /\ log # <<>> /\ log[Len(log)] = entry
    BY <1>1, <1>2, <1>4, <1>5, <1>6, AppendGrows
  <1>8. QED
    BY <1>1, <1>2, <1>3, <1>7 DEF Explains

LEMMA HistoryInit == Init => HistoryExplainsRow /\ NoLogElsewhere /\ JobsCounted
  BY DEF Init, HistoryExplainsRow, NoLogElsewhere, JobsCounted, NoRow, Completed

LEMMA ExplainsNext ==
    ASSUME HistoryInv, Unsettled, [Next]_vars, NEW d \in Deliveries
    PROVE  Explains(attempts'[d], row'[d])
  <1>1. /\ TypeOK /\ row[d] \in Row /\ Explains(attempts[d], row[d])
        /\ ~Present(d) => attempts[d] = <<>> /\ row[d].attemptCount = 0
        /\ LogMoves(d)
    BY LogStep, ExplainsIsHistory
       DEF HistoryInv, HandInv, TypeOK, NoLogElsewhere
  <1>2. Explains(<<>>, Deleted) /\ Explains(<<>>, NewRow)
    BY DEF Explains, Grows, LastOf, Deleted, NewRow, NoRow, Completed
  <1>3. ~Present(d) => attempts'[d] = <<>>
    BY <1>1 DEF LogMoves
  <1>4. CASE row[d].status = "absent" /\ row'[d] = NewRow
    BY <1>2, <1>3, <1>4 DEF Present, Open, Completed
  <1>5. CASE row'[d] = Deleted /\ attempts'[d] = <<>>
    BY <1>2, <1>5
  <1>6. ASSUME NEW k \in jobs, RecordInsert(k), k.delivery = d, Present(d)
        PROVE  Explains(attempts'[d], row'[d])
    <2>1. row' = row
      BY <1>6 DEF RecordInsert
    <2>2. attempts'[d] = Append(attempts[d],
             [attempt |-> k.attempt, succeeded |-> Succeeded(k.response)])
      BY <1>1, <1>6 DEF RecordInsert, TypeOK
    <2>3. QED
      BY <1>6, <2>1, <2>2, InsertExplains
  <1>7. CASE attempts'[d] = attempts[d] /\ SameCount(d)
    BY <1>1, <1>7 DEF Explains, SameCount
  <1>8. ASSUME NEW j \in jobs, RecordUpdate(j), j.delivery = d, Present(d), row'[d] = Recorded(j)
        PROVE  Explains(attempts'[d], row'[d])
    <2>1. attempts' = attempts /\ j.phase = "logged"
      BY <1>8 DEF RecordUpdate
    <2>2. /\ attempts[d] # <<>> /\ LastOf(attempts[d]) = j.attempt
          /\ attempts[d][Len(attempts[d])].succeeded <=> Succeeded(j.response)
      BY <1>8, <2>1 DEF HistoryInv, JobsCounted, LastOf
    <2>3. Recorded(j).attemptCount = j.attempt
          /\ Recorded(j).status = IF Succeeded(j.response) THEN "success"
                                  ELSE IF shouldRetry(j.attempt, j.response, MaxAttempts)
                                       THEN "retrying" ELSE "failed"
      BY DEF Recorded
    <2>4. QED
      BY <1>1, <1>8, <2>1, <2>2, <2>3 DEF Explains, Completed
  <1>9. QED
    BY <1>1, <1>4, <1>5, <1>6, <1>7, <1>8, CountStep DEF LogMoves

LEMMA NoLogNext ==
    ASSUME HistoryInv, [Next]_vars
    PROVE  NoLogElsewhere'
  <1> SUFFICES ASSUME NEW d \in Deliveries, ~Present(d)'
               PROVE  attempts'[d] = <<>> /\ row'[d].attemptCount = 0
    BY DEF NoLogElsewhere
  <1>1. TypeOK /\ LogMoves(d)
        /\ (~Present(d) => attempts[d] = <<>> /\ row[d].attemptCount = 0)
    BY LogStep DEF HistoryInv, HandInv, NoLogElsewhere
  <1>2. ~Present(d) => attempts'[d] = <<>>
    BY <1>1 DEF LogMoves
  <1>3. CASE SameCount(d)
    BY <1>1, <1>2, <1>3 DEF SameCount
  <1>4. CASE row[d].status = "absent" /\ row'[d] = NewRow
    BY <1>4 DEF NewRow, NoRow, Present, Open
  <1>5. CASE Present(d) /\ row'[d] = Deleted /\ attempts'[d] = <<>>
    BY <1>5 DEF Deleted, NoRow
  <1>6. ASSUME NEW j \in jobs, row'[d] = Recorded(j) PROVE FALSE
    BY <1>6 DEF Recorded, Present, Open, Completed
  <1>7. QED
    BY <1>1, <1>3, <1>4, <1>5, <1>6, CountStep

LEMMA CountedNext ==
    ASSUME HistoryInv, Unsettled, HandInv', [Next]_vars
    PROVE  JobsCounted'
  <1> SUFFICES ASSUME NEW j \in jobs', Present(j.delivery)'
               PROVE  LET log == attempts'[j.delivery]
                      IN  /\ j.attempt = row'[j.delivery].attemptCount + 1
                          /\ j.phase = "logged" =>
                                /\ log # <<>>
                                /\ log[Len(log)].attempt = j.attempt
                                /\ log[Len(log)].succeeded <=> Succeeded(j.response)
    BY DEF JobsCounted
  <1> DEFINE d == j.delivery
  <1>1. /\ HandInv /\ TypeOK /\ d \in Deliveries /\ jobs \subseteq Job
        /\ NoConcurrentRun /\ NoConcurrentRun'
    BY DEF HistoryInv, HandInv, TypeOK, Job
  <1>2. ASSUME NEW w \in Workers, NEW e \in Deliveries, ClaimReread(w, e), j = NewJob(w, e)
        PROVE  j.phase # "logged" /\ j.attempt = row'[d].attemptCount + 1
    BY <1>2 DEF NewJob, ClaimReread
  <1>3. ASSUME NEW k \in jobs, Heir(j, k)
        PROVE  /\ j.attempt = row'[d].attemptCount + 1
               /\ j.phase = "logged" =>
                     /\ attempts'[d] # <<>>
                     /\ attempts'[d][Len(attempts'[d])].attempt = j.attempt
                     /\ attempts'[d][Len(attempts'[d])].succeeded <=> Succeeded(j.response)
    <2>1. k.delivery = d /\ j.attempt = k.attempt /\ row[d].status # "absent"
      BY <1>1, <1>3 DEF Heir, HandInv, InHand
    <2>2. ASSUME NEW l \in jobs, RecordUpdate(l), l.delivery = d PROVE FALSE
      <3>1. l = k
        BY <1>1, <2>1, <2>2 DEF NoConcurrentRun
      <3>2. j \in jobs \ {l}
        BY <2>2 DEF RecordUpdate
      <3>3. QED
        BY <1>1, <2>2, <3>2 DEF NoConcurrentRun
    <2>3. SameCount(d)
      <3>1. row'[d] # Deleted
        BY DEF Deleted, NoRow, Present, Open, Completed
      <3>2. QED
        BY <1>1, <2>1, <2>2, <3>1, CountStep
    <2>4. Present(d) /\ k.attempt = row[d].attemptCount + 1
      BY <2>1, <2>3 DEF SameCount, HistoryInv, JobsCounted
    <2>5. ASSUME NEW l \in jobs, RecordInsert(l), l.delivery = d
          PROVE  j.phase = "logged" =>
                    /\ attempts'[d] # <<>>
                    /\ attempts'[d][Len(attempts'[d])].attempt = j.attempt
                    /\ attempts'[d][Len(attempts'[d])].succeeded <=> Succeeded(j.response)
      <3>1. l = k
        BY <1>1, <2>1, <2>5 DEF NoConcurrentRun
      <3>2. k.phase = "answered" /\ Advance(k, [k EXCEPT !.phase = "logged"])
            /\ attempts'[d] = Append(attempts[d],
                 [attempt |-> k.attempt, succeeded |-> Succeeded(k.response)])
        BY <1>1, <2>1, <2>4, <2>5, <3>1 DEF RecordInsert, TypeOK
      <3>3. j \notin jobs \ {k}
        BY <1>1, <2>1 DEF NoConcurrentRun
      <3>4. j = [k EXCEPT !.phase = "logged"]
        BY <3>2, <3>3 DEF Advance
      <3>5. j.response = k.response
        BY <1>1, <3>4 DEF Job
      <3>6. QED
        BY <2>1, <2>4, <3>2, <3>5, InsertExplains
    <2>6. attempts'[d] = attempts[d] \/ \E l \in jobs : RecordInsert(l) /\ l.delivery = d
      <3>1. row'[d] # Deleted
        BY DEF Deleted, NoRow, Present, Open, Completed
      <3>2. QED
        BY <1>1, <3>1, LogStep DEF LogMoves
    <2>7. ASSUME attempts'[d] = attempts[d], j.phase = "logged",
                 ~\E l \in jobs : RecordInsert(l) /\ l.delivery = d
          PROVE  /\ attempts'[d] # <<>>
                 /\ attempts'[d][Len(attempts'[d])].attempt = j.attempt
                 /\ attempts'[d][Len(attempts'[d])].succeeded <=> Succeeded(j.response)
      <3>1. j.phase = k.phase /\ j.response = k.response
        BY <1>3, <2>1, <2>7 DEF Heir
      <3>2. QED
        BY <2>1, <2>4, <2>7, <3>1 DEF HistoryInv, JobsCounted
    <2>8. QED
      BY <2>1, <2>3, <2>4, <2>5, <2>6, <2>7 DEF SameCount
  <1>4. QED
    BY <1>1, <1>2, <1>3, JobsFollow

LEMMA HistoryNext ==
    ASSUME HistoryInv, Unsettled, HandInv', [Next]_vars
    PROVE  HistoryInv'
  <1>1. HistoryExplainsRow'
    BY ExplainsNext DEF HistoryExplainsRow, Explains, Grows, LastOf
  <1>2. QED
    BY <1>1, NoLogNext, CountedNext DEF HistoryInv

LEMMA HistoryStarts == Init => HistoryInv
  BY HandInit, HistoryInit DEF HistoryInv

\* One process at a time: no job meets a completed row.
FinalHistory == FinalInv /\ HistoryInv

LEMMA FinalHistoryNext ==
    ASSUME ~SharedVolume, MaxRun < LockTimeout \/ NoneLeftBehind, FinalHistory, [Next]_vars
    PROVE  FinalHistory'
  <1>1. FinalInv' /\ HandInv'
    BY FinalNext DEF FinalHistory, FinalInv, LeaseInv, HandInv
  <1>2. Unsettled
    BY JobsRow DEF Unsettled, FinalHistory, FinalInv, Completed
  <1>3. QED
    BY <1>1, <1>2, HistoryNext DEF FinalHistory

LEMMA FinalHistoryAlways ==
    ASSUME ~SharedVolume, MaxRun < LockTimeout \/ NoneLeftBehind
    PROVE  Spec => []FinalHistory
  <1>1. Init => FinalHistory
    BY AloneInit, SettledInit, HistoryStarts DEF FinalInv, FinalHistory, AloneInv
  <1>2. FinalHistory /\ [Next]_vars => FinalHistory'
    BY FinalHistoryNext
  <1>3. QED
    BY <1>1, <1>2, PTL DEF Spec

------------------------------------------------------------------------------
\* Shutdown, and several processes on one volume.  Where no batch leaves a job
\* behind nobody claims while a released worker has one, and the lease holds with
\* any number of processes.

LEMMA SharedAlways ==
    ASSUME MaxRun < LockTimeout, NoneLeftBehind
    PROVE  Spec => [](HandInv /\ AwaitedInv)
  <1>1. Init => HandInv /\ AwaitedInv
    BY HandInit, AwaitedInit
  <1>2. HandInv /\ AwaitedInv /\ [Next]_vars => (HandInv /\ AwaitedInv)'
    <2> SUFFICES ASSUME HandInv, AwaitedInv, [Next]_vars PROVE (HandInv /\ AwaitedInv)'
      OBVIOUS
    <2>1. AllAwaited /\ RowsPresent /\ Orderly
      BY AwaitedOrderly DEF AwaitedInv
    <2>2. HandInv'
      BY <2>1, HandNext, TimelyClaims
    <2>3. AllAwaited' /\ OneSlot' /\ RowsPresent'
      BY <2>1, AllAwaitedNext, OneSlotNext, RowsPresentNext
    <2>4. QED
      BY <2>2, <2>3 DEF AwaitedInv
  <1>3. QED
    BY <1>1, <1>2, PTL DEF Spec

\* What the worker may be asked to keep: one process at a time, runs shorter than
\* LOCK_TIMEOUT, batches that leave nothing behind.  Any two of the three will do.
TwoHold ==
    \/ ~SharedVolume /\ (MaxRun < LockTimeout \/ NoneLeftBehind)
    \/ MaxRun < LockTimeout /\ NoneLeftBehind

LEMMA HandAlways ==
    ASSUME TwoHold
    PROVE  Spec => []HandInv
  <1>1. CASE ~SharedVolume /\ (MaxRun < LockTimeout \/ NoneLeftBehind)
    <2>1. LeaseInv => HandInv
      BY LeaseParts
    <2>2. QED
      BY <1>1, <2>1, LeaseSafe, PTL
  <1>2. CASE MaxRun < LockTimeout /\ NoneLeftBehind
    BY <1>2, SharedAlways, PTL
  <1>3. QED
    BY <1>1, <1>2 DEF TwoHold

\* Whatever crashes, stops, fails or is deleted, a delivery is never run by two jobs
\* at once if two of these hold: one process at a time uses the database, no run
\* outlives LOCK_TIMEOUT, a batch has one slot or nothing fails.
THEOREM NeverRunTwice ==
    ASSUME TwoHold
    PROVE  Spec => []NoConcurrentRun
  <1>1. HandInv => NoConcurrentRun
    BY DEF HandInv
  <1>2. QED
    BY <1>1, HandAlways, PTL

\* And until its worker has given the leases back, a job has the row to itself:
\* claimDue, releaseWorkerLeases and the other jobs leave its lock alone, those of
\* the other processes too.
THEOREM LeaseNeverLost ==
    ASSUME TwoHold
    PROVE  Spec => []LeaseHeld
  <1>1. HandInv => LeaseHeld
    BY DEF HandInv
  <1>2. QED
    BY <1>1, HandAlways, PTL

\* With a single slot, whatever fails, or with more of them and nothing that fails,
\* stop() gives the leases back only when no attempt is running, however long the
\* attempts take or whatever the other processes on the volume do.
THEOREM StopLeavesNoJob ==
    ASSUME NoneLeftBehind, ~SharedVolume \/ MaxRun < LockTimeout
    PROVE  Spec => []StopWaitsForJobs
  <1>1. HandInv /\ AwaitedInv => StopWaitsForJobs
    <2> SUFFICES ASSUME HandInv, AllAwaited, NEW w \in Workers, worker[w].phase \in Stopped,
                        NEW j \in JobsOf(w)
                 PROVE  FALSE
      BY DEF StopWaitsForJobs, AwaitedInv
    <2>1. worker[w].phase \in {"claiming", "batch"}
      BY AwaitedPhase DEF JobsOf
    <2>2. QED
      BY <2>1 DEF Stopped
  <1>2. CASE ~SharedVolume
    <2>1. FinalInv => HandInv /\ AwaitedInv
      BY LeaseParts DEF FinalInv, Awaits
    <2>2. QED
      BY <1>1, <1>2, <2>1, FinalAlways, PTL
  <1>3. CASE MaxRun < LockTimeout
    BY <1>1, <1>3, SharedAlways, PTL
  <1>4. QED
    BY <1>2, <1>3

\* On a shared volume a claim may take a row that has completed meanwhile, but never
\* under a job: every job that is there holds the lease of its row.
LEMMA SharedHistoryAlways ==
    ASSUME MaxRun < LockTimeout, NoneLeftBehind
    PROVE  Spec => []HistoryInv
  <1>1. Init => HistoryInv
    BY HistoryStarts
  <1>2. HistoryInv /\ AwaitedInv /\ HandInv' /\ [Next]_vars => HistoryInv'
    <2> SUFFICES ASSUME HistoryInv, AwaitedInv, HandInv', [Next]_vars PROVE HistoryInv'
      OBVIOUS
    <2>1. ASSUME NEW j \in jobs, Present(j.delivery)
          PROVE  row[j.delivery].status \notin Completed
      <3>1. worker[j.worker].phase # "released"
        BY AwaitedPhase DEF HistoryInv, AwaitedInv
      <3>2. QED
        BY <2>1, <3>1 DEF HistoryInv, HandInv, LeaseHeld, Completed
    <2>2. QED
      BY <2>1, HistoryNext DEF Unsettled
  <1>3. QED
    BY <1>1, <1>2, SharedAlways, PTL DEF Spec

\* Although an attempt is logged and counted by two statements, with failures and
\* deaths between them, the log of a delivery always explains its row; with several
\* processes on the volume too, when a batch has one slot or nothing fails.
THEOREM HistoryAccountsForRow ==
    ASSUME TwoHold
    PROVE  Spec => []HistoryExplainsRow
  <1>1. HistoryInv => HistoryExplainsRow
    BY DEF HistoryInv
  <1>2. CASE ~SharedVolume /\ (MaxRun < LockTimeout \/ NoneLeftBehind)
    <2>1. FinalHistory => HistoryInv
      BY DEF FinalHistory
    <2>2. QED
      BY <1>1, <1>2, <2>1, FinalHistoryAlways, PTL
  <1>3. CASE MaxRun < LockTimeout /\ NoneLeftBehind
    BY <1>1, <1>3, SharedHistoryAlways, PTL
  <1>4. QED
    BY <1>2, <1>3 DEF TwoHold

------------------------------------------------------------------------------
\* The number of attempts, and the life of a delivery, which the queue implements

\* A delivery that is not settled has an attempt left.
AttemptsLeft == \A d \in Deliveries : row[d].status \in Open => row[d].attemptCount < MaxAttempts

LEMMA AttemptsLeftNext ==
    ASSUME FinalInv, AttemptsLeft, [Next]_vars
    PROVE  AttemptsLeft'
  <1> SUFFICES ASSUME NEW d \in Deliveries, row'[d].status \in Open
               PROVE  row'[d].attemptCount < MaxAttempts
    BY DEF AttemptsLeft
  <1>1. CASE SameCount(d)
    <2>1. row[d].status \in Open \cup Completed
      BY <1>1 DEF SameCount, Present
    <2>2. row[d].status \notin Completed
      BY FinalStep DEF Deleted, NoRow, Open, Completed
    <2>3. QED
      BY <1>1, <2>1, <2>2 DEF SameCount, AttemptsLeft
  <1>2. CASE row'[d] = NewRow \/ row'[d] = Deleted
    BY <1>2, QueueAssumption DEF NewRow, Deleted, NoRow
  <1>3. ASSUME NEW j \in jobs, RecordUpdate(j), row'[d] = Recorded(j)
        PROVE  row'[d].attemptCount < MaxAttempts
    <2>1. shouldRetry(j.attempt, j.response, MaxAttempts) /\ row'[d].attemptCount = j.attempt
      BY <1>3 DEF Recorded, Open
    <2>2. j \in Job
      BY DEF FinalInv, LeaseInv, TypeOK
    <2>3. QED
      BY <2>1, <2>2, QueueAssumption DEF shouldRetry, Job
  <1>4. QED
    BY <1>1, <1>2, <1>3, CountStep DEF FinalInv, LeaseInv

\* No attempt has a number beyond MaxAttempts: none that runs, none that is logged
\* and none that is counted.
AttemptsBounded ==
    /\ \A j \in jobs : j.attempt <= MaxAttempts
    /\ \A d \in Deliveries :
          /\ row[d].attemptCount <= MaxAttempts
          /\ \A i \in 1..Len(attempts[d]) : attempts[d][i].attempt <= MaxAttempts

\* A job is made from a row that is open, and so has an attempt left.
LEMMA JobsBoundedNext ==
    ASSUME FinalInv, AttemptsLeft, AttemptsBounded, [Next]_vars, NEW j \in jobs'
    PROVE  j.attempt <= MaxAttempts
  <1>1. TypeOK /\ row \in [Deliveries -> Row] /\ ClaimHeld
    BY DEF FinalInv, LeaseInv, TypeOK
  <1>2. ASSUME NEW k \in jobs, Heir(j, k) PROVE j.attempt <= MaxAttempts
    BY <1>2 DEF Heir, AttemptsBounded
  <1>3. ASSUME NEW w \in Workers, NEW d \in Deliveries, ClaimReread(w, d), Present(d),
               j = NewJob(w, d)
        PROVE  j.attempt <= MaxAttempts
    <2>1. row[d].status = "processing"
      BY <1>1, <1>3 DEF ClaimReread, ClaimHeld
    <2>2. row[d].attemptCount < MaxAttempts /\ row[d].attemptCount \in Nat
      BY <1>1, <2>1 DEF AttemptsLeft, Open, Row
    <2>3. j.attempt = row[d].attemptCount + 1
      BY <1>3 DEF NewJob
    <2>4. QED
      BY <2>2, <2>3, QueueAssumption
  <1>4. QED
    BY <1>1, <1>2, <1>3, JobsFollow

LEMMA AttemptsBoundedNext ==
    ASSUME FinalInv, AttemptsLeft, AttemptsBounded, [Next]_vars
    PROVE  AttemptsBounded'
  <1>1. TypeOK /\ MaxAttempts \in Nat
    BY QueueAssumption DEF FinalInv, LeaseInv
  <1>2. ASSUME NEW d \in Deliveries PROVE row'[d].attemptCount <= MaxAttempts
    <2>1. CASE SameCount(d)
      BY <2>1 DEF SameCount, AttemptsBounded
    <2>2. CASE row'[d] = NewRow \/ row'[d] = Deleted
      BY <1>1, <2>2 DEF NewRow, Deleted, NoRow
    <2>3. ASSUME NEW j \in jobs, row'[d] = Recorded(j) PROVE row'[d].attemptCount <= MaxAttempts
      BY <2>3 DEF Recorded, AttemptsBounded
    <2>4. QED
      BY <1>1, <2>1, <2>2, <2>3, CountStep
  <1>3. ASSUME NEW d \in Deliveries, NEW i \in 1..Len(attempts'[d])
        PROVE  attempts'[d][i].attempt <= MaxAttempts
    <2>1. CASE attempts'[d] = attempts[d]
      BY <1>3, <2>1 DEF AttemptsBounded
    <2>2. CASE attempts'[d] = <<>>
      BY <1>3, <2>2
    <2>3. ASSUME NEW k \in jobs,
                 attempts'[d] = Append(attempts[d],
                    [attempt |-> k.attempt, succeeded |-> Succeeded(k.response)])
          PROVE  attempts'[d][i].attempt <= MaxAttempts
      <3>1. PICK entry : entry = [attempt |-> k.attempt, succeeded |-> Succeeded(k.response)]
        OBVIOUS
      <3>2. attempts[d] \in Seq(Entry) /\ attempts'[d] = Append(attempts[d], entry)
            /\ entry.attempt = k.attempt
        BY <1>1, <2>3, <3>1 DEF TypeOK, Entry
      <3>3. attempts'[d][i] = entry \/ (i \in 1..Len(attempts[d]) /\ attempts'[d][i] = attempts[d][i])
        BY <1>3, <3>2
      <3>4. QED
        BY <3>2, <3>3 DEF AttemptsBounded
    <2>4. QED
      BY <1>1, <2>1, <2>2, <2>3, LogStep DEF LogMoves
  <1>4. QED
    BY <1>2, <1>3, JobsBoundedNext DEF AttemptsBounded

LEMMA AttemptsInit == Init => AttemptsLeft /\ AttemptsBounded
  BY QueueAssumption DEF Init, AttemptsLeft, AttemptsBounded, NoRow, Open

\* DELIVERY_MAX_ATTEMPTS is kept: whatever crashes, fails or is stopped between an
\* attempt, its log and its count, no attempt is made under a higher number, though
\* the number of the one that was cut short is used again.
THEOREM AttemptsStayWithinLimit ==
    ASSUME ~SharedVolume, MaxRun < LockTimeout \/ NoneLeftBehind
    PROVE  Spec => []AttemptsBounded
  <1>1. Init => AttemptsLeft /\ AttemptsBounded
    BY AttemptsInit
  <1>2. FinalInv /\ AttemptsLeft /\ AttemptsBounded /\ [Next]_vars =>
           (AttemptsLeft /\ AttemptsBounded)'
    BY AttemptsLeftNext, AttemptsBoundedNext
  <1>3. QED
    BY <1>1, <1>2, FinalAlways, PTL DEF Spec

CalmInv == FinalHistory /\ AwaitedInv /\ AttemptsLeft

LEMMA CalmAlways ==
    ASSUME ~SharedVolume, NoneLeftBehind
    PROVE  Spec => []CalmInv
  <1>1. Init => CalmInv
    BY AttemptsInit, AloneInit, AwaitedInit, SettledInit, HistoryStarts
       DEF CalmInv, FinalInv, FinalHistory, AloneInv
  <1>2. CalmInv /\ [Next]_vars => CalmInv'
    BY FinalHistoryNext, AttemptsLeftNext DEF CalmInv, FinalHistory, FinalInv, Awaits
  <1>3. QED
    BY <1>1, <1>2, PTL DEF Spec

\* What CalmInv says of types, leases, jobs and counts, for the steps below.
LEMMA CalmParts ==
    ASSUME CalmInv
    PROVE  TypeOK /\ InHand /\ LeaseHeld /\ CandidatesKept /\ AllAwaited /\ JobsCounted
           /\ NoLogElsewhere /\ AttemptsLeft
  BY DEF CalmInv, FinalHistory, FinalInv, LeaseInv, HistoryInv, AwaitedInv

LEMMA Unseen ==
    ASSUME \A d \in Deliveries : StageOf(d)' = StageOf(d)
                                 /\ row'[d].attemptCount = row[d].attemptCount
    PROVE  UNCHANGED Lifecycle!lifecycleVars
  BY DEF Lifecycle!lifecycleVars

LEMMA RefinesInit == Init => Lifecycle!Init
  BY DEF Init, Lifecycle!Init, StageOf, NoRow

\* A row's stage is read from its status.
LEMMA SameStage ==
    ASSUME NEW d \in Deliveries, row'[d].status = row[d].status
    PROVE  StageOf(d)' = StageOf(d)
  BY DEF StageOf

\* The claim of a row that waits is a Claim; that of one whose lease has expired
\* is a stutter.
LEMMA ClaimRefines ==
    ASSUME CalmInv, NEW w \in Workers, NEW d \in Deliveries, ClaimUpdate(w, d)
    PROVE  [Lifecycle!Next]_(Lifecycle!lifecycleVars)
  <1>1. /\ row \in [Deliveries -> Row] /\ d \in worker[w].todo
        /\ row[d].status \in {"pending", "retrying", "processing", "deleted"}
    BY CalmParts DEF TypeOK, CandidatesKept, ClaimUpdate
  <1>2. row' = row \/ (Present(d) /\ row' = [row EXCEPT ![d] = Claimed(w, d)])
    BY DEF ClaimUpdate
  <1>3. CASE row' = row
    BY <1>3, Unseen DEF StageOf
  <1>4. CASE Present(d) /\ row' = [row EXCEPT ![d] = Claimed(w, d)]
    <2>1. /\ row'[d].status = "processing" /\ row'[d].attemptCount = row[d].attemptCount
          /\ \A e \in Deliveries \ {d} : row'[e] = row[e]
          /\ StageOf(d)' = "running"
      BY <1>1, <1>4 DEF Claimed, Row, StageOf
    <2>2. \A e \in Deliveries \ {d} : StageOf(e)' = StageOf(e)
      BY <2>1 DEF StageOf
    <2>3. CASE row[d].status = "processing"
      BY <2>1, <2>2, <2>3, Unseen DEF StageOf
    <2>4. CASE row[d].status \in {"pending", "retrying"}
      <3>1. StageOf(d) = "waiting"
        BY <2>4 DEF StageOf
      <3>2. Lifecycle!Claim(d)
        BY <2>1, <2>2, <3>1 DEF Lifecycle!Claim, Lifecycle!Move
      <3>3. QED
        BY <3>2 DEF Lifecycle!Next
    <2>5. QED
      BY <1>1, <1>4, <2>3, <2>4 DEF Present, Open, Completed
  <1>5. QED
    BY <1>2, <1>3, <1>4

\* The record of an attempt concludes it.
LEMMA RecordRefines ==
    ASSUME CalmInv, NEW j \in jobs, RecordUpdate(j)
    PROVE  [Lifecycle!Next]_(Lifecycle!lifecycleVars)
  <1> DEFINE d == j.delivery
  <1>1. /\ row \in [Deliveries -> Row] /\ d \in Deliveries /\ j \in Job
        /\ j.worker \in Workers /\ j.inBatch
    BY CalmParts DEF TypeOK, Job, AllAwaited
  <1>2. CASE ~Present(d)
    <2>1. row' = row
      BY <1>2 DEF RecordUpdate
    <2>2. QED
      BY <2>1, Unseen DEF StageOf
  <1>3. CASE Present(d)
    <2>1. worker[j.worker].phase # "released"
      BY <1>1, CalmParts DEF InHand
    <2>2. row[d].status = "processing" /\ StageOf(d) = "running"
      BY <1>3, <2>1, CalmParts DEF LeaseHeld, StageOf
    <2>3. /\ j.attempt = row[d].attemptCount + 1 /\ row[d].attemptCount < MaxAttempts
          /\ row[d].attemptCount \in Nat
      BY <1>1, <1>3, <2>2, CalmParts DEF JobsCounted, AttemptsLeft, Open, Row
    <2>4. row' = [row EXCEPT ![d] = Recorded(j)]
      BY <1>3 DEF RecordUpdate
    <2>5. /\ row'[d].attemptCount = row[d].attemptCount + 1
          /\ \A e \in Deliveries \ {d} : row'[e] = row[e] /\ StageOf(e)' = StageOf(e)
      BY <1>1, <2>3, <2>4 DEF Recorded, StageOf
    <2>6. row'[d].status = Recorded(j).status
      BY <1>1, <2>4
    <2>7. ASSUME NEW to, StageOf(d)' = to PROVE Lifecycle!Conclude(d, to)
      BY <1>1, <2>2, <2>3, <2>5, <2>7 DEF Lifecycle!Conclude
    <2>8. CASE Recorded(j).status = "success"
      <3>1. StageOf(d)' = "success"
        BY <2>6, <2>8 DEF StageOf
      <3>2. QED
        BY <1>1, <2>7, <3>1 DEF Lifecycle!Next, Lifecycle!Succeed
    <2>9. CASE Recorded(j).status = "failed"
      <3>1. StageOf(d)' = "failed"
        BY <2>6, <2>9 DEF StageOf
      <3>2. QED
        BY <1>1, <2>7, <3>1 DEF Lifecycle!Next, Lifecycle!Fail
    <2>10. CASE Recorded(j).status = "retrying"
      <3>1. StageOf(d)' = "waiting"
        BY <2>6, <2>10 DEF StageOf
      <3>2. row[d].attemptCount + 1 < MaxAttempts
        <4>1. shouldRetry(j.attempt, j.response, MaxAttempts)
          BY <2>10 DEF Recorded
        <4>2. QED
          BY <2>3, <4>1, QueueAssumption DEF shouldRetry
      <3>3. Lifecycle!Retry(d)
        BY <1>1, <2>7, <3>1, <3>2 DEF Lifecycle!Retry
      <3>4. QED
        BY <1>1, <3>3 DEF Lifecycle!Next
    <2>11. QED
      BY <2>8, <2>9, <2>10 DEF Recorded
  <1>4. QED
    BY <1>2, <1>3

\* Giving the leases back is a Release of the rows they were on, if any.
LEMMA ReleaseRefines ==
    ASSUME CalmInv, NEW w \in Workers, Release(w)
    PROVE  [Lifecycle!Next]_(Lifecycle!lifecycleVars)
  <1> DEFINE D == {d \in Deliveries : row[d].lockedBy = w /\ row[d].status = "processing"}
  <1>1. row \in [Deliveries -> Row]
    BY CalmParts DEF TypeOK
  <1>2. \A d \in Deliveries : row'[d] = IF d \in D THEN Unlocked(d) ELSE row[d]
    BY DEF Release
  <1>3. \A d \in D : /\ StageOf(d) = "running" /\ StageOf(d)' = "waiting"
                     /\ row'[d].attemptCount = row[d].attemptCount
    BY <1>1, <1>2 DEF StageOf, Unlocked, Row
  <1>4. \A d \in Deliveries \ D : StageOf(d)' = StageOf(d) /\ row'[d] = row[d]
    BY <1>2 DEF StageOf
  <1> HIDE DEF D
  <1>5. CASE D = {}
    BY <1>4, <1>5, Unseen
  <1>6. CASE D # {}
    <2>1. D \in SUBSET Deliveries
      BY DEF D
    <2>2. Lifecycle!Release(D)
      BY <1>3, <1>4, <1>6, <2>1 DEF Lifecycle!Release, Lifecycle!Move
    <2>3. QED
      BY <2>1, <2>2 DEF Lifecycle!Next
  <1>7. QED
    BY <1>5, <1>6

LEMMA RefinesNext ==
    ASSUME CalmInv, [Next]_vars
    PROVE  [Lifecycle!Next]_(Lifecycle!lifecycleVars)
  <1>1. row \in [Deliveries -> Row]
    BY CalmParts DEF TypeOK
  <1>2. ASSUME UNCHANGED row PROVE UNCHANGED Lifecycle!lifecycleVars
    BY <1>2, Unseen DEF StageOf
  <1>3. ASSUME NEW D \in SUBSET Deliveries, Enqueue(D)
        PROVE  [Lifecycle!Next]_(Lifecycle!lifecycleVars)
    <2>1. \A d \in D : /\ StageOf(d) = "absent" /\ StageOf(d)' = "waiting"
                       /\ row[d].attemptCount = 0 /\ row'[d].attemptCount = 0
      BY <1>3, CalmParts
         DEF Enqueue, StageOf, NewRow, NoRow, NoLogElsewhere, Present, Open, Completed
    <2>2. \A d \in Deliveries \ D : StageOf(d)' = StageOf(d) /\ row'[d] = row[d]
      BY <1>3 DEF Enqueue, StageOf
    <2>3. Lifecycle!Enqueue(D)
      BY <1>3, <2>1, <2>2 DEF Enqueue, Lifecycle!Enqueue, Lifecycle!Move
    <2>4. QED
      BY <2>3 DEF Lifecycle!Next
  <1>4. ASSUME NEW d \in Deliveries, Purge(d) \/ Cascade(d)
        PROVE  [Lifecycle!Next]_(Lifecycle!lifecycleVars)
    <2>1. /\ StageOf(d) \notin {"absent", "deleted"} /\ StageOf(d)' = "deleted"
          /\ row'[d].attemptCount = 0
      BY <1>1, <1>4 DEF Purge, Cascade, Delete, StageOf, Present, Open, Completed, Deleted, NoRow
    <2>2. \A e \in Deliveries \ {d} : StageOf(e)' = StageOf(e) /\ row'[e] = row[e]
      BY <1>1, <1>4 DEF Purge, Cascade, Delete, StageOf
    <2>3. Lifecycle!Delete(d)
      BY <2>1, <2>2 DEF Lifecycle!Delete
    <2>4. QED
      BY <2>3 DEF Lifecycle!Next
  <1>5. ASSUME NEW w \in Workers, WorkerStep(w) PROVE [Lifecycle!Next]_(Lifecycle!lifecycleVars)
    BY <1>2, <1>5, ClaimRefines, ReleaseRefines
       DEF WorkerStep, Start, SelectCandidates, StartBatch, EndBatch, Exit, Dies, ClaimReread
  <1>6. ASSUME NEW w \in Workers, Disturbance(w) PROVE [Lifecycle!Next]_(Lifecycle!lifecycleVars)
    BY <1>2, <1>6 DEF Disturbance, ClaimFails, ReleaseFails, Stop, Crash, Dies
  <1>7. ASSUME NEW j \in jobs, JobStep(j) \/ StatementFails(j)
        PROVE  [Lifecycle!Next]_(Lifecycle!lifecycleVars)
    BY <1>2, <1>7, RecordRefines
       DEF JobStep, Send, Refuse, SigningFails, Answer, RecordInsert, StatementFails
  <1>8. CASE TimePasses
    <2>1. \A d \in Deliveries : row'[d].status = row[d].status
                                /\ row'[d].attemptCount = row[d].attemptCount
      BY <1>1, <1>8 DEF TimePasses, Row
    <2>2. QED
      BY <2>1, SameStage, Unseen
  <1>9. CASE UNCHANGED vars
    BY <1>2, <1>9 DEF vars
  <1>10. QED
    BY <1>3, <1>4, <1>5, <1>6, <1>7, <1>8, <1>9 DEF Next

\* The tables, the ticks and the statements together do no more to a delivery than
\* DeliveryLifecycle says: it is claimed from waiting, concluded once per attempt,
\* at most MaxAttempts times, and final when it ends.
THEOREM QueueImplementsLifecycle ==
    ASSUME ~SharedVolume, NoneLeftBehind
    PROVE  Spec => ImplementsLifecycle
  <1>1. CalmInv /\ [Next]_vars => [Lifecycle!Next]_(Lifecycle!lifecycleVars)
    BY RefinesNext
  <1>2. QED
    BY <1>1, RefinesInit, CalmAlways, PTL DEF Spec, ImplementsLifecycle, Lifecycle!Spec
==============================================================================
