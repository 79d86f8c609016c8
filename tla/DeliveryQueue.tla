---------------------------- MODULE DeliveryQueue ----------------------------
(***************************************************************************)
(* The delivery queue: the `deliveries` and `delivery_attempts` tables     *)
(* (services/deliveries.ts) and the workers that drain them                *)
(* (worker/delivery-worker.ts).                                            *)
(*                                                                         *)
(* No statement of the code runs in a transaction, so every awaited        *)
(* statement is an action of its own and anything may happen between two   *)
(* of them.  A worker is one run of the process: workerId is drawn anew at *)
(* every start, so a restart is another member of Workers.                 *)
(*                                                                         *)
(* Time is relative.  The code compares absolute times with `now`; here    *)
(* dueIn is nextAttemptAt - now (0 once passed), lockAge is now - lockedAt *)
(* and TimePasses moves all of them.  The unit is the poll interval.       *)
(***************************************************************************)
EXTENDS Integers, Sequences, FiniteSets, Retry

CONSTANTS
    Deliveries,    \* ids of the rows of the deliveries table
    Workers,       \* runs of the process, each with its own workerId
    Nobody,        \* locked_by IS NULL (then locked_at is NULL too)
    Concurrency,   \* DELIVERY_WORKER_CONCURRENCY
    MaxAttempts,   \* DELIVERY_MAX_ATTEMPTS, copied to every row
    RetryDelays,   \* DELIVERY_RETRY_DELAYS_MS, in units of time
    Responses,     \* HTTP statuses (or NoResponse) destinations may give
    LockTimeout,   \* LOCK_TIMEOUT_MS, in units of time
    MaxRun,        \* longest time from a claim's `now` to the end of its jobs
    SharedVolume,  \* may two processes use the database at once?
    Poisoned,      \* deliveries whose signing secret does not decrypt
    Deletable,     \* deliveries whose event or bot may be deleted at any time
    MaxFaults      \* bound: database statements of a worker that may fail

ASSUME QueueAssumption ==
    /\ Nobody \notin Workers
    /\ Concurrency \in Nat \ {0}
    /\ MaxAttempts \in Nat \ {0}
    /\ RetryDelays \in Seq(Nat)
    /\ Responses \subseteq Nat
    /\ LockTimeout \in Nat \ {0}
    /\ MaxRun \in Nat
    /\ SharedVolume \in BOOLEAN
    /\ Poisoned \subseteq Deliveries
    /\ Deletable \subseteq Deliveries
    /\ MaxFaults \in Nat

VARIABLES
    row,       \* the deliveries table
    attempts,  \* the delivery_attempts rows of each delivery, oldest first
    worker,    \* the DeliveryWorker object of each process run
    jobs,      \* the process() calls that have not settled
    faults     \* failed statements so far

vars == <<row, attempts, worker, jobs, faults>>

------------------------------------------------------------------------------
\* Types

Open      == {"pending", "retrying", "processing"}
Completed == {"success", "failed"}
Status    == Open \cup Completed \cup {"absent", "deleted"}

Row == [status: Status, attemptCount: Nat, dueIn: Nat,
        lockedBy: Workers \cup {Nobody}, lockAge: Nat]

\* off: not started; due: the timer fires next; waiting: the poll interval is
\* running; claiming: inside claimDue; batch: awaiting Promise.all; drained: no
\* tick will run any more; released: leases given back; unreleased: that failed;
\* dead: process gone.
Phase == {"off", "due", "waiting", "claiming", "batch", "drained", "released",
          "unreleased", "dead"}

Worker == [phase: Phase, stopping: BOOLEAN, inFlight: Nat, age: Nat,
           todo: SUBSET Deliveries, leased: SUBSET Deliveries]

\* wait: what is left of the delay decideRetry chose; inBatch: still awaited by
\* the tick that claimed it.
Job == [worker: Workers, delivery: Deliveries, attempt: Nat, age: Nat,
        phase: {"leased", "sending", "answered", "logged"},
        response: Nat, wait: Nat, inBatch: BOOLEAN]

TypeOK ==
    /\ row \in [Deliveries -> Row]
    /\ attempts \in [Deliveries -> Seq([attempt: Nat, succeeded: BOOLEAN])]
    /\ worker \in [Workers -> Worker]
    /\ jobs \subseteq Job /\ IsFiniteSet(jobs)
    /\ faults \in 0..MaxFaults

NoRow   == [status |-> "absent", attemptCount |-> 0, dueIn |-> 0,
            lockedBy |-> Nobody, lockAge |-> 0]
NewRow  == [NoRow EXCEPT !.status = "pending"]
Deleted == [NoRow EXCEPT !.status = "deleted"]

NewWorker == [phase |-> "off", stopping |-> FALSE, inFlight |-> 0, age |-> 0,
              todo |-> {}, leased |-> {}]

Init ==
    /\ row = [d \in Deliveries |-> NoRow]
    /\ attempts = [d \in Deliveries |-> <<>>]
    /\ worker = [w \in Workers |-> NewWorker]
    /\ jobs = {}
    /\ faults = 0

------------------------------------------------------------------------------
\* State predicates

Present(d) == row[d].status \in Open \cup Completed
Alive(w)   == worker[w].phase \notin {"off", "dead"}
JobsOf(w)  == {j \in jobs : j.worker = w}
Batch(w)   == {j \in JobsOf(w) : j.inBatch}

\* Mutant of Idle: stop() would not await the batch of a running tick.
Idle_AnyBatch == {"due", "waiting", "batch"}

\* Phases in which stop() finds no tick to wait for.
Idle == {"due", "waiting"}

\* A run that has not started yet is left: the supervisor (restart:
\* unless-stopped) can bring the service back.  Bounds crashes and redeploys.
SpareRun == \E w \in Workers : worker[w].phase = "off"

\* Mutant of Leasable: the claim would not look at the lock.
Leasable_Unchecked(d, age) == TRUE

\* lockedAt IS NULL OR lockedAt <= staleBefore, for a claim whose `now` was
\* read `age` units ago.
Leasable(d, age) ==
    row[d].lockedBy = Nobody \/ row[d].lockAge - age >= LockTimeout

\* Mutants of Due: completed rows, rows still backing off, and never again the
\* rows of a worker that died.
Due_AnyStatus(d) == Present(d) /\ row[d].dueIn = 0 /\ Leasable(d, 0)
Due_NoBackoff(d) == row[d].status \in Open /\ Leasable(d, 0)
Due_NoReclaim(d) ==
    row[d].status \in {"pending", "retrying"} /\ row[d].dueIn = 0 /\ Leasable(d, 0)

\* The WHERE clause of claimDue's SELECT.
Due(d) == row[d].status \in Open /\ row[d].dueIn = 0 /\ Leasable(d, 0)

------------------------------------------------------------------------------
\* Rows come and go

\* enqueueDeliveries and replay insert rows; one INSERT covers all the routes
\* an update matched.
Enqueue(D) ==
    /\ D # {} /\ \A d \in D : row[d].status = "absent"
    /\ row' = [d \in Deliveries |-> IF d \in D THEN NewRow ELSE row[d]]
    /\ UNCHANGED <<attempts, worker, jobs, faults>>

Delete(d) ==
    /\ row' = [row EXCEPT ![d] = Deleted]
    /\ attempts' = [attempts EXCEPT ![d] = <<>>]
    /\ UNCHANGED <<worker, jobs, faults>>

\* purgeOlderThan: retention of completed deliveries.
Purge(d) == row[d].status \in Completed /\ Delete(d)

\* The event expires or the bot is removed: ON DELETE CASCADE takes the row
\* whatever its status.
Cascade(d) == d \in Deletable /\ Present(d) /\ Delete(d)

------------------------------------------------------------------------------
\* The tick: claimDue

\* Mutants of TickDone: inFlight would drop by the capacity instead of the
\* batch; the next tick would be scheduled although stop() was called.
TickDone_CountsCapacity(w) ==
    [worker[w] EXCEPT !.phase = IF worker[w].stopping THEN "drained" ELSE "waiting",
                      !.inFlight = @ - Concurrency, !.age = 0, !.todo = {}, !.leased = {}]
TickDone_KeepsPolling(w) ==
    [worker[w] EXCEPT !.phase = "waiting", !.inFlight = 0, !.age = 0, !.todo = {},
                      !.leased = {}]

\* What a tick leaves behind: inFlight drops by the length of the batch, the
\* only one it counted, and the next tick is scheduled unless stop() was called.
TickDone(w) ==
    [worker[w] EXCEPT !.phase = IF worker[w].stopping THEN "drained" ELSE "waiting",
                      !.inFlight = 0, !.age = 0, !.todo = {}, !.leased = {}]

Start(w) ==
    /\ worker[w].phase = "off"
    /\ SharedVolume \/ \A v \in Workers : ~Alive(v)
    /\ worker' = [worker EXCEPT ![w].phase = "due"]
    /\ UNCHANGED <<row, attempts, jobs, faults>>

Capacity(w) == Concurrency - worker[w].inFlight

\* The timer fires and claimDue reads its candidates, at most the spare
\* capacity.  Which of more than that come first (ORDER BY next_attempt_at, id)
\* is left open.
SelectCandidates(w) ==
    /\ worker[w].phase = "due"
    /\ \E K \in SUBSET {d \in Deliveries : Due(d)} :
        /\ Capacity(w) > 0
        /\ Cardinality(K) <= Capacity(w)
        /\ K = {d \in Deliveries : Due(d)} \/ Cardinality(K) = Capacity(w)
        /\ worker' = [worker EXCEPT ![w] =
             IF K = {} THEN TickDone(w)
             ELSE [@ EXCEPT !.phase = "claiming", !.todo = K, !.age = 0]]
    /\ UNCHANGED <<row, attempts, jobs, faults>>

\* Mutant of Claimed: the claim would leave the status alone.
Claimed_KeepsStatus(w, d) ==
    [row[d] EXCEPT !.lockedBy = w, !.lockAge = worker[w].age]

\* The row under the lease of w, stamped with the claim's `now`.
Claimed(w, d) ==
    [row[d] EXCEPT !.status = "processing", !.lockedBy = w, !.lockAge = worker[w].age]

\* The conditional UPDATE.  It checks the lock again and nothing else.
ClaimUpdate(w, d) ==
    /\ worker[w].phase = "claiming" /\ worker[w].leased = {} /\ d \in worker[w].todo
    /\ LET affected == Present(d) /\ Leasable(d, worker[w].age)
       IN  /\ row' = IF affected THEN [row EXCEPT ![d] = Claimed(w, d)] ELSE row
           /\ worker' = [worker EXCEPT ![w].todo = @ \ {d},
                                       ![w].leased = IF affected THEN {d} ELSE {}]
    /\ UNCHANGED <<attempts, jobs, faults>>

\* The row is read back, as it is by now, and becomes a job of this tick.
ClaimReread(w, d) ==
    /\ worker[w].phase = "claiming" /\ d \in worker[w].leased
    /\ jobs' = IF Present(d)
               THEN jobs \cup {[worker |-> w, delivery |-> d,
                                attempt |-> row[d].attemptCount + 1,
                                age |-> worker[w].age, phase |-> "leased",
                                response |-> NoResponse, wait |-> 0,
                                inBatch |-> TRUE]}
               ELSE jobs
    /\ worker' = [worker EXCEPT ![w].leased = {}]
    /\ UNCHANGED <<row, attempts, faults>>

\* A statement of claimDue fails: the tick is over and its claims are lost, the
\* leases already taken stay until they expire.
ClaimFails(w) ==
    /\ worker[w].phase = "claiming" /\ faults < MaxFaults
    /\ jobs' = jobs \ Batch(w)
    /\ worker' = [worker EXCEPT ![w] = TickDone(w)]
    /\ faults' = faults + 1
    /\ UNCHANGED <<row, attempts>>

InBatch(w) ==
    [worker[w] EXCEPT !.phase = "batch", !.age = 0,
                      !.inFlight = @ + Cardinality(Batch(w))]

\* claimDue returns; every claimed delivery is processed at once.
StartBatch(w) ==
    /\ worker[w].phase = "claiming" /\ worker[w].todo = {} /\ worker[w].leased = {}
    /\ worker' = [worker EXCEPT ![w] = IF Batch(w) = {} THEN TickDone(w) ELSE InBatch(w)]
    /\ UNCHANGED <<row, attempts, jobs, faults>>

\* Promise.all settles because every job has.
EndBatch(w) ==
    /\ worker[w].phase = "batch" /\ Batch(w) = {}
    /\ worker' = [worker EXCEPT ![w] = TickDone(w)]
    /\ UNCHANGED <<row, attempts, jobs, faults>>

------------------------------------------------------------------------------
\* The jobs: process(), send(), recordAttempt()

Running(j) == j.inBatch => worker[j.worker].phase = "batch"

Advance(j, next) == jobs' = (jobs \ {j}) \cup {next}

\* process() throws.  Promise.all rejects with the first failure of its batch:
\* the tick ends while the other jobs keep running, awaited by nobody.
Throw(j) ==
    /\ jobs' = IF j.inBatch
               THEN {IF k.worker = j.worker THEN [k EXCEPT !.inBatch = FALSE] ELSE k :
                       k \in jobs \ {j}}
               ELSE jobs \ {j}
    /\ worker' = IF j.inBatch
                 THEN [worker EXCEPT ![j.worker] = TickDone(j.worker)]
                 ELSE worker

\* The request is signed and sent.
Send(j) ==
    /\ Running(j) /\ j.phase = "leased" /\ j.delivery \notin Poisoned
    /\ Advance(j, [j EXCEPT !.phase = "sending"])
    /\ UNCHANGED <<row, attempts, worker, faults>>

\* The attempt is over and, unless it succeeded, its retry is decided.
Answered(j, response) ==
    [j EXCEPT !.phase = "answered", !.response = response,
              !.wait = IF Succeeded(response) THEN 0
                       ELSE decideRetry(j.attempt, response, MaxAttempts, RetryDelays).delay]

\* The SSRF guard refuses the URL: a failed attempt, nothing is sent.
Refuse(j) ==
    /\ Running(j) /\ j.phase = "leased" /\ j.delivery \notin Poisoned
    /\ Advance(j, Answered(j, NoResponse))
    /\ UNCHANGED <<row, attempts, worker, faults>>

\* revealSigningSecret throws before anything is sent or recorded.
SigningFails(j) ==
    /\ Running(j) /\ j.phase = "leased" /\ j.delivery \in Poisoned
    /\ Throw(j)
    /\ UNCHANGED <<row, attempts, faults>>

\* The answer, the abort timer or a transport error.
Answer(j, response) ==
    /\ j.phase = "sending"
    /\ Advance(j, Answered(j, response))
    /\ UNCHANGED <<row, attempts, worker, faults>>

\* recordAttempt's INSERT; without the delivery row its foreign key fails.
RecordInsert(j) ==
    /\ j.phase = "answered"
    /\ IF Present(j.delivery)
       THEN /\ attempts' = [attempts EXCEPT ![j.delivery] =
                 Append(@, [attempt |-> j.attempt, succeeded |-> Succeeded(j.response)])]
            /\ Advance(j, [j EXCEPT !.phase = "logged"])
            /\ UNCHANGED worker
       ELSE Throw(j) /\ UNCHANGED attempts
    /\ UNCHANGED <<row, faults>>

\* Mutant of Recorded: the attempt is not counted.
Recorded_Uncounted(j) ==
    [row[j.delivery] EXCEPT
        !.status = IF Succeeded(j.response) THEN "success"
                   ELSE IF shouldRetry(j.attempt, j.response, MaxAttempts) THEN "retrying"
                   ELSE "failed",
        !.dueIn = j.wait, !.lockedBy = Nobody, !.lockAge = 0]

\* What recordAttempt's UPDATE makes of the row: by id alone, whoever holds it.
Recorded(j) ==
    [status |-> IF Succeeded(j.response) THEN "success"
                ELSE IF shouldRetry(j.attempt, j.response, MaxAttempts) THEN "retrying"
                ELSE "failed",
     attemptCount |-> j.attempt, dueIn |-> j.wait,
     lockedBy |-> Nobody, lockAge |-> 0]

RecordUpdate(j) ==
    /\ j.phase = "logged"
    /\ row' = IF Present(j.delivery) THEN [row EXCEPT ![j.delivery] = Recorded(j)] ELSE row
    /\ jobs' = jobs \ {j}
    /\ UNCHANGED <<attempts, worker, faults>>

\* A read before the request, or either statement of recordAttempt, fails
\* (SQLITE_BUSY, a full disk).
StatementFails(j) ==
    /\ Running(j) /\ j.phase # "sending" /\ faults < MaxFaults
    /\ Throw(j)
    /\ faults' = faults + 1
    /\ UNCHANGED <<row, attempts>>

------------------------------------------------------------------------------
\* Shutdown, crash and time

\* stop(): no further tick; an armed timer is cleared, a running tick awaited.
Stop(w) ==
    /\ Alive(w) /\ ~worker[w].stopping /\ SpareRun
    /\ worker' = [worker EXCEPT ![w].stopping = TRUE,
                    ![w].phase = IF @ \in Idle THEN "drained" ELSE @]
    /\ UNCHANGED <<row, attempts, jobs, faults>>

Unlocked(d) ==
    [row[d] EXCEPT !.status = "pending", !.lockedBy = Nobody, !.lockAge = 0]

\* releaseWorkerLeases
Release(w) ==
    /\ worker[w].phase = "drained"
    /\ row' = [d \in Deliveries |->
                 IF row[d].lockedBy = w /\ row[d].status = "processing"
                 THEN Unlocked(d) ELSE row[d]]
    /\ worker' = [worker EXCEPT ![w].phase = "released"]
    /\ UNCHANGED <<attempts, jobs, faults>>

\* That statement fails: stop() goes on, the leases stay.
ReleaseFails(w) ==
    /\ worker[w].phase = "drained" /\ faults < MaxFaults
    /\ worker' = [worker EXCEPT ![w].phase = "unreleased"]
    /\ faults' = faults + 1
    /\ UNCHANGED <<row, attempts, jobs>>

\* Phases after stop().
Stopped == {"released", "unreleased"}

Dies(w) ==
    /\ jobs' = jobs \ JobsOf(w)
    /\ worker' = [worker EXCEPT ![w] = [NewWorker EXCEPT !.phase = "dead"]]
    /\ UNCHANGED <<row, attempts, faults>>

\* The database is closed and the process exits.
Exit(w) == worker[w].phase \in Stopped /\ Dies(w)

\* A crash, or the 30 s watchdog of a shutdown that hangs.
Crash(w) == Alive(w) /\ SpareRun /\ Dies(w)

\* A job must end within MaxRun of its claim's `now`: time cannot pass it by.
MayRunOn ==
    /\ \A j \in jobs : j.age < MaxRun
    /\ \A w \in Workers : worker[w].phase = "claiming" => worker[w].age < MaxRun

Less(time) == IF time > 0 THEN time - 1 ELSE 0

\* Ages beyond LockTimeout + MaxRun are all alike to Leasable.
Older(age) == IF age < LockTimeout + MaxRun THEN age + 1 ELSE age

TimePasses ==
    /\ MayRunOn
    /\ row' = [d \in Deliveries |->
         [row[d] EXCEPT !.dueIn = Less(@),
                        !.lockAge = IF row[d].lockedBy = Nobody THEN 0 ELSE Older(@)]]
    /\ worker' = [w \in Workers |->
         [worker[w] EXCEPT !.phase = IF @ = "waiting" THEN "due" ELSE @,
                           !.age = IF worker[w].phase = "claiming" THEN @ + 1 ELSE 0]]
    /\ jobs' = {[j EXCEPT !.age = @ + 1, !.wait = Less(@)] : j \in jobs}
    /\ UNCHANGED <<attempts, faults>>

------------------------------------------------------------------------------
WorkerStep(w) ==
    \/ Start(w) \/ SelectCandidates(w) \/ StartBatch(w) \/ EndBatch(w)
    \/ Release(w) \/ Exit(w)
    \/ \E d \in Deliveries : ClaimUpdate(w, d) \/ ClaimReread(w, d)

JobStep(j) ==
    \/ Send(j) \/ Refuse(j) \/ SigningFails(j)
    \/ \E response \in Responses : Answer(j, response)
    \/ RecordInsert(j) \/ RecordUpdate(j)

Disturbance(w) == ClaimFails(w) \/ ReleaseFails(w) \/ Stop(w) \/ Crash(w)

Next ==
    \/ \E D \in SUBSET Deliveries : Enqueue(D)
    \/ \E d \in Deliveries : Purge(d) \/ Cascade(d)
    \/ \E w \in Workers : WorkerStep(w) \/ Disturbance(w)
    \/ \E j \in jobs : JobStep(j) \/ StatementFails(j)
    \/ TimePasses

Spec == Init /\ [][Next]_vars

\* The event loop runs every ready callback, timers and timeouts fire, and the
\* supervisor restarts the service.  Arrivals, deletions, shutdowns, crashes and
\* faults are not owed.
Fairness ==
    /\ \A w \in Workers : WF_vars(WorkerStep(w))
    /\ \A w \in Workers, d \in Deliveries :
          WF_vars(\E j \in jobs : j.worker = w /\ j.delivery = d /\ JobStep(j))
    /\ WF_vars(TimePasses)

FairSpec == Spec /\ Fairness

------------------------------------------------------------------------------
(***************************************************************************)
(* Properties                                                              *)
(***************************************************************************)

\* A delivery is never run by two jobs at once, whatever processes they belong
\* to: the promise of claimDue's conditional UPDATE.
NoConcurrentRun == \A j, k \in jobs : j.delivery = k.delivery => j = k

\* The lease behind that promise: until its worker has released its leases, a
\* job's row, if still there, is processing under the lock taken for that job.
LeaseHeld ==
    \A j \in jobs :
        worker[j.worker].phase # "released" /\ Present(j.delivery)
        => /\ row[j.delivery].status = "processing"
           /\ row[j.delivery].lockedBy = j.worker
           /\ row[j.delivery].lockAge = j.age

\* The history of a delivery explains its row: attempt numbers only grow, by
\* one at most; the counter is the last number, or one behind while an attempt
\* is logged but not yet counted; a completed delivery ends as its last attempt.
HistoryExplainsRow ==
    \A d \in Deliveries :
        LET log  == attempts[d]
            last == IF log = <<>> THEN 0 ELSE log[Len(log)].attempt
        IN  /\ \A i \in 1..Len(log) :
                  LET before == IF i = 1 THEN 0 ELSE log[i - 1].attempt
                  IN  log[i].attempt \in {before, before + 1} \ {0}
            /\ last \in {row[d].attemptCount, row[d].attemptCount + 1}
            /\ row[d].status \in Completed =>
                  /\ last = row[d].attemptCount
                  /\ log[Len(log)].succeeded <=> row[d].status = "success"

\* Graceful shutdown lets the attempts in hand finish before it gives their
\* leases back.
StopWaitsForJobs == \A w \in Workers : worker[w].phase \in Stopped => JobsOf(w) = {}

\* A completed delivery is history: it is never run again and never changes,
\* it can only be deleted.
CompletedIsFinal ==
    [][\A d \in Deliveries : row[d].status \in Completed =>
          row'[d] \in {row[d], Deleted}]_vars

\* A delivery scheduled for a retry is not claimed before its backoff is over.
RetryNotEarly ==
    [][\A d \in Deliveries :
          row[d].status = "retrying" /\ row[d].dueIn > 0 => row'[d].status # "processing"]_vars

\* Why one process at a time never runs a delivery twice, as an inductive
\* invariant: no run outlives MaxRun, what a worker has in hand exists and is
\* its own, and the lease of every claim and of every job is in place.
Ages ==
    /\ \A j \in jobs : j.age <= MaxRun
    /\ \A w \in Workers : worker[w].phase = "claiming" => worker[w].age <= MaxRun

InHand ==
    /\ \A j \in jobs :
          /\ Alive(j.worker)
          /\ j.inBatch => worker[j.worker].phase \in {"claiming", "batch"}
          /\ row[j.delivery].status # "absent"
    /\ \A w \in Workers : worker[w].leased # {} => worker[w].phase = "claiming"

OneAlive == \A v, w \in Workers : Alive(v) /\ Alive(w) => v = w

ClaimHeld ==
    \A w \in Workers : \A d \in worker[w].leased :
        /\ \A j \in jobs : j.delivery # d
        /\ row[d].status # "absent"
        /\ Present(d) => /\ row[d].status = "processing"
                         /\ row[d].lockedBy = w
                         /\ row[d].lockAge = worker[w].age

LeaseInv ==
    TypeOK /\ Ages /\ InHand /\ OneAlive /\ ClaimHeld /\ LeaseHeld /\ NoConcurrentRun

\* The queue implements the abstract life of a delivery.
StageOf(d) ==
    CASE row[d].status \in {"pending", "retrying"} -> "waiting"
      [] row[d].status = "processing" -> "running"
      [] OTHER -> row[d].status

Lifecycle == INSTANCE DeliveryLifecycle WITH
    stage <- [d \in Deliveries |-> StageOf(d)],
    count <- [d \in Deliveries |-> row[d].attemptCount]

ImplementsLifecycle == Lifecycle!Spec

\* Every delivery is eventually settled, across crashes, redeploys and failing
\* destinations: it succeeds, fails for good or is deleted.
EventuallySettled ==
    \A d \in Deliveries : row[d].status \in Open ~> row[d].status \notin Open

\* A worker asked to stop does stop.
StopEnds == \A w \in Workers : worker[w].stopping ~> worker[w].phase = "dead"
==============================================================================
