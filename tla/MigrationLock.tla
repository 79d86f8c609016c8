----------------------------- MODULE MigrationLock -----------------------------
(***************************************************************************)
(* The migration lock (db/migrate.ts): processes that start on the same    *)
(* volume take a row as a lock before they migrate the schema.  The lock   *)
(* is three statements, each awaited: read it, delete it if it is stale,   *)
(* insert it.  drizzle's migrate is external: it reads how far the schema  *)
(* is and applies what is missing as one batch.                            *)
(*                                                                         *)
(* Time is relative, in units of the 500 ms between two tries.             *)
(***************************************************************************)
EXTENDS Integers

CONSTANTS
    Processes,   \* runs of the process; a restart is another member
    NoOwner,     \* there is no row
    Ttl,         \* LOCK_TTL_MS
    MaxHold,     \* longest time from a try's `now` to the end of its migration
    Overlapping, \* the processes that may start while another one runs
    Mortal,      \* the processes that may die
    Failing      \* the processes whose batch or release may fail (a full disk)

ASSUME MigrationAssumption ==
    /\ NoOwner \notin Processes
    /\ Ttl \in Nat \ {0}
    /\ MaxHold \in Nat
    /\ Overlapping \subseteq Processes
    /\ Mortal \subseteq Processes
    /\ Failing \subseteq Processes

VARIABLES
    lock,      \* the row of migration_lock: owner and now - acquired_at
    schema,    \* the schema of the database, before or after the migration
    process    \* the processes in runMigrations

vars == <<lock, schema, process>>

------------------------------------------------------------------------------
\* Types

\* off: not started; reading, deleting, inserting: inside acquireLock; waiting:
\* asleep between two tries; locked, applying: inside migrate; releasing: in the
\* finally block; ready, failed: runMigrations has returned or thrown;
\* dead: it died, or threw without having deleted its lock.
Phase == {"off", "reading", "deleting", "inserting", "waiting", "locked", "applying",
          "releasing", "ready", "failed", "dead"}

Schema == {"old", "new"}

\* nowAge: time since the try read `now`; waited: time since the first try;
\* seen: the schema migrate found; ok: it has applied what was missing.
Process == [phase: Phase, nowAge: Nat, waited: Nat, seen: Schema, ok: BOOLEAN]

TypeOK ==
    /\ lock \in [owner: Processes \cup {NoOwner}, age: Nat]
    /\ schema \in Schema
    /\ process \in [Processes -> Process]

NoLock == [owner |-> NoOwner, age |-> 0]

Init ==
    /\ lock = NoLock
    /\ schema = "old"
    /\ process = [p \in Processes |->
         [phase |-> "off", nowAge |-> 0, waited |-> 0, seen |-> "old", ok |-> FALSE]]

Running(p)   == process[p].phase \notin {"off", "dead", "ready", "failed"}
Trying(p)    == process[p].phase \in {"reading", "deleting", "inserting"}
Migrating(p) == process[p].phase \in {"locked", "applying"}

\* It has inserted its lock and not deleted it.
Holding(p)   == Migrating(p) \/ process[p].phase = "releasing"

Go(p, phase) == process' = [process EXCEPT ![p].phase = phase]

------------------------------------------------------------------------------
\* acquireLock

\* The supervisor starts the service again when all earlier ones are gone.
MayStart(p) ==
    \/ p \in Overlapping
    \/ \A q \in Processes \ {p} :
          \/ process[q].phase \in {"dead", "failed"}
          \/ q \notin Overlapping /\ process[q].phase = "off"

Start(p) ==
    /\ process[p].phase = "off"
    /\ MayStart(p)
    /\ Go(p, "reading")
    /\ UNCHANGED <<lock, schema>>

\* The try failed: another one in a while, unless the deadline has passed.
TryLater(p) == Go(p, IF process[p].waited < Ttl THEN "waiting" ELSE "failed")

\* Mutant of Stale: any lock may be taken over.
Stale_Always(p) == TRUE

\* Mutant of Stale: the lock of a dead process would stay.
Stale_Never(p) == FALSE

\* now - acquired_at >= LOCK_TTL_MS
Stale(p) == lock.age - process[p].nowAge >= Ttl

ReadLock(p) ==
    /\ process[p].phase = "reading"
    /\ IF lock.owner = NoOwner THEN Go(p, "inserting")
       ELSE IF Stale(p) THEN Go(p, "deleting")
       ELSE TryLater(p)
    /\ UNCHANGED <<lock, schema>>

\* The stale lock is deleted by its key: whatever lock is there by now goes.
DeleteStale(p) ==
    /\ process[p].phase = "deleting"
    /\ lock' = NoLock
    /\ Go(p, "inserting")
    /\ UNCHANGED schema

\* The primary key lets one INSERT through; acquired_at is the try's `now`.
InsertLock(p) ==
    /\ process[p].phase = "inserting"
    /\ IF lock.owner = NoOwner
       THEN lock' = [owner |-> p, age |-> process[p].nowAge] /\ Go(p, "locked")
       ELSE UNCHANGED lock /\ TryLater(p)
    /\ UNCHANGED schema

------------------------------------------------------------------------------
\* migrate and releaseLock

ReadSchema(p) ==
    /\ process[p].phase = "locked"
    /\ process' = [process EXCEPT ![p].phase = "applying", ![p].seen = schema]
    /\ UNCHANGED <<lock, schema>>

\* What was missing is applied in one batch; it fails on a schema that has it.
ApplySchema(p) ==
    /\ process[p].phase = "applying"
    /\ LET ok == process[p].seen = schema \/ process[p].seen = "new"
       IN  /\ schema' = IF ok THEN "new" ELSE schema
           /\ process' = [process EXCEPT ![p].phase = "releasing", ![p].ok = ok]
    /\ UNCHANGED lock

ApplyFails(p) ==
    /\ process[p].phase = "applying" /\ p \in Failing
    /\ Go(p, "releasing")
    /\ UNCHANGED <<lock, schema>>

\* Mutant of ReleasedLock: nothing is deleted.
ReleasedLock_Kept(p) == lock

\* DELETE ... WHERE key = ? AND owner = ?
ReleasedLock(p) == IF lock.owner = p THEN NoLock ELSE lock

\* Mutant of Outcome: the finally block would swallow the error.
Outcome_Swallowed(p) == "ready"

\* The error of migrate, if any, goes on after the finally block.
Outcome(p) == IF process[p].ok THEN "ready" ELSE "failed"

Release(p) ==
    /\ process[p].phase = "releasing"
    /\ lock' = ReleasedLock(p)
    /\ Go(p, Outcome(p))
    /\ UNCHANGED schema

\* The DELETE throws: the process ends, whatever became of migrate, and the lock stays.
ReleaseFails(p) ==
    /\ process[p].phase = "releasing" /\ p \in Failing
    /\ Go(p, "dead")
    /\ UNCHANGED <<lock, schema>>

------------------------------------------------------------------------------
Crash(p) ==
    /\ p \in Mortal /\ Running(p)
    /\ Go(p, "dead")
    /\ UNCHANGED <<lock, schema>>

\* A try and the migration it leads to end within MaxHold.
MayHoldOn ==
    \A p \in Processes :
        Trying(p) \/ Holding(p) => process[p].nowAge < MaxHold

\* Ages beyond this bound are all alike to Stale and to the deadline.
Older(age) == IF age < Ttl + MaxHold THEN age + 1 ELSE age

\* A unit of time later: the next try starts, or what is in hand goes on.
Aged(p) ==
    [process[p] EXCEPT
        !.phase = IF @ = "waiting" THEN "reading" ELSE @,
        !.nowAge = IF Trying(p) \/ Holding(p) THEN @ + 1 ELSE 0,
        !.waited = IF Trying(p) \/ process[p].phase = "waiting" THEN Older(@) ELSE @]

TimePasses ==
    /\ MayHoldOn
    /\ lock' = IF lock.owner = NoOwner THEN lock ELSE [lock EXCEPT !.age = Older(@)]
    /\ process' = [p \in Processes |-> Aged(p)]
    /\ UNCHANGED schema

ProcessStep(p) ==
    \/ Start(p) \/ ReadLock(p) \/ DeleteStale(p) \/ InsertLock(p)
    \/ ReadSchema(p) \/ ApplySchema(p) \/ ApplyFails(p) \/ Release(p)

Next ==
    \/ \E p \in Processes : ProcessStep(p) \/ ReleaseFails(p) \/ Crash(p)
    \/ TimePasses

Spec == Init /\ [][Next]_vars

\* Statements complete, timers fire, and the supervisor (restart: unless-stopped)
\* starts the service again when it has gone.
FairSpec ==
    /\ Spec
    /\ \A p \in Processes : WF_vars(ProcessStep(p))
    /\ WF_vars(TimePasses)

------------------------------------------------------------------------------
(***************************************************************************)
(* Properties                                                              *)
(***************************************************************************)

\* No process has died in runMigrations, and none has failed to delete its lock.
NobodyDied == \A p \in Processes : process[p].phase # "dead"

\* Two processes never migrate at the same time, which is what the lock is for, as
\* long as none has died or failed to release it (migrate.ts:29-76, 102).
NoConcurrentMigration ==
    NobodyDied => \A p, q \in Processes : Migrating(p) /\ Migrating(q) => p = q

\* A process serves only on the new schema, even if its own migration failed or
\* another process died in the middle of one.
ReadyMeansMigrated == \A p \in Processes : process[p].phase = "ready" => schema = "new"

\* When everyone is done, nobody died and no release failed, no lock is left behind for
\* the next start to wait for.
NoLockLeft ==
    (\A p \in Processes : process[p].phase \in {"off", "ready", "failed"})
        => lock.owner = NoOwner

\* A process that dies with the lock, or cannot delete it, does not keep the service
\* down: some later start gets through.
ServiceComesUp == <>(\E p \in Processes : process[p].phase = "ready")

\* Why the lock works while nobody dies and every release succeeds: until then no lock is
\* ever stale.
LockInv ==
    /\ TypeOK
    /\ \A p \in Processes :
          /\ process[p].phase \notin {"deleting", "dead"}
          /\ Holding(p) => lock = [owner |-> p, age |-> process[p].nowAge]
          /\ lock.owner = p => Holding(p)
          /\ process[p].nowAge <= MaxHold
==============================================================================
