---------------------------- MODULE ProcessProofs ----------------------------
(***************************************************************************)
(* What holds of a process from its migrations to its exit.                *)
(*                                                                         *)
(* The migration lock works, for any number of processes, until one of     *)
(* them dies or fails to delete it, if none migrates longer than           *)
(* LOCK_TTL_MS: until then no lock is ever stale and the DELETE by key is  *)
(* never run.  The invariant is TypeOK /\ (NobodyDied => LockInv): the     *)
(* dead stay dead, so once somebody has died only the types remain to be   *)
(* kept.                                                                   *)
(*                                                                         *)
(* A process that has come up is a Service: the last section shows that    *)
(* its shutdown closes the database under nothing it should have waited    *)
(* for.                                                                    *)
(***************************************************************************)
EXTENDS MigrationLock, ServiceState, TLAPS

\* While the lock is held it is young, so nobody takes it for stale.
LEMMA HeldNotStale ==
    ASSUME LockInv, MaxHold < Ttl, NEW p \in Processes, lock.owner # NoOwner
    PROVE  ~Stale(p)
  <1>1. lock.owner \in Processes /\ lock.age \in Nat /\ process[p].nowAge \in Nat
    BY DEF LockInv, TypeOK, Process
  <1>2. Holding(lock.owner)
    BY <1>1 DEF LockInv, Holding
  <1>3. lock.age = process[lock.owner].nowAge /\ process[lock.owner].nowAge <= MaxHold
        /\ process[lock.owner].nowAge \in Nat
    BY <1>1, <1>2 DEF LockInv, Holding, TypeOK, Process
  <1>4. QED
    BY <1>1, <1>3, MigrationAssumption DEF Stale

\* A step that only moves p to another phase outside the critical section.
LEMMA GoKeeps ==
    ASSUME LockInv, NEW p \in Processes, NEW phase \in Phase \ {"deleting", "dead"},
           process' = [process EXCEPT ![p].phase = phase], UNCHANGED <<lock, schema>>,
           Holding(p) <=> phase \in {"locked", "applying", "releasing"}
    PROVE  LockInv'
  <1>1. process \in [Processes -> Process]
    BY DEF LockInv, TypeOK
  <1>2. [process[p] EXCEPT !.phase = phase] \in Process
    BY <1>1 DEF Process
  <1>3. process' \in [Processes -> Process]
    BY <1>1, <1>2
  <1>4. /\ process'[p].phase = phase /\ process'[p].nowAge = process[p].nowAge
        /\ \A q \in Processes \ {p} : process'[q] = process[q]
    BY <1>1 DEF Process
  <1>5. \A q \in Processes : Holding(q)' <=> Holding(q)
    BY <1>4 DEF Holding, Migrating
  <1>6. QED
    BY <1>3, <1>4, <1>5 DEF LockInv, TypeOK, Holding

LEMMA LockInit == Init => LockInv
  <1> SUFFICES ASSUME Init PROVE LockInv
    OBVIOUS
  <1>1. TypeOK
    BY MigrationAssumption DEF Init, TypeOK, NoLock, Process, Phase, Schema
  <1>2. \A p \in Processes : process[p].phase = "off" /\ process[p].nowAge = 0
    BY DEF Init
  <1>3. lock.owner \notin Processes
    BY MigrationAssumption DEF Init, NoLock
  <1>4. QED
    BY <1>1, <1>2, <1>3, MigrationAssumption DEF LockInv, Holding, Migrating

LEMMA LockNext ==
    ASSUME MaxHold < Ttl, LockInv, [Next]_vars
    PROVE  NobodyDied' => LockInv'
  <1>1. /\ process \in [Processes -> Process]
        /\ lock \in [owner: Processes \cup {NoOwner}, age: Nat]
        /\ schema \in Schema
    BY DEF LockInv, TypeOK
  <1>2. ASSUME NEW p \in Processes, ProcessStep(p) PROVE LockInv'
    <2>1. process[p] \in Process /\ process[p].phase # "deleting"
      BY <1>1 DEF LockInv
    <2>2. CASE Start(p)
      BY <2>2, GoKeeps DEF Start, Go, Holding, Migrating, Phase
    <2>3. CASE ReadLock(p)
      <3>1. \E phase \in {"inserting", "waiting", "failed"} :
               process' = [process EXCEPT ![p].phase = phase]
        BY <2>3, HeldNotStale DEF ReadLock, TryLater, Go
      <3>2. UNCHANGED <<lock, schema>> /\ ~Holding(p)
        BY <2>3 DEF ReadLock, Holding, Migrating
      <3>3. QED
        BY <3>1, <3>2, GoKeeps DEF Phase
    <2>4. CASE DeleteStale(p)
      BY <2>1, <2>4 DEF DeleteStale
    <2>5. CASE InsertLock(p)
      <3>1. ~Holding(p) /\ schema' = schema
        BY <2>5 DEF InsertLock, Holding, Migrating
      <3>2. CASE lock.owner = NoOwner
        <4>1. /\ lock' = [owner |-> p, age |-> process[p].nowAge]
              /\ process' = [process EXCEPT ![p].phase = "locked"]
          BY <2>5, <3>2 DEF InsertLock, Go
        <4>2. [process[p] EXCEPT !.phase = "locked"] \in Process
          BY <2>1 DEF Process, Phase
        <4>3. /\ process'[p].phase = "locked" /\ process'[p].nowAge = process[p].nowAge
              /\ \A q \in Processes \ {p} : process'[q] = process[q]
          BY <1>1, <4>1 DEF Process
        <4>4. TypeOK'
          BY <1>1, <2>1, <3>1, <4>1, <4>2 DEF TypeOK, Process
        <4>5. \A q \in Processes : ~Holding(q)
          BY <3>2, MigrationAssumption DEF LockInv, Holding
        <4>6. \A q \in Processes : Holding(q)' <=> q = p
          BY <4>3, <4>5 DEF Holding, Migrating
        <4>7. QED
          BY <4>1, <4>3, <4>4, <4>6 DEF LockInv, Holding
      <3>3. CASE lock.owner # NoOwner
        <4>1. \E phase \in {"waiting", "failed"} :
                 process' = [process EXCEPT ![p].phase = phase]
          BY <2>5, <3>3 DEF InsertLock, TryLater, Go
        <4>2. UNCHANGED lock
          BY <2>5, <3>3 DEF InsertLock
        <4>3. QED
          BY <3>1, <4>1, <4>2, GoKeeps DEF Phase
      <3>4. QED
        BY <3>2, <3>3
    <2>6. CASE ReadSchema(p) \/ ApplySchema(p)
      <3> DEFINE new == process'[p]
      <3>1. /\ new \in Process /\ new.phase \in {"applying", "releasing"}
            /\ new.nowAge = process[p].nowAge
            /\ process' = [process EXCEPT ![p] = new]
            /\ lock' = lock /\ schema' \in Schema
        <4>1. CASE ReadSchema(p)
          <5>1. process' = [process EXCEPT ![p] =
                   [process[p] EXCEPT !.phase = "applying", !.seen = schema]]
            BY <1>1, <4>1 DEF ReadSchema
          <5>2. [process[p] EXCEPT !.phase = "applying", !.seen = schema] \in Process
            BY <1>1, <2>1 DEF Process, Phase
          <5>3. QED
            BY <1>1, <2>1, <4>1, <5>1, <5>2 DEF ReadSchema, Process
        <4>2. CASE ApplySchema(p)
          <5> DEFINE ok == process[p].seen = schema \/ process[p].seen = "new"
          <5>1. process' = [process EXCEPT ![p] =
                   [process[p] EXCEPT !.phase = "releasing", !.ok = ok]]
            BY <1>1, <4>2 DEF ApplySchema
          <5>2. ok \in BOOLEAN
            OBVIOUS
          <5>3. lock' = lock /\ schema' \in Schema
            BY <1>1, <4>2 DEF ApplySchema, Schema
          <5> HIDE DEF ok
          <5>4. [process[p] EXCEPT !.phase = "releasing", !.ok = ok] \in Process
            BY <2>1, <5>2 DEF Process, Phase
          <5>5. QED
            BY <1>1, <2>1, <5>1, <5>3, <5>4 DEF Process
        <4>3. QED
          BY <2>6, <4>1, <4>2
      <3>2. Holding(p)
        BY <2>6 DEF ReadSchema, ApplySchema, Holding, Migrating
      <3> HIDE DEF new
      <3>3. process'[p] = new /\ \A q \in Processes \ {p} : process'[q] = process[q]
        BY <1>1, <3>1
      <3>4. \A q \in Processes : Holding(q)' <=> Holding(q)
        BY <3>1, <3>2, <3>3 DEF Holding, Migrating
      <3>5. TypeOK'
        BY <1>1, <3>1 DEF TypeOK
      <3>6. QED
        BY <3>1, <3>3, <3>4, <3>5 DEF LockInv, Holding
    <2>7. CASE ApplyFails(p)
      BY <2>7, GoKeeps DEF ApplyFails, Go, Holding, Migrating, Phase
    <2>8. CASE Release(p)
      <3>1. PICK phase \in {"ready", "failed"} :
               process' = [process EXCEPT ![p].phase = phase]
        BY <2>8 DEF Release, Outcome, Go
      <3>2. Holding(p) /\ schema' = schema
        BY <2>8 DEF Release, Holding
      <3>3. lock.owner = p
        BY <3>2 DEF LockInv, Holding
      <3>4. lock' = NoLock
        BY <2>8, <3>3 DEF Release, ReleasedLock
      <3>5. [process[p] EXCEPT !.phase = phase] \in Process
        BY <2>1, <3>1 DEF Process, Phase
      <3>6. /\ process'[p].phase = phase /\ process'[p].nowAge = process[p].nowAge
            /\ \A q \in Processes \ {p} : process'[q] = process[q]
        BY <1>1, <3>1 DEF Process
      <3>7. TypeOK'
        BY <1>1, <3>1, <3>2, <3>4, <3>5 DEF TypeOK, NoLock
      <3>8. \A q \in Processes : Holding(q) => q = p
        BY <3>3 DEF LockInv, Holding
      <3>9. \A q \in Processes : ~Holding(q)'
        BY <3>1, <3>6, <3>8 DEF Holding, Migrating
      <3>10. lock'.owner \notin Processes
        BY <3>4, MigrationAssumption DEF NoLock
      <3>11. QED
        BY <3>1, <3>6, <3>7, <3>9, <3>10 DEF LockInv, Holding
    <2>9. QED
      BY <1>2, <2>2, <2>3, <2>4, <2>5, <2>6, <2>7, <2>8 DEF ProcessStep
  <1>3. ASSUME NEW p \in Processes, ReleaseFails(p) \/ Crash(p) PROVE ~NobodyDied'
    <2>1. process'[p].phase = "dead"
      BY <1>1, <1>3 DEF ReleaseFails, Crash, Go, Process
    <2>2. QED
      BY <2>1 DEF NobodyDied
  <1>4. CASE TimePasses
    <2>1. \A p \in Processes : process[p].nowAge \in Nat /\ process[p].waited \in Nat
                               /\ process[p] \in Process
      BY <1>1 DEF Process
    <2>2. \A p \in Processes :
             /\ process'[p] \in Process
             /\ process'[p].phase = IF process[p].phase = "waiting" THEN "reading"
                                    ELSE process[p].phase
             /\ process'[p].nowAge = IF Trying(p) \/ Holding(p)
                                     THEN process[p].nowAge + 1 ELSE 0
      <3> TAKE p \in Processes
      <3> DEFINE phase  == IF process[p].phase = "waiting" THEN "reading" ELSE process[p].phase
                 nowAge == IF Trying(p) \/ Holding(p) THEN process[p].nowAge + 1 ELSE 0
                 waited == IF Trying(p) \/ process[p].phase = "waiting"
                           THEN Older(process[p].waited) ELSE process[p].waited
      <3>1. process'[p] = [process[p] EXCEPT !.phase = phase, !.nowAge = nowAge,
                                             !.waited = waited]
        BY <1>4 DEF TimePasses, Aged
      <3>2. phase \in Phase /\ nowAge \in Nat
        BY <2>1 DEF Process, Phase
      <3>3. waited \in Nat
        BY <2>1 DEF Older
      <3> HIDE DEF phase, nowAge, waited
      <3>4. process'[p] \in Process
        BY <2>1, <3>1, <3>2, <3>3, Zenon DEF Process
      <3>5. process'[p].phase = phase /\ process'[p].nowAge = nowAge
        BY <2>1, <3>1 DEF Process
      <3>6. QED
        BY <3>4, <3>5 DEF phase, nowAge
    <2>3. \A p \in Processes : Trying(p) \/ Holding(p) => process[p].nowAge < MaxHold
      BY <1>4 DEF TimePasses, MayHoldOn
    <2>4. /\ lock'.owner = lock.owner /\ lock'.age \in Nat
          /\ lock' \in [owner: Processes \cup {NoOwner}, age: Nat]
          /\ \A p \in Processes : Holding(p) => lock' = [owner |-> p, age |-> process[p].nowAge + 1]
      <3>1. CASE lock.owner = NoOwner
        <4>1. \A p \in Processes : Holding(p) => lock.owner = p
          BY DEF LockInv, Holding
        <4>2. \A p \in Processes : ~Holding(p)
          BY <3>1, <4>1, MigrationAssumption
        <4>3. lock' = lock
          BY <1>4, <3>1 DEF TimePasses
        <4>4. QED
          BY <1>1, <4>2, <4>3
      <3>2. CASE lock.owner # NoOwner
        <4>1. lock.owner \in Processes /\ lock.age \in Nat /\ Holding(lock.owner)
          BY <1>1, <3>2 DEF LockInv, Holding
        <4>2. lock.age = process[lock.owner].nowAge
          BY <4>1 DEF LockInv, Holding
        <4>3. Older(lock.age) = lock.age + 1
          BY <2>1, <2>3, <4>1, <4>2, MigrationAssumption DEF Older
        <4>4. lock' = [lock EXCEPT !.age = lock.age + 1]
          BY <1>4, <3>2, <4>3 DEF TimePasses
        <4>5. \A p \in Processes : Holding(p) => p = lock.owner
          BY DEF LockInv, Holding
        <4>6. lock' = [owner |-> lock.owner, age |-> lock.age + 1]
          BY <1>1, <4>1, <4>4
        <4>7. QED
          BY <4>1, <4>2, <4>5, <4>6
      <3>3. QED
        BY <3>1, <3>2
    <2>5. \A p \in Processes : Holding(p)' <=> Holding(p)
      BY <2>2 DEF Holding, Migrating
    <2>6. TypeOK'
      <3>1. process' \in [Processes -> Process]
        BY <1>4, <2>2 DEF TimePasses
      <3>2. schema' = schema
        BY <1>4 DEF TimePasses
      <3>3. QED
        BY <1>1, <2>4, <3>1, <3>2 DEF TypeOK
    <2>7. \A p \in Processes : process'[p].nowAge <= MaxHold
      BY <2>1, <2>2, <2>3, MigrationAssumption DEF LockInv
    <2>8. QED
      BY <2>2, <2>4, <2>5, <2>6, <2>7 DEF LockInv, Holding
  <1>5. CASE UNCHANGED vars
    BY <1>5 DEF LockInv, TypeOK, Holding, Migrating, vars
  <1>6. QED
    BY <1>2, <1>3, <1>4, <1>5 DEF Next

\* The next record of a process is one of [seen, ok, phase, ...] again, whatever step
\* it takes; the dead take none.
LEMMA StepTypes ==
    ASSUME TypeOK, NEW p \in Processes, ProcessStep(p) \/ ReleaseFails(p) \/ Crash(p)
    PROVE  /\ process[p].phase # "dead"
           /\ \E new \in Process : process' = [process EXCEPT ![p] = new]
           /\ lock' \in [owner: Processes \cup {NoOwner}, age: Nat]
           /\ schema' \in Schema
  <1>1. /\ process \in [Processes -> Process] /\ process[p] \in Process
        /\ lock \in [owner: Processes \cup {NoOwner}, age: Nat]
        /\ schema \in Schema
    BY DEF TypeOK
  <1>2. ASSUME NEW phase \in Phase, Go(p, phase)
        PROVE  \E new \in Process : process' = [process EXCEPT ![p] = new]
    <2>1. [process[p] EXCEPT !.phase = phase] \in Process
      BY <1>1 DEF Process
    <2>2. process' = [process EXCEPT ![p] = [process[p] EXCEPT !.phase = phase]]
      BY <1>1, <1>2 DEF Go
    <2>3. QED
      BY <2>1, <2>2
  <1>3. CASE Start(p) \/ ReadLock(p) \/ ApplyFails(p) \/ ReleaseFails(p) \/ Crash(p)
    <2>1. process[p].phase # "dead" /\ UNCHANGED <<lock, schema>>
      BY <1>3 DEF Start, ReadLock, ApplyFails, ReleaseFails, Crash, Running
    <2>2. \E phase \in Phase : Go(p, phase)
      BY <1>3 DEF Start, ReadLock, TryLater, ApplyFails, ReleaseFails, Crash, Phase
    <2>3. QED
      BY <1>1, <1>2, <2>1, <2>2
  <1>4. CASE DeleteStale(p) \/ InsertLock(p) \/ Release(p)
    <2>1. process[p].phase # "dead" /\ UNCHANGED schema
      BY <1>4 DEF DeleteStale, InsertLock, Release
    <2>2. \E phase \in Phase : Go(p, phase)
      BY <1>4 DEF DeleteStale, InsertLock, Release, TryLater, Outcome, Phase
    <2>3. lock' \in [owner: Processes \cup {NoOwner}, age: Nat]
      BY <1>1, <1>4 DEF DeleteStale, InsertLock, Release, ReleasedLock, NoLock, Process
    <2>4. QED
      BY <1>1, <1>2, <2>1, <2>2, <2>3
  <1>5. CASE ReadSchema(p)
    <2>1. [process[p] EXCEPT !.phase = "applying", !.seen = schema] \in Process
      BY <1>1 DEF Process, Phase
    <2>2. process' = [process EXCEPT ![p] =
                         [process[p] EXCEPT !.phase = "applying", !.seen = schema]]
      BY <1>1, <1>5 DEF ReadSchema
    <2>3. process[p].phase # "dead" /\ UNCHANGED <<lock, schema>>
      BY <1>5 DEF ReadSchema
    <2>4. QED
      BY <1>1, <2>1, <2>2, <2>3
  <1>6. CASE ApplySchema(p)
    <2> DEFINE ok == process[p].seen = schema \/ process[p].seen = "new"
    <2>1. process' = [process EXCEPT ![p] = [process[p] EXCEPT !.phase = "releasing", !.ok = ok]]
      BY <1>1, <1>6 DEF ApplySchema
    <2>2. ok \in BOOLEAN
      OBVIOUS
    <2>3. process[p].phase # "dead" /\ lock' = lock /\ schema' \in Schema
      BY <1>1, <1>6 DEF ApplySchema, Schema
    <2> HIDE DEF ok
    <2>4. [process[p] EXCEPT !.phase = "releasing", !.ok = ok] \in Process
      BY <1>1, <2>2 DEF Process, Phase
    <2>5. QED
      BY <1>1, <2>1, <2>3, <2>4
  <1>7. QED
    BY <1>3, <1>4, <1>5, <1>6 DEF ProcessStep

LEMMA AgedTypes ==
    ASSUME TypeOK, NEW p \in Processes
    PROVE  /\ Aged(p) \in Process
           /\ process[p].phase = "dead" => Aged(p).phase = "dead"
  <1> DEFINE phase  == IF process[p].phase = "waiting" THEN "reading" ELSE process[p].phase
             nowAge == IF Trying(p) \/ Holding(p) THEN process[p].nowAge + 1 ELSE 0
             waited == IF Trying(p) \/ process[p].phase = "waiting"
                       THEN Older(process[p].waited) ELSE process[p].waited
  <1>1. process[p] \in Process
    BY DEF TypeOK
  <1>2. Aged(p) = [process[p] EXCEPT !.phase = phase, !.nowAge = nowAge, !.waited = waited]
    BY DEF Aged
  <1>3. phase \in Phase /\ nowAge \in Nat /\ waited \in Nat
    BY <1>1 DEF Process, Phase, Older
  <1>4. process[p].phase = "dead" => phase = "dead"
    OBVIOUS
  <1> HIDE DEF phase, nowAge, waited
  <1>5. Aged(p) \in Process
    BY <1>1, <1>2, <1>3, Zenon DEF Process
  <1>6. Aged(p).phase = phase
    BY <1>1, <1>2 DEF Process
  <1>7. QED
    BY <1>4, <1>5, <1>6

\* The types are kept by every step, and the dead stay dead.
LEMMA TypeNext ==
    ASSUME TypeOK, [Next]_vars
    PROVE  TypeOK' /\ (NobodyDied' => NobodyDied)
  <1>1. ASSUME NEW p \in Processes, ProcessStep(p) \/ ReleaseFails(p) \/ Crash(p)
        PROVE  TypeOK' /\ (NobodyDied' => NobodyDied)
    <2>1. PICK new \in Process : process' = [process EXCEPT ![p] = new]
      BY <1>1, StepTypes
    <2>2. process[p].phase # "dead"
      BY <1>1, StepTypes
    <2>3. /\ process' \in [Processes -> Process]
          /\ \A q \in Processes \ {p} : process'[q] = process[q]
      BY <2>1 DEF TypeOK
    <2>4. TypeOK'
      BY <1>1, <2>3, StepTypes DEF TypeOK
    <2>5. QED
      BY <2>2, <2>3, <2>4 DEF NobodyDied
  <1>2. CASE TimePasses
    <2>1. process' = [p \in Processes |-> Aged(p)] /\ schema' = schema
      BY <1>2 DEF TimePasses
    <2>2. process' \in [Processes -> Process]
      BY <2>1, AgedTypes
    <2>3. lock' \in [owner: Processes \cup {NoOwner}, age: Nat]
      <3>1. lock \in [owner: Processes \cup {NoOwner}, age: Nat] /\ Older(lock.age) \in Nat
        BY DEF TypeOK, Older
      <3>2. lock' = lock \/ lock' = [lock EXCEPT !.age = Older(lock.age)]
        BY <1>2 DEF TimePasses
      <3>3. QED
        BY <3>1, <3>2
    <2>4. TypeOK'
      BY <2>1, <2>2, <2>3 DEF TypeOK
    <2>5. \A p \in Processes : process[p].phase = "dead" => process'[p].phase = "dead"
      BY <2>1, AgedTypes
    <2>6. QED
      BY <2>4, <2>5 DEF NobodyDied
  <1>3. CASE UNCHANGED vars
    BY <1>3 DEF TypeOK, NobodyDied, vars
  <1>4. QED
    BY <1>1, <1>2, <1>3 DEF Next

Safe == TypeOK /\ (NobodyDied => LockInv)

LEMMA AlwaysSafe ==
    ASSUME MaxHold < Ttl
    PROVE  Spec => []Safe
  <1>1. Init => Safe
    BY LockInit DEF LockInv, Safe
  <1>2. Safe /\ [Next]_vars => Safe'
    <2> SUFFICES ASSUME Safe, [Next]_vars PROVE Safe'
      OBVIOUS
    <2>1. TypeOK' /\ (NobodyDied' => NobodyDied)
      BY TypeNext DEF Safe
    <2>2. NobodyDied => (NobodyDied' => LockInv')
      BY LockNext DEF Safe
    <2>3. QED
      BY <2>1, <2>2 DEF Safe
  <1>3. QED
    BY <1>1, <1>2, PTL DEF Spec

\* Two processes never migrate at the same time until one of them dies or fails to
\* delete its lock, if none migrates longer than LOCK_TTL_MS.
THEOREM MigrationSafe ==
    ASSUME MaxHold < Ttl
    PROVE  Spec => []NoConcurrentMigration
  <1>1. Safe => NoConcurrentMigration
    BY DEF Safe, LockInv, TypeOK, Holding, NoConcurrentMigration
  <1>2. QED
    BY <1>1, AlwaysSafe, PTL

\* When every process that started is done, none died and none failed to delete its
\* lock, nothing is left of it, under the same assumption.
THEOREM MigrationLeavesNoLock ==
    ASSUME MaxHold < Ttl
    PROVE  Spec => []NoLockLeft
  <1>1. ASSUME Safe, \A p \in Processes : process[p].phase \in {"off", "ready", "failed"}
        PROVE  lock.owner = NoOwner
    <2>1. LockInv
      BY <1>1 DEF Safe, NobodyDied
    <2>2. lock.owner \in Processes \cup {NoOwner}
      BY <1>1 DEF Safe, TypeOK
    <2>3. \A p \in Processes : ~Holding(p)
      BY <1>1 DEF Holding, Migrating
    <2>4. QED
      BY <2>1, <2>2, <2>3 DEF LockInv
  <1>2. Safe => NoLockLeft
    BY <1>1 DEF NoLockLeft
  <1>3. QED
    BY <1>2, AlwaysSafe, PTL
------------------------------------------------------------------------------
\* What a process that is ready says of the schema, whoever died or failed

\* A migration that went through has left the new schema, and nothing takes it back.
MigratedInv ==
    /\ TypeOK
    /\ \A p \in Processes : process[p].ok \/ process[p].phase = "ready" => schema = "new"

LEMMA MigratedNext == MigratedInv /\ [Next]_vars => MigratedInv'
  <1> SUFFICES ASSUME MigratedInv, [Next]_vars PROVE MigratedInv'
    OBVIOUS
  <1>1. TypeOK /\ TypeOK'
    BY TypeNext DEF MigratedInv
  <1>2. process \in [Processes -> Process]
    BY <1>1 DEF TypeOK
  <1>3. ASSUME NEW p \in Processes, NEW phase \in Phase, Go(p, phase), schema' = schema,
               phase = "ready" => process[p].ok
        PROVE  MigratedInv'
    <2>1. /\ process'[p].phase = phase /\ process'[p].ok = process[p].ok
          /\ \A q \in Processes \ {p} : process'[q] = process[q]
      BY <1>2, <1>3 DEF Go, Process
    <2>2. QED
      BY <1>1, <1>3, <2>1 DEF MigratedInv
  <1>4. ASSUME NEW p \in Processes, ProcessStep(p) \/ ReleaseFails(p) \/ Crash(p)
        PROVE  MigratedInv'
    <2>1. CASE \/ Start(p) \/ ReadLock(p) \/ DeleteStale(p) \/ InsertLock(p) \/ ApplyFails(p)
               \/ ReleaseFails(p) \/ Crash(p)
      <3>1. \E phase \in Phase \ {"ready"} : Go(p, phase)
        BY <2>1 DEF Start, ReadLock, DeleteStale, InsertLock, ApplyFails, ReleaseFails, Crash,
                    TryLater, Phase
      <3>2. schema' = schema
        BY <2>1 DEF Start, ReadLock, DeleteStale, InsertLock, ApplyFails, ReleaseFails, Crash
      <3>3. QED
        BY <1>3, <3>1, <3>2
    <2>2. CASE Release(p)
      <3>1. Go(p, Outcome(p)) /\ schema' = schema
        BY <2>2 DEF Release
      <3>2. Outcome(p) \in Phase /\ (Outcome(p) = "ready" => process[p].ok)
        BY DEF Outcome, Phase
      <3>3. QED
        BY <1>3, <3>1, <3>2
    <2>3. CASE ReadSchema(p)
      <3>1. /\ process'[p].phase = "applying" /\ process'[p].ok = process[p].ok
            /\ \A q \in Processes \ {p} : process'[q] = process[q]
            /\ schema' = schema
        BY <1>2, <2>3 DEF ReadSchema, Process
      <3>2. QED
        BY <1>1, <3>1 DEF MigratedInv
    <2>4. CASE ApplySchema(p)
      <3> DEFINE ok == process[p].seen = schema \/ process[p].seen = "new"
      <3>1. process' = [process EXCEPT ![p].phase = "releasing", ![p].ok = ok]
        BY <2>4 DEF ApplySchema
      <3>2. schema' = IF ok THEN "new" ELSE schema
        BY <2>4 DEF ApplySchema
      <3> HIDE DEF ok
      <3>3. /\ process'[p].phase = "releasing" /\ process'[p].ok = ok
            /\ \A q \in Processes \ {p} : process'[q] = process[q]
        BY <1>2, <3>1 DEF Process
      <3>4. QED
        BY <1>1, <3>2, <3>3 DEF MigratedInv
    <2>5. QED
      BY <1>4, <2>1, <2>2, <2>3, <2>4 DEF ProcessStep
  <1>5. CASE TimePasses
    <2>1. process' = [p \in Processes |-> Aged(p)] /\ schema' = schema
      BY <1>5 DEF TimePasses
    <2>2. \A p \in Processes :
             Aged(p).ok = process[p].ok /\ (Aged(p).phase = "ready" => process[p].phase = "ready")
      BY <1>2 DEF Aged, Process
    <2>3. QED
      BY <1>1, <2>1, <2>2 DEF MigratedInv
  <1>6. CASE UNCHANGED vars
    BY <1>1, <1>6 DEF MigratedInv, vars
  <1>7. QED
    BY <1>4, <1>5, <1>6 DEF Next

\* A process serves only on the new schema, whoever died, failed or overlapped, and
\* however long a migration took: the finally block releases the lock and lets the
\* error of a failed migration go on (migrate.ts:108-115).
THEOREM ReadyOnNewSchema == Spec => []ReadyMeansMigrated
  <1>1. Init => MigratedInv
    BY LockInit DEF LockInv, MigratedInv, Init
  <1>2. MigratedInv => ReadyMeansMigrated
    BY DEF MigratedInv, ReadyMeansMigrated
  <1>3. QED
    BY <1>1, <1>2, MigratedNext, PTL DEF Spec

------------------------------------------------------------------------------
\* The service that a process with a migrated database becomes.

Service == INSTANCE Service

\* A step of the shutdown has been taken: it is at one of these stages, or done.
Passed(stages) == stage \in stages \/ database = "closed"

\* Stages before worker.start.
Unstarted == {"opening", "bootstrapping", "auditing", "building"}

\* Each step of the shutdown finds what the one before it has left, and nothing
\* that still runs undoes it: sweeps asked for belong to a request, the loop of the
\* worker is not scheduled again once it is to stop, and a tick that is over has no
\* job it waits for.
QuietInv ==
    /\ request \in [Requests -> {"none", "handling", "answered"}]
    /\ sweep \in [Sweeps \cup Requests -> {"none", "deliveries", "events", "sessions", "done"}]
    /\ worker \in Service!Worker
    /\ database = "closed" => stage \in {"closing", "exited"}
    /\ \A r \in Requests : sweep[r] \in {"none", "done"} \/ request[r] = "handling"
    /\ worker.timer \/ worker.tick # "none" => worker.enabled
    /\ worker.timer => worker.tick = "none"
    /\ stage \in Unstarted => ~worker.timer /\ worker.tick = "none"
    /\ worker.tick # "running" => Service!RunningJobs(worker.job) = {}
    /\ Passed({"stoppingCleanup", "stoppingWorker", "closing"}) => Service!Drained
    /\ Passed({"stoppingWorker", "closing"}) =>
          cleanup = "off" /\ ~worker.timer /\ (worker.enabled => worker.stopping)
    /\ Passed({"closing"}) => worker.tick = "none"

LEMMA QuietInit == Service!Init => QuietInv
  <1> SUFFICES ASSUME Service!Init PROVE QuietInv
    OBVIOUS
  <1>1. PICK enabled \in BOOLEAN :
           worker = [enabled |-> enabled, stopping |-> FALSE, timer |-> FALSE, tick |-> "none",
                     job |-> [j \in Jobs |-> "idle"]]
    BY DEF Service!Init
  <1>2. worker \in Service!Worker
    BY <1>1 DEF Service!Worker, Service!Job
  <1>3. Service!RunningJobs(worker.job) = {}
    BY <1>1 DEF Service!RunningJobs
  <1>4. QED
    BY <1>1, <1>2, <1>3 DEF Service!Init, QuietInv, Passed, Unstarted

\* What the tick's end makes of the worker.
LEMMA TickEnds ==
    ASSUME worker \in Service!Worker, NEW job \in [Jobs -> Service!Job],
           worker.enabled, Service!RunningJobs(job) = {},
           worker' = Service!scheduleNextTick(job)
    PROVE  /\ worker' \in Service!Worker /\ worker'.tick = "none" /\ worker'.job = job
           /\ worker'.enabled = worker.enabled /\ worker'.stopping = worker.stopping
           /\ worker.stopping => ~worker'.timer
  <1>1. PICK timer \in BOOLEAN : timer = ~worker.stopping
    BY DEF Service!Worker
  <1>2. worker' = [worker EXCEPT !.timer = timer, !.tick = "none", !.job = job]
    BY <1>1 DEF Service!scheduleNextTick
  <1>3. QED
    BY <1>1, <1>2 DEF Service!Worker

\* A step of the worker's loop, or the end of a job nobody waits for.
LEMMA LoopKeeps ==
    ASSUME QuietInv, UNCHANGED <<stage, database, request, sweep, cleanup>>,
           worker' \in Service!Worker,
           worker'.enabled = worker.enabled, worker'.stopping = worker.stopping,
           worker'.tick # "running" => Service!RunningJobs(worker'.job) = {},
           worker'.timer => worker.timer \/ (worker.tick # "none" /\ ~worker.stopping),
           worker'.tick # "none" => worker.timer \/ worker.tick # "none",
           worker'.timer => worker'.tick = "none"
    PROVE  QuietInv'
  <1>1. Passed({"stoppingWorker", "closing"}) => ~worker'.timer
    BY DEF QuietInv
  <1>2. Passed({"closing"}) => worker'.tick = "none"
    <2>1. Passed({"closing"}) => Passed({"stoppingWorker", "closing"})
      BY DEF Passed
    <2>2. QED
      BY <2>1 DEF QuietInv
  <1>3. Service!RunningJobs(worker.job)' = Service!RunningJobs(worker'.job)
    BY DEF Service!RunningJobs
  <1>4. Service!Drained' <=> Service!Drained
    BY DEF Service!Drained
  <1>5. \A stages : Passed(stages)' <=> Passed(stages)
    BY DEF Passed
  <1>6. QED
    BY <1>1, <1>2, <1>3, <1>4, <1>5 DEF QuietInv

\* A step of main or of shutdown that leaves the work alone.
LEMMA StageKeeps ==
    ASSUME QuietInv, UNCHANGED <<request, sweep, worker>>,
           database' = "closed" => stage' \in {"closing", "exited"},
           stage' \in Unstarted => stage \in Unstarted,
           Passed({"stoppingCleanup", "stoppingWorker", "closing"})' => Service!Drained,
           Passed({"stoppingWorker", "closing"})' =>
              cleanup' = "off" /\ ~worker.timer /\ (worker.enabled => worker.stopping),
           Passed({"closing"})' => worker.tick = "none"
    PROVE  QuietInv'
  BY DEF QuietInv, Service!RunningJobs, Service!Drained

LEMMA QuietNext ==
    ASSUME QuietInv, [Service!Next]_(Service!vars)
    PROVE  QuietInv'
  <1>1. /\ request \in [Requests -> {"none", "handling", "answered"}]
        /\ sweep \in [Sweeps \cup Requests -> {"none", "deliveries", "events", "sessions", "done"}]
        /\ worker \in Service!Worker /\ worker.job \in [Jobs -> Service!Job]
    BY DEF QuietInv, Service!Worker
  <1>3. CASE Service!Next
    <2>1. CASE Service!createAppContext \/ Service!Prepare \/ Service!listen \/ Service!StartFails
      BY <2>1, StageKeeps
         DEF Service!createAppContext, Service!Prepare, Service!listen, Service!StartFails,
             Service!Goto, Service!Exits, QuietInv, Passed, Unstarted
    <2>2. CASE Service!StartJobs
      <3>1. worker' \in Service!Worker /\ worker'.enabled = worker.enabled
            /\ worker'.tick = worker.tick /\ worker'.job = worker.job
            /\ (worker'.timer => worker.enabled) /\ worker.tick = "none"
        <4>1. PICK timer \in BOOLEAN : timer = worker.enabled
          BY <1>1 DEF Service!Worker
        <4>2. worker' = [worker EXCEPT !.timer = timer]
          BY <2>2, <4>1 DEF Service!StartJobs
        <4>3. worker.tick = "none"
          BY <2>2 DEF Service!StartJobs, QuietInv, Unstarted
        <4>4. QED
          BY <1>1, <4>1, <4>2, <4>3 DEF Service!Worker
      <3>2. database # "closed" /\ stage' = "starting" /\ UNCHANGED <<database, request, sweep>>
        BY <2>2 DEF Service!StartJobs, Service!Goto, QuietInv
      <3>3. QED
        BY <3>1, <3>2 DEF QuietInv, Passed, Service!RunningJobs, Unstarted
    <2>3. ASSUME NEW r \in Requests, Service!Accept(r) PROVE QuietInv'
      <3>1. /\ stage = "serving" /\ database # "closed"
            /\ UNCHANGED <<stage, database, sweep, cleanup, worker>>
        BY <2>3 DEF Service!Accept, Service!Works, QuietInv
      <3>2. /\ request' \in [Requests -> {"none", "handling", "answered"}]
            /\ \A q \in Requests : request'[q] = "handling" \/ request'[q] = request[q]
        BY <1>1, <2>3 DEF Service!Accept
      <3>3. QED
        BY <3>1, <3>2 DEF QuietInv, Passed, Service!RunningJobs
    <2>4. ASSUME NEW r \in Requests, Service!Respond(r) PROVE QuietInv'
      <3>1. /\ sweep[r] \in {"none", "done"} /\ UNCHANGED <<stage, database, sweep, cleanup, worker>>
        BY <2>4 DEF Service!Respond, Service!Works
      <3>2. /\ request' \in [Requests -> {"none", "handling", "answered"}]
            /\ \A q \in Requests : q # r => request'[q] = request[q]
            /\ request'[r] = "answered"
        BY <1>1, <2>4 DEF Service!Respond
      <3>3. Service!Drained => Service!Drained'
        BY <3>2 DEF Service!Drained
      <3>4. \A q \in Requests : sweep[q] \in {"none", "done"} \/ request'[q] = "handling"
        BY <3>1, <3>2 DEF QuietInv
      <3>5. QED
        BY <3>1, <3>2, <3>3, <3>4 DEF QuietInv, Passed, Service!RunningJobs
    <2>5. ASSUME NEW s \in Sweeps \cup Requests, UNCHANGED <<stage, database, request, worker>>,
                 NEW at \in {"none", "deliveries", "events", "sessions", "done"},
                 sweep' = [sweep EXCEPT ![s] = at],
                 s \in Requests => request[s] = "handling" \/ at \in {"none", "done"},
                 cleanup' = cleanup \/ cleanup # "off"
          PROVE  QuietInv'
      <3>1. \A q \in Requests : sweep'[q] \in {"none", "done"} \/ request[q] = "handling"
        BY <1>1, <2>5 DEF QuietInv
      <3>2. sweep' \in [Sweeps \cup Requests -> {"none", "deliveries", "events", "sessions", "done"}]
        BY <1>1, <2>5
      <3>3. Service!Drained' <=> Service!Drained
        BY <2>5 DEF Service!Drained
      <3>4. QED
        BY <2>5, <3>1, <3>2, <3>3 DEF QuietInv, Passed, Service!RunningJobs
    <2>6. ASSUME NEW r \in Requests, Service!SweepByHand(r) PROVE QuietInv'
      <3>1. sweep' = [sweep EXCEPT ![r] = "deliveries"] /\ request[r] = "handling"
            /\ UNCHANGED <<stage, database, request, cleanup, worker>>
        BY <2>6 DEF Service!SweepByHand, Service!Works, Service!Begun
      <3>2. QED
        BY <2>5, <3>1
    <2>7. ASSUME NEW s \in Sweeps, Service!SweepDue(s) PROVE QuietInv'
      <3>1. sweep' = [sweep EXCEPT ![s] = "deliveries"] /\ s \notin Requests /\ cleanup # "off"
            /\ UNCHANGED <<stage, database, request, worker>>
        BY <2>7, ServiceAssumption DEF Service!SweepDue, Service!Works, Service!Begun
      <3>2. QED
        BY <2>5, <3>1
    <2>8. ASSUME NEW s \in Sweeps \cup Requests, Service!SweepStep(s) PROVE QuietInv'
      <3>1. sweep[s] \notin {"none", "done"}
            /\ UNCHANGED <<stage, database, request, cleanup, worker>>
        BY <2>8 DEF Service!SweepStep, Service!Works
      <3>2. PICK at \in {"events", "sessions", "done"} : sweep' = [sweep EXCEPT ![s] = at]
        BY <2>8 DEF Service!SweepStep
      <3>3. s \in Requests => request[s] = "handling"
        BY <3>1 DEF QuietInv
      <3>4. QED
        BY <2>5, <3>1, <3>2, <3>3
    <2>9. CASE Service!TickDue
      <3>1. worker.timer /\ worker' = [worker EXCEPT !.timer = FALSE, !.tick = "claiming"]
            /\ UNCHANGED <<stage, database, request, sweep, cleanup>>
        BY <2>9 DEF Service!TickDue, Service!Works
      <3>2. /\ worker' \in Service!Worker /\ worker'.tick = "claiming" /\ worker'.job = worker.job
            /\ worker'.enabled = worker.enabled /\ worker'.stopping = worker.stopping /\ ~worker'.timer
        BY <1>1, <3>1 DEF Service!Worker
      <3>3. QED
        BY <3>1, <3>2, LoopKeeps DEF QuietInv
    <2>10. ASSUME NEW job \in [Jobs -> Service!Job], worker.tick # "none",
                  Service!RunningJobs(job) = {}, worker' = Service!scheduleNextTick(job),
                  UNCHANGED <<stage, database, request, sweep, cleanup>>
           PROVE  QuietInv'
      <3>1. worker.enabled
        BY <2>10 DEF QuietInv
      <3>2. QED
        BY <1>1, <2>10, <3>1, TickEnds, LoopKeeps
    <2>11. ASSUME NEW job \in [Jobs -> Service!Job], worker' = [worker EXCEPT !.job = job],
                  worker.tick # "running" => Service!RunningJobs(job) = {},
                  UNCHANGED <<stage, database, request, sweep, cleanup>>
           PROVE  QuietInv'
      <3>1. /\ worker' \in Service!Worker /\ worker'.job = job /\ worker'.tick = worker.tick
            /\ worker'.enabled = worker.enabled /\ worker'.stopping = worker.stopping
            /\ worker'.timer = worker.timer
        BY <1>1, <2>11 DEF Service!Worker
      <3>2. QED
        BY <2>11, <3>1, LoopKeeps DEF QuietInv
    <2>12. CASE Service!Claim
      <3>1. worker.tick = "claiming" /\ UNCHANGED <<stage, database, request, sweep, cleanup>>
        BY <2>12 DEF Service!Claim, Service!Works
      <3>2. PICK claimed \in SUBSET {j \in Jobs : worker.job[j] = "idle"} :
               IF claimed = {} THEN worker' = Service!scheduleNextTick(worker.job)
               ELSE worker' = [worker EXCEPT !.tick = "running",
                                             !.job = [j \in Jobs |-> IF j \in claimed THEN "running"
                                                                     ELSE worker.job[j]]]
        BY <2>12 DEF Service!Claim
      <3>3. CASE claimed = {}
        BY <1>1, <2>10, <3>1, <3>2, <3>3 DEF QuietInv
      <3>4. CASE claimed # {}
        <4>1. PICK job \in [Jobs -> Service!Job] :
                 worker' = [worker EXCEPT !.tick = "running", !.job = job]
          <5>1. [j \in Jobs |-> IF j \in claimed THEN "running" ELSE worker.job[j]]
                   \in [Jobs -> Service!Job]
            BY <1>1 DEF Service!Job
          <5>2. QED
            BY <3>2, <3>4, <5>1
        <4>2. /\ worker' \in Service!Worker /\ worker'.tick = "running"
              /\ worker'.enabled = worker.enabled /\ worker'.stopping = worker.stopping
              /\ worker'.timer = worker.timer
          BY <1>1, <4>1 DEF Service!Worker
        <4>3. ~worker.timer
          BY <3>1 DEF QuietInv
        <4>4. QED
          BY <3>1, <4>2, <4>3, LoopKeeps
      <3>5. QED
        BY <3>3, <3>4
    <2>13. ASSUME NEW j \in Jobs, Service!JobEnds(j) PROVE QuietInv'
      <3>1. PICK job : job = [worker.job EXCEPT ![j] = "done"]
        OBVIOUS
      <3>2. /\ worker.job[j] \in {"running", "orphaned"}
            /\ UNCHANGED <<stage, database, request, sweep, cleanup>>
            /\ IF worker.job[j] = "orphaned" \/ Service!RunningJobs(job) # {}
               THEN worker' = [worker EXCEPT !.job = job]
               ELSE worker' = Service!scheduleNextTick(job)
        BY <2>13, <3>1 DEF Service!JobEnds, Service!Works
      <3>3. /\ job \in [Jobs -> Service!Job]
            /\ Service!RunningJobs(job) \subseteq Service!RunningJobs(worker.job)
        BY <1>1, <3>1 DEF Service!Job, Service!RunningJobs
      <3>4. worker.job[j] = "running" => worker.tick = "running"
        BY DEF QuietInv, Service!RunningJobs
      <3>5. CASE worker.job[j] = "orphaned" \/ Service!RunningJobs(job) # {}
        BY <2>11, <3>2, <3>3, <3>5 DEF QuietInv
      <3>6. CASE ~(worker.job[j] = "orphaned" \/ Service!RunningJobs(job) # {})
        BY <2>10, <3>2, <3>3, <3>4, <3>6
      <3>7. QED
        BY <3>5, <3>6
    <2>14. ASSUME NEW j \in Jobs, Service!JobThrows(j) PROVE QuietInv'
      <3>1. PICK job : job = [i \in Jobs |-> IF i = j THEN "done"
                                            ELSE IF worker.job[i] = "running" THEN "orphaned"
                                            ELSE worker.job[i]]
        OBVIOUS
      <3>2. /\ worker.job[j] = "running" /\ worker' = Service!scheduleNextTick(job)
            /\ UNCHANGED <<stage, database, request, sweep, cleanup>>
        BY <2>14, <3>1 DEF Service!JobThrows, Service!Works
      <3>3. job \in [Jobs -> Service!Job] /\ Service!RunningJobs(job) = {}
        BY <1>1, <3>1 DEF Service!Job, Service!RunningJobs
      <3>4. worker.tick = "running"
        BY <3>2 DEF QuietInv, Service!RunningJobs
      <3>5. QED
        BY <2>10, <3>2, <3>3, <3>4
    <2>15. CASE \/ Service!Signal \/ Service!closeServer \/ Service!stopWorker
                \/ Service!closeDatabase \/ Service!exitProcess \/ Service!Watchdog
                \/ Service!Die
      <3>1. UNCHANGED <<request, sweep, cleanup, worker>>
        BY <2>15 DEF Service!Signal, Service!closeServer, Service!stopWorker, Service!closeDatabase,
                     Service!exitProcess, Service!Watchdog, Service!Die
      <3>2. \/ stage' \in {stage, "exited"} /\ database' = database
            \/ stage' = "draining" /\ stage = "serving" /\ database' = database
            \/ stage' = "stoppingCleanup" /\ stage = "draining" /\ Service!Drained /\ database' = database
            \/ stage' = "closing" /\ stage = "stoppingWorker" /\ worker.tick = "none"
               /\ database' = database
            \/ stage' = stage /\ stage = "closing" /\ database' = "closed"
        BY <2>15
           DEF Service!Signal, Service!closeServer, Service!stopWorker, Service!closeDatabase,
               Service!exitProcess, Service!Watchdog, Service!Die, Service!Goto, Service!Exits
      <3>3. database' = "closed" => stage' \in {"closing", "exited"}
        BY <3>2 DEF QuietInv
      <3>4. stage' \in Unstarted => stage \in Unstarted
        BY <3>2 DEF Unstarted
      <3>5. Passed({"stoppingCleanup", "stoppingWorker", "closing"})' => Service!Drained
        BY <3>2 DEF QuietInv, Passed
      <3>6. Passed({"stoppingWorker", "closing"})' => Passed({"stoppingWorker", "closing"})
        BY <3>2 DEF Passed
      <3>7. Passed({"closing"})' => worker.tick = "none"
        BY <3>2 DEF QuietInv, Passed
      <3>8. QED
        BY <3>1, <3>3, <3>4, <3>5, <3>6, <3>7, StageKeeps DEF QuietInv
    <2>16. CASE Service!stopJobs
      <3>1. /\ stage = "stoppingCleanup" /\ stage' = "stoppingWorker" /\ cleanup' = "off"
            /\ UNCHANGED <<database, request, sweep>>
            /\ worker' = [worker EXCEPT !.stopping = worker.enabled, !.timer = FALSE]
        BY <2>16 DEF Service!stopJobs, Service!Goto
      <3>2. PICK enabled \in BOOLEAN : enabled = worker.enabled
        BY <1>1 DEF Service!Worker
      <3>3. worker' = [worker EXCEPT !.stopping = enabled, !.timer = FALSE]
        BY <3>1, <3>2
      <3>4. /\ worker' \in Service!Worker /\ worker'.job = worker.job /\ worker'.tick = worker.tick
            /\ worker'.enabled = worker.enabled /\ worker'.stopping = enabled /\ ~worker'.timer
        BY <1>1, <3>3 DEF Service!Worker
      <3>5. database # "closed" /\ Service!Drained
        BY <3>1 DEF QuietInv, Passed
      <3>6. Service!Drained' /\ stage' \notin Unstarted
        BY <3>1, <3>5 DEF Service!Drained, Unstarted
      <3>7. QED
        BY <3>1, <3>2, <3>4, <3>5, <3>6 DEF QuietInv, Passed, Service!RunningJobs
    <2>17. QED
      BY <1>3, <2>1, <2>2, <2>3, <2>4, <2>6, <2>7, <2>8, <2>9, <2>12, <2>13, <2>14, <2>15, <2>16
         DEF Service!Next
  <1>4. CASE UNCHANGED Service!vars
    BY <1>4 DEF Service!vars, QuietInv, Passed, Service!RunningJobs, Service!Drained, Unstarted
  <1>5. QED
    BY <1>3, <1>4

\* Before handle.close runs, the shutdown has stopped all that uses the database but
\* what it does not wait for: whatever hangs, fails or is signalled meanwhile, and
\* for any number of requests, jobs and sweeps.
THEOREM NothingWaitsForClosed == Service!Spec => []QuietWhenClosed
  <1>1. Service!Init => QuietInv
    BY QuietInit
  <1>2. QuietInv /\ [Service!Next]_(Service!vars) => QuietInv'
    BY QuietNext
  <1>3. QuietInv => QuietWhenClosed
    BY DEF QuietInv, Passed, QuietWhenClosed, RunningJobs, Service!RunningJobs, Service!Drained
  <1>4. QED
    BY <1>1, <1>2, <1>3, PTL DEF Service!Spec
==============================================================================
