------------------------------- MODULE Service --------------------------------
(***************************************************************************)
(* The life of the process (index.ts, app-context.ts): start, serve, and   *)
(* the shutdown that drains the requests, stops the cleanup job            *)
(* (worker/cleanup.ts) and the worker's loop (worker/delivery-worker.ts)   *)
(* and closes the database under whatever still runs.  Migrations are      *)
(* MigrationLock, the queue is DeliveryQueue; here a job only runs, ends   *)
(* or throws.                                                              *)
(***************************************************************************)
EXTENDS ServiceState

vars == <<stage, exit, signals, watchdog, database, request, sweep, cleanup, worker>>

------------------------------------------------------------------------------
\* Types

Serving  == {"starting", "serving"}
Stopping == {"draining", "stoppingCleanup", "stoppingWorker", "closing"}
Stage    == {"opening", "bootstrapping", "auditing", "building", "exited"} \cup Serving \cup Stopping

\* orphaned: its tick was rejected by the failure of another job and has ended.
Job    == {"idle", "running", "done", "orphaned"}
Worker == [enabled: BOOLEAN, stopping: BOOLEAN, timer: BOOLEAN,
           tick: {"none", "claiming", "running"}, job: [Jobs -> Job]]

TypeOK ==
    /\ stage \in Stage
    /\ exit \in {"none", "clean", "error", "forced", "killed"}
    /\ signals \in 0..MaxSignals
    /\ watchdog \in BOOLEAN
    /\ database \in {"none", "open", "closed"}
    /\ request \in [Requests -> {"none", "handling", "answered"}]
    /\ sweep \in [Sweeps \cup Requests -> {"none", "deliveries", "events", "sessions", "done"}]
    /\ cleanup \in {"off", "first", "interval"}
    /\ worker \in Worker

\* worker is null unless DELIVERY_WORKER_ENABLED.
Init ==
    /\ stage = "opening" /\ exit = "none" /\ signals = 0 /\ watchdog = FALSE
    /\ database = "none"
    /\ request = [r \in Requests |-> "none"]
    /\ sweep = [s \in Sweeps \cup Requests |-> "none"]
    /\ cleanup = "off"
    /\ \E enabled \in BOOLEAN :
         worker = [enabled |-> enabled, stopping |-> FALSE, timer |-> FALSE, tick |-> "none",
                   job |-> [j \in Jobs |-> "idle"]]

Alive == stage # "exited"

------------------------------------------------------------------------------
\* main

Goto(next) == stage' = next /\ UNCHANGED <<exit, signals, watchdog>>

Exits(how) == stage' = "exited" /\ exit' = how /\ UNCHANGED <<signals, watchdog>>

\* createDatabase, pragmas, migrations, services.
createAppContext ==
    /\ stage = "opening"
    /\ database' = "open"
    /\ Goto("bootstrapping")
    /\ UNCHANGED <<request, sweep, cleanup, worker>>

\* bootstrapAdmin; auditWebhooks, whose failure is logged; buildServer.
Prepare ==
    /\ \/ stage = "bootstrapping" /\ Goto("auditing")
       \/ stage = "auditing" /\ Goto("building")
    /\ UNCHANGED <<database, request, sweep, cleanup, worker>>

\* worker.start and cleanup.start, before listen.
StartJobs ==
    /\ stage = "building"
    /\ worker' = [worker EXCEPT !.timer = worker.enabled]
    /\ cleanup' = "first"
    /\ Goto("starting")
    /\ UNCHANGED <<database, request, sweep>>

listen ==
    /\ stage = "starting"
    /\ Goto("serving")
    /\ UNCHANGED <<database, request, sweep, cleanup, worker>>

\* main().catch: any step but the audit rejects.  The jobs are not stopped.
StartFails ==
    /\ stage \in {"opening", "bootstrapping", "building", "starting"}
    /\ Exits("error")
    /\ UNCHANGED <<database, request, sweep, cleanup, worker>>

------------------------------------------------------------------------------
\* Work while the process lives.  A statement on a closed database fails.

Works(what) == Alive /\ what /\ UNCHANGED <<stage, exit, signals, watchdog, database>>

Accept(r) ==
    /\ Works(stage = "serving" /\ request[r] = "none")
    /\ request' = [request EXCEPT ![r] = "handling"]
    /\ UNCHANGED <<sweep, cleanup, worker>>

\* The handler of POST /api/v1/settings/cleanup awaits its sweep.
Respond(r) ==
    /\ Works(request[r] = "handling" /\ sweep[r] \in {"none", "done"})
    /\ request' = [request EXCEPT ![r] = "answered"]
    /\ UNCHANGED <<sweep, cleanup, worker>>

\* runOnce's first await: the sweep is under way.
Begun(s) == sweep' = [sweep EXCEPT ![s] = "deliveries"]

\* The timer: after 60 s, then at every interval.
SweepDue(s) ==
    /\ Works(cleanup # "off" /\ sweep[s] = "none")
    /\ Begun(s)
    /\ cleanup' = "interval"
    /\ UNCHANGED <<request, worker>>

\* POST /api/v1/settings/cleanup; it may overlap the timer's.
SweepByHand(r) ==
    /\ Works(request[r] = "handling" /\ sweep[r] = "none")
    /\ Begun(r)
    /\ UNCHANGED <<request, cleanup, worker>>

\* A statement of the sweep is done, or skipped by a retention of 0; a failure ends it.
SweepStep(s) ==
    /\ Works(sweep[s] \in {"deliveries", "events", "sessions"})
    /\ \/ sweep' = [sweep EXCEPT ![s] = "done"]
       \/ /\ database = "open"
          /\ sweep' = [sweep EXCEPT ![s] = IF @ = "deliveries" THEN "events"
                                          ELSE IF @ = "events" THEN "sessions" ELSE "done"]
    /\ UNCHANGED <<request, cleanup, worker>>

TickDue ==
    /\ Works(worker.timer)
    /\ worker' = [worker EXCEPT !.timer = FALSE, !.tick = "claiming"]
    /\ UNCHANGED <<request, sweep, cleanup>>

\* Mutant of scheduleNextTick: the loop goes on while the worker stops.
scheduleNextTick_Always(job) == [worker EXCEPT !.timer = TRUE, !.tick = "none", !.job = job]

\* The tick is over, with these jobs; the next one is scheduled unless the worker stops.
scheduleNextTick(job) ==
    [worker EXCEPT !.timer = ~worker.stopping, !.tick = "none", !.job = job]

\* claimDue: some deliveries, none, or it fails.
Claim ==
    /\ Works(worker.tick = "claiming")
    /\ \E claimed \in SUBSET {j \in Jobs : worker.job[j] = "idle"} :
         IF claimed = {} THEN worker' = scheduleNextTick(worker.job)
         ELSE worker' = [worker EXCEPT !.tick = "running",
                                       !.job = [j \in Jobs |-> IF j \in claimed THEN "running"
                                                               ELSE @[j]]]
    /\ UNCHANGED <<request, sweep, cleanup>>

\* process resolves; Promise.all waits for the others.
JobEnds(j) ==
    /\ Works(worker.job[j] \in {"running", "orphaned"})
    /\ LET job == [worker.job EXCEPT ![j] = "done"]
       IN worker' = IF worker.job[j] = "orphaned" \/ RunningJobs(job) # {}
                    THEN [worker EXCEPT !.job = job] ELSE scheduleNextTick(job)
    /\ UNCHANGED <<request, sweep, cleanup>>

\* process rejects, and Promise.all with it: nobody waits for the others any more.
JobThrows(j) ==
    /\ Works(worker.job[j] = "running")
    /\ worker' = scheduleNextTick([i \in Jobs |-> IF i = j THEN "done"
                                                  ELSE IF worker.job[i] = "running" THEN "orphaned"
                                                  ELSE worker.job[i]])
    /\ UNCHANGED <<request, sweep, cleanup>>

------------------------------------------------------------------------------
\* shutdown

\* The first signal shuts down; another, or an uncaught exception, is ignored then.
\* Before the handlers are installed a signal ends the process.
Signal ==
    /\ Alive /\ signals < MaxSignals
    /\ signals' = signals + 1
    /\ \/ stage = "serving" /\ stage' = "draining" /\ watchdog' = TRUE /\ exit' = exit
       \/ stage \in Stopping /\ UNCHANGED <<stage, watchdog, exit>>
       \/ stage \notin Stopping \cup {"serving"}
          /\ stage' = "exited" /\ exit' = "killed" /\ watchdog' = watchdog
    /\ UNCHANGED <<database, request, sweep, cleanup, worker>>

\* app.close resolves when the last request is answered.
Drained == \A r \in Requests : request[r] # "handling"

closeServer ==
    /\ stage = "draining" /\ Drained
    /\ Goto("stoppingCleanup")
    /\ UNCHANGED <<database, request, sweep, cleanup, worker>>

\* cleanup.stop clears the timer, and worker.stop begins: flags, timer, loopPromise.
stopJobs ==
    /\ stage = "stoppingCleanup"
    /\ cleanup' = "off"
    /\ worker' = [worker EXCEPT !.stopping = worker.enabled, !.timer = FALSE]
    /\ Goto("stoppingWorker")
    /\ UNCHANGED <<database, request, sweep>>

\* The tick in progress is over, and with it nothing is counted as in flight.
stopWorker ==
    /\ stage = "stoppingWorker" /\ worker.tick = "none"
    /\ Goto("closing")
    /\ UNCHANGED <<database, request, sweep, cleanup, worker>>

\* handle.close.
closeDatabase ==
    /\ stage = "closing" /\ database = "open"
    /\ database' = "closed"
    /\ UNCHANGED <<stage, exit, signals, watchdog, request, sweep, cleanup, worker>>

\* process.exit(0), or 1 when a step of the shutdown rejects.
exitProcess ==
    /\ \/ stage = "closing" /\ database = "closed" /\ Exits("clean")
       \/ stage \in Stopping /\ Exits("error")
    /\ UNCHANGED <<database, request, sweep, cleanup, worker>>

\* Mutant of Forced: the timer is cleared as soon as the server is closed.
Forced_WhileDraining == watchdog /\ stage = "draining"

\* The watchdog's time has come.
Forced == watchdog /\ stage \in Stopping

Watchdog ==
    /\ Forced
    /\ Exits("forced")
    /\ UNCHANGED <<database, request, sweep, cleanup, worker>>

\* SIGKILL, the OOM killer, a crash.
Die ==
    /\ Alive
    /\ Exits("killed")
    /\ UNCHANGED <<database, request, sweep, cleanup, worker>>

------------------------------------------------------------------------------
Next ==
    \/ createAppContext \/ Prepare \/ StartJobs \/ listen \/ StartFails
    \/ \E r \in Requests : Accept(r) \/ Respond(r) \/ SweepByHand(r)
    \/ \E s \in Sweeps : SweepDue(s)
    \/ \E s \in Sweeps \cup Requests : SweepStep(s)
    \/ TickDue \/ Claim \/ \E j \in Jobs : JobEnds(j) \/ JobThrows(j)
    \/ Signal \/ closeServer \/ stopJobs \/ stopWorker \/ closeDatabase \/ exitProcess
    \/ Watchdog \/ Die

Spec == Init /\ [][Next]_vars

\* Requests, deliveries and statements may hang; only the timer is sure to fire.
FairSpec == Spec /\ WF_vars(Watchdog)

------------------------------------------------------------------------------
(***************************************************************************)
(* Liveness; what is left when the database is closed is in ServiceState   *)
(***************************************************************************)

\* A signal ends the process, though requests and deliveries may hang for ever.
SignalEndsProcess == signals > 0 ~> stage = "exited"
==============================================================================
