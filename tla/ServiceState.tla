----------------------------- MODULE ServiceState ------------------------------
(***************************************************************************)
(* What a process that serves consists of (index.ts, app-context.ts), and  *)
(* what must be true of it when it closes its database.  How it starts,    *)
(* works and stops is module Service.                                      *)
(***************************************************************************)
EXTENDS Naturals, FiniteSets

CONSTANTS
    Requests,     \* HTTP requests, one each
    Jobs,         \* deliveries the worker may process
    Sweeps,       \* sweeps the cleanup job's timer starts
    MaxSignals    \* bound: SIGTERM, SIGINT and uncaught exceptions

ASSUME ServiceAssumption ==
    /\ MaxSignals \in Nat \ {0}
    /\ Sweeps \cap Requests = {}

VARIABLES
    stage,     \* how far main or shutdown has come
    exit,      \* how the process ended
    signals,   \* signals received so far
    watchdog,  \* shutdown's 30 s timer is armed
    database,  \* "none", "open" or "closed"
    request,   \* the HTTP requests
    sweep,     \* the statement each sweep is at, the timer's and those of requests
    cleanup,   \* the cleanup job's timer
    worker     \* the worker: its flags, its timer, its tick, its jobs

------------------------------------------------------------------------------
RunningJobs(job) == {j \in Jobs : job[j] = "running"}

\* When the database is closed no request, no tick, no job of a tick and no sweep of
\* a request is under way, and no timer will start a sweep or a tick: all that can
\* still meet the closed database is a sweep of the timer, which cleanup.stop does
\* not wait for, and a job whose tick another job's failure has ended.
QuietWhenClosed ==
    database = "closed" =>
        /\ \A r \in Requests : request[r] # "handling" /\ sweep[r] \in {"none", "done"}
        /\ worker.tick = "none" /\ RunningJobs(worker.job) = {}
        /\ cleanup = "off" /\ ~worker.timer
================================================================================
