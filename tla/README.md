# TBGate: TLA+ models, model checks and proofs

TBGate (the "Telegram Gateway") receives Telegram updates on a webhook, stores them in
SQLite, fans each one out to the matching routes as rows of a `deliveries` table, and a
background worker posts those rows to HTTP destinations with retries. Operators run it
through an HTTP API and a web panel. These modules model it from its source, check it with
TLC and prove its main guarantees with TLAPS. Paths below are relative to
`src/backend/src` unless they start with `src/` or, for the panel, `fe/` for
`src/frontend/src`.

```
tlc -config queue_faults.cfg MCDeliveryQueue     # a model-checking run
tlapm DeliveryQueueProofs.tla                    # the proofs of a module
```

## 1. Inventory of the system

| Component | Source | State it keeps | Operations | What makes it hard |
|---|---|---|---|---|
| Delivery queue | `services/deliveries.ts`, tables `deliveries`, `delivery_attempts` | status, attempt counter, due time, lock owner and time of each row; the log of attempts | enqueue, replay, claim (SELECT, conditional UPDATE, re-read), record an attempt (INSERT, UPDATE), release leases, purge | no transaction anywhere: every statement can interleave with every other, fail, or be the last one before a crash; leases expire |
| Delivery worker | `worker/delivery-worker.ts` | timer, `stopping`, `inFlight`, the promise of the running tick | tick, process one delivery, send, stop | jobs of a batch run concurrently; one that throws ends the tick early; shutdown races with ticks; the destination is edited under an attempt |
| Retry policy | `worker/retry.ts` | none | `decideRetry`, `nextRetryDelay`, `isRetryableStatus` | indices, limits, classes of HTTP statuses |
| Ingest and fan-out | `http/routes/telegram-webhook.ts`, `services/events.ts` | `telegram_events` (unique per bot and update id), `deliveries` | webhook, event replay, route test, INSERT of deliveries | Telegram repeats updates, also concurrently; event and deliveries are two statements; the configuration changes under a request |
| Route matching | `router/match.ts`, `telegram/classifier.ts`, `telegram/sample.ts` | none | classify, match, build a sample | the order of types, the places of a chat, empty filters |
| Routes, destinations | `services/routes.ts`, `services/destinations.ts` | their tables; a signing secret per destination | create, update, delete (cascade) | checked in one statement and written in another; in use by deliveries in flight |
| Bots and webhooks | `services/bots.ts`, `telegram/client.ts` | `bots` row and the registration at Telegram | create, enable, disable, register, delete, audit | two-sided state changed by a remote call and a local statement |
| Accounts, sessions, API keys | `services/users.ts`, `services/auth.ts`, `services/api-keys.ts`, `http/plugins/auth.ts` | users, sessions, keys | login, block, reset, change password, remove, bootstrap, authenticate | check-then-act around slow password hashing |
| Migrations | `db/migrate.ts` | a lock row, the schema | acquire (read, delete if stale, insert), migrate, release | processes start together, die with the lock |
| Retention | `worker/cleanup.ts` | a timer | purge deliveries, events, sessions | cascades take rows away under running jobs; `stop()` does not wait |
| Lifecycle | `index.ts`, `app-context.ts` | how far start or shutdown has come | start, graceful shutdown with a 30 s watchdog | order of closing server, jobs and database; anything may hang |
| Admin panel | `fe/` | the session, cached lists, an open form | sign in and out, lists with polling, forms, deletions | answers that arrive late, after a sign-out or another change |
| The rest | `http/`, `lib/`, `security/`, `config/`, `services/stats.ts`, `src/shared` | none of its own | validation, crypto, address checks, DTOs | pure or I/O |

Interaction: the webhook handler and the operator's API write rows; the worker polls them;
the two never call each other, the database is the only channel. Cleanup and deletions of
bots act on the worker only by making rows disappear (`ON DELETE CASCADE`, with
`PRAGMA foreign_keys = ON`, `db/client.ts:47`). The panel is a client of the API. Processes
meet through the database alone: a restart after a crash (`restart: unless-stopped`,
`src/docs/DEPLOYMENT.md:52`) and, against the advice of `src/docs/DEPLOYMENT.md:282`, two
containers on one volume, which the comments of `claimDue` and `acquireLock` nevertheless
promise to survive.

What makes each component correct, in one sentence each:

- queue: a delivery is run by one job at a time, its row, lock and history agree, and it is
  settled in the end after at most `DELIVERY_MAX_ATTEMPTS` recorded attempts;
- worker: a shutdown waits for the jobs in hand and ends; each request is addressed and
  signed by one version of its destination;
- retry: the documented classes of answers and the documented schedule;
- ingest: what Telegram is told to forget is kept, and each update fans out exactly once;
- routes, destinations, events, deliveries: a manager reaches only what hangs on bots of
  their own, which as long as no administrator joins what two users own leads to
  destinations of their own, and every reference between tables is good;
- bots: what the row says of the webhook is what Telegram has;
- accounts: an active administrator remains, dead credentials are refused;
- migrations: one process at a time, nobody serves on the old schema, a dead holder does
  not keep the service down;
- lifecycle: a signal ends the process, and the database is closed after its users;
- panel: nothing of another user's is shown, one's own change is, and a save goes where it
  was meant.

The full list of hazards, each at its line and with the properties that cover it, is in
`PROJECT.json`.

## 2. Modules

| Module | What it is |
|---|---|
| `Retry` | the operators of `worker/retry.ts`, pure |
| `DeliveryQueue` | tables, workers, jobs, shutdown, crash, restart, time |
| `DeliveryLifecycle` | abstract: the life of a delivery without leases, ticks or processes |
| `Dispatch` | one delivery: its attempts, the retry policy, and edits of its destination |
| `Routing` | classifier, samples and route matching, pure |
| `Ingest` | webhook, replay and test requests, statement by statement, beside operators' changes |
| `Intake` | abstract: an update is taken once and fans out in one step, at most once |
| `BotWebhook` | the bots row and the registration at Telegram |
| `Resources` | who reads and changes what: bots, destinations, routes, events, deliveries |
| `Accounts` | users, sessions, API keys, bootstrap |
| `MigrationLock` | `runMigrations` of several processes |
| `ServiceState` | what a process consists of, and what is true of it when it closes its database |
| `Service` | the life of a process: start, serve, shut down |
| `Panel` | a page of the panel in one browser tab |
| `...Proofs` | the theorems about `DeliveryQueue`, `Dispatch`, `Ingest`, `BotWebhook`, `Resources`, `Accounts`, `Panel`, and `MigrationLock` with `Service` (`ProcessProofs`), with their proofs |
| `MC...` | model values and definitions for TLC |

`DeliveryQueue` and `Dispatch` extend `Retry`; `Ingest` extends `Routing`; `Service` extends
`ServiceState`, so that `ProcessProofs` can speak of both processes at once;
`ImplementsLifecycle` and `ImplementsIntake` are the refinements of the abstract modules.
Operators named `X_Something` after a definition `X` are mutants: plausible bugs of the code
behind `X` that the properties are tested against. No specification uses them. Components
are checked apart where they share no more than what the other's actions offer: the queue's
`Purge` and `Cascade` stand for retention and deletions, `Ingest`'s operator steps for
`Resources`, `Service`'s jobs for `DeliveryQueue`.

### DeliveryQueue

`row` is the `deliveries` table (status, attempt counter, due time, lock); `attempts` the
log of each delivery; `worker` the `DeliveryWorker` object of each run of the process;
`jobs` the calls of `process()` that have not settled; `faults` counts failed statements.

- **One action per awaited statement.** `SelectCandidates`, `ClaimUpdate` and `ClaimReread`
  are the three statements of `claimDue`; `RecordInsert` and `RecordUpdate` those of
  `recordAttempt`; `Release` is `releaseWorkerLeases`. The two SELECTs of `process()` before
  the request are part of `Send`, as nothing this model keeps depends on them; `Dispatch`
  has them.
- **Workers** are runs of the process: `workerId` is drawn at construction, so a restarted
  process has another id and can only take over rows whose lease has expired or was given
  back. With `SharedVolume = FALSE` a run starts when the one before is gone.
- **Throw** is what a rejected job does to its tick: `Promise.all` rejects with the first
  failure, the tick ends and its `finally` takes the whole batch off `inFlight`, while the
  other jobs run on with nobody awaiting them (`inBatch = FALSE`).
- **Time** is relative: `dueIn` is what is left until `nextAttemptAt`, `lockAge` the time
  since `lockedAt`, and `TimePasses` moves both. Its unit is the poll interval. A job and a
  claim end within `MaxRun` of the claim's `now` (destination timeout plus statements):
  `TimePasses` waits for them. Ages above `LockTimeout + MaxRun` are all alike.
- `ORDER BY next_attempt_at, id` is any choice of at most `Capacity` due rows.
- `Poisoned` deliveries have a signing secret that does not decrypt; `Deletable` ones belong
  to an event or bot that may be deleted at any time.

### Dispatch

One delivery with the `limit` and `schedule` it was configured with, and the row of its
destination. An attempt reads the destination (`attempt`), composes URL and key, sends and
hands the answer to `Retry`; an edit (`edit`) reads the row, decides whether signing needs a
new secret, and writes only the columns it was asked for or has decided on. URLs and secrets
are numbered by who entered them, so a mixture of two versions can be told. `seen` is the
history of the row during the attempt.

### Routing and Ingest

`Routing` takes an update as the keys of its JSON in order, each with the shape of its body;
chats are looked for in the places the classifier looks, in its order. `Ingest` has one bot.
A request (webhook, replay or test) is in one of the phases `storing`, `matching`,
`loading`, `saving`, the statement it is about to run; its end is the handler's answer.
Telegram sends an update as long as it is `pending`; an answer of 200 makes it
`acknowledged`, unless the answer got lost (`Reply` allows both). Operators edit and delete
routes, destinations and the bot at any moment (`Removable` says which may go). Left out:
the comparison of the secret token, `markUpdateReceived`, retention of events, and the reads
a replay or test makes before its first decision (these are in `Resources`). The routeId and
destinationId columns that are set to NULL on deletion do not matter here; a delivery keeps
the target it was made for.

The local SQLite driver executes a statement synchronously, so there two handlers of one
process seldom interleave between statements; with a remote `DATABASE_URL` (`db/client.ts`
supports one) or two processes they do. The models are those of the code as written, which
awaits every statement.

### BotWebhook

`row` is the bot's row, `telegram` the webhook Telegram has, `base` the PUBLIC_BASE_URL of
this process; `Boot` runs the audit. A request reads the row, calls Telegram and updates the
row, three steps; the call may fail, or work with its answer lost. `calm` records which of
URL and list the row is known to tell since an exchange nothing disturbed: no other request
in between, no lost answer, no death of the process. A call Telegram refuses leaves it as it
was (the row says error then); a status read over the state error takes the list out of it,
as `getWebhookInfo` forgets the refusal. Lists are nonempty; ids of deleted bots do not
return.

### Resources

A service method is the sequence of its statements, guards and writes, as `bots_update ==
<<"bot", "write", "bot", "show">>`; a request runs one of them while others' writes, atomic,
happen in between: deletions with their cascades, changes of owner and role, retention,
incoming updates. `mine` is what has been within the actor's reach at some moment of the
request, `did` the bots it has shown, changed or used and the destinations it has by their
own id, `through` the destinations it has shown or sent to as the ends of routes and
deliveries: these services join the destination to their row (`via`) and check the owner of
the bot alone. `crossed` records that an administrator has joined what two users own, by a
route or by giving a bot or a destination to somebody else; `creator` is who made each of
them, until then. Ids are random (`lib/ids.ts:9-28`) and never return: `fresh` is what has
not been given out yet, so a row that is gone stays gone.

### Accounts

Requests run statement by statement through the two guards (session cookie, API key) and the
operations of `UserService`, `AuthService` and `ApiKeyService`. Passwords and tokens are not
kept: a login or change either proves the password it read or is refused. `up` says that the
bootstrap is over and the server listens; a stop and another start may come at any time. The
initial states are a new database and those the hand-made recovery of
`src/docs/SECURITY.md:112-128` leaves. One process boots at a time.

### MigrationLock

The three statements of `acquireLock`, the retry every 500 ms until the deadline, drizzle's
`migrate` as an external that reads the schema and then applies what is missing in one
batch (which fails when another process applied it in between), and `releaseLock`, whose
DELETE may fail (`ReleaseFails`: the process ends and the lock stays). Owner ids
(`pid-time`) are taken to be distinct. The unit of time is the 500 ms.

### Service

Variables and the safety property are in `ServiceState`, the actions here. `stage` is how
far `main` or `shutdown` has come. Requests, ticks with their jobs, and the sweeps of the
cleanup job - of its timer and of POST `/api/v1/settings/cleanup` - run beside it. Fire-and-forget
writes (`markUpdateReceived`, `lastUsedAt`) are left out.

### Panel

One page, one tab, one mutation at a time. A page is described by what can be done on it
(`Routes` has them all), the cached list by whose session fetched it and after which write.
`late` pages read the record to be saved from the component's state when the request is
made. The query client is external, modelled from how the panel uses it: `invalidateQueries`
cancels the fetch under way and asks anew, but joins the first load, when there is no data to
fall back on; `clear` drops list and fetches; a mutation begun offline waits. The session is
itself a query: GET `/auth/me` is asked (`askMe`), and its answer (`meLands`) replaces `shown`
whenever it comes, also after a sign-in, whose `setQueryData` does not cancel it. `lapsed`
records that a session ended otherwise than by signing out, or that an answer of `/auth/me`
was not about the cookie of that moment. A sign-out is one step; a logout whose answer is
still awaited is a `Lapse` before it. `Others` is every other user's writes.

## 3. Runs

| Run | Question | Properties | Distinct states |
|---|---|---|---|
| `queue_calm` | Does a worker without failing statements do its job, across crashes, restarts and deletions? | `TypeOK`, `LeaseHeld`, `StopWaitsForJobs`, `ImplementsLifecycle`, `EventuallySettled`, `StopEnds` | 125,060 |
| `queue_faults` | What still holds when any statement may fail and rows vanish under running jobs? | `LeaseInv`, `HistoryExplainsRow`, `CompletedIsFinal`, `RetryNotEarly` | 448,138 |
| `queue_shared` | Do leases keep three processes on one volume apart? | `NoConcurrentRun` | 434,806 |
| `attempts` | Is the policy the documented one, and what does an attempt send while the destination is edited? | `ScheduleFollowed`, `EndsAsDocumented`, `OneVersion`, `SignedAsConfigured` | 379,869 |
| `ingest` | What does ingest guarantee with overlapping requests, one failure or crash, and everything deletable? | `TypeOK`, `AcknowledgedIsKept`, `LostOnlyByFailure`, `ImplementsIntake`, `FanOutCompletes` | 907,162 |
| `migration` | Does the lock work, and does the service come up after a start that died and one that failed to migrate or to release? | `NoConcurrentMigration`, `NoLockLeft`, `ReadyMeansMigrated`, `ServiceComesUp` | 979,308 |
| `accounts` | What stays true of accounts and credentials when requests interleave? | `TypeOK`, `ActiveAdminRemains`, `DeadCredentialRefused`, `ResetEndsSessions` | 842,130 |
| `resources` | Does a check made a statement earlier still protect? | `TypeOK`, `WithinReach`, `References` | 1,813,991 |
| `webhook` | Do the row and Telegram agree at rest? | `TypeOK`, `RowTellsWebhook`, `ListInForce`, `MoveIsNoticed` | 619,894 |
| `service` | Does a signal end the process, and in order? | `QuietWhenClosed`, `SignalEndsProcess` | 1,266,170 |
| `panel` | Does the panel show and save the right things? | `NothingOfOthers`, `OwnChangeShown`, `SavedAsMeant` | 13,610,884 |
| `finding_crash_loses_update` | Does a crash during ingest lose nothing? | `NothingLost` violated | |

**Bounds.** Two deliveries suffice for what one does to another: they only meet in a batch
and in the slots of a worker. Two runs of the process give one crash or redeploy at any
point (`SpareRun` keeps one run in reserve, so that fairness is about a service that does
come back); `queue_shared` has three so that a lease can expire under two contenders.
`LockTimeout` is 2 or 3 units and `MaxRun` one less, the tightest values with `MaxRun <
LockTimeout`; in `queue_calm` they are equal, as the longest attempt and `LOCK_TIMEOUT_MS`
are in the code, and a lock may expire under its job. `queue_calm` has a single slot: with
one slot a full worker, an idle one and a refused third job are all reached. `queue_faults`
has two slots, where a throwing job leaves another one running. One fault is enough to hit
each statement; retries give the second chance. `attempts` takes answers at both sides of
each boundary of the classes, every schedule of up to two steps, and two edits of six
kinds: more would only add edits that do not overlap the attempt's two reads. In `ingest`,
two requests overlap in every way two can; two routes to two destinations give partial
matches, partial deletions and re-targeting. In `migration` the TTL is 3 units and a hold
at most 2; five starts, three of them together, let one die, one fail to migrate or to
release its lock and one time out while another comes up. `accounts` has a bootstrap
account and two others of the same name, one after the other; two requests give every race
of two methods. `resources` has two users who share nothing and two destinations a route
may be moved between; one request is enough, as its peers' writes are actions of their own.
`webhook`: two ids, two bases, two lists, two requests. `service`: three jobs, two to end
and one to be orphaned by a failure. `panel`: two users, one record (the form for a new one
is the second thing a save can be about), and two writes besides the one they are from,
one's own and another's in either order; what can be done on the pages left out can be done
on one of the three.

**Symmetry** is used in `accounts` (requests), `resources`, `webhook` and `panel`, where no
constant of the set is named and no liveness is checked.

**Deadlock.** Checked in the queue, ingest and panel runs. The others really end or may
stop: a delivery settles, a process exits, ids are used up.

**Fairness.** `DeliveryQueue`: the event loop runs every ready callback, timers and
timeouts fire (`AbortController`, `setTimeout`), and the supervisor restarts the service:
weak fairness of each worker's steps, of each job's steps and of time. Arrivals, deletions,
crashes, faults and shutdowns are owed by nobody. `Ingest`: a handler that has started runs
on. `MigrationLock`: statements complete, timers fire and the supervisor starts the next
run. `Service`: the watchdog alone; requests, jobs and statements may hang for ever. No
strong fairness is used.

### What the violated run shows

`finding_crash_loses_update`: the event is inserted, the process dies, Telegram's retry is
answered `duplicate`: no delivery is ever made. An event replay by hand can repair it.

### Where the guarantees end

Some properties are stated for a configuration because they are false outside it. Those of
the first group can be seen by changing one constant or adding a definition to a .cfg:

- `NoConcurrentRun` needs two of three: one process at a time, `MaxRun < LockTimeout`, no
  batch that leaves a job behind. In the code both `LOCK_TIMEOUT_MS` and the largest
  `timeoutMs` of a destination are 120 s and the claim uses `<=`, so with two processes on a
  volume the longest attempt can be joined by a second one (set `MaxRun = 2`,
  `LockTimeout = 2`, `SharedVolume = TRUE`); one process can do it to itself when a job has
  lost its batch (`MaxRun = 2` in `queue_faults`, with `NoConcurrentRun` for `LeaseInv`).
  With short runs and two processes of two slots each, one failing statement is enough
  (`Concurrency = 2`, `MaxFaults = 1` in `queue_shared`, with two deliveries): a worker that
  is stopped gives back the lease of a job that is still sending, and the other process
  claims the row.
- `CompletedIsFinal`, `RetryNotEarly` and `AttemptsBounded` (no attempt has a number beyond
  `DELIVERY_MAX_ATTEMPTS`; defined in `DeliveryQueueProofs`) need one process at a time: the
  claim's UPDATE rechecks the lock but neither the status nor the due time, so a row another
  process has completed or rescheduled since the SELECT is claimed again, a failed one for an
  attempt beyond the last (`SharedVolume = TRUE`).
- `EventuallySettled` needs secrets that decrypt (`Poisoned = {d1}` in `queue_calm`):
  `revealSigningSecret` (`worker/delivery-worker.ts:201`) throws outside `send`, so nothing
  is recorded, the lease expires and the row is claimed again, for ever, where
  `src/docs/ARCHITECTURE.md:123` has attempts up to `DELIVERY_MAX_ATTEMPTS`. A changed
  `APP_ENCRYPTION_KEY` leaves such secrets behind.
- `StopWaitsForJobs` is about a worker without failing statements. An event deleted under a
  running job makes `recordAttempt` throw; `Promise.all` rejects; `stop()` finds no tick to
  await and `inFlight` at 0, and gives back the lease of the other job of the batch while it
  is sending (`worker/delivery-worker.ts:341`; the comment at `:330` says that in-flight
  attempts finish). It shows with two slots (`Concurrency = 2`) in `queue_calm`. The same
  early rejection lets the next tick claim a full batch beside the jobs still running, more
  than `DELIVERY_WORKER_CONCURRENCY` in all.
- `LostOnlyByFailure` says `Undisturbed`: a route deleted between the matching and the INSERT
  fails the foreign key of the whole INSERT, the other routes' deliveries included.
- `NoConcurrentMigration` and `NoLockLeft` are about starts of which none has died or failed
  to delete its lock (`db/migrate.ts:102`). The stale lock is deleted by its key alone
  (`:53`), so of two processes that read a lock left behind the second deletes the lock the
  first has just inserted and both migrate, which the comment at `:35` excludes. A migration
  that takes longer than the lock's TTL is joined by another process; the model has every
  hold end before (`MaxHold < Ttl`).
- `ListInForce` excludes a status read over the state error. A refresh that Telegram refuses
  is saved and answered with success (`services/bots.ts:248`); the row says error until
  `getWebhookInfo` (`services/bots.ts:333-352`), which compares URLs alone, sets 'active'
  with the old list in force.
- `WithinReach` promises the destinations at the ends of routes and deliveries only until an
  administrator has made a route across owners or reassigned a bot or a destination. From
  then on the manager of the bot is shown the name and the URL of a destination of somebody
  else's (`services/routes.ts:12-26,39-45,93-102`, `services/deliveries.ts:58-86,242-307`),
  and a test, an event replay or a delivery replay (`services/deliveries.ts:329-363`) sends
  to it. `src/docs/SECURITY.md:102-105` has managers see only rows they own, with ownership
  enforced on read and write; the code filters these by the owner of the bot.
- `NothingOfOthers` excludes, until the next sign-out, lapsed sessions and late answers of
  `/auth/me`: after either another user can sign in without the cached lists being dropped,
  as `signOut` alone clears them. A sign-in does not cancel an `/auth/me` asked before it
  (`fe/hooks/useSession.tsx:31-45,57`); its 401 signs the user out of the panel over a
  cookie that is good and a cache that stays.
- `OwnChangeShown` excludes a change made before the list has loaded for the first time.
  "Add destination" can be pressed by then (`fe/pages/DestinationsPage.tsx:164-174`), and
  `invalidateQueries` joins the load under way, whose answer may be older than the change:
  it is shown until the next fetch.
- `BlockedHasNoSession` and `ForcedChangeStands` of `Accounts` state `src/README.md:114-115`
  and are false: a login that has read the user before the block inserts its session after
  it (the guard refuses that session by the user's status, so `DeadCredentialRefused`
  holds); a change of password that has read the user before an administrator's reset
  overwrites the reset and clears its forced change.

Others are outside the models, or are what the models do:

- Accounts: a crash between the UPDATE and the DELETE of a reset leaves sessions alive. The
  bootstrap promotes an account that has the configured name but does not unblock it
  (`services/users.ts:197`).
- BotWebhook: overlapping enable and disable can leave an enabled bot without webhook;
  `setWebhook` leaves out an empty list, which Telegram then takes as "keep the old one";
  'mismatch' stays after the base URL has moved back; a disabled bot can be registered and
  is not audited; a failing UPDATE and a call that takes effect after its timeout are not
  modelled.
- Resources: the dashboard's pendingDeliveries (`services/deliveries.ts:207-213`) counts
  everybody's rows, where `src/docs/SECURITY.md:103` lets a manager see their own. A request
  of several statements is set against atomic writes of others.
- Ingest: a route whose chat filter lacks the sample's chat 100000001 never delivers a test,
  though the comment at `http/routes/bots.ts:103` has it verify the destination.
- Dispatch: `src/docs/SECURITY.md:212` says the old secret stops working the moment it is
  saved; an attempt in flight still uses it. Switching signing on from a stale read can
  overwrite a secret given by a concurrent edit. Logged headers are redacted only if named
  `authorization`, `*-key` or `*-token` (`worker/delivery-worker.ts:216-222`).
- Service: `src/docs/ARCHITECTURE.md:222` has shutdown wait up to 15 s for attempts; the tick
  is awaited first and without a bound, and the 15 s come after it. A sweep of the timer and
  an orphaned job may meet the closed database (`QuietWhenClosed` says that nothing else
  of the model does). A failing `listen` exits with the worker started; a signal before `listen`
  kills the process.
- Panel: signing out offline leaves the cookie, so a reload signs back in. The callbacks of
  a mutation close whichever form is open by then. A save that waited for the network on
  the destinations or routes page goes to the record open by then, or creates a second one
  (`SavedAsMeant` excludes it). A failed reload after a save is still announced as a
  success, over the old list. Forms save all their fields, over others' edits;
  `Number(form.priority) || 100` turns 0 into 100
  (`fe/components/bots/RoutesPanel.tsx:148`); cleared headers or a cleared timeout are not
  sent (`fe/pages/DestinationsPage.tsx:157`); deleting a route does not refresh the bots'
  list. A second tab that changes the cookie is not modelled.

## 4. Proofs

Every invariant, every action property and both refinements that the passing runs check are
proved for every value of the constants, with the exceptions named at the end of this
section. Each proof module states an inductive invariant, proves that it holds initially and
that each action keeps it (one step per action, one per conjunct the action can disturb), and
ends with the theorems that follow from it. Assumptions are the named ASSUMEs of the modules
and the hypotheses written at the theorems; two ASSUMEs say no more than that there is
something to talk about (`Updates # {}` in `Ingest`; in `Dispatch`, `Editors` is finite, so
that what each edit enters can be numbered).

| Module | Theorem | States | Hypotheses |
|---|---|---|---|
| `DeliveryQueueProofs` | `TypeCorrect` | `TypeOK` | |
| | `LeaseSafe` | `LeaseInv` | L |
| | `NeverRunTwice`, `LeaseNeverLost` | `NoConcurrentRun`, `LeaseHeld` | `TwoHold` |
| | `CompletedStays`, `BackoffIsKept` | `CompletedIsFinal`, `RetryNotEarly` | L |
| | `HistoryAccountsForRow` | `HistoryExplainsRow` | `TwoHold` |
| | `AttemptsStayWithinLimit` | `AttemptsBounded` | L |
| | `StopLeavesNoJob` | `StopWaitsForJobs` | `NoneLeftBehind`, and `~SharedVolume` or `MaxRun < LockTimeout` |
| | `QueueImplementsLifecycle` | `ImplementsLifecycle` | `~SharedVolume`, `NoneLeftBehind` |
| `DispatchProofs` | `RetriesFollowSchedule`, `RetriesEndAsDocumented` | `ScheduleFollowed`, `EndsAsDocumented` | |
| | `RequestsAreOfOneVersion`, `RequestsAreSigned` | `OneVersion`, `SignedAsConfigured` | |
| | `DispatchTypeCorrect` | `TypeOK` | |
| `IngestProofs` | `IngestTypeCorrect`, `AcknowledgedNeverLost`, `OnlyFailureLosesUpdates` | `TypeOK`, `AcknowledgedIsKept`, `LostOnlyByFailure` | |
| | `IngestImplementsIntake` | `ImplementsIntake` | |
| | `TestReachesRoute`, `KeyOrderIsIrrelevant` | what `Routing` makes of a route's test and of an update's keys | written at them |
| `WebhookProofs` | `WebhookTypeCorrect`, `RowIsTold`, `ListReachesTelegram`, `MovesAreNoticed` | `TypeOK`, `RowTellsWebhook`, `ListInForce`, `MoveIsNoticed` | |
| `ResourcesProofs` | `ResourcesTypeCorrect`, `NothingBeyondReach`, `ReferencesHold` | `TypeOK`, `WithinReach`, `References` | |
| `AccountsProofs` | `AccountsTypeCorrect`, `ActiveAdminStays` | `TypeOK`, `ActiveAdminRemains` | |
| | `ResetLeavesNoSession`, `DeadCredentialStaysOut` | `ResetEndsSessions`, `DeadCredentialRefused` | |
| `ProcessProofs` | `MigrationSafe`, `MigrationLeavesNoLock` | `NoConcurrentMigration`, `NoLockLeft` | `MaxHold < Ttl` |
| | `ReadyOnNewSchema` | `ReadyMeansMigrated` | |
| | `NothingWaitsForClosed` | `QuietWhenClosed` | |
| `PanelProofs` | `PanelTypeCorrect` | `TypeOK` | |
| | `NothingOfOthersShown`, `OwnChangeStaysShown`, `SavesGoWhereMeant` | `NothingOfOthers`, `OwnChangeShown`, `SavedAsMeant` | |

`NoneLeftBehind` is: a single slot (and finitely many deliveries), or no statement that
fails, no secret that does not decrypt and no row that vanishes. L stands for one process at
a time and runs shorter than the lock timeout or nothing left behind: `~SharedVolume`, and
`MaxRun < LockTimeout` or `NoneLeftBehind`. `TwoHold` is any two of the three:
`~SharedVolume`, `MaxRun < LockTimeout`, `NoneLeftBehind`. The hypotheses are needed; section
3 says what happens without them. As 120 s is both the longest attempt and the lock timeout,
it matters that one process which leaves nothing behind does not need the second.

**Delivery queue.** `NoConcurrentRun` alone is not inductive: a claim could lease a row that
a job is running. `HandInv` says what a row in hand looks like: it is locked by the worker of
its job with a `lockAge` equal to the job's age (`LeaseHeld`), which is at most `MaxRun`
(`Ages`); a claim between its UPDATE and its re-read holds it likewise (`ClaimHeld`), so that
the re-read makes the only job; jobs belong to live workers, awaited ones to a worker that
waits (`InHand`). Lemma `HandNext` shows that every step keeps it that starts in a state that
is `ClaimsFree` (what a claim's UPDATE can take nobody runs or has leased) and `Orderly`
(while a job runs whose worker has given its leases back, nobody claims). There are two ways
to have these.

- *Short runs.* A lock younger than `LockTimeout` is not `Leasable` (`HeldNotLeasable`), so
  claims are free (`TimelyClaims`). Order needs a worker that has stopped to have no job:
  `AwaitedInv` says that every job is awaited by the tick that claimed it. With one slot a
  worker has one delivery in hand, as candidate, lease or job, so the job that throws is the
  only one of its batch. The lease then keeps any number of processes apart.
- *One process* (`OneAlive`; `LeaseInv` is `HandInv` with it). Nobody is left to claim, which
  is order; and the candidates a claim has read and not yet come to are still in no job's or
  lease's hands, however long ago that was (`CandidatesKept`). The SELECT before them must
  meet no job either: by the age of the lock, or as the worker that selects awaits nothing
  and so has no job (`AwaitedInv` again). A batch that leaves a job behind and a run longer
  than the lock together break it, nothing less.

The lemmas are about the kinds of steps several actions share: a job that advances, a job
that throws, a worker that changes phase, a claim, a death, the passing of time.
For `CompletedIsFinal` and `RetryNotEarly`, `FinalInv` adds to `CandidatesKept` (which also
says that candidates are still open and due: there is nobody else to complete or reschedule
them) that a completed row is not locked, and that a job which outlives `stop()` finds its
row pending again (`HandedBack`).
`HistoryInv` adds to `HandInv` that the attempt a job is about to record is the next of the
row's (`JobsCounted`), so that the log is at most the one entry ahead that was inserted and
not counted. A step keeps it if no job meets a completed row (`Unsettled`); on a shared
volume a claim may reopen one, but never under a job, which is all the log needs.
`AttemptsBounded` follows because an open row has an attempt left (`AttemptsLeft`) and a job
is made of a row that is open. With `CalmInv`, these together with `AwaitedInv`, each action
maps to a step of `DeliveryLifecycle` or a stutter, by one lemma per action.

**Dispatch.** `DeliveryInv` adds to the two properties that a delivery is `processing`
exactly during an attempt and has until its end a wait for every attempt made, with one
attempt left; `RequestInv` says that a row that signs has a secret, that an edit which has
read a secret will not find the row without one (so the secret it decided not to make is
there when it writes), and that the present row is among those seen.

**Ingest.** `IngestInv` says of an update that is stored and not fanned out that the request
which stored it is still on its way, unless something failed (`OnItsWay`); of a delivery which
request made it (`DeliveredByItsRequest`); that one request at most fans an update out
(`OneFans`, by the unique index); and that what is worked on is stored unless its bot went.
The refinement maps a fan-out to the INSERT of the deliveries, everything else to a stutter
or the taking of an update. Of `Routing`, a pure module, two things are proved that tests
cover by examples: the sample a route's test is answered with goes through that route for
every type it may be asked for, except where a chat filter is in the way (`TestReachesRoute`:
the types of the Bot API and the places of their chats, case by case), and the classification
of an update depends on its keys and not on their order (`KeyOrderIsIrrelevant`).

**Bots.** `WebhookInv` is about the moments in between: what a request that has called
Telegram knows until its UPDATE (`AloneKnows`, for a request no other has overlapped), that
a changed list is in force, was refused and the row says error, or will yet be sent or
noted as refused by somebody (`ListSent`; this obligation has to survive a bot that is
disabled), that a move is known to the audit or to a request on its way (`MoveIsHandled`).

**Resources.** For each method, `ResourcesInv` says at each of its statements what the guards
before it have established and what of it nobody else can have undone meanwhile. The proof
goes through the methods statement by statement. The first attempt failed on a model in
which the id of a deleted row could be given out again: a request holding it would have
changed its successor, in somebody else's reach. The code draws ids at random, so the model
was wrong and `fresh` was added. What is reached through routes and deliveries needs a second
invariant, `LinksInv`: until an administrator joins what two users own, every owner is still
the creator (`Kept`), the two ends of every route and of every delivery were made by the same
user (`Joined`), and so were the bot and the destination a request has read; what it has shown
of them was its actor's (`Meets`).

**Accounts.** `remove` counts the active administrators in one statement and deletes in
another, and two administrators may remove each other at once; the count protects nothing.
What does is the bootstrap account: `AdminInv` says that it is an active administrator and
that no request in flight has passed the guards with the intention to demote, block or delete
it. `LateInv` follows a credential that was dead when its request came: nothing but an
unblocking revives it (`NoneRevived`, a lemma about every step), so no guard lets it pass.

**Migrations.** The inductive `LockInv` ties the lock's row to the one process between its
INSERT and its DELETE, with the age of its try; hence no lock is ever stale
(`HeldNotStale`) and the DELETE by key is never reached. It holds as long as nobody has
died or failed to release, which `Safe` carries along; after that both properties are true
by what they say, or false (see above). `ReadyOnNewSchema` rests on neither: a process that
comes up has seen its own migrate succeed.

**Service.** `QuietInv` says what each step of the shutdown finds and that nothing which
still runs undoes it: a sweep asked for by hand belongs to a request that is being handled,
so draining the requests ends it too; the loop is on its timer or in a tick, never both, and
not scheduled again once the worker is to stop; a tick that is over awaits no job. The
theorem has no hypothesis on what hangs, fails or is signalled during the shutdown, and none
on the constants but the assumption that the sweeps of timer and requests are told apart.

**Panel.** `PanelInv` says, of what is under way, whose it is (`OwnCache`, until a lapse or a
late answer of `/auth/me`; `MeantFor`), after which write it was read (`Fresh`, but for a
first load that a change has joined) and that nothing is fetched for nobody.

**Only model-checked**, and why:

- all liveness (`EventuallySettled`, `StopEnds`, `FanOutCompletes`, `ServiceComesUp`,
  `SignalEndsProcess`): out of the prover's reach, as is ENABLED;
- what `nextRetryDelay`, the classifier and the matching compute in full from a list of
  steps, places or routes: induction over data. The theorems use what the definitions say of
  one step or of one element.

## 5. Plan

1. Done: the modules, runs and proofs above.
2. A composition of ingest and queue: from an acknowledged update to settled deliveries.
3. Failing statements in `BotWebhook` and `Accounts`; a second tab in `Panel`.

## 6. Not modelled

- Cryptography, ids, password hashing, logging (`lib/`): pure functions of bytes and wrappers
  of libraries. The models need that a decryption may fail and that a hash takes time.
- Configuration (`config/env.ts`): parsed once; its bounds are the assumptions on constants.
- Address parsing and DNS (`security/ssrf.ts`): only the verdict is in the models.
- Validation schemas, DTO types, headers, rate limits, static files, the arithmetic of the
  statistics: no state of their own.
- Of the panel: layout, the wizard that connects a bot, the raw views of events.
