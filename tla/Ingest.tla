-------------------------------- MODULE Ingest --------------------------------
(***************************************************************************)
(* Ingest: the webhook handler (http/routes/telegram-webhook.ts), the      *)
(* event replay and route test endpoints, and the EventService behind them *)
(* (services/events.ts), for one bot.  Requests run concurrently, each     *)
(* awaited statement is an action of its own, and nothing runs in a        *)
(* transaction.  Telegram sends an update again until it is answered 200,  *)
(* also while an earlier request for it is still being handled.            *)
(***************************************************************************)
EXTENDS Routing

CONSTANTS
    Updates,       \* the update_ids Telegram has for the bot
    Samples,       \* the update_ids buildSampleUpdate may draw for a test
    Routes,        \* ids of the bot's routes
    Destinations,  \* ids of destinations
    Content,       \* what each of these updates contains
    RouteForms,    \* contents an operator may give a route
    Removable,     \* routes and destinations that may be deleted, Bot
    Bot,           \* the bot in Removable
    Requests,      \* HTTP requests; bounds how many are made
    MaxFaults      \* bound: statements that fail, and crashes

ASSUME IngestAssumption ==
    /\ Updates # {} /\ Updates \cap Samples = {}
    /\ RouteForms \subseteq [enabled: BOOLEAN, destination: Destinations,
                             types: SUBSET (Known \cup {"*"}), chats: SUBSET STRING]
    /\ DOMAIN Content = Updates \cup Samples
    /\ Removable \subseteq Routes \cup Destinations \cup {Bot}
    /\ MaxFaults \in Nat

VARIABLES
    bot,           \* the bots row
    route,         \* the routes table, with what each one matches
    destination,   \* the destinations table
    events,        \* update_ids in telegram_events; unique per bot
    deliveries,    \* the deliveries table: for which update, by which request
    request,       \* the HTTP requests
    telegram,      \* what Telegram knows of each of its updates
    faults

vars == <<bot, route, destination, events, deliveries, request, telegram, faults>>

operator == <<bot, route, destination>>

------------------------------------------------------------------------------
Gone == [gone |-> TRUE]

Target == [route: Routes, destination: Destinations]

\* The row's own columns; routeId and destinationId are set to NULL when their
\* row goes, the snapshot taken at enqueue stays.
Delivery == [update: Updates \cup Samples, target: Target, by: Requests]

\* The answers of the handlers, and the fates of a request.
Taken    == {"accepted", "no_routes"}
Ok       == Taken \cup {"duplicate", "disabled"}
Settled  == Ok \cup {"not_found", "error", "broken"}

\* storing, matching, loading, saving: about to run the statement that inserts
\* the event, reads the routes, reads the destinations, inserts the deliveries.
InHand == {"storing", "matching", "loading", "saving"}

Request == [kind: {"webhook", "replay", "test"}, phase: {"unused"} \cup InHand \cup Settled,
            update: Updates \cup Samples, only: SUBSET Routes, targets: SUBSET Target]

\* With the foreign keys of the tables.
TypeOK ==
    /\ bot \in {"enabled", "disabled", "gone"}
    /\ route \in [Routes -> RouteForms \cup {Gone}]
    /\ destination \in [Destinations -> {"enabled", "disabled", "gone"}]
    /\ events \subseteq Updates \cup Samples
    /\ deliveries \subseteq Delivery
    /\ request \in [Requests -> Request]
    /\ telegram \in [Updates -> {"pending", "acknowledged"}]
    /\ faults \in 0..MaxFaults
    /\ \A r \in Routes : route[r] # Gone => destination[route[r].destination] # "gone"
    /\ \A d \in deliveries : d.update \in events

NewRequest == [kind |-> "webhook", phase |-> "unused",
               update |-> CHOOSE u \in Updates : TRUE, only |-> {}, targets |-> {}]

Init ==
    /\ bot = "enabled"
    /\ route \in [Routes -> RouteForms]
    /\ destination = [d \in Destinations |-> "enabled"]
    /\ events = {}
    /\ deliveries = {}
    /\ request = [q \in Requests |-> NewRequest]
    /\ telegram = [u \in Updates |-> "pending"]
    /\ faults = 0

Unused(q) == request[q].phase = "unused"

------------------------------------------------------------------------------
\* Requests arrive and are answered

\* The request is settled.  Telegram takes a 200 for the update as done, unless
\* it had given up on this request before.
Reply(q, answer) ==
    /\ request' = [request EXCEPT ![q].phase = answer]
    /\ IF request[q].kind = "webhook" /\ answer \in Ok
       THEN telegram' \in {telegram, [telegram EXCEPT ![request[q].update] = "acknowledged"]}
       ELSE UNCHANGED telegram

\* A request comes in: what it is about, and the statement it runs first.
Arrives(q, kind, u, only, phase) ==
    /\ Unused(q)
    /\ request' = [request EXCEPT ![q] =
         [kind |-> kind, phase |-> phase, update |-> u, only |-> only, targets |-> {}]]

\* Telegram posts the update and the bot's row is read.  A bot that is gone or
\* disabled gets its answer at once.
Webhook(q, u) ==
    /\ telegram[u] = "pending"
    /\ \/ bot = "enabled" /\ Arrives(q, "webhook", u, Routes, "storing") /\ UNCHANGED telegram
       \/ bot = "gone" /\ Arrives(q, "webhook", u, Routes, "not_found") /\ UNCHANGED telegram
       \/ /\ bot = "disabled" /\ Arrives(q, "webhook", u, Routes, "disabled")
          /\ telegram' \in {telegram, [telegram EXCEPT ![u] = "acknowledged"]}
    /\ UNCHANGED <<operator, events, deliveries, faults>>

\* An operator replays a stored event.
Replay(q, u) ==
    /\ u \in events /\ Arrives(q, "replay", u, Routes, "matching")
    /\ UNCHANGED <<operator, events, deliveries, telegram, faults>>

\* An operator sends a sample update through one route.
Test(q, u, r) ==
    /\ u \in Samples /\ route[r] # Gone /\ Arrives(q, "test", u, {r}, "storing")
    /\ UNCHANGED <<operator, events, deliveries, telegram, faults>>

------------------------------------------------------------------------------
\* ingest and enqueueDeliveries

\* Mutant of AlreadyStored: no unique index.
AlreadyStored_Never(u) == FALSE

\* onConflictDoNothing: the unique index on (bot_id, telegram_update_id).
AlreadyStored(u) == u \in events

\* The event is inserted, which needs the bot's row; a second one is dropped.
StoreEvent(q) ==
    LET u == request[q].update
    IN  /\ request[q].phase = "storing"
        /\ \/ bot # "gone" /\ ~AlreadyStored(u)
              /\ events' = events \cup {u}
              /\ request' = [request EXCEPT ![q].phase = "matching"]
              /\ UNCHANGED telegram
           \/ AlreadyStored(u) /\ Reply(q, "duplicate") /\ UNCHANGED events
           \/ bot = "gone" /\ Reply(q, "error") /\ UNCHANGED events
        /\ UNCHANGED <<operator, deliveries, faults>>

\* What ingest makes of each update.
Classified == [u \in Updates \cup Samples |-> classifyUpdate(Content[u])]

\* listMatchableForBot joins each route with its destination, matchRoutes keeps those
\* that match the update as it was classified.
Matched(u) ==
    {r \in Routes :
        /\ route[r] # Gone
        /\ routeMatches(route[r], destination[route[r].destination] = "enabled",
                        Classified[u])}

MatchRoutes(q) ==
    LET matched == request[q].only \cap Matched(request[q].update)
        targets == {[route |-> r, destination |-> route[r].destination] : r \in matched}
    IN  /\ request[q].phase = "matching"
        /\ IF matched = {}
           THEN Reply(q, "no_routes")
           ELSE /\ request' = [request EXCEPT ![q].phase = "loading", ![q].targets = targets]
                /\ UNCHANGED telegram
        /\ UNCHANGED <<operator, events, deliveries, faults>>

\* The destinations are read again, by id; those deleted since are skipped.
LoadDestinations(q) ==
    LET targets == {t \in request[q].targets : destination[t.destination] # "gone"}
    IN  /\ request[q].phase = "loading"
        /\ IF targets = {}
           THEN Reply(q, "no_routes")
           ELSE /\ request' = [request EXCEPT ![q].phase = "saving", ![q].targets = targets]
                /\ UNCHANGED telegram
        /\ UNCHANGED <<operator, events, deliveries, faults>>

\* The rows of the deliveries INSERT, all or none.
Rows(q) == {[update |-> request[q].update, target |-> t, by |-> q] : t \in request[q].targets}

\* Mutants of References: foreign keys off; a destination that was disabled since
\* makes the INSERT fail.
References_Unchecked(q) == TRUE
References_Enabled(q) ==
    \A t \in request[q].targets : destination[t.destination] = "enabled"

\* Its foreign keys: event, route and destination, all still there.
References(q) ==
    /\ request[q].update \in events
    /\ \A t \in request[q].targets :
          route[t.route] # Gone /\ destination[t.destination] # "gone"

SaveDeliveries(q) ==
    /\ request[q].phase = "saving"
    /\ IF References(q)
       THEN deliveries' = deliveries \cup Rows(q) /\ Reply(q, "accepted")
       ELSE UNCHANGED deliveries /\ Reply(q, "error")
    /\ UNCHANGED <<operator, events, faults>>

\* Mutant of Failed: the handler would answer 200 to a failure.
Failed_Acknowledged == "no_routes"

\* What the error handler answers (500) when a statement throws.
Failed == "error"

\* The statement the request was about to run fails (SQLITE_BUSY, a full disk).
QueryFails(q) ==
    /\ request[q].phase \in InHand /\ faults < MaxFaults
    /\ Reply(q, Failed)
    /\ faults' = faults + 1
    /\ UNCHANGED <<operator, events, deliveries>>

\* The process dies: the requests in hand are never answered.
Crash ==
    /\ faults < MaxFaults
    /\ request' = [q \in Requests |->
         [request[q] EXCEPT !.phase = IF @ \in InHand THEN "broken" ELSE @]]
    /\ faults' = faults + 1
    /\ UNCHANGED <<operator, events, deliveries, telegram>>

------------------------------------------------------------------------------
\* Operators change the configuration while requests are handled

EditRoute(r, form) ==
    /\ route[r] # Gone /\ destination[form.destination] # "gone"
    /\ route' = [route EXCEPT ![r] = form]
    /\ UNCHANGED <<bot, destination, events, deliveries, request, telegram, faults>>

RemoveRoute(r) ==
    /\ r \in Removable /\ route[r] # Gone
    /\ route' = [route EXCEPT ![r] = Gone]
    /\ UNCHANGED <<bot, destination, events, deliveries, request, telegram, faults>>

ToggleDestination(d) ==
    /\ destination[d] # "gone"
    /\ destination' = [destination EXCEPT ![d] =
         IF @ = "enabled" THEN "disabled" ELSE "enabled"]
    /\ UNCHANGED <<bot, route, events, deliveries, request, telegram, faults>>

\* The routes to it go too.
RemoveDestination(d) ==
    /\ d \in Removable /\ destination[d] # "gone"
    /\ destination' = [destination EXCEPT ![d] = "gone"]
    /\ route' = [r \in Routes |->
         IF route[r] # Gone /\ route[r].destination = d THEN Gone ELSE route[r]]
    /\ UNCHANGED <<bot, events, deliveries, request, telegram, faults>>

ToggleBot ==
    /\ bot # "gone"
    /\ bot' = IF bot = "enabled" THEN "disabled" ELSE "enabled"
    /\ UNCHANGED <<route, destination, events, deliveries, request, telegram, faults>>

\* Its routes, events and deliveries go too.
RemoveBot ==
    /\ Bot \in Removable /\ bot # "gone"
    /\ bot' = "gone"
    /\ route' = [r \in Routes |-> Gone]
    /\ events' = {}
    /\ deliveries' = {}
    /\ UNCHANGED <<destination, request, telegram, faults>>

------------------------------------------------------------------------------
Handle(q) == StoreEvent(q) \/ MatchRoutes(q) \/ LoadDestinations(q) \/ SaveDeliveries(q)

Operator ==
    \/ \E r \in Routes : RemoveRoute(r) \/ \E form \in RouteForms : EditRoute(r, form)
    \/ \E d \in Destinations : ToggleDestination(d) \/ RemoveDestination(d)
    \/ ToggleBot \/ RemoveBot

Next ==
    \/ \E q \in Requests :
          \/ \E u \in Updates : Webhook(q, u)
          \/ \E u \in Updates \cup Samples : Replay(q, u)
          \/ \E u \in Samples, r \in Routes : Test(q, u, r)
          \/ Handle(q) \/ QueryFails(q)
    \/ Crash
    \/ Operator

Spec == Init /\ [][Next]_vars

\* A handler that has started runs on.
FairSpec == Spec /\ \A q \in Requests : WF_vars(Handle(q))

------------------------------------------------------------------------------
(***************************************************************************)
(* Properties                                                              *)
(***************************************************************************)

Handling(u) == {q \in Requests : request[q].update = u /\ request[q].phase \in InHand}

\* Telegram forgets an update only when the gateway keeps it, or has said that
\* the bot is disabled or is gone itself.
AcknowledgedIsKept ==
    \A u \in Updates : telegram[u] = "acknowledged" =>
        \/ u \in events
        \/ bot = "gone"
        \/ \E q \in Requests : request[q].update = u /\ request[q].phase = "disabled"

\* An update in the events table whose requests are all over has fanned out: one
\* of them went through to the end.
NothingLost ==
    \A u \in events : Handling(u) = {} =>
        \E q \in Requests : /\ request[q].update = u /\ request[q].kind # "replay"
                            /\ request[q].phase \in Taken

\* No statement has failed, nothing has died and nothing was deleted.
Undisturbed ==
    /\ faults = 0 /\ bot # "gone"
    /\ \A r \in Routes : route[r] # Gone
    /\ \A d \in Destinations : destination[d] # "gone"

\* So it is while no failure, crash or deletion comes in between, whatever is edited,
\* switched off, repeated or replayed meanwhile (events.ts:44-167).
LostOnlyByFailure == Undisturbed => NothingLost

\* A stored update is fanned out in the end, if nothing fails or is deleted.
FanOutCompletes ==
    \A u \in Updates : u \in events ~>
        \/ ~Undisturbed
        \/ \E q \in Requests : /\ request[q].update = u /\ request[q].kind = "webhook"
                               /\ request[q].phase \in Taken

\* Ingest implements Intake: an update is taken by one request, and its fan-out
\* is atomic.
Fanning(u) == \E q \in Requests : /\ request[q].update = u /\ request[q].kind # "replay"
                                  /\ request[q].phase \in InHand \ {"storing"}

TakenOnce == INSTANCE Intake WITH
    Updates <- Updates \cup Samples,
    stage <- [u \in Updates \cup Samples |->
                IF Fanning(u) THEN "taken"
                ELSE IF u \in events \/ bot = "gone" THEN "closed" ELSE "new"],
    fanOut <- [u \in Updates \cup Samples |->
                {d.target.route : d \in {e \in deliveries :
                                           e.update = u /\ request[e.by].kind # "replay"}}]

ImplementsIntake == TakenOnce!Spec
==============================================================================
