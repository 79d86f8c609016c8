------------------------------ MODULE Resources ------------------------------
(***************************************************************************)
(* Bots, destinations, routes, events and deliveries as the operator's API *)
(* serves them: who may read and change what (services/bots.ts,            *)
(* destinations.ts, routes.ts, events.ts, deliveries.ts, stats.ts and      *)
(* their routes in http/routes).                                           *)
(*                                                                         *)
(* Every service method is a sequence of statements: guards that read a    *)
(* row and refuse the caller, and writes or reads by id that no longer ask *)
(* whose row it is.  A method is written as the sequence of its            *)
(* statements; between two of them anything may change.                    *)
(***************************************************************************)
EXTENDS Naturals, Sequences, FiniteSets

CONSTANTS
    Users, Bots, Destinations, Routes, Events, Deliveries, Requests,
    Nobody,  \* owner_id NULL
    Gone     \* no row

Things == Bots \cup Destinations

ASSUME ResourcesAssumption ==
    /\ {Nobody, Gone} \cap (Users \cup Things) = {} /\ Nobody # Gone
    /\ Bots \cap Destinations = {}
    /\ Things \cap (Routes \cup Events \cup Deliveries) = {}

VARIABLES
    role,      \* of each user
    owner,     \* of each bot and destination
    route,     \* table routes
    event,     \* table telegram_events: the bot of each
    delivery,  \* table deliveries
    fresh,     \* the ids not given to a row yet (generateId): no id is given twice
    crossed,   \* history: an administrator has reassigned a bot or a destination, or has
               \* joined those of two users by a route
    creator,   \* history: the first owner of each bot and destination, until then
    request    \* the requests being handled

history == <<crossed, creator>>
tables  == <<role, owner, route, event, delivery, fresh, history>>
vars    == <<tables, request>>

------------------------------------------------------------------------------
\* Service methods

bots_list   == <<"list_bots">>
bots_get    == <<"bot", "show">>
bots_create == <<"insert", "bot", "show">>
bots_update == <<"bot", "write", "bot", "show">>
bots_give   == <<"bot", "admin", "give", "bot", "show">>
bots_remove == <<"bot", "drop">>

\* One exchange with Telegram; the token is decrypted from the row the guard read.
bots_testConnection == <<"bot", "call", "write">>
bots_getWebhookInfo == <<"bot", "call", "write">>
bots_webhook        == <<"bot", "call", "write">>
gateway_send        == <<"bot", "call">>
gateway_proxy       == <<"bot", "call">>

destinations_list   == <<"list_destinations">>
destinations_get    == <<"destination", "show">>
destinations_create == <<"insert", "destination", "show">>
destinations_update == <<"destination", "write", "destination", "show">>
destinations_give   == <<"destination", "admin", "give", "destination", "show">>
destinations_remove == <<"destination", "drop">>
destinations_reveal == <<"destination", "show">>

\* Mutant of routes_retarget: the new destination is not looked at.
routes_retarget_Unchecked == <<"route", "bot", "retarget", "route", "bot", "show">>

routes_list     == <<"bot", "list_routes">>
routes_create   == <<"bot", "destination", "insert_route", "route", "bot", "show">>
routes_update   == <<"route", "bot", "write_route", "route", "bot", "show">>
routes_retarget == <<"route", "bot", "destination", "retarget", "route", "bot", "show">>
routes_remove   == <<"route", "bot", "drop_route">>
routes_test     == <<"route", "bot", "bot", "store", "enqueue">>

events_list       == <<"scope", "rows">>
events_get        == <<"event", "show">>
events_deliveries == <<"event", "scope", "rows">>
events_replay     == <<"event", "bot", "event_row", "enqueue">>

deliveries_list   == <<"scope", "rows">>
deliveries_get    == <<"delivery", "show">>
deliveries_replay == <<"original", "bot", "insert_replay", "delivery", "show">>

\* dashboard: the totals under one scope, the failures under a second one.  Its
\* pendingDeliveries, counted over all bots, is left out.
stats_dashboard == <<"scope", "rows", "scope", "rows">>

OnBot == {bots_get, bots_update, bots_give, bots_remove, bots_testConnection,
          bots_getWebhookInfo, bots_webhook, gateway_send, gateway_proxy, routes_list}
OnDestination == {destinations_get, destinations_update, destinations_give,
                  destinations_remove, destinations_reveal}
OnRoute    == {routes_update, routes_remove, routes_test}
OnEvent    == {events_get, events_deliveries, events_replay}
OnDelivery == {deliveries_get, deliveries_replay}
Global     == {bots_list, destinations_list, events_list, deliveries_list, stats_dashboard}

------------------------------------------------------------------------------
\* Types

NoRoute    == [bot |-> Gone, destination |-> Gone]
Route      == {NoRoute} \cup [bot: Bots, destination: Destinations]
NoDelivery == [event |-> Gone, bot |-> Gone, destination |-> Gone]
Delivery   == {NoDelivery} \cup [event: Events, bot: Bots, destination: Destinations \cup {Gone}]

\* todo: the statements left; admin: the role when the request was admitted; bot,
\* destination, item: what it is about; scope: bots a list is confined to; via: the
\* destination of the route or delivery it has read.  History: did: the bots it has shown,
\* changed or used, and the destinations it has by their own id; through: those it has
\* shown or sent to as the ends of routes and deliveries; mine: what was its actor's to
\* see and to change at some moment of the request.
Idle == [todo |-> <<>>, actor |-> Nobody, admin |-> FALSE, bot |-> Gone, destination |-> Gone,
         item |-> Gone, scope |-> {}, via |-> Gone, did |-> {}, through |-> {}, mine |-> {}]

TypeOK ==
    /\ role \in [Users -> {"admin", "manager", "gone"}]
    /\ owner \in [Things -> Users \cup {Nobody, Gone}]
    /\ \A x \in Things : owner[x] \in Users => role[owner[x]] # "gone"
    /\ route \in [Routes -> Route]
    /\ event \in [Events -> Bots \cup {Gone}]
    /\ delivery \in [Deliveries -> Delivery]
    /\ fresh \subseteq Things \cup Routes \cup Events \cup Deliveries
    /\ creator \in [Things -> Users \cup {Gone}] /\ crossed \in BOOLEAN
    /\ \A r \in Requests :
        LET q == request[r]
        IN  /\ q.actor \in Users \cup {Nobody} /\ q.admin \in BOOLEAN
            /\ q.bot \in Bots \cup {Gone} /\ q.destination \in Destinations \cup {Gone}
            /\ q.item \in Routes \cup Events \cup Deliveries \cup {Gone}
            /\ q.scope \subseteq Bots /\ q.via \in Destinations \cup {Gone}
            /\ q.did \subseteq Things /\ q.through \subseteq Destinations /\ q.mine \subseteq Things

There(x) == owner[x] # Gone

Init ==
    /\ role \in [Users -> {"admin", "manager"}]
    /\ owner \in [Things -> Users \cup {Gone}]
    /\ route = [t \in Routes |-> NoRoute]
    /\ event = [e \in Events |-> Gone]
    /\ delivery = [d \in Deliveries |-> NoDelivery]
    /\ fresh = {x \in Things : owner[x] = Gone} \cup Routes \cup Events \cup Deliveries
    /\ creator = owner /\ crossed = FALSE
    /\ request = [r \in Requests |-> Idle]

------------------------------------------------------------------------------
\* Requests

\* What user u may see and change.
Reach(u, roles, owners) ==
    IF u = Nobody THEN {}
    ELSE IF roles[u] = "admin" THEN Things ELSE {x \in Things : owners[x] = u}

Noted(requests, roles, owners) ==
    [r \in Requests |->
        [requests[r] EXCEPT !.mine = @ \cup Reach(requests[r].actor, roles, owners)]]

\* The guard of the session or key has admitted u.
Start(r, u, method, args) ==
    /\ request[r] = Idle /\ role[u] # "gone"
    /\ request' = [request EXCEPT ![r] =
          [args EXCEPT !.todo = method, !.actor = u, !.admin = role[u] = "admin",
                       !.mine = Reach(u, role, owner)]]
    /\ UNCHANGED tables

On(bot, destination, item) ==
    [Idle EXCEPT !.bot = bot, !.destination = destination, !.item = item]

Asked(r, u) ==
    \/ \E m \in Global : Start(r, u, m, Idle)
    \/ \E m \in OnBot, b \in Bots : Start(r, u, m, On(b, Gone, Gone))
    \/ \E m \in OnDestination, d \in Destinations : Start(r, u, m, On(Gone, d, Gone))
    \/ \E m \in OnRoute, t \in Routes : Start(r, u, m, On(Gone, Gone, t))
    \/ \E d \in Destinations, t \in Routes : Start(r, u, routes_retarget, On(Gone, d, t))
    \/ \E m \in OnEvent, e \in Events : Start(r, u, m, On(Gone, Gone, e))
    \/ \E m \in OnDelivery, d \in Deliveries : Start(r, u, m, On(Gone, Gone, d))
    \/ \E b \in Bots \cap fresh : Start(r, u, bots_create, On(b, Gone, Gone))
    \/ \E d \in Destinations \cap fresh : Start(r, u, destinations_create, On(Gone, d, Gone))
    \/ \E b \in Bots, d \in Destinations, t \in Routes \cap fresh :
          Start(r, u, routes_create, On(b, d, t))

\* The answer goes out; or a statement fails or the process dies: what is done is done.
Answer(r) ==
    /\ request[r] # Idle
    /\ request' = [request EXCEPT ![r] = Idle]
    /\ UNCHANGED tables

Doing(r, step) == request[r].todo # <<>> /\ Head(request[r].todo) = step

\* The statement is done; what it showed, changed or used.
After(r, did) == [request[r] EXCEPT !.todo = Tail(@), !.did = @ \cup did]

\* The same, and the ends of routes and deliveries it showed or sent to: RouteService and
\* DeliveryService join them to their rows and ask nobody whose they are.
Along(r, did, ends) == [After(r, did) EXCEPT !.through = @ \cup (ends \ {Gone})]

Does(r, q) == request' = [request EXCEPT ![r] = q]

Refuse(r) == Does(r, [request[r] EXCEPT !.todo = <<>>])

\* The one bot or destination the request is about.
Thing(r) == IF request[r].bot # Gone THEN request[r].bot ELSE request[r].destination

\* assertAccess, on the row as it is read.
Permits(r, x) == There(x) /\ (request[r].admin \/ owner[x] = request[r].actor)

------------------------------------------------------------------------------
\* Guards

\* getRowForActor of the bot, of the destination.
guard(r, step, x) ==
    /\ Doing(r, step)
    /\ IF x # Gone /\ Permits(r, x) THEN Does(r, After(r, {})) ELSE Refuse(r)
    /\ UNCHANGED tables

\* Only an administrator reassigns an owner.
adminOnly(r) ==
    /\ Doing(r, "admin")
    /\ IF request[r].admin THEN Does(r, After(r, {})) ELSE Refuse(r)
    /\ UNCHANGED tables

\* RouteService.get, up to the guard on the route's bot: the destination comes with it.
readRoute(r) ==
    /\ Doing(r, "route")
    /\ LET t == route[request[r].item]
       IN IF t = NoRoute THEN Refuse(r)
          ELSE Does(r, [After(r, {}) EXCEPT !.bot = t.bot, !.via = t.destination])
    /\ UNCHANGED tables

\* EventService.get and DeliveryService.get: the row, its bot b and the destination h of a
\* delivery in one SELECT.
readWithBot(r, step, b, h) ==
    /\ Doing(r, step)
    /\ IF b # Gone /\ Permits(r, b)
       THEN Does(r, [After(r, {b}) EXCEPT !.bot = b, !.via = h])
       ELSE Refuse(r)
    /\ UNCHANGED tables

\* getRow of an event that the retention may have taken since.
readEvent(r) ==
    /\ Doing(r, "event_row")
    /\ IF event[request[r].item] = Gone THEN Refuse(r) ELSE Does(r, After(r, {}))
    /\ UNCHANGED tables

\* replay: getRow of the original, before the guard on its bot.
readOriginal(r) ==
    /\ Doing(r, "original")
    /\ LET d == delivery[request[r].item]
       IN IF d = NoDelivery THEN Refuse(r)
          ELSE Does(r, [After(r, {}) EXCEPT !.bot = d.bot, !.via = d.destination, !.item = d.event])
    /\ UNCHANGED tables

------------------------------------------------------------------------------
\* Reads

\* The row the guard has read, or its counts; a route or a delivery is shown with the name
\* and the URL of its destination.
show(r) ==
    /\ Doing(r, "show")
    /\ Does(r, Along(r, {Thing(r)}, {request[r].via}))
    /\ UNCHANGED tables

\* The routes of a bot, joined with their destinations.
listRoutes(r) ==
    LET b == request[r].bot
    IN  /\ Doing(r, "list_routes")
        /\ Does(r, Along(r, {b}, {route[t].destination : t \in {x \in Routes : route[x].bot = b}}))
        /\ UNCHANGED tables

\* list of bots, of destinations: all rows are read, the caller's are kept.
listOwn(r, step, xs) ==
    /\ Doing(r, step)
    /\ Does(r, After(r, {x \in xs : Permits(r, x)}))
    /\ UNCHANGED tables

\* accessibleBotIds: null for an administrator; a list of no bots ends here.
readScope(r) ==
    /\ Doing(r, "scope")
    /\ LET own == {b \in Bots : Permits(r, b)}
       IN IF own = {} /\ ~request[r].admin THEN Refuse(r)
          ELSE Does(r, [After(r, {}) EXCEPT !.scope = own])
    /\ UNCHANGED tables

\* The rows of the bots in scope; those of deliveries name their destinations.
readRows(r) ==
    /\ Doing(r, "rows")
    /\ LET rows == {event[e] : e \in Events} \cup {delivery[d].bot : d \in Deliveries}
           seen == IF request[r].admin THEN rows \ {Gone} ELSE rows \cap request[r].scope
       IN Does(r, Along(r, seen, {delivery[d].destination :
                                    d \in {x \in Deliveries : delivery[x].bot \in seen}}))
    /\ UNCHANGED tables

\* The Telegram API is called with the bot's token.
call(r) ==
    /\ Doing(r, "call")
    /\ Does(r, After(r, {request[r].bot}))
    /\ UNCHANGED tables

------------------------------------------------------------------------------
\* Writes

\* INSERT of a bot or destination for the actor; the foreign key wants the owner.
insert(r) ==
    /\ Doing(r, "insert")
    /\ IF role[request[r].actor] = "gone" \/ Thing(r) \notin fresh
       THEN Refuse(r) /\ UNCHANGED tables
       ELSE /\ fresh' = fresh \ {Thing(r)}
            /\ owner' = [owner EXCEPT ![Thing(r)] = request[r].actor]
            /\ creator' = [creator EXCEPT ![Thing(r)] = IF crossed THEN @ ELSE request[r].actor]
            /\ request' = Noted([request EXCEPT ![r] = After(r, {Thing(r)})], role, owner')
            /\ UNCHANGED <<role, route, event, delivery, crossed>>

\* UPDATE of anything but the owner: of the row with this id, if there is one.
write(r) ==
    /\ Doing(r, "write")
    /\ Does(r, After(r, {Thing(r)} \cap {x \in Things : There(x)}))
    /\ UNCHANGED tables

\* An administrator may join what two users have made.
Crosses(q) == q.admin /\ creator[q.bot] # creator[q.destination]

\* From then on it does not matter who has made what.
Crossing(c) ==
    /\ crossed' = (crossed \/ c)
    /\ creator' = IF crossed' THEN [x \in Things |-> Gone] ELSE creator

\* Mutant of give: the foreign key on owner_id is off.
give_NoForeignKey(r, u) ==
    /\ Doing(r, "give")
    /\ owner' = [owner EXCEPT ![Thing(r)] = IF @ = Gone THEN Gone ELSE u]
    /\ request' = Noted([request EXCEPT ![r] = After(r, {Thing(r)})], role, owner')
    /\ Crossing(TRUE) /\ UNCHANGED <<role, route, event, delivery, fresh>>

\* An administrator reassigns it; its routes stay as they are.
give(r, u) ==
    /\ Doing(r, "give") /\ role[u] # "gone"
    /\ owner' = [owner EXCEPT ![Thing(r)] = IF @ = Gone THEN Gone ELSE u]
    /\ request' = Noted([request EXCEPT ![r] = After(r, {Thing(r)})], role, owner')
    /\ Crossing(TRUE) /\ UNCHANGED <<role, route, event, delivery, fresh>>

\* Mutant of CascadeDeliveries: the events go, their deliveries stay.
CascadeDeliveries_Keep(x) ==
    [d \in Deliveries |-> IF delivery[d].destination = x
                          THEN [delivery[d] EXCEPT !.destination = Gone] ELSE delivery[d]]

\* ON DELETE: rows that hang on x go, a delivery outlives its destination.
CascadeDeliveries(x) ==
    [d \in Deliveries |->
        IF delivery[d].bot = x THEN NoDelivery
        ELSE IF delivery[d].destination = x THEN [delivery[d] EXCEPT !.destination = Gone]
        ELSE delivery[d]]

Dropped(x) ==
    /\ owner' = [owner EXCEPT ![x] = Gone]
    /\ route' = [t \in Routes |-> IF x \in {route[t].bot, route[t].destination} THEN NoRoute
                                  ELSE route[t]]
    /\ event' = [e \in Events |-> IF event[e] = x THEN Gone ELSE event[e]]
    /\ delivery' = CascadeDeliveries(x)
    /\ UNCHANGED <<role, fresh, history>>

drop(r) ==
    /\ Doing(r, "drop")
    /\ Dropped(Thing(r))
    /\ Does(r, After(r, {Thing(r)}))

\* INSERT of a route; the foreign keys want both ends.
insertRoute(r) ==
    LET q == request[r]
    IN  /\ Doing(r, "insert_route")
        /\ IF There(q.bot) /\ There(q.destination) /\ q.item \in fresh
           THEN /\ route' = [route EXCEPT ![q.item] = [bot |-> q.bot, destination |-> q.destination]]
                /\ fresh' = fresh \ {q.item} /\ Crossing(Crosses(q))
                /\ Does(r, After(r, {q.bot, q.destination}))
           ELSE Refuse(r) /\ UNCHANGED <<route, fresh, history>>
        /\ UNCHANGED <<role, owner, event, delivery>>

\* UPDATE of a route that may have gone since it was read.
writeRoute(r, step) ==
    LET q == request[r]
        t == route[q.item]
    IN  /\ Doing(r, step)
        /\ IF t = NoRoute THEN Does(r, After(r, {})) /\ UNCHANGED <<route, history>>
           ELSE IF step = "write_route"
           THEN Does(r, After(r, {t.bot})) /\ UNCHANGED <<route, history>>
           ELSE IF There(q.destination)
           THEN /\ route' = [route EXCEPT ![q.item].destination = q.destination]
                /\ Crossing(Crosses(q))
                /\ Does(r, After(r, {t.bot, q.destination}))
           ELSE Refuse(r) /\ UNCHANGED <<route, history>>
        /\ UNCHANGED <<role, owner, event, delivery, fresh>>

dropRoute(r) ==
    /\ Doing(r, "drop_route")
    /\ Does(r, After(r, {route[request[r].item].bot} \ {Gone}))
    /\ route' = [route EXCEPT ![request[r].item] = NoRoute]
    /\ UNCHANGED <<role, owner, event, delivery, fresh, history>>

\* A test stores a synthetic event.
storeTest(r, e) ==
    /\ Doing(r, "store") /\ e \in fresh
    /\ IF There(request[r].bot)
       THEN /\ event' = [event EXCEPT ![e] = request[r].bot] /\ fresh' = fresh \ {e}
            /\ Does(r, [After(r, {request[r].bot}) EXCEPT !.item = e])
       ELSE Refuse(r) /\ UNCHANGED <<event, fresh>>
    /\ UNCHANGED <<role, owner, route, delivery, history>>

\* A delivery of event e along a route of bot b, to its destination h.
Queued(d, e, b, h) ==
    /\ \E t \in Routes : route[t].bot = b /\ route[t].destination = h
    /\ d \in fresh
    /\ delivery' = [delivery EXCEPT ![d] = [event |-> e, bot |-> b, destination |-> h]]

\* enqueueDeliveries for the bot: the foreign key wants the event.
enqueue(r) ==
    LET q == request[r]
    IN  /\ Doing(r, "enqueue")
        /\ \/ /\ event[q.item] # Gone
              /\ \E d \in Deliveries, h \in Destinations :
                    /\ Queued(d, q.item, q.bot, h) /\ fresh' = fresh \ {d}
                    /\ Does(r, Along(r, {q.bot}, {h}))
           \/ Does(r, After(r, {q.bot})) /\ UNCHANGED <<delivery, fresh>>
        /\ UNCHANGED <<role, owner, route, event, history>>

\* replay: a new row beside the original, for the same event and destination, whose URL
\* is read again.
insertReplay(r, d) ==
    LET q == request[r]
    IN  /\ Doing(r, "insert_replay") /\ d \in fresh
        /\ IF event[q.item] # Gone /\ (q.via # Gone => There(q.via))
           THEN /\ delivery' = [delivery EXCEPT ![d] =
                     [event |-> q.item, bot |-> q.bot, destination |-> q.via]]
                /\ fresh' = fresh \ {d}
                /\ Does(r, [Along(r, {q.bot}, {q.via}) EXCEPT !.item = d])
           ELSE Refuse(r) /\ UNCHANGED <<delivery, fresh>>
        /\ UNCHANGED <<role, owner, route, event, history>>

------------------------------------------------------------------------------
\* What happens beside the requests

\* An administrator changes a role or deletes a user; owner_id becomes NULL.
SetRole(u, to) ==
    /\ role[u] # "gone"
    /\ role' = [role EXCEPT ![u] = to]
    /\ owner' = IF to = "gone"
                THEN [x \in Things |-> IF owner[x] = u THEN Nobody ELSE owner[x]]
                ELSE owner
    /\ request' = Noted(request, role', owner')
    /\ UNCHANGED <<route, event, delivery, fresh, history>>

\* Others reassign or delete a bot or destination.
Reassign(x, u) ==
    /\ There(x) /\ role[u] # "gone"
    /\ owner' = [owner EXCEPT ![x] = u]
    /\ request' = Noted(request, role, owner')
    /\ Crossing(TRUE) /\ UNCHANGED <<role, route, event, delivery, fresh>>

DropMeanwhile(x) == There(x) /\ Dropped(x) /\ UNCHANGED request

\* An update of Telegram is stored and enqueued.
Receive(e, b, d) ==
    /\ There(b) /\ e \in fresh
    /\ event' = [event EXCEPT ![e] = b]
    /\ \E h \in Destinations : Queued(d, e, b, h)
    /\ fresh' = fresh \ {d, e}
    /\ UNCHANGED <<role, owner, route, history, request>>

\* The retention takes an event with its deliveries.
Purge(e) ==
    /\ event[e] # Gone
    /\ event' = [event EXCEPT ![e] = Gone]
    /\ delivery' = [d \in Deliveries |-> IF delivery[d].event = e THEN NoDelivery ELSE delivery[d]]
    /\ UNCHANGED <<role, owner, route, fresh, history, request>>

Guarded(r) ==
    \/ guard(r, "bot", request[r].bot)
    \/ guard(r, "destination", request[r].destination)
    \/ adminOnly(r) \/ readRoute(r) \/ readEvent(r) \/ readOriginal(r)
    \/ \E e \in Events : e = request[r].item /\ readWithBot(r, "event", event[e], Gone)
    \/ \E d \in Deliveries :
          d = request[r].item /\ readWithBot(r, "delivery", delivery[d].bot, delivery[d].destination)

Reads(r) ==
    \/ show(r) \/ listRoutes(r) \/ readScope(r) \/ readRows(r) \/ call(r)
    \/ listOwn(r, "list_bots", Bots) \/ listOwn(r, "list_destinations", Destinations)

Writes(r) ==
    \/ insert(r) \/ write(r) \/ drop(r) \/ \E u \in Users : give(r, u)
    \/ insertRoute(r) \/ writeRoute(r, "write_route") \/ writeRoute(r, "retarget") \/ dropRoute(r)
    \/ \E e \in Events : storeTest(r, e)
    \/ enqueue(r) \/ \E d \in Deliveries : insertReplay(r, d)

Meanwhile ==
    \/ \E u \in Users, to \in {"admin", "manager", "gone"} : SetRole(u, to)
    \/ \E x \in Things : DropMeanwhile(x) \/ \E u \in Users : Reassign(x, u)
    \/ \E e \in Events : Purge(e) \/ \E b \in Bots, d \in Deliveries : Receive(e, b, d)

Next ==
    \/ \E r \in Requests : \/ \E u \in Users : Asked(r, u)
                           \/ Guarded(r) \/ Reads(r) \/ Writes(r) \/ Answer(r)
    \/ Meanwhile

Spec == Init /\ [][Next]_vars

------------------------------------------------------------------------------
\* Properties

\* Every bot a request shows, changes or uses, and every destination it does by its own
\* id, was within its actor's reach at some moment of that request, however the owners and
\* roles change under it (assertAccess, accessibleBotIds, docs/SECURITY.md:102-105).  A
\* destination that is shown or sent to as the end of a route or a delivery hangs on a bot
\* within reach, and nothing else is asked (routes.ts:39-45, 93-102, deliveries.ts:242-307,
\* 329-363): it was itself within reach as long as no administrator has routed across
\* owners or reassigned a bot or a destination.  After that it may be anybody's.
WithinReach ==
    \A r \in Requests : /\ request[r].did \subseteq request[r].mine
                        /\ ~crossed => request[r].through \subseteq request[r].mine

\* Every route has its two ends; a delivery and its event are of the same bot, which is
\* still there, though replays, tests and deletions overlap (routes.ts:66, events.ts:
\* 93, deliveries.ts:321, schema.ts).
References ==
    /\ \A t \in Routes : route[t] # NoRoute => There(route[t].bot) /\ There(route[t].destination)
    /\ \A e \in Events : event[e] # Gone => There(event[e])
    /\ \A d \in Deliveries : delivery[d] # NoDelivery =>
          /\ delivery[d].bot = event[delivery[d].event]
          /\ delivery[d].destination # Gone => There(delivery[d].destination)

==============================================================================
