--------------------------- MODULE ResourcesProofs ---------------------------
(***************************************************************************)
(* Theorems about Resources, for every set of users, bots, destinations,   *)
(* routes, events and deliveries and every number of requests at a time.   *)
(***************************************************************************)
EXTENDS Resources, SequenceTheorems, TLAPS

------------------------------------------------------------------------------
\* What is left of the methods after some of their statements

then_call == <<"call">>
then_drop == <<"drop">>
then_drop_route == <<"drop_route">>
then_enqueue == <<"enqueue">>
then_rows == <<"rows">>
then_show == <<"show">>
then_write == <<"write">>
then_bot_drop_route == <<"bot", "drop_route">>
then_call_write == <<"call", "write">>
then_event_row_enqueue == <<"event_row", "enqueue">>
then_store_enqueue == <<"store", "enqueue">>
then_bot_event_row_enqueue == <<"bot", "event_row", "enqueue">>
then_bot_store_enqueue == <<"bot", "store", "enqueue">>
then_give_bot_show == <<"give", "bot", "show">>
then_give_destination_show == <<"give", "destination", "show">>
then_list_routes == <<"list_routes">>
then_insert_replay_delivery_show == <<"insert_replay", "delivery", "show">>
then_route_bot_show == <<"route", "bot", "show">>
then_rows_scope_rows == <<"rows", "scope", "rows">>
then_write_bot_show == <<"write", "bot", "show">>
then_write_destination_show == <<"write", "destination", "show">>
then_admin_give_bot_show == <<"admin", "give", "bot", "show">>
then_admin_give_destination_show == <<"admin", "give", "destination", "show">>
then_bot_bot_store_enqueue == <<"bot", "bot", "store", "enqueue">>
then_bot_insert_replay_delivery_show == <<"bot", "insert_replay", "delivery", "show">>
then_insert_route_route_bot_show == <<"insert_route", "route", "bot", "show">>
then_retarget_route_bot_show == <<"retarget", "route", "bot", "show">>
then_write_route_route_bot_show == <<"write_route", "route", "bot", "show">>
then_bot_write_route_route_bot_show == <<"bot", "write_route", "route", "bot", "show">>
then_destination_insert_route_route_bot_show == <<"destination", "insert_route", "route", "bot", "show">>
then_destination_retarget_route_bot_show == <<"destination", "retarget", "route", "bot", "show">>
then_bot_destination_retarget_route_bot_show == <<"bot", "destination", "retarget", "route", "bot", "show">>

------------------------------------------------------------------------------
\* What may be left to do, and what the statements before it have made sure of

\* Nothing has to be known: what comes first is a guard, or confines itself.
Unguarded ==
    {<<>>, bots_list, destinations_list, events_list, deliveries_list, stats_dashboard,
     then_rows, then_rows_scope_rows, bots_get, bots_update, bots_give, bots_remove,
     bots_testConnection, bots_getWebhookInfo, bots_webhook, gateway_send, gateway_proxy,
     routes_list}

\* The bot is within reach.
BotPassed ==
    {then_show, then_write_bot_show, then_write, then_call_write, then_call,
     then_admin_give_bot_show, then_give_bot_show, then_drop, then_bot_store_enqueue,
     then_store_enqueue, then_list_routes}

\* A destination is asked about, and no bot.
DestinationAsked ==
    {destinations_get, destinations_update, destinations_give, destinations_remove,
     destinations_reveal}

\* That destination is within reach.
DestinationPassed ==
    {then_show, then_write_destination_show, then_drop, then_admin_give_destination_show,
     then_give_destination_show}

RouteAsked ==
    {then_route_bot_show, routes_update, routes_retarget, routes_remove, routes_test}

\* The route's bot has been read.
RouteRead ==
    {then_bot_write_route_route_bot_show, then_bot_drop_route,
     then_bot_destination_retarget_route_bot_show}

RoutePassed ==
    {then_write_route_route_bot_show, then_drop_route,
     then_destination_retarget_route_bot_show}

EventAsked ==
    {events_get, events_deliveries, events_replay}

\* The event's bot has been read, from the event or from a delivery of it.
EventRead ==
    {then_bot_event_row_enqueue, then_bot_insert_replay_delivery_show}

EventPassed ==
    {then_event_row_enqueue, then_enqueue, then_insert_replay_delivery_show}

DeliveryAsked ==
    {deliveries_get, deliveries_replay}

BotReached(q)         == q.bot \in Bots \cap q.mine
DestinationReached(q) == q.destination \in Destinations \cap q.mine
RouteKnown(q) == q.item \in Routes \ fresh /\ route[q.item].bot \in {Gone, q.bot}
EventKnown(q) == q.item \in Events \ fresh /\ event[q.item] \in {Gone, q.bot}

\* Where request q is among its statements.
At(q) ==
    \/ q.todo \in Unguarded
    \/ q.todo \in BotPassed /\ BotReached(q)
    \/ q.todo \in DestinationAsked /\ q.bot = Gone
    \/ q.todo \in DestinationPassed /\ q.bot = Gone /\ DestinationReached(q)
    \/ q.todo = bots_create /\ q.bot \in Bots
    \/ q.todo = destinations_create /\ q.bot = Gone /\ q.destination \in Destinations
    \/ q.todo = routes_create /\ q.item \in Routes
    \/ /\ q.todo = then_destination_insert_route_route_bot_show
       /\ q.item \in Routes /\ BotReached(q)
    \/ /\ q.todo = then_insert_route_route_bot_show
       /\ q.item \in Routes /\ BotReached(q) /\ DestinationReached(q)
    \/ q.todo \in RouteAsked /\ q.item \in Routes
    \/ q.todo = then_bot_bot_store_enqueue
    \/ q.todo \in RouteRead /\ RouteKnown(q)
    \/ q.todo \in RoutePassed /\ RouteKnown(q) /\ BotReached(q)
    \/ /\ q.todo = then_retarget_route_bot_show
       /\ RouteKnown(q) /\ BotReached(q) /\ DestinationReached(q)
    \/ q.todo \in EventAsked /\ q.item \in Events
    \/ q.todo \in EventRead /\ EventKnown(q)
    \/ q.todo \in EventPassed /\ EventKnown(q) /\ BotReached(q)
    \/ q.todo \in DeliveryAsked /\ q.item \in Deliveries

\* What q has done and is confined to; an administrator reaches everything.
Within(q) ==
    /\ q.did \subseteq q.mine /\ q.scope \subseteq q.mine
    /\ q.admin => Things \subseteq q.mine
    /\ q.todo # <<>> => q.actor \in Users

\* What is its actor's now is noted.
Up(q) == Reach(q.actor, role, owner) \subseteq q.mine

\* The statements the methods are made of.
Words ==
    {"list_bots", "list_destinations", "scope", "rows", "bot", "show", "write", "admin",
     "give", "drop", "call", "destination", "route", "write_route", "drop_route", "store",
     "enqueue", "event", "event_row", "delivery", "original", "insert_replay", "retarget",
     "insert", "insert_route", "list_routes"}

Request ==
    [todo: Seq(Words), actor: Users \cup {Nobody}, admin: BOOLEAN, bot: Bots \cup {Gone},
     destination: Destinations \cup {Gone}, item: Routes \cup Events \cup Deliveries \cup {Gone},
     scope: SUBSET Bots, via: Destinations \cup {Gone}, did: SUBSET Things,
     through: SUBSET Destinations, mine: SUBSET Things]

------------------------------------------------------------------------------
\* The inductive invariant

TablesType ==
    /\ role \in [Users -> {"admin", "manager", "gone"}]
    /\ owner \in [Things -> Users \cup {Nobody, Gone}]
    /\ route \in [Routes -> Route]
    /\ event \in [Events -> Bots \cup {Gone}]
    /\ delivery \in [Deliveries -> Delivery]
    /\ fresh \subseteq Things \cup Routes \cup Events \cup Deliveries

\* The foreign key on owner_id.
OwnersThere == \A x \in Things : owner[x] \in Users => role[owner[x]] # "gone"

\* An id not given out is the key of no row.
Unused ==
    /\ \A t \in Routes \cap fresh : route[t] = NoRoute
    /\ \A e \in Events \cap fresh : event[e] = Gone
    /\ \A d \in Deliveries \cap fresh : delivery[d] = NoDelivery

TablesInv == TablesType /\ OwnersThere /\ Unused /\ References

RequestInv ==
    /\ request \in [Requests -> Request]
    /\ \A r \in Requests : At(request[r]) /\ Within(request[r]) /\ Up(request[r])

ResourcesInv == TablesInv /\ RequestInv

------------------------------------------------------------------------------
\* The statements of the methods, one by one

\* The first of at most seven statements, and the others.
LEMMA HeadAndTail ==
    /\ \A a : Head(<<a>>) = a /\ Tail(<<a>>) = <<>>
    /\ \A a, b : Head(<<a, b>>) = a /\ Tail(<<a, b>>) = <<b>>
    /\ \A a, b, c : Head(<<a, b, c>>) = a /\ Tail(<<a, b, c>>) = <<b, c>>
    /\ \A a, b, c, d : Head(<<a, b, c, d>>) = a /\ Tail(<<a, b, c, d>>) = <<b, c, d>>
    /\ \A a, b, c, d, e : Head(<<a, b, c, d, e>>) = a /\ Tail(<<a, b, c, d, e>>) = <<b, c, d, e>>
    /\ \A a, b, c, d, e, f : Head(<<a, b, c, d, e, f>>) = a /\ Tail(<<a, b, c, d, e, f>>) = <<b, c, d, e, f>>
    /\ \A a, b, c, d, e, f, g : Head(<<a, b, c, d, e, f, g>>) = a /\ Tail(<<a, b, c, d, e, f, g>>) = <<b, c, d, e, f, g>>
  <1>1. ASSUME NEW a
       PROVE  Head(<<a>>) = a /\ Tail(<<a>>) = <<>>
    <2> DEFINE S == {a}  s == <<a>>  tail == <<>>
    <2>1. s \in Seq(S) /\ s # <<>> /\ Len(s) = 1 /\ Head(s) = a
      OBVIOUS
    <2>2. tail \in Seq(S) /\ Len(tail) = 0
      OBVIOUS
    <2>3. Tail(s) \in Seq(S) /\ Len(Tail(s)) = 0 /\ \A i \in 1..0 : Tail(s)[i] = tail[i]
      BY <2>1, HeadTailProperties
    <2>4. Tail(s) = tail
      BY <2>2, <2>3, SeqEqual
    <2>5. QED
      BY <2>1, <2>4
  <1>2. ASSUME NEW a, NEW b
       PROVE  Head(<<a, b>>) = a /\ Tail(<<a, b>>) = <<b>>
    <2> DEFINE S == {a, b}  s == <<a, b>>  tail == <<b>>
    <2>1. s \in Seq(S) /\ s # <<>> /\ Len(s) = 2 /\ Head(s) = a
      OBVIOUS
    <2>2. tail \in Seq(S) /\ Len(tail) = 1
      OBVIOUS
    <2>3. Tail(s) \in Seq(S) /\ Len(Tail(s)) = 1 /\ \A i \in 1..1 : Tail(s)[i] = tail[i]
      BY <2>1, HeadTailProperties
    <2>4. Tail(s) = tail
      BY <2>2, <2>3, SeqEqual
    <2>5. QED
      BY <2>1, <2>4
  <1>3. ASSUME NEW a, NEW b, NEW c
       PROVE  Head(<<a, b, c>>) = a /\ Tail(<<a, b, c>>) = <<b, c>>
    <2> DEFINE S == {a, b, c}  s == <<a, b, c>>  tail == <<b, c>>
    <2>1. s \in Seq(S) /\ s # <<>> /\ Len(s) = 3 /\ Head(s) = a
      OBVIOUS
    <2>2. tail \in Seq(S) /\ Len(tail) = 2
      OBVIOUS
    <2>3. Tail(s) \in Seq(S) /\ Len(Tail(s)) = 2 /\ \A i \in 1..2 : Tail(s)[i] = tail[i]
      BY <2>1, HeadTailProperties
    <2>4. Tail(s) = tail
      BY <2>2, <2>3, SeqEqual
    <2>5. QED
      BY <2>1, <2>4
  <1>4. ASSUME NEW a, NEW b, NEW c, NEW d
       PROVE  Head(<<a, b, c, d>>) = a /\ Tail(<<a, b, c, d>>) = <<b, c, d>>
    <2> DEFINE S == {a, b, c, d}  s == <<a, b, c, d>>  tail == <<b, c, d>>
    <2>1. s \in Seq(S) /\ s # <<>> /\ Len(s) = 4 /\ Head(s) = a
      OBVIOUS
    <2>2. tail \in Seq(S) /\ Len(tail) = 3
      OBVIOUS
    <2>3. Tail(s) \in Seq(S) /\ Len(Tail(s)) = 3 /\ \A i \in 1..3 : Tail(s)[i] = tail[i]
      BY <2>1, HeadTailProperties
    <2>4. Tail(s) = tail
      BY <2>2, <2>3, SeqEqual
    <2>5. QED
      BY <2>1, <2>4
  <1>5. ASSUME NEW a, NEW b, NEW c, NEW d, NEW e
       PROVE  Head(<<a, b, c, d, e>>) = a /\ Tail(<<a, b, c, d, e>>) = <<b, c, d, e>>
    <2> DEFINE S == {a, b, c, d, e}  s == <<a, b, c, d, e>>  tail == <<b, c, d, e>>
    <2>1. s \in Seq(S) /\ s # <<>> /\ Len(s) = 5 /\ Head(s) = a
      OBVIOUS
    <2>2. tail \in Seq(S) /\ Len(tail) = 4
      OBVIOUS
    <2>3. Tail(s) \in Seq(S) /\ Len(Tail(s)) = 4 /\ \A i \in 1..4 : Tail(s)[i] = tail[i]
      BY <2>1, HeadTailProperties
    <2>4. Tail(s) = tail
      BY <2>2, <2>3, SeqEqual
    <2>5. QED
      BY <2>1, <2>4
  <1>6. ASSUME NEW a, NEW b, NEW c, NEW d, NEW e, NEW f
       PROVE  Head(<<a, b, c, d, e, f>>) = a /\ Tail(<<a, b, c, d, e, f>>) = <<b, c, d, e, f>>
    <2> DEFINE S == {a, b, c, d, e, f}  s == <<a, b, c, d, e, f>>  tail == <<b, c, d, e, f>>
    <2>1. s \in Seq(S) /\ s # <<>> /\ Len(s) = 6 /\ Head(s) = a
      OBVIOUS
    <2>2. tail \in Seq(S) /\ Len(tail) = 5
      OBVIOUS
    <2>3. Tail(s) \in Seq(S) /\ Len(Tail(s)) = 5 /\ \A i \in 1..5 : Tail(s)[i] = tail[i]
      BY <2>1, HeadTailProperties
    <2>4. Tail(s) = tail
      BY <2>2, <2>3, SeqEqual
    <2>5. QED
      BY <2>1, <2>4
  <1>7. ASSUME NEW a, NEW b, NEW c, NEW d, NEW e, NEW f, NEW g
       PROVE  Head(<<a, b, c, d, e, f, g>>) = a /\ Tail(<<a, b, c, d, e, f, g>>) = <<b, c, d, e, f, g>>
    <2> DEFINE S == {a, b, c, d, e, f, g}  s == <<a, b, c, d, e, f, g>>  tail == <<b, c, d, e, f, g>>
    <2>1. s \in Seq(S) /\ s # <<>> /\ Len(s) = 7 /\ Head(s) = a
      OBVIOUS
    <2>2. tail \in Seq(S) /\ Len(tail) = 6
      OBVIOUS
    <2>3. Tail(s) \in Seq(S) /\ Len(Tail(s)) = 6 /\ \A i \in 1..6 : Tail(s)[i] = tail[i]
      BY <2>1, HeadTailProperties
    <2>4. Tail(s) = tail
      BY <2>2, <2>3, SeqEqual
    <2>5. QED
      BY <2>1, <2>4
  <1>8. QED
    BY <1>1, <1>2, <1>3, <1>4, <1>5, <1>6, <1>7

\* Every method and every rest of one, taken apart.
LEMMA TakenApart ==
    /\ bots_list # <<>> /\ Head(bots_list) = "list_bots" /\ Tail(bots_list) = <<>>
    /\ bots_get # <<>> /\ Head(bots_get) = "bot" /\ Tail(bots_get) = then_show
    /\ bots_create # <<>> /\ Head(bots_create) = "insert" /\ Tail(bots_create) = bots_get
    /\ bots_update # <<>> /\ Head(bots_update) = "bot" /\ Tail(bots_update) = then_write_bot_show
    /\ bots_give # <<>> /\ Head(bots_give) = "bot" /\ Tail(bots_give) = then_admin_give_bot_show
    /\ bots_remove # <<>> /\ Head(bots_remove) = "bot" /\ Tail(bots_remove) = then_drop
    /\ bots_testConnection # <<>> /\ Head(bots_testConnection) = "bot" /\ Tail(bots_testConnection) = then_call_write
    /\ bots_getWebhookInfo # <<>> /\ Head(bots_getWebhookInfo) = "bot" /\ Tail(bots_getWebhookInfo) = then_call_write
    /\ bots_webhook # <<>> /\ Head(bots_webhook) = "bot" /\ Tail(bots_webhook) = then_call_write
    /\ gateway_send # <<>> /\ Head(gateway_send) = "bot" /\ Tail(gateway_send) = then_call
    /\ gateway_proxy # <<>> /\ Head(gateway_proxy) = "bot" /\ Tail(gateway_proxy) = then_call
    /\ destinations_list # <<>> /\ Head(destinations_list) = "list_destinations" /\ Tail(destinations_list) = <<>>
    /\ destinations_get # <<>> /\ Head(destinations_get) = "destination" /\ Tail(destinations_get) = then_show
    /\ destinations_create # <<>> /\ Head(destinations_create) = "insert" /\ Tail(destinations_create) = destinations_get
    /\ destinations_update # <<>> /\ Head(destinations_update) = "destination" /\ Tail(destinations_update) = then_write_destination_show
    /\ destinations_give # <<>> /\ Head(destinations_give) = "destination" /\ Tail(destinations_give) = then_admin_give_destination_show
    /\ destinations_remove # <<>> /\ Head(destinations_remove) = "destination" /\ Tail(destinations_remove) = then_drop
    /\ destinations_reveal # <<>> /\ Head(destinations_reveal) = "destination" /\ Tail(destinations_reveal) = then_show
    /\ routes_list # <<>> /\ Head(routes_list) = "bot" /\ Tail(routes_list) = then_list_routes
    /\ routes_create # <<>> /\ Head(routes_create) = "bot" /\ Tail(routes_create) = then_destination_insert_route_route_bot_show
    /\ routes_update # <<>> /\ Head(routes_update) = "route" /\ Tail(routes_update) = then_bot_write_route_route_bot_show
    /\ routes_retarget # <<>> /\ Head(routes_retarget) = "route" /\ Tail(routes_retarget) = then_bot_destination_retarget_route_bot_show
    /\ routes_remove # <<>> /\ Head(routes_remove) = "route" /\ Tail(routes_remove) = then_bot_drop_route
    /\ routes_test # <<>> /\ Head(routes_test) = "route" /\ Tail(routes_test) = then_bot_bot_store_enqueue
    /\ events_list # <<>> /\ Head(events_list) = "scope" /\ Tail(events_list) = then_rows
    /\ events_get # <<>> /\ Head(events_get) = "event" /\ Tail(events_get) = then_show
    /\ events_deliveries # <<>> /\ Head(events_deliveries) = "event" /\ Tail(events_deliveries) = events_list
    /\ events_replay # <<>> /\ Head(events_replay) = "event" /\ Tail(events_replay) = then_bot_event_row_enqueue
    /\ deliveries_list # <<>> /\ Head(deliveries_list) = "scope" /\ Tail(deliveries_list) = then_rows
    /\ deliveries_get # <<>> /\ Head(deliveries_get) = "delivery" /\ Tail(deliveries_get) = then_show
    /\ deliveries_replay # <<>> /\ Head(deliveries_replay) = "original" /\ Tail(deliveries_replay) = then_bot_insert_replay_delivery_show
    /\ stats_dashboard # <<>> /\ Head(stats_dashboard) = "scope" /\ Tail(stats_dashboard) = then_rows_scope_rows
    /\ then_show # <<>> /\ Head(then_show) = "show" /\ Tail(then_show) = <<>>
    /\ then_write_bot_show # <<>> /\ Head(then_write_bot_show) = "write" /\ Tail(then_write_bot_show) = bots_get
    /\ then_admin_give_bot_show # <<>> /\ Head(then_admin_give_bot_show) = "admin" /\ Tail(then_admin_give_bot_show) = then_give_bot_show
    /\ then_give_bot_show # <<>> /\ Head(then_give_bot_show) = "give" /\ Tail(then_give_bot_show) = bots_get
    /\ then_drop # <<>> /\ Head(then_drop) = "drop" /\ Tail(then_drop) = <<>>
    /\ then_call_write # <<>> /\ Head(then_call_write) = "call" /\ Tail(then_call_write) = then_write
    /\ then_list_routes # <<>> /\ Head(then_list_routes) = "list_routes" /\ Tail(then_list_routes) = <<>>
    /\ then_write # <<>> /\ Head(then_write) = "write" /\ Tail(then_write) = <<>>
    /\ then_call # <<>> /\ Head(then_call) = "call" /\ Tail(then_call) = <<>>
    /\ then_write_destination_show # <<>> /\ Head(then_write_destination_show) = "write" /\ Tail(then_write_destination_show) = destinations_get
    /\ then_admin_give_destination_show # <<>> /\ Head(then_admin_give_destination_show) = "admin" /\ Tail(then_admin_give_destination_show) = then_give_destination_show
    /\ then_give_destination_show # <<>> /\ Head(then_give_destination_show) = "give" /\ Tail(then_give_destination_show) = destinations_get
    /\ then_destination_insert_route_route_bot_show # <<>> /\ Head(then_destination_insert_route_route_bot_show) = "destination" /\ Tail(then_destination_insert_route_route_bot_show) = then_insert_route_route_bot_show
    /\ then_insert_route_route_bot_show # <<>> /\ Head(then_insert_route_route_bot_show) = "insert_route" /\ Tail(then_insert_route_route_bot_show) = then_route_bot_show
    /\ then_route_bot_show # <<>> /\ Head(then_route_bot_show) = "route" /\ Tail(then_route_bot_show) = bots_get
    /\ then_bot_write_route_route_bot_show # <<>> /\ Head(then_bot_write_route_route_bot_show) = "bot" /\ Tail(then_bot_write_route_route_bot_show) = then_write_route_route_bot_show
    /\ then_write_route_route_bot_show # <<>> /\ Head(then_write_route_route_bot_show) = "write_route" /\ Tail(then_write_route_route_bot_show) = then_route_bot_show
    /\ then_bot_destination_retarget_route_bot_show # <<>> /\ Head(then_bot_destination_retarget_route_bot_show) = "bot" /\ Tail(then_bot_destination_retarget_route_bot_show) = then_destination_retarget_route_bot_show
    /\ then_destination_retarget_route_bot_show # <<>> /\ Head(then_destination_retarget_route_bot_show) = "destination" /\ Tail(then_destination_retarget_route_bot_show) = then_retarget_route_bot_show
    /\ then_retarget_route_bot_show # <<>> /\ Head(then_retarget_route_bot_show) = "retarget" /\ Tail(then_retarget_route_bot_show) = then_route_bot_show
    /\ then_bot_drop_route # <<>> /\ Head(then_bot_drop_route) = "bot" /\ Tail(then_bot_drop_route) = then_drop_route
    /\ then_drop_route # <<>> /\ Head(then_drop_route) = "drop_route" /\ Tail(then_drop_route) = <<>>
    /\ then_bot_bot_store_enqueue # <<>> /\ Head(then_bot_bot_store_enqueue) = "bot" /\ Tail(then_bot_bot_store_enqueue) = then_bot_store_enqueue
    /\ then_bot_store_enqueue # <<>> /\ Head(then_bot_store_enqueue) = "bot" /\ Tail(then_bot_store_enqueue) = then_store_enqueue
    /\ then_store_enqueue # <<>> /\ Head(then_store_enqueue) = "store" /\ Tail(then_store_enqueue) = then_enqueue
    /\ then_enqueue # <<>> /\ Head(then_enqueue) = "enqueue" /\ Tail(then_enqueue) = <<>>
    /\ then_rows # <<>> /\ Head(then_rows) = "rows" /\ Tail(then_rows) = <<>>
    /\ then_bot_event_row_enqueue # <<>> /\ Head(then_bot_event_row_enqueue) = "bot" /\ Tail(then_bot_event_row_enqueue) = then_event_row_enqueue
    /\ then_event_row_enqueue # <<>> /\ Head(then_event_row_enqueue) = "event_row" /\ Tail(then_event_row_enqueue) = then_enqueue
    /\ then_bot_insert_replay_delivery_show # <<>> /\ Head(then_bot_insert_replay_delivery_show) = "bot" /\ Tail(then_bot_insert_replay_delivery_show) = then_insert_replay_delivery_show
    /\ then_insert_replay_delivery_show # <<>> /\ Head(then_insert_replay_delivery_show) = "insert_replay" /\ Tail(then_insert_replay_delivery_show) = deliveries_get
    /\ then_rows_scope_rows # <<>> /\ Head(then_rows_scope_rows) = "rows" /\ Tail(then_rows_scope_rows) = events_list
  <1>1. bots_list # <<>> /\ Head(bots_list) = "list_bots" /\ Tail(bots_list) = <<>>
    BY HeadAndTail DEF bots_list
  <1>2. bots_get # <<>> /\ Head(bots_get) = "bot" /\ Tail(bots_get) = then_show
    BY HeadAndTail DEF bots_get, then_show
  <1>3. bots_create # <<>> /\ Head(bots_create) = "insert" /\ Tail(bots_create) = bots_get
    BY HeadAndTail DEF bots_create, bots_get
  <1>4. bots_update # <<>> /\ Head(bots_update) = "bot" /\ Tail(bots_update) = then_write_bot_show
    BY HeadAndTail DEF bots_update, then_write_bot_show
  <1>5. bots_give # <<>> /\ Head(bots_give) = "bot" /\ Tail(bots_give) = then_admin_give_bot_show
    BY HeadAndTail DEF bots_give, then_admin_give_bot_show
  <1>6. bots_remove # <<>> /\ Head(bots_remove) = "bot" /\ Tail(bots_remove) = then_drop
    BY HeadAndTail DEF bots_remove, then_drop
  <1>7. bots_testConnection # <<>> /\ Head(bots_testConnection) = "bot" /\ Tail(bots_testConnection) = then_call_write
    BY HeadAndTail DEF bots_testConnection, then_call_write
  <1>8. bots_getWebhookInfo # <<>> /\ Head(bots_getWebhookInfo) = "bot" /\ Tail(bots_getWebhookInfo) = then_call_write
    BY HeadAndTail DEF bots_getWebhookInfo, then_call_write
  <1>9. bots_webhook # <<>> /\ Head(bots_webhook) = "bot" /\ Tail(bots_webhook) = then_call_write
    BY HeadAndTail DEF bots_webhook, then_call_write
  <1>10. gateway_send # <<>> /\ Head(gateway_send) = "bot" /\ Tail(gateway_send) = then_call
    BY HeadAndTail DEF gateway_send, then_call
  <1>11. gateway_proxy # <<>> /\ Head(gateway_proxy) = "bot" /\ Tail(gateway_proxy) = then_call
    BY HeadAndTail DEF gateway_proxy, then_call
  <1>12. destinations_list # <<>> /\ Head(destinations_list) = "list_destinations" /\ Tail(destinations_list) = <<>>
    BY HeadAndTail DEF destinations_list
  <1>13. destinations_get # <<>> /\ Head(destinations_get) = "destination" /\ Tail(destinations_get) = then_show
    BY HeadAndTail DEF destinations_get, then_show
  <1>14. destinations_create # <<>> /\ Head(destinations_create) = "insert" /\ Tail(destinations_create) = destinations_get
    BY HeadAndTail DEF destinations_create, destinations_get
  <1>15. destinations_update # <<>> /\ Head(destinations_update) = "destination" /\ Tail(destinations_update) = then_write_destination_show
    BY HeadAndTail DEF destinations_update, then_write_destination_show
  <1>16. destinations_give # <<>> /\ Head(destinations_give) = "destination" /\ Tail(destinations_give) = then_admin_give_destination_show
    BY HeadAndTail DEF destinations_give, then_admin_give_destination_show
  <1>17. destinations_remove # <<>> /\ Head(destinations_remove) = "destination" /\ Tail(destinations_remove) = then_drop
    BY HeadAndTail DEF destinations_remove, then_drop
  <1>18. destinations_reveal # <<>> /\ Head(destinations_reveal) = "destination" /\ Tail(destinations_reveal) = then_show
    BY HeadAndTail DEF destinations_reveal, then_show
  <1>19. routes_list # <<>> /\ Head(routes_list) = "bot" /\ Tail(routes_list) = then_list_routes
    BY HeadAndTail DEF routes_list, then_list_routes
  <1>20. routes_create # <<>> /\ Head(routes_create) = "bot" /\ Tail(routes_create) = then_destination_insert_route_route_bot_show
    BY HeadAndTail DEF routes_create, then_destination_insert_route_route_bot_show
  <1>21. routes_update # <<>> /\ Head(routes_update) = "route" /\ Tail(routes_update) = then_bot_write_route_route_bot_show
    BY HeadAndTail DEF routes_update, then_bot_write_route_route_bot_show
  <1>22. routes_retarget # <<>> /\ Head(routes_retarget) = "route" /\ Tail(routes_retarget) = then_bot_destination_retarget_route_bot_show
    BY HeadAndTail DEF routes_retarget, then_bot_destination_retarget_route_bot_show
  <1>23. routes_remove # <<>> /\ Head(routes_remove) = "route" /\ Tail(routes_remove) = then_bot_drop_route
    BY HeadAndTail DEF routes_remove, then_bot_drop_route
  <1>24. routes_test # <<>> /\ Head(routes_test) = "route" /\ Tail(routes_test) = then_bot_bot_store_enqueue
    BY HeadAndTail DEF routes_test, then_bot_bot_store_enqueue
  <1>25. events_list # <<>> /\ Head(events_list) = "scope" /\ Tail(events_list) = then_rows
    BY HeadAndTail DEF events_list, then_rows
  <1>26. events_get # <<>> /\ Head(events_get) = "event" /\ Tail(events_get) = then_show
    BY HeadAndTail DEF events_get, then_show
  <1>27. events_deliveries # <<>> /\ Head(events_deliveries) = "event" /\ Tail(events_deliveries) = events_list
    BY HeadAndTail DEF events_deliveries, events_list
  <1>28. events_replay # <<>> /\ Head(events_replay) = "event" /\ Tail(events_replay) = then_bot_event_row_enqueue
    BY HeadAndTail DEF events_replay, then_bot_event_row_enqueue
  <1>29. deliveries_list # <<>> /\ Head(deliveries_list) = "scope" /\ Tail(deliveries_list) = then_rows
    BY HeadAndTail DEF deliveries_list, then_rows
  <1>30. deliveries_get # <<>> /\ Head(deliveries_get) = "delivery" /\ Tail(deliveries_get) = then_show
    BY HeadAndTail DEF deliveries_get, then_show
  <1>31. deliveries_replay # <<>> /\ Head(deliveries_replay) = "original" /\ Tail(deliveries_replay) = then_bot_insert_replay_delivery_show
    BY HeadAndTail DEF deliveries_replay, then_bot_insert_replay_delivery_show
  <1>32. stats_dashboard # <<>> /\ Head(stats_dashboard) = "scope" /\ Tail(stats_dashboard) = then_rows_scope_rows
    BY HeadAndTail DEF stats_dashboard, then_rows_scope_rows
  <1>33. then_show # <<>> /\ Head(then_show) = "show" /\ Tail(then_show) = <<>>
    BY HeadAndTail DEF then_show
  <1>34. then_write_bot_show # <<>> /\ Head(then_write_bot_show) = "write" /\ Tail(then_write_bot_show) = bots_get
    BY HeadAndTail DEF then_write_bot_show, bots_get
  <1>35. then_admin_give_bot_show # <<>> /\ Head(then_admin_give_bot_show) = "admin" /\ Tail(then_admin_give_bot_show) = then_give_bot_show
    BY HeadAndTail DEF then_admin_give_bot_show, then_give_bot_show
  <1>36. then_give_bot_show # <<>> /\ Head(then_give_bot_show) = "give" /\ Tail(then_give_bot_show) = bots_get
    BY HeadAndTail DEF then_give_bot_show, bots_get
  <1>37. then_drop # <<>> /\ Head(then_drop) = "drop" /\ Tail(then_drop) = <<>>
    BY HeadAndTail DEF then_drop
  <1>38. then_call_write # <<>> /\ Head(then_call_write) = "call" /\ Tail(then_call_write) = then_write
    BY HeadAndTail DEF then_call_write, then_write
  <1>39. then_write # <<>> /\ Head(then_write) = "write" /\ Tail(then_write) = <<>>
    BY HeadAndTail DEF then_write
  <1>40. then_call # <<>> /\ Head(then_call) = "call" /\ Tail(then_call) = <<>>
    BY HeadAndTail DEF then_call
  <1>41. then_write_destination_show # <<>> /\ Head(then_write_destination_show) = "write" /\ Tail(then_write_destination_show) = destinations_get
    BY HeadAndTail DEF then_write_destination_show, destinations_get
  <1>42. then_admin_give_destination_show # <<>> /\ Head(then_admin_give_destination_show) = "admin" /\ Tail(then_admin_give_destination_show) = then_give_destination_show
    BY HeadAndTail DEF then_admin_give_destination_show, then_give_destination_show
  <1>43. then_give_destination_show # <<>> /\ Head(then_give_destination_show) = "give" /\ Tail(then_give_destination_show) = destinations_get
    BY HeadAndTail DEF then_give_destination_show, destinations_get
  <1>44. then_destination_insert_route_route_bot_show # <<>> /\ Head(then_destination_insert_route_route_bot_show) = "destination" /\ Tail(then_destination_insert_route_route_bot_show) = then_insert_route_route_bot_show
    BY HeadAndTail DEF then_destination_insert_route_route_bot_show, then_insert_route_route_bot_show
  <1>45. then_insert_route_route_bot_show # <<>> /\ Head(then_insert_route_route_bot_show) = "insert_route" /\ Tail(then_insert_route_route_bot_show) = then_route_bot_show
    BY HeadAndTail DEF then_insert_route_route_bot_show, then_route_bot_show
  <1>46. then_route_bot_show # <<>> /\ Head(then_route_bot_show) = "route" /\ Tail(then_route_bot_show) = bots_get
    BY HeadAndTail DEF then_route_bot_show, bots_get
  <1>47. then_bot_write_route_route_bot_show # <<>> /\ Head(then_bot_write_route_route_bot_show) = "bot" /\ Tail(then_bot_write_route_route_bot_show) = then_write_route_route_bot_show
    BY HeadAndTail DEF then_bot_write_route_route_bot_show, then_write_route_route_bot_show
  <1>48. then_write_route_route_bot_show # <<>> /\ Head(then_write_route_route_bot_show) = "write_route" /\ Tail(then_write_route_route_bot_show) = then_route_bot_show
    BY HeadAndTail DEF then_write_route_route_bot_show, then_route_bot_show
  <1>49. then_bot_destination_retarget_route_bot_show # <<>> /\ Head(then_bot_destination_retarget_route_bot_show) = "bot" /\ Tail(then_bot_destination_retarget_route_bot_show) = then_destination_retarget_route_bot_show
    BY HeadAndTail DEF then_bot_destination_retarget_route_bot_show, then_destination_retarget_route_bot_show
  <1>50. then_destination_retarget_route_bot_show # <<>> /\ Head(then_destination_retarget_route_bot_show) = "destination" /\ Tail(then_destination_retarget_route_bot_show) = then_retarget_route_bot_show
    BY HeadAndTail DEF then_destination_retarget_route_bot_show, then_retarget_route_bot_show
  <1>51. then_retarget_route_bot_show # <<>> /\ Head(then_retarget_route_bot_show) = "retarget" /\ Tail(then_retarget_route_bot_show) = then_route_bot_show
    BY HeadAndTail DEF then_retarget_route_bot_show, then_route_bot_show
  <1>52. then_bot_drop_route # <<>> /\ Head(then_bot_drop_route) = "bot" /\ Tail(then_bot_drop_route) = then_drop_route
    BY HeadAndTail DEF then_bot_drop_route, then_drop_route
  <1>53. then_drop_route # <<>> /\ Head(then_drop_route) = "drop_route" /\ Tail(then_drop_route) = <<>>
    BY HeadAndTail DEF then_drop_route
  <1>54. then_bot_bot_store_enqueue # <<>> /\ Head(then_bot_bot_store_enqueue) = "bot" /\ Tail(then_bot_bot_store_enqueue) = then_bot_store_enqueue
    BY HeadAndTail DEF then_bot_bot_store_enqueue, then_bot_store_enqueue
  <1>55. then_bot_store_enqueue # <<>> /\ Head(then_bot_store_enqueue) = "bot" /\ Tail(then_bot_store_enqueue) = then_store_enqueue
    BY HeadAndTail DEF then_bot_store_enqueue, then_store_enqueue
  <1>56. then_store_enqueue # <<>> /\ Head(then_store_enqueue) = "store" /\ Tail(then_store_enqueue) = then_enqueue
    BY HeadAndTail DEF then_store_enqueue, then_enqueue
  <1>57. then_enqueue # <<>> /\ Head(then_enqueue) = "enqueue" /\ Tail(then_enqueue) = <<>>
    BY HeadAndTail DEF then_enqueue
  <1>58. then_rows # <<>> /\ Head(then_rows) = "rows" /\ Tail(then_rows) = <<>>
    BY HeadAndTail DEF then_rows
  <1>59. then_bot_event_row_enqueue # <<>> /\ Head(then_bot_event_row_enqueue) = "bot" /\ Tail(then_bot_event_row_enqueue) = then_event_row_enqueue
    BY HeadAndTail DEF then_bot_event_row_enqueue, then_event_row_enqueue
  <1>60. then_event_row_enqueue # <<>> /\ Head(then_event_row_enqueue) = "event_row" /\ Tail(then_event_row_enqueue) = then_enqueue
    BY HeadAndTail DEF then_event_row_enqueue, then_enqueue
  <1>61. then_bot_insert_replay_delivery_show # <<>> /\ Head(then_bot_insert_replay_delivery_show) = "bot" /\ Tail(then_bot_insert_replay_delivery_show) = then_insert_replay_delivery_show
    BY HeadAndTail DEF then_bot_insert_replay_delivery_show, then_insert_replay_delivery_show
  <1>62. then_insert_replay_delivery_show # <<>> /\ Head(then_insert_replay_delivery_show) = "insert_replay" /\ Tail(then_insert_replay_delivery_show) = deliveries_get
    BY HeadAndTail DEF then_insert_replay_delivery_show, deliveries_get
  <1>63. then_rows_scope_rows # <<>> /\ Head(then_rows_scope_rows) = "rows" /\ Tail(then_rows_scope_rows) = events_list
    BY HeadAndTail DEF then_rows_scope_rows, events_list
  <1>64. then_list_routes # <<>> /\ Head(then_list_routes) = "list_routes" /\ Tail(then_list_routes) = <<>>
    BY HeadAndTail DEF then_list_routes
  <1>65. QED
    BY <1>1, <1>2, <1>3, <1>4, <1>5, <1>6, <1>7, <1>8, <1>9, <1>10, <1>11, <1>12, <1>13,
       <1>14,
       <1>15, <1>16, <1>17, <1>18, <1>19, <1>20, <1>21, <1>22, <1>23, <1>24, <1>25,
       <1>26, <1>27, <1>28, <1>29, <1>30, <1>31, <1>32, <1>33, <1>34, <1>35, <1>36, <1>37,
       <1>38, <1>39, <1>40, <1>41, <1>42, <1>43, <1>44, <1>45, <1>46, <1>47, <1>48, <1>49,
       <1>50, <1>51, <1>52, <1>53, <1>54, <1>55, <1>56, <1>57, <1>58, <1>59, <1>60, <1>61,
       <1>62, <1>63, <1>64

\* Which statement is next at each of the places, and what is left after it.
LEMMA Statements ==
    /\ \A s \in Unguarded : s # <<>> =>
          \/ Head(s) = "list_bots" /\ Tail(s) \in Unguarded
          \/ Head(s) = "list_destinations" /\ Tail(s) \in Unguarded
          \/ Head(s) = "scope" /\ Tail(s) \in Unguarded
          \/ Head(s) = "rows" /\ Tail(s) \in Unguarded
          \/ Head(s) = "bot" /\ Tail(s) \in BotPassed
    /\ \A s \in BotPassed : s # <<>> =>
          \/ Head(s) = "show" /\ Tail(s) \in Unguarded
          \/ Head(s) = "list_routes" /\ Tail(s) \in Unguarded
          \/ Head(s) = "write" /\ Tail(s) \in Unguarded
          \/ Head(s) = "call" /\ Tail(s) \in BotPassed \cup Unguarded
          \/ Head(s) = "admin" /\ Tail(s) \in BotPassed
          \/ Head(s) = "give" /\ Tail(s) \in Unguarded
          \/ Head(s) = "drop" /\ Tail(s) \in Unguarded
          \/ Head(s) = "bot" /\ Tail(s) \in BotPassed
          \/ Head(s) = "store" /\ Tail(s) \in EventPassed
    /\ \A s \in DestinationAsked : s # <<>> =>
          \/ Head(s) = "destination" /\ Tail(s) \in DestinationPassed
    /\ \A s \in DestinationPassed : s # <<>> =>
          \/ Head(s) = "show" /\ Tail(s) \in Unguarded
          \/ Head(s) = "write" /\ Tail(s) \in DestinationAsked
          \/ Head(s) = "drop" /\ Tail(s) \in Unguarded
          \/ Head(s) = "admin" /\ Tail(s) \in DestinationPassed
          \/ Head(s) = "give" /\ Tail(s) \in DestinationAsked
    /\ \A s \in RouteAsked : s # <<>> =>
          \/ Head(s) = "route" /\ Tail(s) \in Unguarded \cup RouteRead \cup {then_bot_bot_store_enqueue}
    /\ \A s \in RouteRead : s # <<>> =>
          \/ Head(s) = "bot" /\ Tail(s) \in RoutePassed
    /\ \A s \in RoutePassed : s # <<>> =>
          \/ Head(s) = "write_route" /\ Tail(s) \in RouteAsked
          \/ Head(s) = "drop_route" /\ Tail(s) \in Unguarded
          \/ Head(s) = "destination" /\ Tail(s) \in {then_retarget_route_bot_show}
    /\ \A s \in EventAsked : s # <<>> =>
          \/ Head(s) = "event" /\ Tail(s) \in BotPassed \cup Unguarded \cup EventRead
    /\ \A s \in EventRead : s # <<>> =>
          \/ Head(s) = "bot" /\ Tail(s) \in EventPassed
    /\ \A s \in EventPassed : s # <<>> =>
          \/ Head(s) = "event_row" /\ Tail(s) \in EventPassed
          \/ Head(s) = "enqueue" /\ Tail(s) \in Unguarded
          \/ Head(s) = "insert_replay" /\ Tail(s) \in DeliveryAsked
    /\ \A s \in DeliveryAsked : s # <<>> =>
          \/ Head(s) = "delivery" /\ Tail(s) \in BotPassed
          \/ Head(s) = "original" /\ Tail(s) \in EventRead
  <1>1. \A s \in Unguarded : s # <<>> =>
             \/ Head(s) = "list_bots" /\ Tail(s) \in Unguarded
             \/ Head(s) = "list_destinations" /\ Tail(s) \in Unguarded
             \/ Head(s) = "scope" /\ Tail(s) \in Unguarded
             \/ Head(s) = "rows" /\ Tail(s) \in Unguarded
             \/ Head(s) = "bot" /\ Tail(s) \in BotPassed
    <2>1. Head(bots_list) = "list_bots" /\ Tail(bots_list) \in Unguarded
      BY TakenApart DEF Unguarded
    <2>2. Head(destinations_list) = "list_destinations" /\ Tail(destinations_list) \in Unguarded
      BY TakenApart DEF Unguarded
    <2>3. /\ Head(events_list) = "scope" /\ Tail(events_list) \in Unguarded
          /\ Head(deliveries_list) = "scope" /\ Tail(deliveries_list) \in Unguarded
          /\ Head(stats_dashboard) = "scope" /\ Tail(stats_dashboard) \in Unguarded
      BY TakenApart DEF Unguarded
    <2>4. /\ Head(then_rows) = "rows" /\ Tail(then_rows) \in Unguarded
          /\ Head(then_rows_scope_rows) = "rows" /\ Tail(then_rows_scope_rows) \in Unguarded
      BY TakenApart DEF Unguarded
    <2>5. /\ Head(bots_get) = "bot" /\ Tail(bots_get) \in BotPassed
          /\ Head(bots_update) = "bot" /\ Tail(bots_update) \in BotPassed
          /\ Head(bots_give) = "bot" /\ Tail(bots_give) \in BotPassed
          /\ Head(bots_remove) = "bot" /\ Tail(bots_remove) \in BotPassed
          /\ Head(bots_testConnection) = "bot" /\ Tail(bots_testConnection) \in BotPassed
          /\ Head(bots_getWebhookInfo) = "bot" /\ Tail(bots_getWebhookInfo) \in BotPassed
          /\ Head(bots_webhook) = "bot" /\ Tail(bots_webhook) \in BotPassed
          /\ Head(gateway_send) = "bot" /\ Tail(gateway_send) \in BotPassed
          /\ Head(gateway_proxy) = "bot" /\ Tail(gateway_proxy) \in BotPassed
          /\ Head(routes_list) = "bot" /\ Tail(routes_list) \in BotPassed
      BY TakenApart DEF BotPassed
    <2>6. QED
      BY <2>1, <2>2, <2>3, <2>4, <2>5 DEF Unguarded
  <1>2. \A s \in BotPassed : s # <<>> =>
             \/ Head(s) = "show" /\ Tail(s) \in Unguarded
             \/ Head(s) = "list_routes" /\ Tail(s) \in Unguarded
             \/ Head(s) = "write" /\ Tail(s) \in Unguarded
             \/ Head(s) = "call" /\ Tail(s) \in BotPassed \cup Unguarded
             \/ Head(s) = "admin" /\ Tail(s) \in BotPassed
             \/ Head(s) = "give" /\ Tail(s) \in Unguarded
             \/ Head(s) = "drop" /\ Tail(s) \in Unguarded
             \/ Head(s) = "bot" /\ Tail(s) \in BotPassed
             \/ Head(s) = "store" /\ Tail(s) \in EventPassed
    <2>1. Head(then_show) = "show" /\ Tail(then_show) \in Unguarded
      BY TakenApart DEF Unguarded
    <2>2. /\ Head(then_write_bot_show) = "write" /\ Tail(then_write_bot_show) \in Unguarded
          /\ Head(then_write) = "write" /\ Tail(then_write) \in Unguarded
      BY TakenApart DEF Unguarded
    <2>3. /\ Head(then_call_write) = "call" /\ Tail(then_call_write) \in BotPassed \cup Unguarded
          /\ Head(then_call) = "call" /\ Tail(then_call) \in BotPassed \cup Unguarded
      BY TakenApart DEF BotPassed, Unguarded
    <2>4. Head(then_admin_give_bot_show) = "admin" /\ Tail(then_admin_give_bot_show) \in BotPassed
      BY TakenApart DEF BotPassed
    <2>5. Head(then_give_bot_show) = "give" /\ Tail(then_give_bot_show) \in Unguarded
      BY TakenApart DEF Unguarded
    <2>6. Head(then_drop) = "drop" /\ Tail(then_drop) \in Unguarded
      BY TakenApart DEF Unguarded
    <2>7. Head(then_bot_store_enqueue) = "bot" /\ Tail(then_bot_store_enqueue) \in BotPassed
      BY TakenApart DEF BotPassed
    <2>8. Head(then_store_enqueue) = "store" /\ Tail(then_store_enqueue) \in EventPassed
      BY TakenApart DEF EventPassed
    <2>9. Head(then_list_routes) = "list_routes" /\ Tail(then_list_routes) \in Unguarded
      BY TakenApart DEF Unguarded
    <2>10. QED
      BY <2>1, <2>2, <2>3, <2>4, <2>5, <2>6, <2>7, <2>8, <2>9 DEF BotPassed
  <1>3. \A s \in DestinationAsked : s # <<>> =>
             \/ Head(s) = "destination" /\ Tail(s) \in DestinationPassed
    <2>1. /\ Head(destinations_get) = "destination" /\ Tail(destinations_get) \in DestinationPassed
          /\ Head(destinations_update) = "destination" /\ Tail(destinations_update) \in DestinationPassed
          /\ Head(destinations_give) = "destination" /\ Tail(destinations_give) \in DestinationPassed
          /\ Head(destinations_remove) = "destination" /\ Tail(destinations_remove) \in DestinationPassed
          /\ Head(destinations_reveal) = "destination" /\ Tail(destinations_reveal) \in DestinationPassed
      BY TakenApart DEF DestinationPassed
    <2>2. QED
      BY <2>1 DEF DestinationAsked
  <1>4. \A s \in DestinationPassed : s # <<>> =>
             \/ Head(s) = "show" /\ Tail(s) \in Unguarded
             \/ Head(s) = "write" /\ Tail(s) \in DestinationAsked
             \/ Head(s) = "drop" /\ Tail(s) \in Unguarded
             \/ Head(s) = "admin" /\ Tail(s) \in DestinationPassed
             \/ Head(s) = "give" /\ Tail(s) \in DestinationAsked
    <2>1. Head(then_show) = "show" /\ Tail(then_show) \in Unguarded
      BY TakenApart DEF Unguarded
    <2>2. Head(then_write_destination_show) = "write" /\ Tail(then_write_destination_show) \in DestinationAsked
      BY TakenApart DEF DestinationAsked
    <2>3. Head(then_drop) = "drop" /\ Tail(then_drop) \in Unguarded
      BY TakenApart DEF Unguarded
    <2>4. Head(then_admin_give_destination_show) = "admin" /\ Tail(then_admin_give_destination_show) \in DestinationPassed
      BY TakenApart DEF DestinationPassed
    <2>5. Head(then_give_destination_show) = "give" /\ Tail(then_give_destination_show) \in DestinationAsked
      BY TakenApart DEF DestinationAsked
    <2>6. QED
      BY <2>1, <2>2, <2>3, <2>4, <2>5 DEF DestinationPassed
  <1>5. \A s \in RouteAsked : s # <<>> =>
             \/ Head(s) = "route" /\ Tail(s) \in Unguarded \cup RouteRead \cup {then_bot_bot_store_enqueue}
    <2>1. /\ Head(then_route_bot_show) = "route" /\ Tail(then_route_bot_show) \in Unguarded \cup RouteRead \cup {then_bot_bot_store_enqueue}
          /\ Head(routes_update) = "route" /\ Tail(routes_update) \in Unguarded \cup RouteRead \cup {then_bot_bot_store_enqueue}
          /\ Head(routes_retarget) = "route" /\ Tail(routes_retarget) \in Unguarded \cup RouteRead \cup {then_bot_bot_store_enqueue}
          /\ Head(routes_remove) = "route" /\ Tail(routes_remove) \in Unguarded \cup RouteRead \cup {then_bot_bot_store_enqueue}
          /\ Head(routes_test) = "route" /\ Tail(routes_test) \in Unguarded \cup RouteRead \cup {then_bot_bot_store_enqueue}
      BY TakenApart DEF Unguarded, RouteRead
    <2>2. QED
      BY <2>1 DEF RouteAsked
  <1>6. \A s \in RouteRead : s # <<>> =>
             \/ Head(s) = "bot" /\ Tail(s) \in RoutePassed
    <2>1. /\ Head(then_bot_write_route_route_bot_show) = "bot" /\ Tail(then_bot_write_route_route_bot_show) \in RoutePassed
          /\ Head(then_bot_drop_route) = "bot" /\ Tail(then_bot_drop_route) \in RoutePassed
          /\ Head(then_bot_destination_retarget_route_bot_show) = "bot" /\ Tail(then_bot_destination_retarget_route_bot_show) \in RoutePassed
      BY TakenApart DEF RoutePassed
    <2>2. QED
      BY <2>1 DEF RouteRead
  <1>7. \A s \in RoutePassed : s # <<>> =>
             \/ Head(s) = "write_route" /\ Tail(s) \in RouteAsked
             \/ Head(s) = "drop_route" /\ Tail(s) \in Unguarded
             \/ Head(s) = "destination" /\ Tail(s) \in {then_retarget_route_bot_show}
    <2>1. Head(then_write_route_route_bot_show) = "write_route" /\ Tail(then_write_route_route_bot_show) \in RouteAsked
      BY TakenApart DEF RouteAsked
    <2>2. Head(then_drop_route) = "drop_route" /\ Tail(then_drop_route) \in Unguarded
      BY TakenApart DEF Unguarded
    <2>3. Head(then_destination_retarget_route_bot_show) = "destination" /\ Tail(then_destination_retarget_route_bot_show) \in {then_retarget_route_bot_show}
      BY TakenApart
    <2>4. QED
      BY <2>1, <2>2, <2>3 DEF RoutePassed
  <1>8. \A s \in EventAsked : s # <<>> =>
             \/ Head(s) = "event" /\ Tail(s) \in BotPassed \cup Unguarded \cup EventRead
    <2>1. /\ Head(events_get) = "event" /\ Tail(events_get) \in BotPassed \cup Unguarded \cup EventRead
          /\ Head(events_deliveries) = "event" /\ Tail(events_deliveries) \in BotPassed \cup Unguarded \cup EventRead
          /\ Head(events_replay) = "event" /\ Tail(events_replay) \in BotPassed \cup Unguarded \cup EventRead
      BY TakenApart DEF BotPassed, Unguarded, EventRead
    <2>2. QED
      BY <2>1 DEF EventAsked
  <1>9. \A s \in EventRead : s # <<>> =>
             \/ Head(s) = "bot" /\ Tail(s) \in EventPassed
    <2>1. /\ Head(then_bot_event_row_enqueue) = "bot" /\ Tail(then_bot_event_row_enqueue) \in EventPassed
          /\ Head(then_bot_insert_replay_delivery_show) = "bot" /\ Tail(then_bot_insert_replay_delivery_show) \in EventPassed
      BY TakenApart DEF EventPassed
    <2>2. QED
      BY <2>1 DEF EventRead
  <1>10. \A s \in EventPassed : s # <<>> =>
             \/ Head(s) = "event_row" /\ Tail(s) \in EventPassed
             \/ Head(s) = "enqueue" /\ Tail(s) \in Unguarded
             \/ Head(s) = "insert_replay" /\ Tail(s) \in DeliveryAsked
    <2>1. Head(then_event_row_enqueue) = "event_row" /\ Tail(then_event_row_enqueue) \in EventPassed
      BY TakenApart DEF EventPassed
    <2>2. Head(then_enqueue) = "enqueue" /\ Tail(then_enqueue) \in Unguarded
      BY TakenApart DEF Unguarded
    <2>3. Head(then_insert_replay_delivery_show) = "insert_replay" /\ Tail(then_insert_replay_delivery_show) \in DeliveryAsked
      BY TakenApart DEF DeliveryAsked
    <2>4. QED
      BY <2>1, <2>2, <2>3 DEF EventPassed
  <1>11. \A s \in DeliveryAsked : s # <<>> =>
             \/ Head(s) = "delivery" /\ Tail(s) \in BotPassed
             \/ Head(s) = "original" /\ Tail(s) \in EventRead
    <2>1. Head(deliveries_get) = "delivery" /\ Tail(deliveries_get) \in BotPassed
      BY TakenApart DEF BotPassed
    <2>2. Head(deliveries_replay) = "original" /\ Tail(deliveries_replay) \in EventRead
      BY TakenApart DEF EventRead
    <2>3. QED
      BY <2>1, <2>2 DEF DeliveryAsked
  <1>12. QED
    BY <1>1, <1>2, <1>3, <1>4, <1>5, <1>6, <1>7, <1>8, <1>9, <1>10, <1>11

\* The bot or destination request q is about is within reach.
Reached(q) == BotReached(q) \/ (q.bot = Gone /\ DestinationReached(q))

\* What is known when a statement is next.
LEMMA Places ==
    ASSUME NEW q, At(q), q.todo # <<>>
    PROVE  LET next == Head(q.todo)
               rest == Tail(q.todo)
           IN  /\ next = "bot" =>
                     \/ rest \in BotPassed
                     \/ rest = then_destination_insert_route_route_bot_show /\ q.item \in Routes
                     \/ rest \in RoutePassed /\ RouteKnown(q)
                     \/ rest \in EventPassed /\ EventKnown(q)
               /\ next = "destination" =>
                     \/ rest \in DestinationPassed /\ q.bot = Gone
                     \/ /\ rest = then_insert_route_route_bot_show
                        /\ q.item \in Routes /\ BotReached(q)
                     \/ rest = then_retarget_route_bot_show /\ RouteKnown(q) /\ BotReached(q)
               /\ next \in {"list_bots", "list_destinations", "scope", "rows"} => rest \in Unguarded
               /\ next \in {"show", "drop"} => rest \in Unguarded /\ Reached(q)
               /\ next = "list_routes" => BotReached(q) /\ rest \in Unguarded
               /\ next \in {"write", "give"} =>
                     /\ Reached(q)
                     /\ rest \in Unguarded \/ (rest \in DestinationAsked /\ q.bot = Gone)
               /\ next = "admin" =>
                     \/ BotReached(q) /\ rest \in BotPassed
                     \/ q.bot = Gone /\ DestinationReached(q) /\ rest \in DestinationPassed
               /\ next = "call" => BotReached(q) /\ rest \in BotPassed \cup Unguarded
               /\ next = "insert" =>
                     \/ q.bot \in Bots /\ rest \in Unguarded
                     \/ q.bot = Gone /\ q.destination \in Destinations /\ rest \in DestinationAsked
               /\ next = "insert_route" =>
                     q.item \in Routes /\ BotReached(q) /\ DestinationReached(q) /\ rest \in RouteAsked
               /\ next = "route" =>
                     /\ q.item \in Routes
                     /\ rest \in Unguarded \cup RouteRead \cup {then_bot_bot_store_enqueue}
               /\ next = "write_route" => RouteKnown(q) /\ BotReached(q) /\ rest \in RouteAsked
               /\ next = "retarget" =>
                     RouteKnown(q) /\ BotReached(q) /\ DestinationReached(q) /\ rest \in RouteAsked
               /\ next = "drop_route" => RouteKnown(q) /\ BotReached(q) /\ rest \in Unguarded
               /\ next = "store" => BotReached(q) /\ rest \in EventPassed
               /\ next = "event" => q.item \in Events /\ rest \in BotPassed \cup Unguarded \cup EventRead
               /\ next = "event_row" => EventKnown(q) /\ BotReached(q) /\ rest \in EventPassed
               /\ next = "enqueue" => EventKnown(q) /\ BotReached(q) /\ rest \in Unguarded
               /\ next = "insert_replay" => EventKnown(q) /\ BotReached(q) /\ rest \in DeliveryAsked
               /\ next = "delivery" => q.item \in Deliveries /\ rest \in BotPassed
               /\ next = "original" => q.item \in Deliveries /\ rest \in EventRead
  <1> DEFINE s == q.todo
             next == Head(q.todo)
             rest == Tail(q.todo)
  <1>1. /\ Head(bots_create) = "insert" /\ Tail(bots_create) \in Unguarded
        /\ Head(destinations_create) = "insert" /\ Tail(destinations_create) \in DestinationAsked
        /\ Head(routes_create) = "bot"
        /\ Tail(routes_create) = then_destination_insert_route_route_bot_show
        /\ Head(then_destination_insert_route_route_bot_show) = "destination"
        /\ Tail(then_destination_insert_route_route_bot_show) = then_insert_route_route_bot_show
    BY TakenApart DEF Unguarded, DestinationAsked
  <1>2. /\ Head(then_insert_route_route_bot_show) = "insert_route"
        /\ Tail(then_insert_route_route_bot_show) \in RouteAsked
        /\ Head(then_bot_bot_store_enqueue) = "bot"
        /\ Tail(then_bot_bot_store_enqueue) \in BotPassed
        /\ Head(then_retarget_route_bot_show) = "retarget"
        /\ Tail(then_retarget_route_bot_show) \in RouteAsked
    BY TakenApart DEF RouteAsked, BotPassed
  <1>3. \/ s \in Unguarded
        \/ s \in BotPassed /\ BotReached(q)
        \/ s \in DestinationAsked /\ q.bot = Gone
        \/ s \in DestinationPassed /\ q.bot = Gone /\ DestinationReached(q)
        \/ s = bots_create /\ q.bot \in Bots
        \/ s = destinations_create /\ q.bot = Gone /\ q.destination \in Destinations
        \/ s = routes_create /\ q.item \in Routes
        \/ /\ s = then_destination_insert_route_route_bot_show
           /\ q.item \in Routes /\ BotReached(q)
        \/ /\ s = then_insert_route_route_bot_show
           /\ q.item \in Routes /\ BotReached(q) /\ DestinationReached(q)
        \/ s \in RouteAsked /\ q.item \in Routes
        \/ s = then_bot_bot_store_enqueue
        \/ s \in RouteRead /\ RouteKnown(q)
        \/ s \in RoutePassed /\ RouteKnown(q) /\ BotReached(q)
        \/ /\ s = then_retarget_route_bot_show
           /\ RouteKnown(q) /\ BotReached(q) /\ DestinationReached(q)
        \/ s \in EventAsked /\ q.item \in Events
        \/ s \in EventRead /\ EventKnown(q)
        \/ s \in EventPassed /\ EventKnown(q) /\ BotReached(q)
        \/ s \in DeliveryAsked /\ q.item \in Deliveries
    BY DEF At, s
  <1>4. /\ s \in Unguarded =>
              \/ next = "list_bots" /\ rest \in Unguarded
              \/ next = "list_destinations" /\ rest \in Unguarded
              \/ next = "scope" /\ rest \in Unguarded
              \/ next = "rows" /\ rest \in Unguarded
              \/ next = "bot" /\ rest \in BotPassed
        /\ s \in BotPassed =>
              \/ next = "show" /\ rest \in Unguarded
              \/ next = "list_routes" /\ rest \in Unguarded
              \/ next = "write" /\ rest \in Unguarded
              \/ next = "call" /\ rest \in BotPassed \cup Unguarded
              \/ next = "admin" /\ rest \in BotPassed
              \/ next = "give" /\ rest \in Unguarded
              \/ next = "drop" /\ rest \in Unguarded
              \/ next = "bot" /\ rest \in BotPassed
              \/ next = "store" /\ rest \in EventPassed
        /\ s \in DestinationAsked =>
              \/ next = "destination" /\ rest \in DestinationPassed
        /\ s \in DestinationPassed =>
              \/ next = "show" /\ rest \in Unguarded
              \/ next = "write" /\ rest \in DestinationAsked
              \/ next = "drop" /\ rest \in Unguarded
              \/ next = "admin" /\ rest \in DestinationPassed
              \/ next = "give" /\ rest \in DestinationAsked
        /\ s \in RouteAsked =>
              \/ next = "route" /\ rest \in Unguarded \cup RouteRead \cup {then_bot_bot_store_enqueue}
        /\ s \in RouteRead =>
              \/ next = "bot" /\ rest \in RoutePassed
        /\ s \in RoutePassed =>
              \/ next = "write_route" /\ rest \in RouteAsked
              \/ next = "drop_route" /\ rest \in Unguarded
              \/ next = "destination" /\ rest \in {then_retarget_route_bot_show}
        /\ s \in EventAsked =>
              \/ next = "event" /\ rest \in BotPassed \cup Unguarded \cup EventRead
        /\ s \in EventRead =>
              \/ next = "bot" /\ rest \in EventPassed
        /\ s \in EventPassed =>
              \/ next = "event_row" /\ rest \in EventPassed
              \/ next = "enqueue" /\ rest \in Unguarded
              \/ next = "insert_replay" /\ rest \in DeliveryAsked
        /\ s \in DeliveryAsked =>
              \/ next = "delivery" /\ rest \in BotPassed
              \/ next = "original" /\ rest \in EventRead
    BY Statements
  <1>5. /\ s \in {bots_create, destinations_create} => next = "insert"
        /\ s = bots_create => rest \in Unguarded
        /\ s = destinations_create => rest \in DestinationAsked
        /\ s = routes_create =>
              next = "bot" /\ rest = then_destination_insert_route_route_bot_show
        /\ s = then_destination_insert_route_route_bot_show =>
              next = "destination" /\ rest = then_insert_route_route_bot_show
    BY <1>1
  <1>6. /\ s = then_insert_route_route_bot_show => next = "insert_route" /\ rest \in RouteAsked
        /\ s = then_bot_bot_store_enqueue => next = "bot" /\ rest \in BotPassed
        /\ s = then_retarget_route_bot_show => next = "retarget" /\ rest \in RouteAsked
    BY <1>2
  <1> HIDE DEF s, next, rest
  <1>7. next = "bot" =>
           \/ rest \in BotPassed
           \/ rest = then_destination_insert_route_route_bot_show /\ q.item \in Routes
           \/ rest \in RoutePassed /\ RouteKnown(q)
           \/ rest \in EventPassed /\ EventKnown(q)
    BY <1>3, <1>4, <1>5, <1>6 DEF Reached
  <1>8. next = "destination" =>
           \/ rest \in DestinationPassed /\ q.bot = Gone
           \/ /\ rest = then_insert_route_route_bot_show
              /\ q.item \in Routes /\ BotReached(q)
           \/ rest = then_retarget_route_bot_show /\ RouteKnown(q) /\ BotReached(q)
    BY <1>3, <1>4, <1>5, <1>6 DEF Reached
  <1>9. next \in {"list_bots", "list_destinations", "scope", "rows"} => rest \in Unguarded
    BY <1>3, <1>4, <1>5, <1>6 DEF Reached
  <1>10. next \in {"show", "drop"} => rest \in Unguarded /\ Reached(q)
    <2>1. ASSUME next = "show"
          PROVE  rest \in Unguarded /\ Reached(q)
      BY <2>1, <1>3, <1>4, <1>5, <1>6 DEF Reached
    <2>2. ASSUME next = "drop"
          PROVE  rest \in Unguarded /\ Reached(q)
      BY <2>2, <1>3, <1>4, <1>5, <1>6 DEF Reached
    <2>3. QED
      BY <2>1, <2>2
  <1>11. next \in {"write", "give"} =>
           /\ Reached(q)
           /\ rest \in Unguarded \/ (rest \in DestinationAsked /\ q.bot = Gone)
    <2>1. ASSUME next = "write"
          PROVE  Reached(q) /\ (rest \in Unguarded \/ (rest \in DestinationAsked /\ q.bot = Gone))
      BY <2>1, <1>3, <1>4, <1>5, <1>6 DEF Reached
    <2>2. ASSUME next = "give"
          PROVE  Reached(q) /\ (rest \in Unguarded \/ (rest \in DestinationAsked /\ q.bot = Gone))
      BY <2>2, <1>3, <1>4, <1>5, <1>6 DEF Reached
    <2>3. QED
      BY <2>1, <2>2
  <1>12. next = "admin" =>
           \/ BotReached(q) /\ rest \in BotPassed
           \/ q.bot = Gone /\ DestinationReached(q) /\ rest \in DestinationPassed
    BY <1>3, <1>4, <1>5, <1>6 DEF Reached
  <1>13. next = "call" => BotReached(q) /\ rest \in BotPassed \cup Unguarded
    BY <1>3, <1>4, <1>5, <1>6 DEF Reached
  <1>14. next = "insert" =>
           \/ q.bot \in Bots /\ rest \in Unguarded
           \/ q.bot = Gone /\ q.destination \in Destinations /\ rest \in DestinationAsked
    BY <1>3, <1>4, <1>5, <1>6 DEF Reached
  <1>15. next = "insert_route" =>
           q.item \in Routes /\ BotReached(q) /\ DestinationReached(q) /\ rest \in RouteAsked
    BY <1>3, <1>4, <1>5, <1>6 DEF Reached
  <1>16. next = "route" =>
           /\ q.item \in Routes
           /\ rest \in Unguarded \cup RouteRead \cup {then_bot_bot_store_enqueue}
    BY <1>3, <1>4, <1>5, <1>6 DEF Reached
  <1>17. next = "write_route" => RouteKnown(q) /\ BotReached(q) /\ rest \in RouteAsked
    BY <1>3, <1>4, <1>5, <1>6 DEF Reached
  <1>18. next = "retarget" =>
           RouteKnown(q) /\ BotReached(q) /\ DestinationReached(q) /\ rest \in RouteAsked
    BY <1>3, <1>4, <1>5, <1>6 DEF Reached
  <1>19. next = "drop_route" => RouteKnown(q) /\ BotReached(q) /\ rest \in Unguarded
    BY <1>3, <1>4, <1>5, <1>6 DEF Reached
  <1>20. next = "store" => BotReached(q) /\ rest \in EventPassed
    BY <1>3, <1>4, <1>5, <1>6 DEF Reached
  <1>21. next = "event" => q.item \in Events /\ rest \in BotPassed \cup Unguarded \cup EventRead
    BY <1>3, <1>4, <1>5, <1>6 DEF Reached
  <1>22. next = "event_row" => EventKnown(q) /\ BotReached(q) /\ rest \in EventPassed
    BY <1>3, <1>4, <1>5, <1>6 DEF Reached
  <1>23. next = "enqueue" => EventKnown(q) /\ BotReached(q) /\ rest \in Unguarded
    BY <1>3, <1>4, <1>5, <1>6 DEF Reached
  <1>24. next = "insert_replay" => EventKnown(q) /\ BotReached(q) /\ rest \in DeliveryAsked
    BY <1>3, <1>4, <1>5, <1>6 DEF Reached
  <1>25. next = "delivery" => q.item \in Deliveries /\ rest \in BotPassed
    BY <1>3, <1>4, <1>5, <1>6 DEF Reached
  <1>26. next = "original" => q.item \in Deliveries /\ rest \in EventRead
    BY <1>3, <1>4, <1>5, <1>6 DEF Reached
  <1>27. next = "list_routes" => BotReached(q) /\ rest \in Unguarded
    BY <1>3, <1>4, <1>5, <1>6 DEF Reached
  <1>28. QED
    BY <1>7, <1>8, <1>9, <1>10, <1>11, <1>12, <1>13, <1>14,
       <1>15, <1>16, <1>17, <1>18, <1>19, <1>20, <1>21, <1>22, <1>23,
       <1>24, <1>25, <1>26, <1>27 DEF next, rest

------------------------------------------------------------------------------
\* A step of one request, and the others

\* The step changes no row in a way that a request under way could be wrong about.
TablesFollow ==
    /\ fresh' \subseteq fresh
    /\ \A t \in Routes \ fresh : route'[t].bot \in {Gone, route[t].bot}
    /\ \A e \in Events \ fresh : event'[e] \in {Gone, event[e]}

\* Nobody's reach grows.
ReachShrinks ==
    \A u \in Users \cup {Nobody} : Reach(u, role, owner)' \subseteq Reach(u, role, owner)

LEMMA AtStays ==
    ASSUME TablesFollow, NEW q, At(q)
    PROVE  At(q)'
  <1>1. RouteKnown(q) => RouteKnown(q)'
    BY DEF RouteKnown, TablesFollow
  <1>2. EventKnown(q) => EventKnown(q)'
    BY DEF EventKnown, TablesFollow
  <1>3. (BotReached(q) => BotReached(q)') /\ (DestinationReached(q) => DestinationReached(q)')
    BY DEF BotReached, DestinationReached
  <1>4. QED
    BY <1>1, <1>2, <1>3 DEF At

\* An answered or refused request is anywhere.
LEMMA Ended ==
    ASSUME NEW q, q.todo = <<>>
    PROVE  At(q)
  BY DEF At, Unguarded

\* What routes and deliveries may end in.
Ends == SUBSET (Destinations \cup {Gone})

\* The fields after a statement.
LEMMA AfterIs ==
    ASSUME request \in [Requests -> Request], NEW r \in Requests, request[r].todo # <<>>,
           NEW did \in SUBSET Things
    PROVE  /\ After(r, did) \in Request
           /\ After(r, did).todo = Tail(request[r].todo)
           /\ After(r, did).did = request[r].did \cup did
           /\ After(r, did).actor = request[r].actor
           /\ After(r, did).admin = request[r].admin
           /\ After(r, did).bot = request[r].bot
           /\ After(r, did).destination = request[r].destination
           /\ After(r, did).item = request[r].item
           /\ After(r, did).scope = request[r].scope
           /\ After(r, did).mine = request[r].mine
           /\ After(r, did).via = request[r].via
           /\ After(r, did).through = request[r].through
  <1>1. request[r] \in Request
    OBVIOUS
  <1>2. \A q \in Request : q.todo # <<>> => Tail(q.todo) \in Seq(Words)
    BY DEF Request
  <1>3. QED
    BY <1>1, <1>2 DEF After, Request

\* The same with the ends that are shown or sent to.
LEMMA AlongIs ==
    ASSUME request \in [Requests -> Request], NEW r \in Requests, request[r].todo # <<>>,
           NEW did \in SUBSET Things, NEW ends \in Ends
    PROVE  /\ Along(r, did, ends) \in Request
           /\ Along(r, did, ends).todo = Tail(request[r].todo)
           /\ Along(r, did, ends).did = request[r].did \cup did
           /\ Along(r, did, ends).actor = request[r].actor
           /\ Along(r, did, ends).admin = request[r].admin
           /\ Along(r, did, ends).bot = request[r].bot
           /\ Along(r, did, ends).destination = request[r].destination
           /\ Along(r, did, ends).item = request[r].item
           /\ Along(r, did, ends).scope = request[r].scope
           /\ Along(r, did, ends).mine = request[r].mine
           /\ Along(r, did, ends).via = request[r].via
  <1>1. PICK a \in Request :
           /\ a = After(r, did)
           /\ a.todo = Tail(request[r].todo) /\ a.did = request[r].did \cup did
           /\ a.actor = request[r].actor /\ a.admin = request[r].admin
           /\ a.bot = request[r].bot /\ a.destination = request[r].destination
           /\ a.item = request[r].item /\ a.scope = request[r].scope
           /\ a.mine = request[r].mine /\ a.via = request[r].via
           /\ a.through = request[r].through
    BY AfterIs
  <1>2. PICK all \in SUBSET Destinations : all = a.through \cup (ends \ {Gone})
    <2>1. a.through \cup (ends \ {Gone}) \in SUBSET Destinations
      BY DEF Request, Ends
    <2>2. QED
      BY <2>1
  <1>3. PICK p : p = [a EXCEPT !.through = all]
    OBVIOUS
  <1>4. Along(r, did, ends) = p
    BY <1>1, <1>2, <1>3 DEF Along
  <1>5. /\ p \in Request /\ p.through = all /\ p.todo = a.todo /\ p.did = a.did
        /\ p.actor = a.actor /\ p.admin = a.admin /\ p.bot = a.bot
        /\ p.destination = a.destination /\ p.item = a.item /\ p.scope = a.scope
        /\ p.mine = a.mine /\ p.via = a.via
    BY <1>3 DEF Request
  <1>6. QED
    BY <1>1, <1>2, <1>4, <1>5

LEMMA AlongThrough ==
    ASSUME request \in [Requests -> Request], NEW r \in Requests, request[r].todo # <<>>,
           NEW did \in SUBSET Things, NEW ends \in Ends
    PROVE  Along(r, did, ends).through = request[r].through \cup (ends \ {Gone})
  <1>1. PICK a \in Request : a = After(r, did) /\ a.through = request[r].through
    BY AfterIs
  <1>2. Along(r, did, ends) = [a EXCEPT !.through = @ \cup (ends \ {Gone})]
    BY <1>1 DEF Along
  <1>3. QED
    BY <1>1, <1>2 DEF Request

LEMMA RefusedIs ==
    ASSUME request \in [Requests -> Request], NEW r \in Requests
    PROVE  LET p == [request[r] EXCEPT !.todo = <<>>]
           IN  /\ p \in Request /\ p.todo = <<>>
               /\ p.did = request[r].did /\ p.actor = request[r].actor
               /\ p.admin = request[r].admin /\ p.scope = request[r].scope
               /\ p.mine = request[r].mine /\ p.bot = request[r].bot
               /\ p.via = request[r].via /\ p.through = request[r].through
  <1>1. request[r] \in Request /\ <<>> \in Seq(Words)
    OBVIOUS
  <1>2. QED
    BY <1>1 DEF Request

\* A bot or destination that passes assertAccess is within reach now.
LEMMA PermittedIsReached ==
    ASSUME RequestInv, NEW r \in Requests, request[r].todo # <<>>,
           NEW x \in Things, Permits(r, x)
    PROVE  x \in request[r].mine
  <1>1. /\ request[r].actor \in Users /\ request[r].actor # Nobody
        /\ request[r].admin => Things \subseteq request[r].mine
        /\ Reach(request[r].actor, role, owner) \subseteq request[r].mine
    BY ResourcesAssumption DEF RequestInv, Within, Up
  <1>2. QED
    BY <1>1 DEF Permits, Reach

\* What the request is about, once it has passed its guard.
LEMMA ReachedThing ==
    ASSUME NEW r \in Requests, Reached(request[r])
    PROVE  Thing(r) \in Things \cap request[r].mine
  <1>1. Gone \notin Bots
    BY ResourcesAssumption DEF Things
  <1>2. QED
    BY <1>1 DEF Reached, BotReached, DestinationReached, Thing, Things

\* One request moves on, nothing comes into reach.
LEMMA MoveKeeps ==
    ASSUME RequestInv, TablesFollow, ReachShrinks,
           NEW r \in Requests, NEW p \in Request, At(p), Within(p), Up(p), Does(r, p)
    PROVE  RequestInv'
  <1>1. request' \in [Requests -> Request]
    BY DEF RequestInv, Does
  <1>2. ASSUME NEW q \in Request, At(q), Within(q), Up(q)
        PROVE  At(q)' /\ Within(q)' /\ Up(q)'
    <2>1. At(q)'
      BY <1>2, AtStays
    <2>2. Within(q)'
      BY <1>2 DEF Within
    <2>3. Up(q)'
      BY <1>2 DEF Up, ReachShrinks, Request
    <2>4. QED
      BY <2>1, <2>2, <2>3
  <1>3. ASSUME NEW s \in Requests
        PROVE  At(request[s])' /\ Within(request[s])' /\ Up(request[s])'
    <2>1. PICK q \in Request : q = request'[s] /\ At(q) /\ Within(q) /\ Up(q)
      BY DEF RequestInv, Does
    <2>2. At(q)' /\ Within(q)' /\ Up(q)'
      BY <1>2, <2>1
    <2>3. QED
      BY <2>1, <2>2 DEF At, Within, Up, RouteKnown, EventKnown, BotReached, DestinationReached
  <1>4. QED
    BY <1>1, <1>3 DEF RequestInv

\* Within, once what comes into reach by this step is noted.
WithinThen(q) ==
    /\ q.did \subseteq q.mine \cup Reach(q.actor, role', owner') /\ q.scope \subseteq q.mine
    /\ q.admin => Things \subseteq q.mine
    /\ q.todo # <<>> => q.actor \in Users

\* One request may move on, and what comes into reach is noted for all.
LEMMA NotedKeeps ==
    ASSUME TablesFollow, NEW requests \in [Requests -> Request],
           \A r \in Requests : At(requests[r]) /\ WithinThen(requests[r]),
           request' = Noted(requests, role', owner')
    PROVE  RequestInv'
  <1> DEFINE seen(q) == Reach(q.actor, role', owner')
             noted(q) == [q EXCEPT !.mine = @ \cup seen(q)]
  <1>1. \A q \in Request : seen(q) \subseteq Things
    BY DEF Reach
  <1>2. request' = [r \in Requests |-> noted(requests[r])]
    BY DEF Noted
  <1> HIDE DEF seen
  <1>3. ASSUME NEW q \in Request
        PROVE  /\ noted(q) \in Request /\ noted(q).mine = q.mine \cup seen(q)
               /\ noted(q).todo = q.todo /\ noted(q).actor = q.actor /\ noted(q).admin = q.admin
               /\ noted(q).bot = q.bot /\ noted(q).destination = q.destination
               /\ noted(q).item = q.item /\ noted(q).scope = q.scope /\ noted(q).did = q.did
    BY <1>1 DEF Request
  <1> HIDE DEF noted
  <1>4. request' \in [Requests -> Request]
    BY <1>2, <1>3
  <1>5. ASSUME NEW s \in Requests
        PROVE  At(request[s])' /\ Within(request[s])' /\ Up(request[s])'
    <2>1. PICK q \in Request : q = requests[s] /\ At(q) /\ WithinThen(q)
      OBVIOUS
    <2>2. PICK p \in Request : p = noted(q) /\ p = request'[s]
      BY <1>2, <1>3, <2>1
    <2>3. /\ p.mine = q.mine \cup seen(q) /\ p.todo = q.todo /\ p.actor = q.actor
          /\ p.admin = q.admin /\ p.bot = q.bot /\ p.destination = q.destination
          /\ p.item = q.item /\ p.scope = q.scope /\ p.did = q.did
      BY <1>3, <2>2
    <2>4. At(p)
      <3>1. (BotReached(q) => BotReached(p)) /\ (DestinationReached(q) => DestinationReached(p))
        BY <2>3 DEF BotReached, DestinationReached
      <3>2. (RouteKnown(q) => RouteKnown(p)) /\ (EventKnown(q) => EventKnown(p))
        BY <2>3 DEF RouteKnown, EventKnown
      <3>3. QED
        BY <2>1, <2>3, <3>1, <3>2 DEF At
    <2>5. At(p)'
      BY <2>4, AtStays
    <2>6. Within(p)
      BY <2>1, <2>3 DEF Within, WithinThen, seen
    <2>7. Reach(p.actor, role', owner') \subseteq p.mine
      BY <2>3 DEF seen, Reach, Things
    <2>8. QED
      BY <2>2, <2>5, <2>6, <2>7
         DEF At, Within, Up, RouteKnown, EventKnown, BotReached, DestinationReached
  <1>6. QED
    BY <1>4, <1>5 DEF RequestInv

------------------------------------------------------------------------------
\* The statements that change no table

\* Nothing is written, and nothing can come into reach.
LEMMA RowsStay ==
    ASSUME UNCHANGED <<role, owner, route, event, delivery, fresh>>
    PROVE  /\ TablesFollow /\ ReachShrinks
           /\ TablesInv => TablesInv'
  <1>1. TablesFollow
    BY DEF TablesFollow
  <1>2. ReachShrinks
    BY DEF ReachShrinks, Reach
  <1>3. TablesInv => TablesInv'
    BY DEF TablesInv, TablesType, OwnersThere, Unused, References, There
  <1>4. QED
    BY <1>1, <1>2, <1>3

LEMMA TablesStay ==
    ASSUME UNCHANGED tables
    PROVE  /\ TablesFollow /\ ReachShrinks
           /\ TablesInv => TablesInv'
  BY RowsStay DEF tables

\* A refusal leaves a request with nothing to do.
LEMMA RefuseKeeps ==
    ASSUME RequestInv, TablesFollow, ReachShrinks, NEW r \in Requests, Refuse(r)
    PROVE  RequestInv'
  <1> DEFINE p == [request[r] EXCEPT !.todo = <<>>]
  <1>1. /\ p \in Request /\ p.todo = <<>>
        /\ p.did = request[r].did /\ p.actor = request[r].actor
        /\ p.admin = request[r].admin /\ p.scope = request[r].scope
        /\ p.mine = request[r].mine
    BY RefusedIs DEF RequestInv
  <1>2. Does(r, p)
    BY DEF Refuse
  <1> HIDE DEF p
  <1>3. At(p) /\ Within(p) /\ Up(p)
    BY <1>1, Ended DEF RequestInv, Within, Up
  <1>4. QED
    BY <1>1, <1>2, <1>3, MoveKeeps

\* A statement that shows or uses what is within reach.
LEMMA AlongKeeps ==
    ASSUME RequestInv, TablesFollow, ReachShrinks, NEW r \in Requests,
           request[r].todo # <<>>, NEW did \in SUBSET Things, did \subseteq request[r].mine,
           NEW ends \in Ends,
           At(Along(r, did, ends)), Does(r, Along(r, did, ends))
    PROVE  RequestInv'
  <1>1. PICK p : p = Along(r, did, ends)
    OBVIOUS
  <1>2. /\ p \in Request /\ p.did = request[r].did \cup did
        /\ p.actor = request[r].actor /\ p.admin = request[r].admin
        /\ p.scope = request[r].scope /\ p.mine = request[r].mine
    BY <1>1, AlongIs DEF RequestInv
  <1>3. At(p) /\ Within(p) /\ Up(p) /\ Does(r, p)
    BY <1>1, <1>2 DEF RequestInv, Within, Up
  <1>4. QED
    BY <1>2, <1>3, MoveKeeps

LEMMA AfterKeeps ==
    ASSUME RequestInv, TablesFollow, ReachShrinks, NEW r \in Requests,
           request[r].todo # <<>>, NEW did \in SUBSET Things,
           did \subseteq request[r].mine, At(After(r, did)), Does(r, After(r, did))
    PROVE  RequestInv'
  <1>1. PICK p : p = After(r, did)
    OBVIOUS
  <1>2. /\ p \in Request /\ p.did = request[r].did \cup did
        /\ p.actor = request[r].actor /\ p.admin = request[r].admin
        /\ p.scope = request[r].scope /\ p.mine = request[r].mine
    BY <1>1, AfterIs DEF RequestInv
  <1>3. At(p) /\ Within(p) /\ Up(p) /\ Does(r, p)
    BY <1>1, <1>2 DEF RequestInv, Within, Up
  <1>4. QED
    BY <1>2, <1>3, MoveKeeps

LEMMA GuardKeeps ==
    ASSUME ResourcesInv, NEW r \in Requests,
           \/ guard(r, "bot", request[r].bot)
           \/ guard(r, "destination", request[r].destination)
    PROVE  ResourcesInv'
  <1>1. UNCHANGED tables /\ request[r].todo # <<>> /\ request[r] \in Request
    BY DEF guard, Doing, ResourcesInv, RequestInv
  <1>2. TablesInv' /\ TablesFollow /\ ReachShrinks /\ RequestInv
    BY <1>1, TablesStay DEF ResourcesInv
  <1>3. CASE Refuse(r)
    BY <1>2, <1>3, RefuseKeeps DEF ResourcesInv
  <1> DEFINE q == request[r]
             p == After(r, {})
  <1>4. /\ p.todo = Tail(q.todo) /\ p.bot = q.bot /\ p.destination = q.destination
        /\ p.item = q.item /\ p.mine = q.mine
    BY <1>1, <1>2, AfterIs DEF RequestInv
  <1>5. /\ RouteKnown(q) => RouteKnown(p)
        /\ EventKnown(q) => EventKnown(p)
        /\ BotReached(q) => BotReached(p)
    BY <1>4 DEF RouteKnown, EventKnown, BotReached
  <1>6. At(q)
    BY <1>2 DEF RequestInv
  <1>7. CASE Does(r, p) /\ guard(r, "bot", q.bot) /\ q.bot # Gone /\ Permits(r, q.bot)
    <2>1. BotReached(p)
      BY <1>1, <1>2, <1>4, <1>7, PermittedIsReached DEF BotReached, Request, Things
    <2>2. Head(q.todo) = "bot"
      BY <1>7 DEF guard, Doing
    <2>3. \/ p.todo \in BotPassed
          \/ p.todo = then_destination_insert_route_route_bot_show /\ p.item \in Routes
          \/ p.todo \in RoutePassed /\ RouteKnown(p)
          \/ p.todo \in EventPassed /\ EventKnown(p)
      BY <1>1, <1>4, <1>5, <1>6, <2>2, Places
    <2>4. At(p)
      BY <2>1, <2>3 DEF At
    <2>5. QED
      BY <1>1, <1>2, <1>7, <2>4, AfterKeeps DEF ResourcesInv
  <1>8. CASE /\ Does(r, p) /\ guard(r, "destination", q.destination)
             /\ q.destination # Gone /\ Permits(r, q.destination)
    <2>1. DestinationReached(p)
      BY <1>1, <1>2, <1>4, <1>8, PermittedIsReached DEF DestinationReached, Request, Things
    <2>2. Head(q.todo) = "destination"
      BY <1>8 DEF guard, Doing
    <2>3. \/ p.todo \in DestinationPassed /\ p.bot = Gone
          \/ /\ p.todo = then_insert_route_route_bot_show
             /\ p.item \in Routes /\ BotReached(p)
          \/ p.todo = then_retarget_route_bot_show /\ RouteKnown(p) /\ BotReached(p)
      BY <1>1, <1>4, <1>5, <1>6, <2>2, Places
    <2>4. At(p)
      BY <2>1, <2>3 DEF At
    <2>5. QED
      BY <1>1, <1>2, <1>8, <2>4, AfterKeeps DEF ResourcesInv
  <1>9. QED
    BY <1>3, <1>7, <1>8 DEF guard

LEMMA AdminOnlyKeeps ==
    ASSUME ResourcesInv, NEW r \in Requests, adminOnly(r)
    PROVE  ResourcesInv'
  <1> DEFINE q == request[r]
             p == After(r, {})
  <1>1. UNCHANGED tables /\ q.todo # <<>> /\ Head(q.todo) = "admin" /\ At(q)
    BY DEF adminOnly, Doing, ResourcesInv, RequestInv
  <1>2. TablesInv' /\ TablesFollow /\ ReachShrinks /\ RequestInv
    BY <1>1, TablesStay DEF ResourcesInv
  <1>3. CASE Refuse(r)
    BY <1>2, <1>3, RefuseKeeps DEF ResourcesInv
  <1>4. CASE Does(r, p)
    <2>1. /\ p.todo = Tail(q.todo) /\ p.bot = q.bot /\ p.destination = q.destination
          /\ p.mine = q.mine
      BY <1>1, <1>2, AfterIs DEF RequestInv
    <2>2. \/ BotReached(p) /\ p.todo \in BotPassed
          \/ p.bot = Gone /\ DestinationReached(p) /\ p.todo \in DestinationPassed
      BY <1>1, <2>1, Places DEF BotReached, DestinationReached
    <2>3. At(p)
      BY <2>2 DEF At
    <2>4. QED
      BY <1>1, <1>2, <1>4, <2>3, AfterKeeps DEF ResourcesInv
  <1>5. QED
    BY <1>3, <1>4 DEF adminOnly

LEMMA ReadRouteKeeps ==
    ASSUME ResourcesInv, NEW r \in Requests, readRoute(r)
    PROVE  ResourcesInv'
  <1> DEFINE q == request[r]
             t == route[q.item]
             p == [After(r, {}) EXCEPT !.bot = t.bot, !.via = t.destination]
  <1>1. UNCHANGED tables /\ q.todo # <<>> /\ Head(q.todo) = "route" /\ At(q)
    BY DEF readRoute, Doing, ResourcesInv, RequestInv
  <1>2. TablesInv' /\ TablesFollow /\ ReachShrinks /\ RequestInv
    BY <1>1, TablesStay DEF ResourcesInv
  <1>3. CASE Refuse(r)
    BY <1>2, <1>3, RefuseKeeps DEF ResourcesInv
  <1>4. CASE t # NoRoute /\ Does(r, p)
    <2>1. /\ q.item \in Routes
          /\ Tail(q.todo) \in Unguarded \cup RouteRead \cup {then_bot_bot_store_enqueue}
      BY <1>1, Places
    <2>2. q.item \notin fresh /\ t.bot \in Bots /\ t.destination \in Destinations
      BY <1>4, <2>1 DEF ResourcesInv, TablesInv, TablesType, Unused, Route
    <2>3. /\ After(r, {}) \in Request /\ After(r, {}).todo = Tail(q.todo)
          /\ After(r, {}).did = q.did /\ After(r, {}).actor = q.actor
          /\ After(r, {}).admin = q.admin /\ After(r, {}).scope = q.scope
          /\ After(r, {}).mine = q.mine /\ After(r, {}).item = q.item
      <3>1. q.did \cup {} = q.did
        OBVIOUS
      <3>2. QED
        BY <1>1, <1>2, <3>1, AfterIs DEF RequestInv
    <2>4. /\ p \in Request /\ p.todo = Tail(q.todo) /\ p.did = q.did /\ p.actor = q.actor
          /\ p.admin = q.admin /\ p.scope = q.scope /\ p.mine = q.mine /\ p.item = q.item
          /\ p.bot = t.bot
      BY <2>2, <2>3 DEF Request
    <2> HIDE DEF p
    <2>5. RouteKnown(p)
      BY <2>1, <2>2, <2>4 DEF RouteKnown
    <2>6. At(p)
      BY <2>1, <2>4, <2>5 DEF At
    <2>7. Within(p) /\ Up(p)
      BY <1>1, <1>2, <2>4 DEF RequestInv, Within, Up
    <2>8. QED
      BY <1>2, <1>4, <2>4, <2>6, <2>7, MoveKeeps DEF ResourcesInv
  <1>5. QED
    BY <1>3, <1>4 DEF readRoute

LEMMA ReadEventKeeps ==
    ASSUME ResourcesInv, NEW r \in Requests, readEvent(r)
    PROVE  ResourcesInv'
  <1> DEFINE q == request[r]
             p == After(r, {})
  <1>1. UNCHANGED tables /\ q.todo # <<>> /\ Head(q.todo) = "event_row" /\ At(q)
    BY DEF readEvent, Doing, ResourcesInv, RequestInv
  <1>2. TablesInv' /\ TablesFollow /\ ReachShrinks /\ RequestInv
    BY <1>1, TablesStay DEF ResourcesInv
  <1>3. CASE Refuse(r)
    BY <1>2, <1>3, RefuseKeeps DEF ResourcesInv
  <1>4. CASE Does(r, p)
    <2>1. p.todo = Tail(q.todo) /\ p.bot = q.bot /\ p.item = q.item /\ p.mine = q.mine
      BY <1>1, <1>2, AfterIs DEF RequestInv
    <2>2. EventKnown(p) /\ BotReached(p) /\ p.todo \in EventPassed
      BY <1>1, <2>1, Places DEF EventKnown, BotReached
    <2>3. At(p)
      BY <2>2 DEF At
    <2>4. QED
      BY <1>1, <1>2, <1>4, <2>3, AfterKeeps DEF ResourcesInv
  <1>5. QED
    BY <1>3, <1>4 DEF readEvent

LEMMA ReadOriginalKeeps ==
    ASSUME ResourcesInv, NEW r \in Requests, readOriginal(r)
    PROVE  ResourcesInv'
  <1> DEFINE q == request[r]
             d == delivery[q.item]
             a == After(r, {})
             p == [a EXCEPT !.bot = d.bot, !.via = d.destination, !.item = d.event]
  <1>1. UNCHANGED tables /\ q.todo # <<>> /\ Head(q.todo) = "original" /\ At(q)
    BY DEF readOriginal, Doing, ResourcesInv, RequestInv
  <1>2. TablesInv' /\ TablesFollow /\ ReachShrinks /\ RequestInv
    BY <1>1, TablesStay DEF ResourcesInv
  <1>3. CASE Refuse(r)
    BY <1>2, <1>3, RefuseKeeps DEF ResourcesInv
  <1>4. CASE d # NoDelivery /\ Does(r, p)
    <2>1. q.item \in Deliveries /\ Tail(q.todo) \in EventRead
      BY <1>1, Places
    <2>2. d.event \in Events /\ d.bot \in Bots /\ d.destination \in Destinations \cup {Gone}
      BY <1>4, <2>1 DEF ResourcesInv, TablesInv, TablesType, Delivery
    <2>3. d.event \notin fresh /\ event[d.event] = d.bot
      <3>1. event[d.event] = d.bot
        BY <1>4, <2>1 DEF ResourcesInv, TablesInv, References
      <3>2. d.bot # Gone
        BY <2>2, ResourcesAssumption DEF Things
      <3>3. QED
        BY <2>2, <3>1, <3>2 DEF ResourcesInv, TablesInv, Unused
    <2>4. /\ a \in Request /\ a.todo = Tail(q.todo) /\ a.did = q.did /\ a.actor = q.actor
          /\ a.admin = q.admin /\ a.scope = q.scope /\ a.mine = q.mine
      <3>1. q.did \cup {} = q.did
        OBVIOUS
      <3>2. QED
        BY <1>1, <1>2, <3>1, AfterIs DEF RequestInv
    <2> HIDE DEF a, d
    <2>5. /\ p \in Request /\ p.todo = Tail(q.todo) /\ p.did = q.did /\ p.actor = q.actor
          /\ p.admin = q.admin /\ p.scope = q.scope /\ p.mine = q.mine
          /\ p.item = d.event /\ p.bot = d.bot
      BY <2>2, <2>4 DEF Request
    <2> HIDE DEF p
    <2>6. EventKnown(p)
      BY <2>2, <2>3, <2>5 DEF EventKnown
    <2>7. At(p)
      BY <2>1, <2>5, <2>6 DEF At
    <2>8. Within(p) /\ Up(p)
      BY <1>1, <1>2, <2>5 DEF RequestInv, Within, Up
    <2>9. QED
      BY <1>2, <1>4, <2>5, <2>7, <2>8, MoveKeeps DEF ResourcesInv
  <1>5. QED
    BY <1>3, <1>4 DEF readOriginal

\* The row and its bot in one SELECT: the bot is permitted as it is read.
LEMMA ReadWithBotKeeps ==
    ASSUME ResourcesInv, NEW r \in Requests, NEW b \in Bots \cup {Gone},
           NEW h \in Destinations \cup {Gone},
           \/ /\ readWithBot(r, "event", b, h)
              /\ request[r].item \in Events /\ b = event[request[r].item]
           \/ readWithBot(r, "delivery", b, h)
    PROVE  ResourcesInv'
  <1> DEFINE q == request[r]
             a == After(r, {b})
             p == [a EXCEPT !.bot = b, !.via = h]
  <1>1. /\ UNCHANGED tables /\ q.todo # <<>> /\ At(q)
        /\ \/ Head(q.todo) = "event" /\ q.item \in Events /\ b = event[q.item]
           \/ Head(q.todo) = "delivery"
    BY DEF readWithBot, Doing, ResourcesInv, RequestInv
  <1>2. TablesInv' /\ TablesFollow /\ ReachShrinks /\ RequestInv
    BY <1>1, TablesStay DEF ResourcesInv
  <1>3. CASE Refuse(r)
    BY <1>2, <1>3, RefuseKeeps DEF ResourcesInv
  <1>4. CASE b # Gone /\ Permits(r, b) /\ Does(r, p)
    <2>1. b \in Bots /\ b \in Things /\ b \in q.mine
      BY <1>1, <1>2, <1>4, PermittedIsReached DEF Things
    <2>2. /\ a \in Request /\ a.todo = Tail(q.todo) /\ a.did = q.did \cup {b} /\ a.actor = q.actor
          /\ a.admin = q.admin /\ a.scope = q.scope /\ a.mine = q.mine /\ a.item = q.item
      BY <1>1, <1>2, <2>1, AfterIs DEF RequestInv
    <2> HIDE DEF a
    <2>3. /\ p \in Request /\ p.todo = Tail(q.todo) /\ p.did = q.did \cup {b} /\ p.actor = q.actor
          /\ p.admin = q.admin /\ p.scope = q.scope /\ p.mine = q.mine /\ p.item = q.item
          /\ p.bot = b
      BY <2>1, <2>2 DEF Request
    <2> HIDE DEF p
    <2>4. BotReached(p)
      BY <2>1, <2>3 DEF BotReached
    <2>5. At(p)
      <3>1. CASE Head(q.todo) = "event" /\ q.item \in Events /\ b = event[q.item]
        <4>1. p.todo \in BotPassed \cup Unguarded \cup EventRead
          BY <1>1, <2>3, <3>1, Places
        <4>2. EventKnown(p)
          BY <1>4, <2>3, <3>1 DEF EventKnown, ResourcesInv, TablesInv, Unused
        <4>3. QED
          BY <2>4, <4>1, <4>2 DEF At
      <3>2. CASE Head(q.todo) = "delivery"
        <4>1. p.todo \in BotPassed
          BY <1>1, <2>3, <3>2, Places
        <4>2. QED
          BY <2>4, <4>1 DEF At
      <3>3. QED
        BY <1>1, <3>1, <3>2
    <2>6. Within(p) /\ Up(p)
      BY <1>1, <1>2, <2>1, <2>3 DEF RequestInv, Within, Up
    <2>7. QED
      BY <1>2, <1>4, <2>3, <2>5, <2>6, MoveKeeps DEF ResourcesInv
  <1>5. QED
    BY <1>3, <1>4 DEF readWithBot

\* What every bot and destination that is permitted now has in common.
LEMMA ListKeeps ==
    ASSUME ResourcesInv, NEW r \in Requests,
           listOwn(r, "list_bots", Bots) \/ listOwn(r, "list_destinations", Destinations)
    PROVE  ResourcesInv'
  <1> DEFINE q == request[r]
  <1>1. /\ UNCHANGED tables /\ q.todo # <<>> /\ At(q)
        /\ Head(q.todo) \in {"list_bots", "list_destinations"}
    BY DEF listOwn, Doing, ResourcesInv, RequestInv
  <1>2. TablesInv' /\ TablesFollow /\ ReachShrinks /\ RequestInv
    BY <1>1, TablesStay DEF ResourcesInv
  <1>3. PICK xs \in SUBSET Things : Does(r, After(r, {x \in xs : Permits(r, x)}))
    BY DEF listOwn, Things
  <1>4. PICK did \in SUBSET Things : did = {x \in xs : Permits(r, x)}
    OBVIOUS
  <1>5. did \subseteq q.mine
    BY <1>1, <1>2, <1>4, PermittedIsReached
  <1>6. After(r, did).todo \in Unguarded
    BY <1>1, <1>2, AfterIs, Places DEF RequestInv
  <1>7. At(After(r, did))
    BY <1>6 DEF At
  <1>8. QED
    BY <1>1, <1>2, <1>3, <1>4, <1>5, <1>7, AfterKeeps DEF ResourcesInv

\* The row the guard has read, or the use of its token.
LEMMA ShowKeeps ==
    ASSUME ResourcesInv, NEW r \in Requests, show(r) \/ listRoutes(r) \/ call(r)
    PROVE  ResourcesInv'
  <1> DEFINE q == request[r]
  <1>1. /\ UNCHANGED tables /\ q.todo # <<>> /\ At(q) /\ q \in Request
        /\ \/ show(r) /\ Head(q.todo) = "show"
           \/ listRoutes(r) /\ Head(q.todo) = "list_routes"
           \/ call(r) /\ Head(q.todo) = "call"
    BY DEF show, listRoutes, call, Doing, ResourcesInv, RequestInv
  <1>2. TablesInv' /\ TablesFollow /\ ReachShrinks /\ RequestInv
    BY <1>1, TablesStay DEF ResourcesInv
  <1>3. CASE show(r) /\ Head(q.todo) = "show"
    <2>1. Tail(q.todo) \in Unguarded /\ Reached(q)
      BY <1>1, <1>3, Places
    <2>2. PICK x \in Things \cap q.mine : x = Thing(r)
      BY <2>1, ReachedThing
    <2>3. PICK ends \in Ends : ends = {q.via}
      BY <1>1 DEF Request, Ends
    <2>4. Along(r, {x}, ends).todo \in Unguarded
      <3>1. {x} \in SUBSET Things
        OBVIOUS
      <3>2. QED
        BY <1>1, <1>2, <2>1, <3>1, AlongIs DEF RequestInv
    <2>5. At(Along(r, {x}, ends)) /\ Does(r, Along(r, {x}, ends))
      BY <1>3, <2>2, <2>3, <2>4 DEF At, show
    <2>6. QED
      BY <1>1, <1>2, <2>2, <2>3, <2>5, AlongKeeps DEF ResourcesInv
  <1>4. CASE listRoutes(r) /\ Head(q.todo) = "list_routes"
    <2>1. Tail(q.todo) \in Unguarded /\ BotReached(q)
      BY <1>1, <1>4, Places
    <2>2. PICK x \in Things \cap q.mine : x = q.bot
      BY <2>1 DEF BotReached, Things
    <2>3. PICK ends \in Ends :
             ends = {route[t].destination : t \in {y \in Routes : route[y].bot = x}}
      <3>1. \A t \in Routes : route[t].destination \in Destinations \cup {Gone}
        BY DEF ResourcesInv, TablesInv, TablesType, Route, NoRoute
      <3>2. QED
        BY <3>1 DEF Ends
    <2>4. Along(r, {x}, ends).todo \in Unguarded
      <3>1. {x} \in SUBSET Things
        OBVIOUS
      <3>2. QED
        BY <1>1, <1>2, <2>1, <3>1, AlongIs DEF RequestInv
    <2>5. At(Along(r, {x}, ends)) /\ Does(r, Along(r, {x}, ends))
      BY <1>4, <2>2, <2>3, <2>4 DEF At, listRoutes
    <2>6. QED
      BY <1>1, <1>2, <2>2, <2>3, <2>5, AlongKeeps DEF ResourcesInv
  <1>5. CASE call(r) /\ Head(q.todo) = "call"
    <2>1. BotReached(q) /\ Tail(q.todo) \in BotPassed \cup Unguarded
      BY <1>1, <1>5, Places
    <2>2. PICK x \in Things \cap q.mine : x = q.bot
      BY <2>1 DEF BotReached, Things
    <2>3. /\ After(r, {x}).todo = Tail(q.todo) /\ After(r, {x}).bot = q.bot
          /\ After(r, {x}).mine = q.mine
      BY <1>1, <1>2, AfterIs DEF RequestInv
    <2>4. At(After(r, {x})) /\ Does(r, After(r, {x}))
      BY <1>5, <2>1, <2>2, <2>3 DEF At, BotReached, call
    <2>5. QED
      BY <1>1, <1>2, <2>2, <2>4, AfterKeeps DEF ResourcesInv
  <1>6. QED
    BY <1>1, <1>3, <1>4, <1>5

LEMMA ReadScopeKeeps ==
    ASSUME ResourcesInv, NEW r \in Requests, readScope(r)
    PROVE  ResourcesInv'
  <1> DEFINE q == request[r]
             own == {b \in Bots : Permits(r, b)}
             a == After(r, {})
             p == [a EXCEPT !.scope = own]
  <1>1. UNCHANGED tables /\ q.todo # <<>> /\ Head(q.todo) = "scope" /\ At(q)
    BY DEF readScope, Doing, ResourcesInv, RequestInv
  <1>2. TablesInv' /\ TablesFollow /\ ReachShrinks /\ RequestInv
    BY <1>1, TablesStay DEF ResourcesInv
  <1>3. CASE Refuse(r)
    BY <1>2, <1>3, RefuseKeeps DEF ResourcesInv
  <1>4. CASE Does(r, p)
    <2>1. own \subseteq q.mine /\ own \in SUBSET Bots
      BY <1>1, <1>2, PermittedIsReached DEF Things
    <2>2. /\ a \in Request /\ a.todo = Tail(q.todo) /\ a.did = q.did /\ a.actor = q.actor
          /\ a.admin = q.admin /\ a.mine = q.mine
      <3>1. q.did \cup {} = q.did
        OBVIOUS
      <3>2. QED
        BY <1>1, <1>2, <3>1, AfterIs DEF RequestInv
    <2> HIDE DEF a, own
    <2>3. /\ p \in Request /\ p.todo = Tail(q.todo) /\ p.did = q.did /\ p.actor = q.actor
          /\ p.admin = q.admin /\ p.scope = own /\ p.mine = q.mine
      BY <2>1, <2>2 DEF Request
    <2> HIDE DEF p
    <2>4. At(p)
      <3>1. p.todo \in Unguarded
        BY <1>1, <2>3, Places
      <3>2. QED
        BY <3>1 DEF At
    <2>5. Within(p) /\ Up(p)
      BY <1>1, <1>2, <2>1, <2>3 DEF RequestInv, Within, Up
    <2>6. QED
      BY <1>2, <1>4, <2>3, <2>4, <2>5, MoveKeeps DEF ResourcesInv
  <1>5. QED
    BY <1>3, <1>4 DEF readScope

LEMMA ReadRowsKeeps ==
    ASSUME ResourcesInv, NEW r \in Requests, readRows(r)
    PROVE  ResourcesInv'
  <1> DEFINE q == request[r]
             rows == {event[e] : e \in Events} \cup {delivery[d].bot : d \in Deliveries}
  <1>1. UNCHANGED tables /\ q.todo # <<>> /\ Head(q.todo) = "rows" /\ At(q) /\ q \in Request
    BY DEF readRows, Doing, ResourcesInv, RequestInv
  <1>2. TablesInv' /\ TablesFollow /\ ReachShrinks /\ RequestInv
    BY <1>1, TablesStay DEF ResourcesInv
  <1>3. rows \subseteq Bots \cup {Gone}
    BY DEF ResourcesInv, TablesInv, TablesType, Delivery, NoDelivery
  <1>4. Within(q)
    BY <1>2 DEF RequestInv
  <1>5. PICK did \in SUBSET Things, ends \in Ends :
           did \subseteq q.mine /\ Does(r, Along(r, did, ends))
    <2>1. PICK seen : /\ seen = IF q.admin THEN rows \ {Gone} ELSE rows \cap q.scope
                      /\ Does(r, Along(r, seen, {delivery[d].destination :
                                    d \in {x \in Deliveries : delivery[x].bot \in seen}}))
      BY DEF readRows
    <2>2. PICK ends \in Ends :
             ends = {delivery[d].destination :
                        d \in {x \in Deliveries : delivery[x].bot \in seen}}
      <3>1. \A d \in Deliveries : delivery[d].destination \in Destinations \cup {Gone}
        BY DEF ResourcesInv, TablesInv, TablesType, Delivery, NoDelivery
      <3>2. QED
        BY <3>1 DEF Ends
    <2>3. seen \subseteq Things /\ seen \subseteq q.mine
      <3>1. q.scope \subseteq q.mine /\ q.scope \subseteq Things
        BY <1>1, <1>4 DEF Within, Request, Things
      <3>2. rows \ {Gone} \subseteq Things /\ q.admin => Things \subseteq q.mine
        BY <1>3, <1>4 DEF Within, Things
      <3> HIDE DEF rows
      <3>3. QED
        BY <1>3, <1>4, <2>1, <3>1, <3>2 DEF Within, Things
    <2>4. QED
      BY <2>1, <2>2, <2>3
  <1>6. Along(r, did, ends).todo \in Unguarded
    <2>1. Tail(q.todo) \in Unguarded
      BY <1>1, Places
    <2>2. QED
      BY <1>1, <1>2, <2>1, AlongIs DEF RequestInv
  <1>7. At(Along(r, did, ends))
    BY <1>6 DEF At
  <1>8. QED
    BY <1>1, <1>2, <1>5, <1>7, AlongKeeps DEF ResourcesInv

LEMMA WriteKeeps ==
    ASSUME ResourcesInv, NEW r \in Requests, write(r)
    PROVE  ResourcesInv'
  <1> DEFINE q == request[r]
  <1>1. UNCHANGED tables /\ q.todo # <<>> /\ Head(q.todo) = "write" /\ At(q)
    BY DEF write, Doing, ResourcesInv, RequestInv
  <1>2. TablesInv' /\ TablesFollow /\ ReachShrinks /\ RequestInv
    BY <1>1, TablesStay DEF ResourcesInv
  <1>3. /\ Reached(q)
        /\ Tail(q.todo) \in Unguarded \/ (Tail(q.todo) \in DestinationAsked /\ q.bot = Gone)
    BY <1>1, Places
  <1>4. Thing(r) \in Things \cap q.mine
    BY <1>3, ReachedThing
  <1>5. PICK did \in SUBSET Things : did \subseteq q.mine /\ Does(r, After(r, did))
    BY <1>4 DEF write
  <1>6. After(r, did).todo = Tail(q.todo) /\ After(r, did).bot = q.bot
    BY <1>1, <1>2, AfterIs DEF RequestInv
  <1>7. At(After(r, did))
    BY <1>3, <1>6 DEF At
  <1>8. QED
    BY <1>1, <1>2, <1>5, <1>7, AfterKeeps DEF ResourcesInv

------------------------------------------------------------------------------
\* The statements and the events beside them that change a table

\* Rows keep their referents while owners and roles change.
LEMMA OwnersChange ==
    ASSUME TablesInv, UNCHANGED <<route, event, delivery>>, fresh' \subseteq fresh,
           role' \in [Users -> {"admin", "manager", "gone"}],
           owner' \in [Things -> Users \cup {Nobody, Gone}],
           OwnersThere', \A x \in Things : There(x) => There(x)'
    PROVE  TablesInv' /\ TablesFollow
  <1>1. TablesType'
    BY DEF TablesInv, TablesType
  <1>2. Unused'
    BY DEF TablesInv, Unused
  <1>3. References'
    <2>1. \A t \in Routes : route[t] # NoRoute => route[t].bot \in Things /\ route[t].destination \in Things
      BY DEF TablesInv, TablesType, Route, Things
    <2>2. \A e \in Events : event[e] # Gone => event[e] \in Things
      BY DEF TablesInv, TablesType, Things
    <2>3. \A d \in Deliveries : delivery[d] # NoDelivery /\ delivery[d].destination # Gone =>
             delivery[d].destination \in Things
      BY DEF TablesInv, TablesType, Delivery, Things
    <2>4. QED
      BY <2>1, <2>2, <2>3 DEF TablesInv, References
  <1>4. TablesFollow
    BY DEF TablesFollow
  <1>5. QED
    BY <1>1, <1>2, <1>3, <1>4 DEF TablesInv

LEMMA InsertKeeps ==
    ASSUME ResourcesInv, NEW r \in Requests, insert(r)
    PROVE  ResourcesInv'
  <1> DEFINE q == request[r]
             x == Thing(r)
             p == After(r, {x})
             requests == [request EXCEPT ![r] = p]
  <1>1. /\ q.todo # <<>> /\ Head(q.todo) = "insert" /\ At(q) /\ Within(q) /\ Up(q) /\ q \in Request
        /\ RequestInv /\ request \in [Requests -> Request]
    BY DEF insert, Doing, ResourcesInv, RequestInv
  <1>2. CASE Refuse(r) /\ UNCHANGED tables
    BY <1>1, <1>2, TablesStay, RefuseKeeps DEF ResourcesInv
  <1>3. CASE /\ role[q.actor] # "gone" /\ x \in fresh /\ fresh' = fresh \ {x}
             /\ owner' = [owner EXCEPT ![x] = q.actor]
             /\ request' = Noted(requests, role, owner')
             /\ UNCHANGED <<role, route, event, delivery>>
    <2>1. /\ \/ q.bot \in Bots /\ Tail(q.todo) \in Unguarded
             \/ q.bot = Gone /\ q.destination \in Destinations /\ Tail(q.todo) \in DestinationAsked
          /\ q.actor \in Users
      BY <1>1, Places DEF Within
    <2>2. x \in Things
      BY <2>1, ResourcesAssumption DEF Thing, Things
    <2>3. TablesInv' /\ TablesFollow
      <3>1. TablesInv /\ q.actor # Gone
        BY <2>1, ResourcesAssumption DEF ResourcesInv
      <3>2. owner' \in [Things -> Users \cup {Nobody, Gone}]
        BY <1>3, <2>1, <3>1 DEF TablesInv, TablesType
      <3> HIDE DEF x
      <3>3. OwnersThere'
        BY <1>3, <2>1, <2>2, <3>1 DEF TablesInv, TablesType, OwnersThere
      <3>4. \A y \in Things : There(y) => There(y)'
        BY <1>3, <2>2, <3>1 DEF There, TablesInv, TablesType
      <3>5. role' \in [Users -> {"admin", "manager", "gone"}]
        BY <1>3, <3>1 DEF TablesInv, TablesType
      <3>6. QED
        BY <1>3, <3>1, <3>2, <3>3, <3>4, <3>5, OwnersChange
    <2>4. /\ p \in Request /\ p.todo = Tail(q.todo) /\ p.did = q.did \cup {x}
          /\ p.actor = q.actor /\ p.admin = q.admin /\ p.bot = q.bot
          /\ p.scope = q.scope /\ p.mine = q.mine
      BY <1>1, <2>2, AfterIs
    <2>5. x \in Reach(q.actor, role', owner')
      <3>1. q.actor # Nobody /\ owner \in [Things -> Users \cup {Nobody, Gone}]
        BY <2>1, ResourcesAssumption DEF ResourcesInv, TablesInv, TablesType
      <3> HIDE DEF x
      <3>2. QED
        BY <1>3, <2>2, <3>1 DEF Reach
    <2> HIDE DEF p, x
    <2>6. At(p)
      BY <2>1, <2>4 DEF At
    <2>7. requests \in [Requests -> Request]
      BY <1>1, <2>4
    <2>8. ASSUME NEW s \in Requests
          PROVE  At(requests[s]) /\ WithinThen(requests[s])
      BY <1>1, <2>1, <2>4, <2>5, <2>6 DEF RequestInv, Within, WithinThen
    <2> HIDE DEF requests
    <2>9. request' = Noted(requests, role', owner')
      BY <1>3
    <2>10. QED
      BY <2>3, <2>7, <2>8, <2>9, NotedKeeps DEF ResourcesInv
  <1>4. QED
    BY <1>2, <1>3 DEF insert

\* A bot or destination that is there gets another owner, who is there.
LEMMA ReassignedTables ==
    ASSUME TablesInv, NEW x \in Things, NEW u \in Users, role[u] # "gone",
           owner' = [owner EXCEPT ![x] = IF @ = Gone THEN Gone ELSE u],
           UNCHANGED <<role, route, event, delivery, fresh>>
    PROVE  TablesInv' /\ TablesFollow
  <1>1. u # Gone /\ Gone \notin Users
    BY ResourcesAssumption
  <1>2. owner' \in [Things -> Users \cup {Nobody, Gone}]
    BY DEF TablesInv, TablesType
  <1>3. OwnersThere'
    BY <1>1 DEF TablesInv, TablesType, OwnersThere
  <1>4. \A y \in Things : There(y) => There(y)'
    BY <1>1 DEF There, TablesInv, TablesType
  <1>5. role' \in [Users -> {"admin", "manager", "gone"}]
    BY DEF TablesInv, TablesType
  <1>6. QED
    BY <1>2, <1>3, <1>4, <1>5, OwnersChange

LEMMA GiveKeeps ==
    ASSUME ResourcesInv, NEW r \in Requests, NEW u \in Users, give(r, u)
    PROVE  ResourcesInv'
  <1> DEFINE q == request[r]
             x == Thing(r)
             p == After(r, {x})
             requests == [request EXCEPT ![r] = p]
  <1>1. /\ q.todo # <<>> /\ Head(q.todo) = "give" /\ At(q) /\ Within(q) /\ Up(q) /\ q \in Request
        /\ RequestInv /\ request \in [Requests -> Request]
    BY DEF give, Doing, ResourcesInv, RequestInv
  <1>2. /\ Reached(q)
        /\ Tail(q.todo) \in Unguarded \/ (Tail(q.todo) \in DestinationAsked /\ q.bot = Gone)
    BY <1>1, Places
  <1>3. x \in Things \cap q.mine
    BY <1>2, ReachedThing
  <1>4. TablesInv' /\ TablesFollow
    BY <1>3, ReassignedTables DEF give, ResourcesInv
  <1>5. /\ p \in Request /\ p.todo = Tail(q.todo) /\ p.did = q.did \cup {x}
        /\ p.actor = q.actor /\ p.admin = q.admin /\ p.bot = q.bot
        /\ p.scope = q.scope /\ p.mine = q.mine
    BY <1>1, <1>3, AfterIs
  <1>6. request' = Noted(requests, role', owner')
    BY DEF give
  <1> HIDE DEF p, x
  <1>7. At(p)
    BY <1>2, <1>5 DEF At
  <1>8. requests \in [Requests -> Request]
    BY <1>1, <1>5
  <1>9. ASSUME NEW s \in Requests
        PROVE  At(requests[s]) /\ WithinThen(requests[s])
    BY <1>1, <1>3, <1>5, <1>7 DEF RequestInv, Within, WithinThen
  <1> HIDE DEF requests
  <1>10. QED
    BY <1>4, <1>6, <1>8, <1>9, NotedKeeps DEF ResourcesInv

\* Others change owners or roles: the requests under way take note.
LEMMA OthersNoted ==
    ASSUME RequestInv, TablesFollow, request' = Noted(request, role', owner')
    PROVE  RequestInv'
  <1>1. /\ request \in [Requests -> Request]
        /\ \A s \in Requests : At(request[s]) /\ WithinThen(request[s])
    BY DEF RequestInv, Within, WithinThen
  <1>2. PICK requests : requests = request
    OBVIOUS
  <1>3. QED
    BY <1>1, <1>2, NotedKeeps

LEMMA ReassignKeeps ==
    ASSUME ResourcesInv, NEW x \in Things, NEW u \in Users, Reassign(x, u)
    PROVE  ResourcesInv'
  <1>1. owner' = [owner EXCEPT ![x] = IF @ = Gone THEN Gone ELSE u]
    BY DEF Reassign, There
  <1>2. TablesInv' /\ TablesFollow
    BY <1>1, ReassignedTables DEF Reassign, ResourcesInv
  <1>3. request' = Noted(request, role', owner')
    BY DEF Reassign
  <1>4. QED
    BY <1>2, <1>3, OthersNoted DEF ResourcesInv

LEMMA SetRoleKeeps ==
    ASSUME ResourcesInv, NEW u \in Users, NEW to \in {"admin", "manager", "gone"}, SetRole(u, to)
    PROVE  ResourcesInv'
  <1>1. TablesInv /\ Gone \notin Users /\ Nobody \notin Users /\ Nobody # Gone
    BY ResourcesAssumption DEF ResourcesInv
  <1>2. role' \in [Users -> {"admin", "manager", "gone"}]
    BY <1>1 DEF SetRole, TablesInv, TablesType
  <1>3. /\ owner' \in [Things -> Users \cup {Nobody, Gone}]
        /\ \A x \in Things : /\ to = "gone" /\ owner[x] = u => owner'[x] = Nobody
                             /\ ~(to = "gone" /\ owner[x] = u) => owner'[x] = owner[x]
    BY <1>1 DEF SetRole, TablesInv, TablesType
  <1>4. OwnersThere'
    BY <1>1, <1>2, <1>3 DEF SetRole, TablesInv, TablesType, OwnersThere
  <1>5. \A x \in Things : There(x) => There(x)'
    BY <1>1, <1>3 DEF There
  <1>6. TablesInv' /\ TablesFollow
    BY <1>1, <1>2, <1>3, <1>4, <1>5, OwnersChange DEF SetRole
  <1>7. request' = Noted(request, role', owner')
    BY DEF SetRole
  <1>8. QED
    BY <1>6, <1>7, OthersNoted DEF ResourcesInv

\* No request moves, nothing comes into reach.
LEMMA RequestsStay ==
    ASSUME RequestInv, TablesFollow, ReachShrinks, UNCHANGED request
    PROVE  RequestInv'
  <1>1. CASE Requests = {}
    BY <1>1 DEF RequestInv
  <1>2. CASE Requests # {}
    <2>1. PICK r \in Requests : TRUE
      BY <1>2
    <2>2. PICK p \in Request : p = request[r] /\ At(p) /\ Within(p) /\ Up(p)
      BY DEF RequestInv
    <2>3. Does(r, p)
      BY <2>2 DEF Does, RequestInv
    <2>4. QED
      BY <2>1, <2>2, <2>3, MoveKeeps
  <1>3. QED
    BY <1>1, <1>2

\* ON DELETE of x.
LEMMA DroppedTables ==
    ASSUME TablesInv, NEW x \in Things, Dropped(x)
    PROVE  TablesInv' /\ TablesFollow /\ ReachShrinks
  <1>1. /\ Gone \notin Users /\ Gone # Nobody /\ Gone \notin Things /\ x # Gone
        /\ Bots \cap Destinations = {}
    BY ResourcesAssumption
  <1>2. /\ owner \in [Things -> Users \cup {Nobody, Gone}]
        /\ owner' = [owner EXCEPT ![x] = Gone]
        /\ UNCHANGED <<role, fresh>>
    BY DEF TablesInv, TablesType, Dropped
  <1>3. \A y \in Things : There(y) /\ y # x => There(y)'
    BY <1>2 DEF There
  <1>4. ASSUME NEW t \in Routes
        PROVE  /\ route[t] \in Route /\ route'[t] \in {NoRoute, route[t]}
               /\ route'[t] = route[t] \/ route'[t] = NoRoute
               /\ route'[t] # NoRoute => /\ route'[t] = route[t] /\ x # route[t].bot
                                         /\ x # route[t].destination
    BY DEF Dropped, TablesInv, TablesType
  <1>5. ASSUME NEW e \in Events
        PROVE  /\ event[e] \in Bots \cup {Gone}
               /\ event[e] = x => event'[e] = Gone
               /\ event[e] # x => event'[e] = event[e]
    BY DEF Dropped, TablesInv, TablesType
  <1>6. ASSUME NEW d \in Deliveries
        PROVE  /\ delivery[d] \in Delivery
               /\ delivery[d].bot = x => delivery'[d] = NoDelivery
               /\ delivery[d].bot # x /\ delivery[d].destination = x =>
                     delivery'[d] = [delivery[d] EXCEPT !.destination = Gone]
               /\ delivery[d].bot # x /\ delivery[d].destination # x => delivery'[d] = delivery[d]
    BY DEF Dropped, CascadeDeliveries, TablesInv, TablesType
  <1>7. ASSUME NEW d \in Deliveries, delivery'[d] # NoDelivery
        PROVE  /\ delivery[d] # NoDelivery /\ delivery[d].bot # x
               /\ delivery'[d] \in Delivery
               /\ delivery'[d].event = delivery[d].event /\ delivery'[d].bot = delivery[d].bot
               /\ delivery'[d].destination \in {delivery[d].destination, Gone} \ {x}
    <2>1. delivery[d].bot # x
      BY <1>6, <1>7
    <2>2. CASE delivery[d].destination = x
      <3>1. delivery[d] \in [event: Events, bot: Bots, destination: Destinations \cup {Gone}]
        <4>1. NoDelivery.destination # x
          BY <1>1 DEF NoDelivery
        <4>2. delivery[d] # NoDelivery
          BY <2>2, <4>1
        <4>3. QED
          BY <1>6, <4>2 DEF Delivery
      <3>2. delivery'[d] = [delivery[d] EXCEPT !.destination = Gone]
        BY <1>6, <2>1, <2>2
      <3>3. /\ delivery'[d] \in [event: Events, bot: Bots, destination: Destinations \cup {Gone}]
            /\ delivery'[d].event = delivery[d].event /\ delivery'[d].bot = delivery[d].bot
            /\ delivery'[d].destination = Gone
        BY <3>1, <3>2
      <3>4. delivery[d] # NoDelivery
        BY <1>1, <2>2 DEF NoDelivery
      <3>5. QED
        BY <1>1, <2>1, <3>3, <3>4 DEF Delivery
    <2>3. CASE delivery[d].destination # x
      BY <1>6, <1>7, <2>1, <2>3
    <2>4. QED
      BY <2>2, <2>3
  <1>8. TablesType'
    <2>1. owner' \in [Things -> Users \cup {Nobody, Gone}]
      BY <1>2
    <2>2. route' \in [Routes -> Route]
      BY <1>4 DEF Dropped, Route
    <2>3. event' \in [Events -> Bots \cup {Gone}]
      BY <1>5 DEF Dropped
    <2>4. delivery' \in [Deliveries -> Delivery]
      <3>1. \A d \in Deliveries : delivery'[d] \in Delivery
        BY <1>7 DEF Delivery
      <3>2. delivery' = [d \in Deliveries |-> delivery'[d]]
        BY DEF Dropped, CascadeDeliveries
      <3>3. QED
        BY <3>1, <3>2
    <2>5. QED
      BY <1>2, <2>1, <2>2, <2>3, <2>4 DEF TablesInv, TablesType
  <1>9. OwnersThere'
    BY <1>1, <1>2 DEF TablesInv, OwnersThere
  <1>10. Unused'
    BY <1>1, <1>2, <1>4, <1>5, <1>7 DEF TablesInv, Unused
  <1>11. References'
    <2>1. ASSUME NEW t \in Routes, route'[t] # NoRoute
          PROVE  There(route[t].bot)' /\ There(route[t].destination)'
      <3>1. route'[t] = route[t] /\ x # route[t].bot /\ x # route[t].destination
        BY <1>4, <2>1
      <3>2. route[t].bot \in Things /\ route[t].destination \in Things
        BY <1>4, <2>1, <3>1 DEF Route, Things
      <3>3. There(route[t].bot) /\ There(route[t].destination)
        BY <2>1, <3>1 DEF TablesInv, References
      <3>4. QED
        BY <1>2, <3>1, <3>2, <3>3 DEF There
    <2>2. ASSUME NEW e \in Events, event'[e] # Gone
          PROVE  There(event[e])'
      <3>1. event'[e] = event[e] /\ event[e] # x /\ event[e] \in Things
        BY <1>5, <2>2 DEF Things
      <3>2. There(event[e])
        BY <2>2, <3>1 DEF TablesInv, References
      <3>3. QED
        BY <1>2, <3>1, <3>2 DEF There
    <2>3. ASSUME NEW d \in Deliveries, delivery'[d] # NoDelivery
          PROVE  /\ delivery'[d].bot = event'[delivery'[d].event]
                 /\ delivery'[d].destination # Gone => There(delivery[d].destination)'
      <3>1. /\ delivery[d] # NoDelivery /\ delivery[d].bot # x
            /\ delivery'[d].event = delivery[d].event /\ delivery'[d].bot = delivery[d].bot
            /\ delivery'[d].destination \in {delivery[d].destination, Gone} \ {x}
        BY <1>7, <2>3
      <3>2. /\ delivery[d].event \in Events
            /\ delivery[d].destination \in Destinations \cup {Gone}
        BY <1>6, <3>1 DEF Delivery
      <3>3. /\ delivery[d].bot = event[delivery[d].event]
            /\ delivery[d].destination # Gone => There(delivery[d].destination)
        BY <3>1 DEF TablesInv, References
      <3>4. event'[delivery[d].event] = event[delivery[d].event]
        BY <1>5, <3>1, <3>2, <3>3
      <3>5. delivery'[d].destination # Gone =>
               /\ delivery'[d].destination = delivery[d].destination
               /\ delivery[d].destination \in Things /\ delivery[d].destination # x
        BY <3>1, <3>2 DEF Things
      <3>6. QED
        BY <1>2, <3>1, <3>3, <3>4, <3>5 DEF There
    <2>4. QED
      BY <2>1, <2>2, <2>3 DEF References
  <1>12. TablesFollow
    BY <1>2, <1>4, <1>5 DEF TablesFollow, NoRoute
  <1>13. ReachShrinks
    BY <1>1, <1>2 DEF ReachShrinks, Reach
  <1>14. QED
    BY <1>8, <1>9, <1>10, <1>11, <1>12, <1>13 DEF TablesInv

LEMMA DropKeeps ==
    ASSUME ResourcesInv, NEW r \in Requests, drop(r)
    PROVE  ResourcesInv'
  <1> DEFINE q == request[r]
  <1>1. q.todo # <<>> /\ Head(q.todo) = "drop" /\ At(q) /\ RequestInv
    BY DEF drop, Doing, ResourcesInv, RequestInv
  <1>2. Tail(q.todo) \in Unguarded /\ Reached(q)
    BY <1>1, Places
  <1>3. PICK x \in Things \cap q.mine : x = Thing(r)
    BY <1>2, ReachedThing
  <1>4. TablesInv' /\ TablesFollow /\ ReachShrinks
    BY <1>3, DroppedTables DEF drop, ResourcesInv
  <1>5. Does(r, After(r, {x}))
    BY <1>3 DEF drop
  <1>6. After(r, {x}).todo \in Unguarded
    BY <1>1, <1>2, AfterIs DEF RequestInv
  <1>7. At(After(r, {x}))
    BY <1>6 DEF At
  <1>8. QED
    BY <1>1, <1>3, <1>4, <1>5, <1>7, AfterKeeps DEF ResourcesInv

LEMMA DropMeanwhileKeeps ==
    ASSUME ResourcesInv, NEW x \in Things, DropMeanwhile(x)
    PROVE  ResourcesInv'
  BY DroppedTables, RequestsStay DEF DropMeanwhile, ResourcesInv

\* A route comes, goes or changes its destination.
LEMMA RoutesChange ==
    ASSUME TablesInv, UNCHANGED <<role, owner, event, delivery>>, fresh' \subseteq fresh,
           NEW t \in Routes, NEW rt \in Route, route' = [route EXCEPT ![t] = rt],
           rt # NoRoute => t \notin fresh' /\ There(rt.bot) /\ There(rt.destination),
           t \notin fresh => rt.bot \in {Gone, route[t].bot}
    PROVE  TablesInv' /\ TablesFollow /\ ReachShrinks
  <1>1. TablesType'
    BY DEF TablesInv, TablesType
  <1>2. OwnersThere'
    BY DEF TablesInv, OwnersThere
  <1>3. \A s \in Routes : route'[s] = IF s = t THEN rt ELSE route[s]
    BY DEF TablesInv, TablesType
  <1>4. Unused'
    BY <1>3 DEF TablesInv, Unused
  <1>5. References'
    BY <1>3 DEF TablesInv, References, There
  <1>6. TablesFollow
    BY <1>3 DEF TablesFollow
  <1>7. ReachShrinks
    BY DEF ReachShrinks, Reach
  <1>8. QED
    BY <1>1, <1>2, <1>4, <1>5, <1>6, <1>7 DEF TablesInv

LEMMA InsertRouteKeeps ==
    ASSUME ResourcesInv, NEW r \in Requests, insertRoute(r)
    PROVE  ResourcesInv'
  <1> DEFINE q == request[r]
  <1>1. q.todo # <<>> /\ Head(q.todo) = "insert_route" /\ At(q) /\ RequestInv
    BY DEF insertRoute, Doing, ResourcesInv, RequestInv
  <1>2. q.item \in Routes /\ BotReached(q) /\ DestinationReached(q) /\ Tail(q.todo) \in RouteAsked
    BY <1>1, Places
  <1>3. CASE Refuse(r) /\ UNCHANGED <<route, fresh>>
    BY <1>1, <1>3, RowsStay, RefuseKeeps DEF insertRoute, ResourcesInv
  <1>4. CASE /\ There(q.bot) /\ There(q.destination) /\ q.item \in fresh
             /\ route' = [route EXCEPT ![q.item] = [bot |-> q.bot, destination |-> q.destination]]
             /\ fresh' = fresh \ {q.item}
             /\ Does(r, After(r, {q.bot, q.destination}))
    <2>1. PICK rt \in Route : rt = [bot |-> q.bot, destination |-> q.destination]
      BY <1>2 DEF Route, BotReached, DestinationReached
    <2>2. PICK t \in Routes : t = q.item
      BY <1>2
    <2>3. TablesInv' /\ TablesFollow /\ ReachShrinks
      <3>1. UNCHANGED <<role, owner, event, delivery>>
        BY DEF insertRoute
      <3>2. QED
        BY <1>4, <2>1, <2>2, <3>1, RoutesChange DEF ResourcesInv
    <2>4. PICK did \in SUBSET Things : did = {q.bot, q.destination} /\ did \subseteq q.mine
      <3>1. {q.bot, q.destination} \subseteq Things \cap q.mine
        BY <1>2 DEF BotReached, DestinationReached, Things
      <3>2. QED
        BY <3>1
    <2>5. After(r, did).todo \in RouteAsked /\ After(r, did).item \in Routes
      BY <1>1, <1>2, <2>4, AfterIs DEF RequestInv
    <2>6. At(After(r, did))
      BY <2>5 DEF At
    <2>7. QED
      BY <1>1, <1>4, <2>3, <2>4, <2>6, AfterKeeps DEF ResourcesInv
  <1>5. QED
    BY <1>3, <1>4 DEF insertRoute

LEMMA WriteRouteKeeps ==
    ASSUME ResourcesInv, NEW r \in Requests,
           writeRoute(r, "write_route") \/ writeRoute(r, "retarget")
    PROVE  ResourcesInv'
  <1> DEFINE q == request[r]
             t == route[q.item]
  <1>1. /\ q.todo # <<>> /\ Head(q.todo) \in {"write_route", "retarget"} /\ At(q) /\ RequestInv
        /\ request \in [Requests -> Request]
        /\ UNCHANGED <<role, owner, event, delivery, fresh>>
    BY DEF writeRoute, Doing, ResourcesInv, RequestInv
  <1>2. /\ RouteKnown(q) /\ BotReached(q) /\ Tail(q.todo) \in RouteAsked
        /\ Head(q.todo) = "retarget" => DestinationReached(q)
    <2>1. CASE Head(q.todo) = "write_route"
      BY <1>1, <2>1, Places
    <2>2. CASE Head(q.todo) = "retarget"
      BY <1>1, <2>2, Places
    <2>3. QED
      BY <1>1, <2>1, <2>2
  <1>3. q.item \in Routes \ fresh
    BY <1>2 DEF RouteKnown
  <1>4. ASSUME NEW did \in SUBSET Things
        PROVE  At(After(r, did))
    <2>1. After(r, did).todo \in RouteAsked /\ After(r, did).item \in Routes
      BY <1>1, <1>2, <1>3, AfterIs
    <2>2. QED
      BY <2>1 DEF At
  <1>5. t # NoRoute => t.bot = q.bot
    <2>1. t # NoRoute => t.bot # Gone
      BY <1>3, ResourcesAssumption DEF ResourcesInv, TablesInv, TablesType, Route, Things
    <2>2. QED
      BY <1>2, <2>1 DEF RouteKnown
  <1>6. CASE UNCHANGED route /\ Refuse(r)
    BY <1>1, <1>6, RowsStay, RefuseKeeps DEF ResourcesInv
  <1>7. CASE UNCHANGED route /\ Does(r, After(r, {}))
    <2>1. {} \in SUBSET Things /\ {} \subseteq q.mine
      OBVIOUS
    <2>2. QED
      BY <1>1, <1>4, <1>7, <2>1, RowsStay, AfterKeeps DEF ResourcesInv
  <1>8. CASE UNCHANGED route /\ t # NoRoute /\ Does(r, After(r, {t.bot}))
    <2>1. PICK did \in SUBSET Things : did = {t.bot} /\ did \subseteq q.mine
      BY <1>2, <1>5, <1>8 DEF BotReached, Things
    <2>2. QED
      BY <1>1, <1>4, <1>8, <2>1, RowsStay, AfterKeeps DEF ResourcesInv
  <1>9. CASE /\ t # NoRoute /\ There(q.destination) /\ Head(q.todo) = "retarget"
             /\ route' = [route EXCEPT ![q.item].destination = q.destination]
             /\ Does(r, After(r, {t.bot, q.destination}))
    <2>1. q.destination \in Destinations /\ q.destination \in q.mine
      BY <1>2, <1>9 DEF DestinationReached
    <2>2. PICK s \in Routes : s = q.item /\ s \notin fresh
      BY <1>3
    <2>3. route[s] \in [bot: Bots, destination: Destinations] /\ route \in [Routes -> Route]
      BY <1>9, <2>2 DEF ResourcesInv, TablesInv, TablesType, Route
    <2>4. PICK rt : rt = [route[s] EXCEPT !.destination = q.destination]
      OBVIOUS
    <2>5. rt \in Route /\ rt.bot = route[s].bot /\ rt.destination = q.destination
      BY <2>1, <2>3, <2>4 DEF Route
    <2>6. route' = [route EXCEPT ![s] = rt]
      BY <1>9, <2>2, <2>4
    <2>7. There(route[s].bot)
      BY <1>9, <2>2 DEF ResourcesInv, TablesInv, References
    <2>8. TablesInv' /\ TablesFollow /\ ReachShrinks
      BY <1>1, <1>9, <2>2, <2>5, <2>6, <2>7, RoutesChange DEF ResourcesInv
    <2>9. PICK did \in SUBSET Things : did = {t.bot, q.destination} /\ did \subseteq q.mine
      BY <1>2, <1>5, <1>9, <2>1 DEF BotReached, Things
    <2>10. QED
      BY <1>1, <1>4, <1>9, <2>8, <2>9, AfterKeeps DEF ResourcesInv
  <1>10. QED
    <2>1. CASE writeRoute(r, "write_route")
      BY <1>7, <1>8, <2>1 DEF writeRoute
    <2>2. CASE writeRoute(r, "retarget")
      <3>1. Head(q.todo) = "retarget"
        BY <2>2 DEF writeRoute, Doing
      <3>2. QED
        BY <1>6, <1>7, <1>9, <2>2, <3>1 DEF writeRoute
    <2>3. QED
      BY <2>1, <2>2

LEMMA DropRouteKeeps ==
    ASSUME ResourcesInv, NEW r \in Requests, dropRoute(r)
    PROVE  ResourcesInv'
  <1> DEFINE q == request[r]
  <1>1. /\ q.todo # <<>> /\ Head(q.todo) = "drop_route" /\ At(q) /\ RequestInv
        /\ UNCHANGED <<role, owner, event, delivery, fresh>>
    BY DEF dropRoute, Doing, ResourcesInv, RequestInv
  <1>2. RouteKnown(q) /\ BotReached(q) /\ Tail(q.todo) \in Unguarded
    BY <1>1, Places
  <1>3. PICK t \in Routes : t = q.item /\ t \notin fresh /\ route[t].bot \in {Gone, q.bot}
    BY <1>2 DEF RouteKnown
  <1>4. TablesInv' /\ TablesFollow /\ ReachShrinks
    <2>1. NoRoute \in Route /\ NoRoute.bot = Gone
      BY DEF Route, NoRoute
    <2>2. route' = [route EXCEPT ![t] = NoRoute]
      BY <1>3 DEF dropRoute
    <2>3. PICK rt \in Route : rt = NoRoute
      BY <2>1
    <2>4. QED
      BY <1>1, <1>3, <2>1, <2>2, <2>3, RoutesChange DEF ResourcesInv
  <1>5. PICK did \in SUBSET Things : did = {route[t].bot} \ {Gone} /\ did \subseteq q.mine
    <2>1. {route[t].bot} \ {Gone} \subseteq Things \cap q.mine
      BY <1>2, <1>3 DEF BotReached, Things
    <2>2. QED
      BY <2>1
  <1>6. Does(r, After(r, did))
    BY <1>3, <1>5 DEF dropRoute
  <1>7. After(r, did).todo \in Unguarded
    BY <1>1, <1>2, AfterIs DEF RequestInv
  <1>8. At(After(r, did))
    BY <1>7 DEF At
  <1>9. QED
    BY <1>1, <1>4, <1>5, <1>6, <1>8, AfterKeeps DEF ResourcesInv

\* A delivery of an event that is there, to a destination that is there if it has one.
LEMMA DeliveryAdded ==
    ASSUME TablesInv, UNCHANGED <<role, owner, route>>, fresh' \subseteq fresh,
           NEW d \in Deliveries, d \in fresh, d \notin fresh', NEW e \in Events, NEW b \in Bots,
           NEW h \in Destinations \cup {Gone}, h # Gone => There(h),
           delivery' = [delivery EXCEPT ![d] = [event |-> e, bot |-> b, destination |-> h]],
           \/ event' = event /\ event[e] = b
           \/ e \in fresh /\ e \notin fresh' /\ There(b) /\ event' = [event EXCEPT ![e] = b]
    PROVE  TablesInv' /\ TablesFollow /\ ReachShrinks
  <1>1. Gone \notin Bots /\ Gone \notin Things
    BY ResourcesAssumption DEF Things
  <1>2. [event |-> e, bot |-> b, destination |-> h] \in Delivery
    BY DEF Delivery
  <1>3. event \in [Events -> Bots \cup {Gone}] /\ delivery \in [Deliveries -> Delivery]
    BY DEF TablesInv, TablesType
  <1>4. \A c \in Deliveries :
           delivery'[c] = IF c = d THEN [event |-> e, bot |-> b, destination |-> h] ELSE delivery[c]
    BY <1>3
  <1>5. /\ event'[e] = b /\ event' \in [Events -> Bots \cup {Gone}]
        /\ \A f \in Events : f # e \/ event[e] # Gone => event'[f] = event[f]
    BY <1>3 DEF TablesInv, Unused
  <1>6. TablesType'
    BY <1>2, <1>3, <1>5 DEF TablesInv, TablesType
  <1>7. OwnersThere'
    BY DEF TablesInv, OwnersThere
  <1>8. Unused'
    BY <1>3, <1>4, <1>5 DEF TablesInv, Unused
  <1>9. References'
    <2>1. \A f \in Events : event'[f] # Gone => There(event'[f])
      BY <1>1, <1>3, <1>5 DEF TablesInv, References
    <2>2. ASSUME NEW c \in Deliveries, delivery'[c] # NoDelivery
          PROVE  /\ delivery'[c].bot = event'[delivery'[c].event]
                 /\ delivery'[c].destination # Gone => There(delivery'[c].destination)
      <3>1. CASE c = d
        BY <1>4, <1>5, <3>1
      <3>2. CASE c # d
        <4>1. delivery'[c] = delivery[c] /\ delivery[c] # NoDelivery
          BY <1>4, <2>2, <3>2
        <4>2. delivery[c].event \in Events /\ delivery[c].bot \in Bots
          BY <1>3, <4>1 DEF Delivery
        <4>3. /\ delivery[c].bot = event[delivery[c].event]
              /\ delivery[c].destination # Gone => There(delivery[c].destination)
          BY <4>1 DEF TablesInv, References
        <4>4. event'[delivery[c].event] = event[delivery[c].event]
          BY <1>1, <1>5, <4>2, <4>3
        <4>5. QED
          BY <4>1, <4>3, <4>4
      <3>3. QED
        BY <3>1, <3>2
    <2>3. QED
      BY <2>1, <2>2 DEF TablesInv, References, There
  <1>10. TablesFollow
    BY <1>3, <1>5 DEF TablesFollow
  <1>11. ReachShrinks
    BY DEF ReachShrinks, Reach
  <1>12. QED
    BY <1>6, <1>7, <1>8, <1>9, <1>10, <1>11 DEF TablesInv

\* A route of a bot leads to a destination that is there.
LEMMA RouteLeads ==
    ASSUME TablesInv, NEW t \in Routes, NEW b \in Bots, route[t].bot = b
    PROVE  route[t].destination \in Destinations /\ There(route[t].destination)
  <1>1. route[t] # NoRoute
    BY ResourcesAssumption DEF NoRoute, Things
  <1>2. QED
    BY <1>1 DEF TablesInv, TablesType, Route, References

LEMMA StoreTestKeeps ==
    ASSUME ResourcesInv, NEW r \in Requests, NEW e \in Events, storeTest(r, e)
    PROVE  ResourcesInv'
  <1> DEFINE q == request[r]
             a == After(r, {q.bot})
             p == [a EXCEPT !.item = e]
  <1>1. /\ q.todo # <<>> /\ Head(q.todo) = "store" /\ At(q) /\ RequestInv /\ TablesInv
        /\ request \in [Requests -> Request] /\ e \in fresh
        /\ UNCHANGED <<role, owner, route, delivery>>
    BY DEF storeTest, Doing, ResourcesInv, RequestInv
  <1>2. BotReached(q) /\ Tail(q.todo) \in EventPassed
    BY <1>1, Places
  <1>3. CASE Refuse(r) /\ UNCHANGED <<event, fresh>>
    BY <1>1, <1>3, RowsStay, RefuseKeeps DEF ResourcesInv
  <1>4. CASE /\ There(q.bot) /\ event' = [event EXCEPT ![e] = q.bot] /\ fresh' = fresh \ {e}
             /\ Does(r, p)
    <2>1. PICK b \in Bots : b = q.bot
      BY <1>2 DEF BotReached
    <2>2. /\ event \in [Events -> Bots \cup {Gone}] /\ event' = [event EXCEPT ![e] = b]
          /\ fresh' = fresh \ {e} /\ There(b) /\ event[e] = Gone
      BY <1>1, <1>4, <2>1 DEF TablesInv, TablesType, Unused
    <2>3. TablesInv'
      <3>1. TablesType' /\ OwnersThere' /\ Unused'
        BY <1>1, <2>2 DEF TablesInv, TablesType, OwnersThere, Unused
      <3>2. References'
        <4>1. \A f \in Events : event'[f] # Gone => There(event'[f])
          BY <1>1, <2>2 DEF TablesInv, References
        <4>2. \A d \in Deliveries : delivery[d] # NoDelivery =>
                 event'[delivery[d].event] = event[delivery[d].event]
          <5> SUFFICES ASSUME NEW d \in Deliveries, delivery[d] # NoDelivery
                       PROVE  event'[delivery[d].event] = event[delivery[d].event]
            OBVIOUS
          <5>1. delivery[d].event \in Events /\ delivery[d].bot \in Bots
            BY <1>1 DEF TablesInv, TablesType, Delivery
          <5>2. delivery[d].bot = event[delivery[d].event] /\ Gone \notin Bots
            BY <1>1, ResourcesAssumption DEF TablesInv, References, Things
          <5>3. QED
            BY <2>2, <5>1, <5>2
        <4>3. QED
          BY <1>1, <4>1, <4>2 DEF TablesInv, References, There
      <3>3. QED
        BY <3>1, <3>2 DEF TablesInv
    <2>4. TablesFollow /\ ReachShrinks
      BY <1>1, <2>2 DEF TablesFollow, ReachShrinks, Reach
    <2>5. b \in Things /\ b \in q.mine
      BY <1>2, <2>1 DEF BotReached, Things
    <2>6. /\ a \in Request /\ a.todo = Tail(q.todo) /\ a.did = q.did \cup {b} /\ a.actor = q.actor
          /\ a.admin = q.admin /\ a.scope = q.scope /\ a.mine = q.mine /\ a.bot = q.bot
      BY <1>1, <2>1, <2>5, AfterIs
    <2> HIDE DEF a
    <2>7. /\ p \in Request /\ p.todo = Tail(q.todo) /\ p.did = q.did \cup {b} /\ p.actor = q.actor
          /\ p.admin = q.admin /\ p.scope = q.scope /\ p.mine = q.mine /\ p.bot = b
          /\ p.item = e
      BY <2>1, <2>6 DEF Request
    <2>8. PICK c \in Request : c = p
      BY <2>7
    <2> HIDE DEF p
    <2>9. EventKnown(c)' /\ BotReached(c)' /\ c.todo \in EventPassed
      BY <1>2, <2>2, <2>5, <2>7, <2>8, <2>1 DEF EventKnown, BotReached
    <2>10. At(c)'
      BY <2>9 DEF At
    <2>11. Within(c)' /\ Up(c)'
      BY <1>1, <2>4, <2>5, <2>7, <2>8 DEF RequestInv, Within, Up, ReachShrinks, Request
    <2>12. request' = [request EXCEPT ![r] = c]
      BY <1>4, <2>8 DEF Does
    <2>13. RequestInv'
      <3>1. request' \in [Requests -> Request]
        BY <1>1, <2>12
      <3>2. ASSUME NEW s \in Requests
            PROVE  At(request[s])' /\ Within(request[s])' /\ Up(request[s])'
        <4>1. CASE s = r
          <5>1. c = request'[s]
            BY <1>1, <2>12, <4>1
          <5>2. QED
            BY <2>10, <2>11, <5>1
               DEF At, Within, Up, RouteKnown, EventKnown, BotReached, DestinationReached
        <4>2. CASE s # r
          <5>1. PICK k \in Request : k = request[s] /\ k = request'[s]
            BY <1>1, <2>12, <4>2
          <5>2. At(k) /\ Within(k) /\ Up(k)
            BY <1>1, <5>1 DEF RequestInv
          <5>3. At(k)'
            BY <2>4, <5>2, AtStays
          <5>4. Within(k)' /\ Up(k)'
            BY <2>4, <5>2 DEF Within, Up, ReachShrinks, Request
          <5>5. QED
            BY <5>1, <5>3, <5>4
               DEF At, Within, Up, RouteKnown, EventKnown, BotReached, DestinationReached
        <4>3. QED
          BY <4>1, <4>2
      <3>3. QED
        BY <3>1, <3>2 DEF RequestInv
    <2>14. QED
      BY <2>3, <2>13 DEF ResourcesInv
  <1>5. QED
    BY <1>3, <1>4 DEF storeTest

LEMMA EnqueueKeeps ==
    ASSUME ResourcesInv, NEW r \in Requests, enqueue(r)
    PROVE  ResourcesInv'
  <1> DEFINE q == request[r]
  <1>1. /\ q.todo # <<>> /\ Head(q.todo) = "enqueue" /\ At(q) /\ RequestInv /\ TablesInv
        /\ UNCHANGED <<role, owner, route, event>>
    BY DEF enqueue, Doing, ResourcesInv, RequestInv
  <1>2. EventKnown(q) /\ BotReached(q) /\ Tail(q.todo) \in Unguarded
    BY <1>1, Places
  <1>3. PICK b \in Bots : b = q.bot /\ b \in Things /\ b \in q.mine
    BY <1>2 DEF BotReached, Things
  <1>4. PICK e \in Events : e = q.item /\ event[e] \in {Gone, b}
    BY <1>2, <1>3 DEF EventKnown
  <1>5. PICK ends \in Ends :
           /\ TablesInv' /\ TablesFollow /\ ReachShrinks
           /\ Does(r, Along(r, {b}, ends))
    <2>1. CASE Does(r, After(r, {b})) /\ UNCHANGED <<delivery, fresh>>
      <3>1. TablesInv' /\ TablesFollow /\ ReachShrinks
        BY <1>1, <2>1, RowsStay
      <3>2. PICK a \in Request : a = After(r, {b})
        <4>1. {b} \in SUBSET Things
          BY <1>3
        <4>2. QED
          BY <1>1, <4>1, AfterIs DEF RequestInv
      <3>3. a.through \cup ({} \ {Gone}) = a.through
        OBVIOUS
      <3>4. Along(r, {b}, {}) = After(r, {b})
        BY <3>2, <3>3 DEF Along, Request
      <3>5. {} \in Ends
        BY DEF Ends
      <3>6. QED
        BY <2>1, <3>1, <3>4, <3>5
    <2>2. CASE /\ event[q.item] # Gone
               /\ \E d \in Deliveries, h \in Destinations :
                     /\ Queued(d, q.item, q.bot, h) /\ fresh' = fresh \ {d}
                     /\ Does(r, Along(r, {q.bot}, {h}))
      <3>1. PICK d \in Deliveries, h \in Destinations :
               /\ Queued(d, e, b, h) /\ fresh' = fresh \ {d}
               /\ Does(r, Along(r, {b}, {h}))
        BY <1>3, <1>4, <2>2
      <3>2. PICK t \in Routes :
               /\ route[t].bot = b /\ route[t].destination = h /\ d \in fresh
               /\ delivery' = [delivery EXCEPT ![d] = [event |-> e, bot |-> b, destination |-> h]]
        BY <3>1 DEF Queued
      <3>3. There(h)
        BY <1>1, <3>2, RouteLeads
      <3>4. event' = event /\ event[e] = b
        BY <1>1, <1>4, <2>2
      <3>5. TablesInv' /\ TablesFollow /\ ReachShrinks
        BY <1>1, <3>1, <3>2, <3>3, <3>4, DeliveryAdded
      <3>6. {h} \in Ends
        BY DEF Ends
      <3>7. QED
        BY <3>1, <3>5, <3>6
    <2>3. QED
      BY <1>3, <2>1, <2>2 DEF enqueue
  <1>6. Along(r, {b}, ends).todo \in Unguarded
    <2>1. {b} \in SUBSET Things
      BY <1>3
    <2>2. QED
      BY <1>1, <1>2, <2>1, AlongIs DEF RequestInv
  <1>7. At(Along(r, {b}, ends))
    BY <1>6 DEF At
  <1>8. QED
    BY <1>1, <1>3, <1>5, <1>7, AlongKeeps DEF ResourcesInv

LEMMA InsertReplayKeeps ==
    ASSUME ResourcesInv, NEW r \in Requests, NEW d \in Deliveries, insertReplay(r, d)
    PROVE  ResourcesInv'
  <1> DEFINE q == request[r]
             a == Along(r, {q.bot}, {q.via})
             p == [a EXCEPT !.item = d]
  <1>1. /\ q.todo # <<>> /\ Head(q.todo) = "insert_replay" /\ At(q) /\ RequestInv /\ TablesInv
        /\ q \in Request /\ d \in fresh /\ UNCHANGED <<role, owner, route, event>>
    BY DEF insertReplay, Doing, ResourcesInv, RequestInv
  <1>2. EventKnown(q) /\ BotReached(q) /\ Tail(q.todo) \in DeliveryAsked
    BY <1>1, Places
  <1>3. CASE Refuse(r) /\ UNCHANGED <<delivery, fresh>>
    BY <1>1, <1>3, RowsStay, RefuseKeeps DEF ResourcesInv
  <1>4. CASE /\ event[q.item] # Gone /\ (q.via # Gone => There(q.via))
             /\ delivery' = [delivery EXCEPT ![d] =
                   [event |-> q.item, bot |-> q.bot, destination |-> q.via]]
             /\ fresh' = fresh \ {d} /\ Does(r, p)
    <2>1. PICK b \in Bots : b = q.bot /\ b \in Things /\ b \in q.mine
      BY <1>2 DEF BotReached, Things
    <2>2. PICK e \in Events : e = q.item /\ event[e] = b
      BY <1>2, <1>4, <2>1 DEF EventKnown
    <2>3. PICK h \in Destinations \cup {Gone} : h = q.via /\ (h # Gone => There(h))
      BY <1>1, <1>4 DEF Request
    <2>4. TablesInv' /\ TablesFollow /\ ReachShrinks
      BY <1>1, <1>4, <2>1, <2>2, <2>3, DeliveryAdded
    <2>5. /\ a \in Request /\ a.todo = Tail(q.todo) /\ a.did = q.did \cup {b} /\ a.actor = q.actor
          /\ a.admin = q.admin /\ a.scope = q.scope /\ a.mine = q.mine
      <3>1. {b} \in SUBSET Things /\ {h} \in Ends
        BY <2>1 DEF Ends
      <3>2. QED
        BY <1>1, <2>1, <2>3, <3>1, AlongIs DEF RequestInv
    <2> HIDE DEF a
    <2>6. /\ p \in Request /\ p.todo = Tail(q.todo) /\ p.did = q.did \cup {b} /\ p.actor = q.actor
          /\ p.admin = q.admin /\ p.scope = q.scope /\ p.mine = q.mine /\ p.item = d
      BY <2>5 DEF Request
    <2> HIDE DEF p
    <2>7. At(p)
      BY <1>2, <2>6 DEF At
    <2>8. Within(p) /\ Up(p)
      BY <1>1, <2>1, <2>6 DEF RequestInv, Within, Up
    <2>9. QED
      BY <1>1, <1>4, <2>4, <2>6, <2>7, <2>8, MoveKeeps DEF ResourcesInv
  <1>5. QED
    BY <1>3, <1>4 DEF insertReplay

LEMMA ReceiveKeeps ==
    ASSUME ResourcesInv, NEW e \in Events, NEW b \in Bots, NEW d \in Deliveries, Receive(e, b, d)
    PROVE  ResourcesInv'
  <1>1. PICK h \in Destinations, t \in Routes :
           /\ route[t].bot = b /\ route[t].destination = h /\ d \in fresh
           /\ delivery' = [delivery EXCEPT ![d] = [event |-> e, bot |-> b, destination |-> h]]
    BY DEF Receive, Queued
  <1>2. There(h)
    BY <1>1, RouteLeads DEF ResourcesInv
  <1>3. /\ There(b) /\ e \in fresh /\ event' = [event EXCEPT ![e] = b]
        /\ fresh' = fresh \ {d, e} /\ UNCHANGED <<role, owner, route, request>>
    BY DEF Receive
  <1>4. TablesInv' /\ TablesFollow /\ ReachShrinks
    BY <1>1, <1>2, <1>3, DeliveryAdded DEF ResourcesInv
  <1>5. QED
    BY <1>3, <1>4, RequestsStay DEF ResourcesInv

LEMMA PurgeKeeps ==
    ASSUME ResourcesInv, NEW e \in Events, Purge(e)
    PROVE  ResourcesInv'
  <1>1. /\ TablesInv /\ event \in [Events -> Bots \cup {Gone}] /\ delivery \in [Deliveries -> Delivery]
        /\ event' = [event EXCEPT ![e] = Gone]
        /\ UNCHANGED <<role, owner, route, fresh, request>>
    BY DEF Purge, ResourcesInv, TablesInv, TablesType
  <1>2. \A d \in Deliveries :
           /\ delivery[d].event = e => delivery'[d] = NoDelivery
           /\ delivery[d].event # e => delivery'[d] = delivery[d]
    BY DEF Purge
  <1>3. TablesType'
    <2>1. delivery' \in [Deliveries -> Delivery]
      BY <1>1 DEF Purge, Delivery
    <2>2. QED
      BY <1>1, <2>1 DEF TablesInv, TablesType
  <1>4. OwnersThere' /\ Unused'
    BY <1>1, <1>2 DEF TablesInv, OwnersThere, Unused
  <1>5. References'
    <2>1. ASSUME NEW d \in Deliveries, delivery'[d] # NoDelivery
          PROVE  /\ delivery'[d].bot = event'[delivery'[d].event]
                 /\ delivery'[d].destination # Gone => There(delivery'[d].destination)
      <3>1. delivery[d].event # e /\ delivery'[d] = delivery[d] /\ delivery[d] # NoDelivery
        BY <1>2, <2>1
      <3>2. delivery[d].event \in Events
        BY <1>1, <3>1 DEF Delivery
      <3>3. QED
        BY <1>1, <3>1, <3>2 DEF TablesInv, References
    <2>2. QED
      BY <1>1, <2>1 DEF TablesInv, References, There
  <1>6. TablesFollow /\ ReachShrinks
    BY <1>1 DEF TablesFollow, ReachShrinks, Reach
  <1>7. QED
    BY <1>1, <1>3, <1>4, <1>5, <1>6, RequestsStay DEF ResourcesInv, TablesInv

------------------------------------------------------------------------------
\* Requests begin and end

LEMMA IdleIs == Idle \in Request /\ At(Idle) /\ Within(Idle) /\ Up(Idle)
  <1>1. Idle \in Request
    BY DEF Idle, Request
  <1>2. At(Idle)
    BY Ended DEF Idle
  <1>3. Within(Idle) /\ Up(Idle)
    BY DEF Within, Up, Idle, Reach
  <1>4. QED
    BY <1>1, <1>2, <1>3

LEMMA AnswerKeeps ==
    ASSUME ResourcesInv, NEW r \in Requests, Answer(r)
    PROVE  ResourcesInv'
  <1>1. TablesInv' /\ TablesFollow /\ ReachShrinks /\ RequestInv
    BY TablesStay DEF Answer, ResourcesInv
  <1>2. Does(r, Idle)
    BY DEF Answer, Does
  <1>3. QED
    BY <1>1, <1>2, IdleIs, MoveKeeps DEF ResourcesInv

\* The methods a request may ask for.
Methods ==
    Global \cup OnBot \cup OnDestination \cup OnRoute \cup OnEvent \cup OnDelivery
        \cup {routes_retarget, bots_create, destinations_create, routes_create}

LEMMA SequencesOfStatements ==
    ASSUME NEW S
    PROVE  /\ \A a \in S : <<a>> \in Seq(S)
           /\ \A a, b \in S : <<a, b>> \in Seq(S)
           /\ \A a, b, c \in S : <<a, b, c>> \in Seq(S)
           /\ \A a, b, c, d \in S : <<a, b, c, d>> \in Seq(S)
           /\ \A a, b, c, d, e \in S : <<a, b, c, d, e>> \in Seq(S)
           /\ \A a, b, c, d, e, f \in S : <<a, b, c, d, e, f>> \in Seq(S)
  <1>1. \A a \in S : <<a>> \in Seq(S)
    OBVIOUS
  <1>2. \A a, b \in S : <<a, b>> \in Seq(S)
    OBVIOUS
  <1>3. \A a, b, c \in S : <<a, b, c>> \in Seq(S)
    OBVIOUS
  <1>4. \A a, b, c, d \in S : <<a, b, c, d>> \in Seq(S)
    OBVIOUS
  <1>5. \A a, b, c, d, e \in S : <<a, b, c, d, e>> \in Seq(S)
    OBVIOUS
  <1>6. \A a, b, c, d, e, f \in S : <<a, b, c, d, e, f>> \in Seq(S)
    OBVIOUS
  <1>7. QED
    BY <1>1, <1>2, <1>3, <1>4, <1>5, <1>6

LEMMA WordsAreStatements ==
    /\ "list_bots" \in Words
    /\ "list_destinations" \in Words
    /\ "scope" \in Words
    /\ "rows" \in Words
    /\ "bot" \in Words
    /\ "show" \in Words
    /\ "write" \in Words
    /\ "admin" \in Words
    /\ "give" \in Words
    /\ "drop" \in Words
    /\ "call" \in Words
    /\ "destination" \in Words
    /\ "route" \in Words
    /\ "write_route" \in Words
    /\ "drop_route" \in Words
    /\ "store" \in Words
    /\ "enqueue" \in Words
    /\ "event" \in Words
    /\ "event_row" \in Words
    /\ "delivery" \in Words
    /\ "original" \in Words
    /\ "insert_replay" \in Words
    /\ "retarget" \in Words
    /\ "insert" \in Words
    /\ "insert_route" \in Words
    /\ "list_routes" \in Words
  BY DEF Words

LEMMA MethodsAreSequences == Methods \subseteq Seq(Words)
  <1>1. Global \subseteq Seq(Words)
    <2>1. bots_list \in Seq(Words)
      BY SequencesOfStatements, WordsAreStatements DEF bots_list
    <2>2. destinations_list \in Seq(Words)
      BY SequencesOfStatements, WordsAreStatements DEF destinations_list
    <2>3. events_list \in Seq(Words)
      BY SequencesOfStatements, WordsAreStatements DEF events_list
    <2>4. deliveries_list \in Seq(Words)
      BY SequencesOfStatements, WordsAreStatements DEF deliveries_list
    <2>5. stats_dashboard \in Seq(Words)
      BY SequencesOfStatements, WordsAreStatements DEF stats_dashboard
    <2>6. QED
      BY <2>1, <2>2, <2>3, <2>4, <2>5 DEF Global
  <1>2. OnBot \subseteq Seq(Words)
    <2>1. bots_get \in Seq(Words)
      BY SequencesOfStatements, WordsAreStatements DEF bots_get
    <2>2. bots_update \in Seq(Words)
      BY SequencesOfStatements, WordsAreStatements DEF bots_update
    <2>3. bots_give \in Seq(Words)
      BY SequencesOfStatements, WordsAreStatements DEF bots_give
    <2>4. bots_remove \in Seq(Words)
      BY SequencesOfStatements, WordsAreStatements DEF bots_remove
    <2>5. bots_testConnection \in Seq(Words)
      BY SequencesOfStatements, WordsAreStatements DEF bots_testConnection
    <2>6. bots_getWebhookInfo \in Seq(Words)
      BY SequencesOfStatements, WordsAreStatements DEF bots_getWebhookInfo
    <2>7. bots_webhook \in Seq(Words)
      BY SequencesOfStatements, WordsAreStatements DEF bots_webhook
    <2>8. gateway_send \in Seq(Words)
      BY SequencesOfStatements, WordsAreStatements DEF gateway_send
    <2>9. gateway_proxy \in Seq(Words)
      BY SequencesOfStatements, WordsAreStatements DEF gateway_proxy
    <2>10. routes_list \in Seq(Words)
      BY SequencesOfStatements, WordsAreStatements DEF routes_list
    <2>11. QED
      BY <2>1, <2>2, <2>3, <2>4, <2>5, <2>6, <2>7, <2>8, <2>9, <2>10 DEF OnBot
  <1>3. OnDestination \subseteq Seq(Words)
    <2>1. destinations_get \in Seq(Words)
      BY SequencesOfStatements, WordsAreStatements DEF destinations_get
    <2>2. destinations_update \in Seq(Words)
      BY SequencesOfStatements, WordsAreStatements DEF destinations_update
    <2>3. destinations_give \in Seq(Words)
      BY SequencesOfStatements, WordsAreStatements DEF destinations_give
    <2>4. destinations_remove \in Seq(Words)
      BY SequencesOfStatements, WordsAreStatements DEF destinations_remove
    <2>5. destinations_reveal \in Seq(Words)
      BY SequencesOfStatements, WordsAreStatements DEF destinations_reveal
    <2>6. QED
      BY <2>1, <2>2, <2>3, <2>4, <2>5 DEF OnDestination
  <1>4. OnRoute \subseteq Seq(Words)
    <2>1. routes_update \in Seq(Words)
      BY SequencesOfStatements, WordsAreStatements DEF routes_update
    <2>2. routes_remove \in Seq(Words)
      BY SequencesOfStatements, WordsAreStatements DEF routes_remove
    <2>3. routes_test \in Seq(Words)
      BY SequencesOfStatements, WordsAreStatements DEF routes_test
    <2>4. QED
      BY <2>1, <2>2, <2>3 DEF OnRoute
  <1>5. OnEvent \subseteq Seq(Words)
    <2>1. events_get \in Seq(Words)
      BY SequencesOfStatements, WordsAreStatements DEF events_get
    <2>2. events_deliveries \in Seq(Words)
      BY SequencesOfStatements, WordsAreStatements DEF events_deliveries
    <2>3. events_replay \in Seq(Words)
      BY SequencesOfStatements, WordsAreStatements DEF events_replay
    <2>4. QED
      BY <2>1, <2>2, <2>3 DEF OnEvent
  <1>6. OnDelivery \subseteq Seq(Words)
    <2>1. deliveries_get \in Seq(Words)
      BY SequencesOfStatements, WordsAreStatements DEF deliveries_get
    <2>2. deliveries_replay \in Seq(Words)
      BY SequencesOfStatements, WordsAreStatements DEF deliveries_replay
    <2>3. QED
      BY <2>1, <2>2 DEF OnDelivery
  <1>7. {routes_retarget, bots_create, destinations_create, routes_create} \subseteq Seq(Words)
    <2>1. routes_retarget \in Seq(Words)
      BY SequencesOfStatements, WordsAreStatements DEF routes_retarget
    <2>2. bots_create \in Seq(Words)
      BY SequencesOfStatements, WordsAreStatements DEF bots_create
    <2>3. destinations_create \in Seq(Words)
      BY SequencesOfStatements, WordsAreStatements DEF destinations_create
    <2>4. routes_create \in Seq(Words)
      BY SequencesOfStatements, WordsAreStatements DEF routes_create
    <2>5. QED
      BY <2>1, <2>2, <2>3, <2>4
  <1>8. QED
    BY <1>1, <1>2, <1>3, <1>4, <1>5, <1>6, <1>7 DEF Methods

\* A request that begins knows what it is about, and nothing more.
LEMMA StartKeeps ==
    ASSUME ResourcesInv, NEW r \in Requests, NEW u \in Users, NEW m \in Methods,
           NEW b \in Bots \cup {Gone}, NEW h \in Destinations \cup {Gone},
           NEW i \in Routes \cup Events \cup Deliveries \cup {Gone},
           Start(r, u, m, On(b, h, i)),
           \A q \in Request : q.todo = m /\ q.bot = b /\ q.destination = h /\ q.item = i => At(q)
    PROVE  ResourcesInv'
  <1>1. TablesInv' /\ TablesFollow /\ ReachShrinks /\ RequestInv
    BY TablesStay DEF Start, ResourcesInv
  <1> DEFINE mine == Reach(u, role, owner)
  <1>2. PICK p : p = [On(b, h, i) EXCEPT !.todo = m, !.actor = u, !.admin = role[u] = "admin",
                                         !.mine = mine]
    OBVIOUS
  <1>3. mine \in SUBSET Things /\ m \in Seq(Words)
    BY MethodsAreSequences DEF Reach
  <1> HIDE DEF mine
  <1>4. p = [todo |-> m, actor |-> u, admin |-> role[u] = "admin", bot |-> b, destination |-> h,
             item |-> i, scope |-> {}, via |-> Gone, did |-> {}, through |-> {}, mine |-> mine]
    BY <1>2 DEF On, Idle
  <1>5. p \in Request
    BY <1>3, <1>4 DEF Request
  <1>6. At(p)
    BY <1>4, <1>5
  <1>7. Within(p) /\ Up(p)
    <2>1. u # Nobody
      BY ResourcesAssumption
    <2>2. QED
      BY <1>4, <2>1 DEF Within, Up, mine, Reach
  <1>8. Does(r, p)
    BY <1>2 DEF Start, Does, mine
  <1>9. QED
    BY <1>1, <1>5, <1>6, <1>7, <1>8, MoveKeeps DEF ResourcesInv

LEMMA AskedKeeps ==
    ASSUME ResourcesInv, NEW r \in Requests, NEW u \in Users, Asked(r, u)
    PROVE  ResourcesInv'
  <1>1. Idle = On(Gone, Gone, Gone)
    <2>1. PICK p : p = On(Gone, Gone, Gone)
      OBVIOUS
    <2>2. p = [todo |-> <<>>, actor |-> Nobody, admin |-> FALSE, bot |-> Gone, destination |-> Gone,
               item |-> Gone, scope |-> {}, via |-> Gone, did |-> {}, through |-> {}, mine |-> {}]
      BY <2>1 DEF On, Idle
    <2>3. QED
      BY <2>1, <2>2 DEF Idle
  <1>2. ASSUME NEW m \in Global, Start(r, u, m, Idle)
        PROVE  ResourcesInv'
    <2>1. m \in Unguarded /\ m \in Methods
      BY DEF Global, Unguarded, Methods
    <2>2. QED
      BY <1>1, <1>2, <2>1, StartKeeps DEF At
  <1>3. ASSUME NEW m \in OnBot, NEW b \in Bots, Start(r, u, m, On(b, Gone, Gone))
        PROVE  ResourcesInv'
    <2>1. m \in Unguarded /\ m \in Methods
      BY DEF OnBot, Unguarded, Methods
    <2>2. QED
      BY <1>3, <2>1, StartKeeps DEF At
  <1>4. ASSUME NEW m \in OnDestination, NEW d \in Destinations, Start(r, u, m, On(Gone, d, Gone))
        PROVE  ResourcesInv'
    <2>1. m \in DestinationAsked /\ m \in Methods
      BY DEF OnDestination, DestinationAsked, Methods
    <2>2. QED
      BY <1>4, <2>1, StartKeeps DEF At
  <1>5. ASSUME NEW m \in OnRoute, NEW t \in Routes, Start(r, u, m, On(Gone, Gone, t))
        PROVE  ResourcesInv'
    <2>1. m \in RouteAsked /\ m \in Methods
      BY DEF OnRoute, RouteAsked, Methods
    <2>2. QED
      BY <1>5, <2>1, StartKeeps DEF At
  <1>6. ASSUME NEW d \in Destinations, NEW t \in Routes, Start(r, u, routes_retarget, On(Gone, d, t))
        PROVE  ResourcesInv'
    <2>1. routes_retarget \in RouteAsked /\ routes_retarget \in Methods
      BY DEF RouteAsked, Methods
    <2>2. QED
      BY <1>6, <2>1, StartKeeps DEF At
  <1>7. ASSUME NEW m \in OnEvent, NEW e \in Events, Start(r, u, m, On(Gone, Gone, e))
        PROVE  ResourcesInv'
    <2>1. m \in EventAsked /\ m \in Methods
      BY DEF OnEvent, EventAsked, Methods
    <2>2. QED
      BY <1>7, <2>1, StartKeeps DEF At
  <1>8. ASSUME NEW m \in OnDelivery, NEW d \in Deliveries, Start(r, u, m, On(Gone, Gone, d))
        PROVE  ResourcesInv'
    <2>1. m \in DeliveryAsked /\ m \in Methods
      BY DEF OnDelivery, DeliveryAsked, Methods
    <2>2. QED
      BY <1>8, <2>1, StartKeeps DEF At
  <1>9. ASSUME NEW b \in Bots, Start(r, u, bots_create, On(b, Gone, Gone))
        PROVE  ResourcesInv'
    <2>1. bots_create \in Methods
      BY DEF Methods
    <2>2. QED
      BY <1>9, <2>1, StartKeeps DEF At
  <1>10. ASSUME NEW d \in Destinations, Start(r, u, destinations_create, On(Gone, d, Gone))
         PROVE  ResourcesInv'
    <2>1. destinations_create \in Methods
      BY DEF Methods
    <2>2. QED
      BY <1>10, <2>1, StartKeeps DEF At
  <1>11. ASSUME NEW b \in Bots, NEW d \in Destinations, NEW t \in Routes,
                Start(r, u, routes_create, On(b, d, t))
         PROVE  ResourcesInv'
    <2>1. routes_create \in Methods
      BY DEF Methods
    <2>2. QED
      BY <1>11, <2>1, StartKeeps DEF At
  <1>12. QED
    BY <1>2, <1>3, <1>4, <1>5, <1>6, <1>7, <1>8, <1>9, <1>10, <1>11 DEF Asked

------------------------------------------------------------------------------
\* Who has made what: the ends of routes and deliveries, while nobody has crossed owners

HistoryType == creator \in [Things -> Users \cup {Gone}] /\ crossed \in BOOLEAN

\* A bot or destination is not there before it has its id.
NewThings == \A x \in Things \cap fresh : owner[x] = Gone

\* It stays with the user who made it, and nobody gets it when that user goes.
Kept ==
    \A x \in Things : There(x) =>
        \/ owner[x] = creator[x]
        \/ owner[x] = Nobody /\ creator[x] \in Users /\ role[creator[x]] = "gone"

\* Routes and deliveries lead from what a user has made to what the same user has made.
Joined ==
    /\ \A t \in Routes : route[t] # NoRoute =>
          creator[route[t].bot] = creator[route[t].destination]
    /\ \A d \in Deliveries : delivery[d] # NoDelivery /\ delivery[d].destination # Gone =>
          creator[delivery[d].bot] = creator[delivery[d].destination]

Through(q) == q.through \subseteq q.mine

\* Without an administrator's role one reaches what one has made, and all of it that is there.
OwnOnly(q) == Things \subseteq q.mine \/ \A x \in q.mine : x \notin fresh /\ creator[x] = q.actor
HasOwn(q) == \A x \in Things : There(x) /\ creator[x] = q.actor => x \in q.mine

\* The destination a route or a delivery has given is of the bot's maker.
ViaKnown(q) ==
    q.via # Gone =>
        /\ q.bot \in Bots \ fresh /\ q.via \in Destinations \ fresh
        /\ creator[q.bot] = creator[q.via]
        /\ creator[q.bot] = q.actor => q.via \in q.mine

\* The statements that come after the guard on the bot of a route to be made or changed.
Linking == {"destination", "insert_route", "retarget"}

\* Who is no administrator has made what the guards let pass.
Made(q) ==
    ~q.admin /\ q.todo # <<>> /\ q.bot # Gone =>
        /\ Head(q.todo) \in Linking => q.bot \in Bots \ fresh /\ creator[q.bot] = q.actor
        /\ Head(q.todo) \in {"insert_route", "retarget"} =>
              q.destination \in Destinations \ fresh /\ creator[q.destination] = q.actor

Meets(q) == Through(q) /\ OwnOnly(q) /\ HasOwn(q) /\ ViaKnown(q) /\ Made(q)

LinksInv ==
    /\ HistoryType /\ NewThings
    /\ ~crossed => Kept /\ Joined /\ \A r \in Requests : Meets(request[r])

------------------------------------------------------------------------------
\* A step and who has made what

\* What has been made keeps its maker, and what is gone does not come back.
MakersFollow ==
    /\ fresh' \subseteq fresh
    /\ \A x \in Things \ fresh : creator'[x] = creator[x]
    /\ \A x \in Things : There(x)' => There(x) \/ owner'[x] = creator'[x]

\* What a step owes to LinksInv for the tables.
TablesLink ==
    /\ HistoryType' /\ NewThings'
    /\ ~crossed' => ~crossed /\ Kept' /\ Joined' /\ MakersFollow

\* Two states of a request that differ in what is within its actor's reach.
Same(p, q) ==
    /\ p.todo = q.todo /\ p.actor = q.actor /\ p.admin = q.admin /\ p.bot = q.bot
    /\ p.destination = q.destination /\ p.via = q.via /\ p.through = q.through

LEMMA MeetsFollows ==
    ASSUME TablesInv', HistoryType', NewThings, NewThings', Kept', MakersFollow,
           NEW q \in Request, NEW p \in Request, Meets(q), Same(p, q),
           q.mine \subseteq p.mine,
           p.mine \subseteq q.mine \cup Reach(q.actor, role', owner'),
           Reach(q.actor, role', owner') \subseteq p.mine
    PROVE  Meets(p)'
  <1>1. /\ q.actor \in Users \cup {Nobody} /\ q.mine \subseteq Things /\ p.mine \subseteq Things
        /\ Nobody \notin Users /\ Gone \notin Users /\ Nobody # Gone
    BY ResourcesAssumption DEF Request
  <1>2. Through(p)'
    BY DEF Meets, Through, Same
  <1>3. OwnOnly(p)'
    <2>1. CASE Things \subseteq q.mine
      BY <2>1 DEF OwnOnly
    <2>2. CASE q.actor # Nobody /\ role'[q.actor] = "admin"
      BY <2>2 DEF OwnOnly, Reach
    <2>3. CASE /\ ~(Things \subseteq q.mine)
               /\ q.actor = Nobody \/ role'[q.actor] # "admin"
      <3>1. SUFFICES ASSUME NEW x \in p.mine
                     PROVE  x \notin fresh' /\ creator'[x] = p.actor
        BY DEF OwnOnly
      <3>2. CASE x \in q.mine
        <4>1. x \notin fresh /\ creator[x] = q.actor
          BY <2>3, <3>2 DEF Meets, OwnOnly
        <4>2. QED
          BY <1>1, <3>2, <4>1 DEF MakersFollow, Same
      <3>3. CASE x \in Reach(q.actor, role', owner')
        <4>1. x \in Things /\ q.actor \in Users /\ owner'[x] = q.actor
          BY <1>1, <2>3, <3>3 DEF Reach
        <4>2. There(x)'
          BY <1>1, <4>1 DEF There
        <4>3. QED
          BY <1>1, <4>1, <4>2 DEF NewThings, There, Kept, Same
      <3>4. QED
        BY <3>2, <3>3
    <2>4. QED
      BY <2>1, <2>2, <2>3
  <1>4. HasOwn(p)'
    <2>1. SUFFICES ASSUME NEW x \in Things, There(x)', creator'[x] = p.actor
                   PROVE  x \in p.mine
      BY DEF HasOwn
    <2>2. CASE There(x)
      <3>1. x \notin fresh
        BY <2>2 DEF NewThings, There
      <3>2. creator[x] = q.actor
        BY <2>1, <3>1 DEF MakersFollow, Same
      <3>3. x \in q.mine
        BY <2>2, <3>2 DEF Meets, HasOwn
      <3>4. QED
        BY <3>3
    <2>3. CASE ~There(x)
      <3>1. owner'[x] = q.actor
        BY <2>1, <2>3 DEF MakersFollow, Same
      <3>2. q.actor # Nobody
        BY <1>1, <2>1 DEF HistoryType, Same
      <3>3. x \in Reach(q.actor, role', owner')
        BY <3>1, <3>2 DEF Reach
      <3>4. QED
        BY <3>3
    <2>4. QED
      BY <2>2, <2>3
  <1>5. ViaKnown(p)'
    BY DEF Meets, ViaKnown, Same, MakersFollow, Things
  <1>6. Made(p)'
    <2>1. Made(q)
      BY DEF Meets
    <2>2. q.bot \in Bots \cup {Gone} /\ q.destination \in Destinations \cup {Gone}
      BY DEF Request
    <2>3. /\ q.todo # <<>> /\ ~q.admin /\ q.bot # Gone /\ Head(q.todo) \in Linking =>
                q.bot \in Bots \ fresh' /\ creator'[q.bot] = q.actor
          /\ q.todo # <<>> /\ ~q.admin /\ q.bot # Gone /\ Head(q.todo) \in {"insert_route", "retarget"} =>
                q.destination \in Destinations \ fresh' /\ creator'[q.destination] = q.actor
      BY <2>1, <2>2 DEF Made, MakersFollow, Things
    <2>4. QED
      BY <2>3 DEF Made, Same
  <1>7. QED
    BY <1>2, <1>3, <1>4, <1>5, <1>6 DEF Meets

\* The step of a request, or of somebody else, once the tables are in order.
LEMMA LinksKeep ==
    ASSUME ResourcesInv, ResourcesInv', LinksInv, TablesLink,
           NEW requests \in [Requests -> Request],
           ~crossed => \A s \in Requests : Meets(requests[s]),
           request' = requests \/ request' = Noted(requests, role', owner')
    PROVE  LinksInv'
  <1>1. HistoryType' /\ NewThings'
    BY DEF TablesLink
  <1>2. ASSUME ~crossed', NEW s \in Requests
        PROVE  Meets(request[s])'
    <2>1. PICK q \in Request : q = requests[s] /\ Meets(q)
      BY <1>2 DEF TablesLink
    <2>2. PICK p \in Request : p = request'[s] /\ Up(request[s])'
      <3>1. request' \in [Requests -> Request] /\ Up(request[s])'
        BY DEF ResourcesInv, RequestInv
      <3>2. request'[s] \in Request
        BY <3>1
      <3>3. QED
        BY <3>1, <3>2
    <2>3. PICK now : now = Reach(q.actor, role', owner') /\ now \subseteq Things
      <3>1. Reach(q.actor, role', owner') \subseteq Things
        BY DEF Reach
      <3>2. QED
        BY <3>1
    <2>4. /\ Same(p, q) /\ q.mine \subseteq p.mine /\ p.mine \subseteq q.mine \cup now
      <3>1. CASE request' = requests
        BY <2>1, <2>2, <3>1 DEF Same
      <3>2. CASE request' = Noted(requests, role', owner')
        <4>1. p = [q EXCEPT !.mine = @ \cup now]
          BY <2>1, <2>2, <2>3, <3>2 DEF Noted
        <4>2. QED
          BY <2>3, <4>1 DEF Same, Request
      <3>3. QED
        BY <3>1, <3>2
    <2>5. Reach(p.actor, role', owner') \subseteq p.mine
      BY <2>2 DEF Up, Reach, Things
    <2>6. now \subseteq p.mine
      BY <2>3, <2>4, <2>5 DEF Same
    <2>7. TablesInv' /\ NewThings /\ Kept' /\ MakersFollow
      BY <1>2 DEF TablesLink, LinksInv, ResourcesInv
    <2>8. Meets(p)'
      BY <1>1, <2>1, <2>3, <2>4, <2>6, <2>7, MeetsFollows
    <2>9. QED
      BY <2>2, <2>8 DEF Meets, Through, OwnOnly, HasOwn, ViaKnown, Made
  <1>3. QED
    BY <1>1, <1>2 DEF LinksInv, TablesLink

\* One request moves, and what comes into reach may be noted for all.
LEMMA LinksMove ==
    ASSUME ResourcesInv, ResourcesInv', LinksInv, TablesLink,
           NEW r \in Requests, NEW p \in Request, ~crossed => Meets(p),
           Does(r, p) \/ request' = Noted([request EXCEPT ![r] = p], role', owner')
    PROVE  LinksInv'
  <1>1. PICK requests : requests = [request EXCEPT ![r] = p]
    OBVIOUS
  <1>2. requests \in [Requests -> Request]
    BY <1>1 DEF ResourcesInv, RequestInv
  <1>3. ~crossed => \A s \in Requests : Meets(requests[s])
    BY <1>1 DEF LinksInv, ResourcesInv, RequestInv
  <1>4. QED
    BY <1>1, <1>2, <1>3, LinksKeep DEF Does

\* Others do something.
LEMMA LinksOthers ==
    ASSUME ResourcesInv, ResourcesInv', LinksInv, TablesLink,
           UNCHANGED request \/ request' = Noted(request, role', owner')
    PROVE  LinksInv'
  <1>1. PICK requests \in [Requests -> Request] : requests = request
    BY DEF ResourcesInv, RequestInv
  <1>2. ~crossed => \A s \in Requests : Meets(requests[s])
    BY <1>1 DEF LinksInv
  <1>3. QED
    BY <1>1, <1>2, LinksKeep

\* A step that changes no owner, and lets no route or delivery lead elsewhere.
LEMMA LinksOfTables ==
    ASSUME LinksInv, UNCHANGED <<role, owner, history>>, fresh' \subseteq fresh,
           Joined => Joined'
    PROVE  TablesLink
  <1>1. UNCHANGED <<role, owner, crossed, creator>>
    BY DEF history
  <1>2. HistoryType' /\ NewThings'
    BY <1>1 DEF LinksInv, HistoryType, NewThings
  <1>3. ~crossed => Kept'
    BY <1>1 DEF LinksInv, Kept, There
  <1>4. MakersFollow
    BY <1>1 DEF MakersFollow, There
  <1>5. QED
    BY <1>1, <1>2, <1>3, <1>4 DEF TablesLink, LinksInv

LEMMA LinksOfUnchanged ==
    ASSUME LinksInv, UNCHANGED tables
    PROVE  TablesLink
  <1>1. UNCHANGED <<role, owner, history>> /\ UNCHANGED <<route, delivery, fresh, creator>>
    BY DEF tables, history
  <1>2. Joined => Joined'
    BY <1>1 DEF Joined
  <1>3. QED
    BY <1>1, <1>2, LinksOfTables

------------------------------------------------------------------------------
\* The requests and who has made what

\* No guard of a route to be made or changed is behind these.
LEMMA Unlinked ==
    \A s \in Unguarded \cup BotPassed \cup DestinationAsked \cup DestinationPassed \cup RouteAsked
                \cup RouteRead \cup EventAsked \cup EventRead \cup EventPassed \cup DeliveryAsked :
        s # <<>> /\ Head(s) \in Linking => s \in DestinationAsked
  <1>1. \A s \in Unguarded : s # <<>> => Head(s) \notin Linking
    BY Statements DEF Linking
  <1>2. \A s \in BotPassed : s # <<>> => Head(s) \notin Linking
    BY Statements DEF Linking
  <1>3. \A s \in DestinationPassed : s # <<>> => Head(s) \notin Linking
    BY Statements DEF Linking
  <1>4. \A s \in RouteAsked : s # <<>> => Head(s) \notin Linking
    BY Statements DEF Linking
  <1>5. \A s \in RouteRead : s # <<>> => Head(s) \notin Linking
    BY Statements DEF Linking
  <1>6. \A s \in EventAsked : s # <<>> => Head(s) \notin Linking
    BY Statements DEF Linking
  <1>7. \A s \in EventRead : s # <<>> => Head(s) \notin Linking
    BY Statements DEF Linking
  <1>8. \A s \in EventPassed : s # <<>> => Head(s) \notin Linking
    BY Statements DEF Linking
  <1>9. \A s \in DeliveryAsked : s # <<>> => Head(s) \notin Linking
    BY Statements DEF Linking
  <1>10. QED
    BY <1>1, <1>2, <1>3, <1>4, <1>5, <1>6, <1>7, <1>8, <1>9

\* After any statement but the two guards.
Quiet(p) == p.todo = <<>> \/ Head(p.todo) \notin Linking \/ p.bot = Gone

LEMMA QuietRest ==
    ASSUME NEW q, At(q), q.todo # <<>>,
           Head(q.todo) \in Words \ {"bot", "destination", "route", "event", "original", "delivery"}
    PROVE  Tail(q.todo) = <<>> \/ Head(Tail(q.todo)) \notin Linking \/ q.bot = Gone
  <1> DEFINE next == Head(q.todo)
             rest == Tail(q.todo)
  <1>1. \/ rest \in Unguarded \cup BotPassed \cup DestinationPassed \cup RouteAsked
                     \cup EventPassed \cup DeliveryAsked
        \/ rest \in DestinationAsked /\ q.bot = Gone
        \/ next = "insert"
    <2>1. CASE next \in {"list_bots", "list_destinations", "scope", "rows"}
      BY <2>1, Places
    <2>2. CASE next \in {"show", "drop", "write", "give", "list_routes"}
      BY <2>2, Places
    <2>3. CASE next \in {"admin", "call"}
      BY <2>3, Places
    <2>4. CASE next \in {"insert_route", "write_route", "retarget", "drop_route"}
      BY <2>4, Places
    <2>5. CASE next \in {"store", "event_row", "enqueue", "insert_replay"}
      BY <2>5, Places
    <2>6. QED
      BY <2>1, <2>2, <2>3, <2>4, <2>5 DEF Words
  <1>2. next = "insert" => rest \in Unguarded \/ q.bot = Gone
    BY Places
  <1>3. rest \in Unguarded \cup BotPassed \cup DestinationPassed \cup RouteAsked
                     \cup EventPassed \cup DeliveryAsked =>
           rest = <<>> \/ Head(rest) \notin Linking
    BY Unlinked, Statements DEF Linking
  <1> HIDE DEF next, rest
  <1>4. QED
    BY <1>1, <1>2, <1>3 DEF next, rest

\* A statement by which the request comes to know nothing new about routes to be made.
LEMMA MeetsThen ==
    ASSUME NEW q, NEW p, Meets(q), p.actor = q.actor, p.mine = q.mine,
           Through(p), ViaKnown(p), Quiet(p)
    PROVE  Meets(p)
  BY DEF Meets, OwnOnly, HasOwn, Made, Quiet, Linking

LEMMA MeetsAlong ==
    ASSUME NEW q, NEW p, Meets(q), p.actor = q.actor, p.mine = q.mine, p.bot = q.bot,
           p.via = q.via, Through(p), Quiet(p)
    PROVE  Meets(p)
  <1>1. ViaKnown(p)
    BY DEF Meets, ViaKnown
  <1>2. QED
    BY <1>1, MeetsThen

LEMMA RefuseLinks ==
    ASSUME ResourcesInv, ResourcesInv', LinksInv, TablesLink, NEW r \in Requests, Refuse(r)
    PROVE  LinksInv'
  <1>1. PICK p : p = [request[r] EXCEPT !.todo = <<>>]
    OBVIOUS
  <1>2. /\ p \in Request /\ p.todo = <<>> /\ p.actor = request[r].actor
        /\ p.mine = request[r].mine /\ p.bot = request[r].bot
        /\ p.via = request[r].via /\ p.through = request[r].through
    BY <1>1, RefusedIs DEF ResourcesInv, RequestInv
  <1>3. ASSUME ~crossed
        PROVE  Meets(p)
    <2>1. Meets(request[r])
      BY <1>3 DEF LinksInv
    <2>2. Through(p) /\ Quiet(p)
      BY <1>2, <2>1 DEF Meets, Through, Quiet
    <2>3. QED
      BY <1>2, <2>1, <2>2, MeetsAlong
  <1>4. Does(r, p)
    BY <1>1 DEF Refuse
  <1>5. QED
    BY <1>2, <1>3, <1>4, LinksMove

LEMMA AfterLinks ==
    ASSUME ResourcesInv, ResourcesInv', LinksInv, TablesLink, NEW r \in Requests,
           request[r].todo # <<>>,
           Head(request[r].todo) \in
               Words \ {"bot", "destination", "route", "event", "original", "delivery"},
           NEW did \in SUBSET Things,
           \/ Does(r, After(r, did))
           \/ request' = Noted([request EXCEPT ![r] = After(r, did)], role', owner')
    PROVE  LinksInv'
  <1>1. PICK p : p = After(r, did)
    OBVIOUS
  <1>2. request \in [Requests -> Request] /\ At(request[r])
    BY DEF ResourcesInv, RequestInv
  <1>3. /\ p \in Request /\ p.todo = Tail(request[r].todo) /\ p.actor = request[r].actor
        /\ p.mine = request[r].mine /\ p.bot = request[r].bot
        /\ p.via = request[r].via /\ p.through = request[r].through
    BY <1>1, <1>2, AfterIs
  <1>4. ASSUME ~crossed
        PROVE  Meets(p)
    <2>1. Meets(request[r])
      BY <1>4 DEF LinksInv
    <2>2. Quiet(p)
      BY <1>2, <1>3, QuietRest DEF Quiet
    <2>3. Through(p)
      BY <1>3, <2>1 DEF Meets, Through
    <2>4. QED
      BY <1>3, <2>1, <2>2, <2>3, MeetsAlong
  <1>5. Does(r, p) \/ request' = Noted([request EXCEPT ![r] = p], role', owner')
    BY <1>1
  <1>6. QED
    BY <1>3, <1>4, <1>5, LinksMove

LEMMA AlongLinks ==
    ASSUME ResourcesInv, ResourcesInv', LinksInv, TablesLink, NEW r \in Requests,
           request[r].todo # <<>>,
           Head(request[r].todo) \in
               Words \ {"bot", "destination", "route", "event", "original", "delivery"},
           NEW did \in SUBSET Things, NEW ends \in Ends,
           ~crossed => ends \ {Gone} \subseteq request[r].mine,
           Does(r, Along(r, did, ends))
    PROVE  LinksInv'
  <1>1. PICK p : p = Along(r, did, ends)
    OBVIOUS
  <1>2. request \in [Requests -> Request] /\ At(request[r])
    BY DEF ResourcesInv, RequestInv
  <1>3. /\ p \in Request /\ p.todo = Tail(request[r].todo) /\ p.actor = request[r].actor
        /\ p.mine = request[r].mine /\ p.bot = request[r].bot /\ p.via = request[r].via
    BY <1>1, <1>2, AlongIs
  <1>4. p.through = request[r].through \cup (ends \ {Gone})
    BY <1>1, <1>2, AlongThrough
  <1>5. ASSUME ~crossed
        PROVE  Meets(p)
    <2>1. Meets(request[r])
      BY <1>5 DEF LinksInv
    <2>2. Quiet(p)
      BY <1>2, <1>3, QuietRest DEF Quiet
    <2>3. Through(p)
      BY <1>3, <1>4, <1>5, <2>1 DEF Meets, Through
    <2>4. QED
      BY <1>3, <2>1, <2>2, <2>3, MeetsAlong
  <1>6. Does(r, p)
    BY <1>1
  <1>7. QED
    BY <1>3, <1>5, <1>6, LinksMove

\* What is led to from a bot within reach is within reach.
LEMMA EndsReached ==
    ASSUME TablesInv, LinksInv, ~crossed, NEW q \in Request, Meets(q), NEW b \in Bots, b \in q.mine
    PROVE  /\ \A t \in Routes : route[t].bot = b => route[t].destination \in q.mine
           /\ \A d \in Deliveries : delivery[d].bot = b /\ delivery[d].destination # Gone =>
                 delivery[d].destination \in q.mine
  <1>1. ASSUME NEW h \in Destinations, There(h), creator[b] = creator[h]
        PROVE  h \in q.mine
    <2>1. CASE Things \subseteq q.mine
      BY <2>1 DEF Things
    <2>2. CASE creator[b] = q.actor
      BY <1>1, <2>2 DEF Meets, HasOwn, Things
    <2>3. QED
      BY <2>1, <2>2 DEF Meets, OwnOnly
  <1>2. ASSUME NEW t \in Routes, route[t].bot = b
        PROVE  route[t].destination \in q.mine
    <2>1. route[t].destination \in Destinations /\ There(route[t].destination)
      BY <1>2, RouteLeads
    <2>2. route[t] # NoRoute
      BY <1>2, ResourcesAssumption DEF NoRoute, Things
    <2>3. creator[b] = creator[route[t].destination]
      BY <1>2, <2>2 DEF LinksInv, Joined
    <2>4. QED
      BY <1>1, <2>1, <2>3
  <1>3. ASSUME NEW d \in Deliveries, delivery[d].bot = b, delivery[d].destination # Gone
        PROVE  delivery[d].destination \in q.mine
    <2>1. delivery[d] # NoDelivery
      BY <1>3 DEF NoDelivery
    <2>2. delivery[d].destination \in Destinations /\ There(delivery[d].destination)
      BY <1>3, <2>1 DEF TablesInv, TablesType, Delivery, References
    <2>3. creator[b] = creator[delivery[d].destination]
      BY <1>3, <2>1 DEF LinksInv, Joined
    <2>4. QED
      BY <1>1, <2>2, <2>3
  <1>4. QED
    BY <1>2, <1>3

\* So is what a route or a delivery of that bot has given.
LEMMA ViaReached ==
    ASSUME NEW q \in Request, Meets(q), q.via # Gone => q.bot \in q.mine
    PROVE  {q.via} \ {Gone} \subseteq q.mine
  <1>1. SUFFICES ASSUME q.via # Gone PROVE q.via \in q.mine
    OBVIOUS
  <1>2. q.via \in Things
    BY <1>1 DEF Request, Things
  <1>3. CASE Things \subseteq q.mine
    BY <1>2, <1>3
  <1>4. CASE creator[q.bot] = q.actor
    BY <1>1, <1>4 DEF Meets, ViaKnown
  <1>5. QED
    BY <1>1, <1>3, <1>4 DEF Meets, OwnOnly

\* A bot and a destination that a route or a delivery joins, as they are read.
LEMMA ViaRead ==
    ASSUME LinksInv, NEW q \in Request, Meets(q), NEW p, p.actor = q.actor, p.mine = q.mine,
           p.via # Gone => /\ p.bot \in Bots /\ p.via \in Destinations
                           /\ There(p.bot) /\ There(p.via)
                           /\ creator[p.bot] = creator[p.via]
    PROVE  ViaKnown(p)
  BY DEF LinksInv, NewThings, There, Meets, HasOwn, ViaKnown, Things

------------------------------------------------------------------------------
\* The statements that change no table, and who has made what

LEMMA StillLinks ==
    ASSUME ResourcesInv, ResourcesInv', LinksInv, NEW r \in Requests,
           \/ adminOnly(r) \/ readEvent(r) \/ call(r) \/ write(r)
           \/ listOwn(r, "list_bots", Bots) \/ listOwn(r, "list_destinations", Destinations)
    PROVE  LinksInv'
  <1> DEFINE q == request[r]
             Others == Words \ {"bot", "destination", "route", "event", "original", "delivery"}
  <1>1. UNCHANGED tables /\ q.todo # <<>> /\ q \in Request
    BY DEF adminOnly, readEvent, call, write, listOwn, Doing, ResourcesInv, RequestInv
  <1>2. Head(q.todo) \in Others
    BY DEF adminOnly, readEvent, call, write, listOwn, Doing, Words
  <1>3. TablesLink
    BY <1>1, LinksOfUnchanged
  <1>4. CASE Refuse(r)
    BY <1>3, <1>4, RefuseLinks
  <1>5. ASSUME NEW did \in SUBSET Things, Does(r, After(r, did))
        PROVE  LinksInv'
    BY <1>1, <1>2, <1>3, <1>5, AfterLinks
  <1>6. CASE adminOnly(r) \/ readEvent(r)
    <2>1. Refuse(r) \/ Does(r, After(r, {}))
      BY <1>6 DEF adminOnly, readEvent
    <2>2. {} \in SUBSET Things
      OBVIOUS
    <2>3. QED
      BY <1>4, <1>5, <2>1, <2>2
  <1>7. CASE call(r)
    <2>1. Head(q.todo) = "call" /\ At(q)
      BY <1>7 DEF call, Doing, ResourcesInv, RequestInv
    <2>2. BotReached(q)
      BY <1>1, <2>1, Places
    <2>3. PICK x \in Things : x = q.bot
      BY <2>2 DEF BotReached, Things
    <2>4. {x} \in SUBSET Things /\ Does(r, After(r, {x}))
      BY <1>7, <2>3 DEF call
    <2>5. QED
      BY <1>5, <2>4
  <1>8. CASE write(r)
    <2>1. PICK did \in SUBSET Things : Does(r, After(r, did))
      BY <1>8 DEF write
    <2>2. QED
      BY <1>5, <2>1
  <1>9. CASE listOwn(r, "list_bots", Bots) \/ listOwn(r, "list_destinations", Destinations)
    <2>1. PICK did \in SUBSET Things : Does(r, After(r, did))
      BY <1>9 DEF listOwn, Things
    <2>2. QED
      BY <1>5, <2>1
  <1>10. QED
    BY <1>6, <1>7, <1>8, <1>9

LEMMA ShowLinks ==
    ASSUME ResourcesInv, ResourcesInv', LinksInv, NEW r \in Requests, show(r)
    PROVE  LinksInv'
  <1> DEFINE q == request[r]
             Others == Words \ {"bot", "destination", "route", "event", "original", "delivery"}
  <1>1. UNCHANGED tables /\ q.todo # <<>> /\ q \in Request /\ At(q) /\ Head(q.todo) = "show"
    BY DEF show, Doing, ResourcesInv, RequestInv
  <1>2. Head(q.todo) \in Others
    BY <1>1 DEF Words
  <1>3. TablesLink
    BY <1>1, LinksOfUnchanged
  <1>4. Reached(q)
    BY <1>1, Places
  <1>5. PICK x \in Things : x = Thing(r)
    BY <1>4, ReachedThing
  <1>6. PICK ends \in Ends : ends = {q.via}
    BY <1>1 DEF Request, Ends
  <1>7. ~crossed => ends \ {Gone} \subseteq q.mine
    <2>1. SUFFICES ASSUME ~crossed PROVE {q.via} \ {Gone} \subseteq q.mine
      BY <1>6
    <2>2. Meets(q)
      BY <2>1 DEF LinksInv
    <2>3. Gone \notin Bots
      BY ResourcesAssumption DEF Things
    <2>4. q.via # Gone => q.bot \in q.mine
      BY <1>4, <2>2, <2>3 DEF Meets, ViaKnown, Reached, BotReached
    <2>5. QED
      BY <1>1, <2>2, <2>4, ViaReached
  <1>8. {x} \in SUBSET Things /\ Does(r, Along(r, {x}, ends))
    BY <1>5, <1>6 DEF show
  <1>9. QED
    BY <1>1, <1>2, <1>3, <1>7, <1>8, AlongLinks

LEMMA ListRoutesLinks ==
    ASSUME ResourcesInv, ResourcesInv', LinksInv, NEW r \in Requests, listRoutes(r)
    PROVE  LinksInv'
  <1> DEFINE q == request[r]
             Others == Words \ {"bot", "destination", "route", "event", "original", "delivery"}
  <1>1. UNCHANGED tables /\ q.todo # <<>> /\ q \in Request /\ At(q) /\ Head(q.todo) = "list_routes"
    BY DEF listRoutes, Doing, ResourcesInv, RequestInv
  <1>2. Head(q.todo) \in Others
    BY <1>1 DEF Words
  <1>3. TablesLink
    BY <1>1, LinksOfUnchanged
  <1>4. BotReached(q)
    BY <1>1, Places
  <1>5. PICK x \in Bots : x = q.bot /\ x \in q.mine
    BY <1>4 DEF BotReached
  <1>6. PICK ends \in Ends :
           ends = {route[t].destination : t \in {y \in Routes : route[y].bot = x}}
    <2>1. \A t \in Routes : route[t].destination \in Destinations \cup {Gone}
      BY DEF ResourcesInv, TablesInv, TablesType, Route, NoRoute
    <2>2. QED
      BY <2>1 DEF Ends
  <1>7. ASSUME ~crossed
        PROVE  ends \ {Gone} \subseteq q.mine
    <2>1. Meets(q) /\ TablesInv
      BY <1>7 DEF LinksInv, ResourcesInv
    <2>2. \A t \in Routes : route[t].bot = x => route[t].destination \in q.mine
      BY <1>1, <1>5, <1>7, <2>1, EndsReached
    <2>3. QED
      BY <1>6, <2>2
  <1>8. {x} \in SUBSET Things
    BY DEF Things
  <1>9. Does(r, Along(r, {x}, ends))
    BY <1>5, <1>6 DEF listRoutes
  <1>10. QED
    BY <1>1, <1>2, <1>3, <1>7, <1>8, <1>9, AlongLinks

LEMMA ReadRowsLinks ==
    ASSUME ResourcesInv, ResourcesInv', LinksInv, NEW r \in Requests, readRows(r)
    PROVE  LinksInv'
  <1> DEFINE q == request[r]
             Others == Words \ {"bot", "destination", "route", "event", "original", "delivery"}
             rows == {event[e] : e \in Events} \cup {delivery[d].bot : d \in Deliveries}
  <1>1. /\ UNCHANGED tables /\ q.todo # <<>> /\ q \in Request /\ Within(q)
        /\ Head(q.todo) = "rows"
    BY DEF readRows, Doing, ResourcesInv, RequestInv
  <1>2. Head(q.todo) \in Others
    BY <1>1 DEF Words
  <1>3. TablesLink
    BY <1>1, LinksOfUnchanged
  <1>4. rows \subseteq Bots \cup {Gone}
    BY DEF ResourcesInv, TablesInv, TablesType, Delivery, NoDelivery
  <1>5. PICK seen : /\ seen = IF q.admin THEN rows \ {Gone} ELSE rows \cap q.scope
                    /\ Does(r, Along(r, seen, {delivery[d].destination :
                                  d \in {x \in Deliveries : delivery[x].bot \in seen}}))
    BY DEF readRows
  <1> HIDE DEF rows
  <1>6. seen \subseteq Bots /\ seen \subseteq q.mine
    <2>1. q.scope \subseteq q.mine /\ q.scope \subseteq Bots
      BY <1>1 DEF Within, Request
    <2>2. rows \ {Gone} \subseteq Bots /\ (q.admin => Things \subseteq q.mine)
      BY <1>1, <1>4 DEF Within
    <2>3. Bots \subseteq Things
      BY DEF Things
    <2>4. QED
      BY <1>5, <2>1, <2>2, <2>3
  <1>7. PICK ends \in Ends :
           ends = {delivery[d].destination :
                      d \in {x \in Deliveries : delivery[x].bot \in seen}}
    <2>1. \A d \in Deliveries : delivery[d].destination \in Destinations \cup {Gone}
      BY DEF ResourcesInv, TablesInv, TablesType, Delivery, NoDelivery
    <2>2. QED
      BY <2>1 DEF Ends
  <1>8. ASSUME ~crossed
        PROVE  ends \ {Gone} \subseteq q.mine
    <2>1. Meets(q) /\ TablesInv
      BY <1>8 DEF LinksInv, ResourcesInv
    <2>2. SUFFICES ASSUME NEW d \in Deliveries, delivery[d].bot \in seen,
                          delivery[d].destination # Gone
                   PROVE  delivery[d].destination \in q.mine
      BY <1>7
    <2>3. PICK b \in Bots : b = delivery[d].bot /\ b \in q.mine
      BY <1>6, <2>2
    <2>4. QED
      BY <1>1, <1>8, <2>1, <2>2, <2>3, EndsReached
  <1>9. PICK did \in SUBSET Things : did = seen
    BY <1>6 DEF Things
  <1>10. Does(r, Along(r, did, ends))
    BY <1>5, <1>7, <1>9
  <1>11. QED
    BY <1>1, <1>2, <1>3, <1>8, <1>9, <1>10, AlongLinks

LEMMA ReadScopeLinks ==
    ASSUME ResourcesInv, ResourcesInv', LinksInv, NEW r \in Requests, readScope(r)
    PROVE  LinksInv'
  <1> DEFINE q == request[r]
             own == {b \in Bots : Permits(r, b)}
             a == After(r, {})
             p == [a EXCEPT !.scope = own]
  <1>1. UNCHANGED tables /\ q.todo # <<>> /\ Head(q.todo) = "scope" /\ At(q)
    BY DEF readScope, Doing, ResourcesInv, RequestInv
  <1>2. TablesLink
    BY <1>1, LinksOfUnchanged
  <1>3. CASE Refuse(r)
    BY <1>2, <1>3, RefuseLinks
  <1>4. CASE Does(r, p)
    <2>1. /\ a \in Request /\ a.todo = Tail(q.todo) /\ a.actor = q.actor /\ a.mine = q.mine
          /\ a.bot = q.bot /\ a.via = q.via /\ a.through = q.through
      BY <1>1, AfterIs DEF ResourcesInv, RequestInv
    <2>2. own \in SUBSET Bots
      OBVIOUS
    <2> HIDE DEF a, own
    <2>3. /\ p \in Request /\ p.todo = Tail(q.todo) /\ p.actor = q.actor /\ p.mine = q.mine
          /\ p.bot = q.bot /\ p.via = q.via /\ p.through = q.through
      BY <2>1, <2>2 DEF Request
    <2> HIDE DEF p
    <2>4. ASSUME ~crossed
          PROVE  Meets(p)
      <3>1. Meets(q)
        BY <2>4 DEF LinksInv
      <3>2. Quiet(p)
        BY <1>1, <2>3, QuietRest DEF Quiet, Words
      <3>3. Through(p)
        BY <2>3, <3>1 DEF Meets, Through
      <3>4. QED
        BY <2>3, <3>1, <3>2, <3>3, MeetsAlong
    <2>5. QED
      BY <1>2, <1>4, <2>3, <2>4, LinksMove
  <1>5. QED
    BY <1>3, <1>4 DEF readScope

------------------------------------------------------------------------------
\* The guards and the reads before them, and who has made what

\* Who is no administrator has made what assertAccess lets pass.
LEMMA PermittedIsMade ==
    ASSUME ResourcesInv, LinksInv, ~crossed, NEW r \in Requests, request[r].todo # <<>>,
           ~request[r].admin, NEW x \in Things, Permits(r, x)
    PROVE  x \notin fresh /\ creator[x] = request[r].actor
  <1>1. owner[x] = request[r].actor /\ There(x)
    BY DEF Permits
  <1>2. request[r].actor \in Users /\ request[r].actor # Nobody
    BY ResourcesAssumption DEF ResourcesInv, RequestInv, Within
  <1>3. QED
    BY <1>1, <1>2 DEF LinksInv, NewThings, Kept, There

LEMMA GuardLinks ==
    ASSUME ResourcesInv, ResourcesInv', LinksInv, NEW r \in Requests,
           \/ guard(r, "bot", request[r].bot)
           \/ guard(r, "destination", request[r].destination)
    PROVE  LinksInv'
  <1> DEFINE q == request[r]
             rest == Tail(q.todo)
  <1>1. UNCHANGED tables /\ q.todo # <<>> /\ q \in Request /\ At(q)
    BY DEF guard, Doing, ResourcesInv, RequestInv
  <1>2. TablesLink
    BY <1>1, LinksOfUnchanged
  <1>3. CASE Refuse(r)
    BY <1>2, <1>3, RefuseLinks
  <1>4. PICK p \in Request :
           /\ p = After(r, {}) /\ p.todo = rest /\ p.actor = q.actor /\ p.admin = q.admin
           /\ p.bot = q.bot /\ p.destination = q.destination /\ p.mine = q.mine
           /\ p.via = q.via /\ p.through = q.through
    <2>1. {} \in SUBSET Things
      OBVIOUS
    <2>2. QED
      BY <1>1, <2>1, AfterIs DEF ResourcesInv, RequestInv
  <1>5. ASSUME ~crossed, Made(p)
        PROVE  Meets(p)
    <2>1. Meets(q)
      BY <1>5 DEF LinksInv
    <2>2. QED
      BY <1>4, <1>5, <2>1 DEF Meets, Through, OwnOnly, HasOwn, ViaKnown
  <1>6. ASSUME Does(r, p), ~crossed => Made(p)
        PROVE  LinksInv'
    BY <1>2, <1>5, <1>6, LinksMove
  <1>7. CASE Does(r, p) /\ guard(r, "bot", q.bot) /\ q.bot # Gone /\ Permits(r, q.bot)
    <2>1. Head(q.todo) = "bot" /\ q.bot \in Bots /\ q.bot \in Things
      BY <1>1, <1>7 DEF guard, Doing, Request, Things
    <2>2. \/ rest \in BotPassed \/ rest \in EventPassed \/ rest \in RoutePassed
          \/ rest = then_destination_insert_route_route_bot_show
      BY <1>1, <2>1, Places
    <2>3. Head(then_destination_insert_route_route_bot_show) = "destination"
      BY TakenApart
    <2>4. rest # <<>> => Head(rest) \notin {"insert_route", "retarget"}
      <3>1. \A s \in RoutePassed : s # <<>> => Head(s) \notin {"insert_route", "retarget"}
        BY Statements
      <3>2. \A s \in BotPassed \cup EventPassed :
               s # <<>> => Head(s) \notin {"insert_route", "retarget"}
        BY Statements
      <3>3. QED
        BY <2>2, <2>3, <3>1, <3>2
    <2>5. ~crossed => Made(p)
      BY <1>1, <1>4, <1>7, <2>1, <2>4, PermittedIsMade DEF Made
    <2>6. QED
      BY <1>6, <1>7, <2>5
  <1>8. CASE /\ Does(r, p) /\ guard(r, "destination", q.destination)
             /\ q.destination # Gone /\ Permits(r, q.destination)
    <2>1. Head(q.todo) = "destination" /\ q.destination \in Destinations /\ q.destination \in Things
      BY <1>1, <1>8 DEF guard, Doing, Request, Things
    <2>2. ASSUME ~crossed, ~q.admin, q.bot # Gone
          PROVE  /\ q.bot \in Bots \ fresh /\ creator[q.bot] = q.actor
                 /\ q.destination \in Destinations \ fresh /\ creator[q.destination] = q.actor
      <3>1. Made(q)
        BY <2>2 DEF LinksInv, Meets
      <3>2. q.bot \in Bots \ fresh /\ creator[q.bot] = q.actor
        BY <1>1, <2>1, <2>2, <3>1 DEF Made, Linking
      <3>3. QED
        BY <1>1, <1>8, <2>1, <2>2, <3>2, PermittedIsMade
    <2>3. ~crossed => Made(p)
      BY <1>4, <2>2 DEF Made
    <2>4. QED
      BY <1>6, <1>8, <2>3
  <1>9. QED
    BY <1>3, <1>4, <1>7, <1>8 DEF guard

LEMMA ReadRouteLinks ==
    ASSUME ResourcesInv, ResourcesInv', LinksInv, NEW r \in Requests, readRoute(r)
    PROVE  LinksInv'
  <1> DEFINE q == request[r]
             t == route[q.item]
             a == After(r, {})
             p == [a EXCEPT !.bot = t.bot, !.via = t.destination]
  <1>1. UNCHANGED tables /\ q.todo # <<>> /\ Head(q.todo) = "route" /\ At(q) /\ q \in Request
    BY DEF readRoute, Doing, ResourcesInv, RequestInv
  <1>2. TablesLink
    BY <1>1, LinksOfUnchanged
  <1>3. CASE Refuse(r)
    BY <1>2, <1>3, RefuseLinks
  <1>4. CASE t # NoRoute /\ Does(r, p)
    <2>1. /\ q.item \in Routes
          /\ Tail(q.todo) \in Unguarded \cup RouteRead \cup {then_bot_bot_store_enqueue}
      BY <1>1, Places
    <2>2. t.bot \in Bots /\ t.destination \in Destinations /\ There(t.bot) /\ There(t.destination)
      BY <1>4, <2>1 DEF ResourcesInv, TablesInv, TablesType, Route, References
    <2>3. ~crossed => creator[t.bot] = creator[t.destination]
      BY <1>4, <2>1 DEF LinksInv, Joined
    <2>4. /\ a \in Request /\ a.todo = Tail(q.todo) /\ a.actor = q.actor /\ a.mine = q.mine
          /\ a.through = q.through
      BY <1>1, AfterIs DEF ResourcesInv, RequestInv
    <2> HIDE DEF a, t
    <2>5. /\ p \in Request /\ p.todo = Tail(q.todo) /\ p.actor = q.actor /\ p.mine = q.mine
          /\ p.through = q.through /\ p.bot = t.bot /\ p.via = t.destination
      BY <2>2, <2>4 DEF Request
    <2> HIDE DEF p
    <2>6. Quiet(p)
      <3>1. then_bot_bot_store_enqueue # <<>> /\ Head(then_bot_bot_store_enqueue) = "bot"
        BY TakenApart DEF then_bot_bot_store_enqueue
      <3>2. \A s \in Unguarded \cup RouteRead : s # <<>> => Head(s) \notin Linking
        BY Statements DEF Linking
      <3>3. QED
        BY <2>1, <2>5, <3>1, <3>2 DEF Quiet, Linking
    <2>7. ASSUME ~crossed
          PROVE  Meets(p)
      <3>1. Meets(q)
        BY <2>7 DEF LinksInv
      <3>2. ViaKnown(p)
        BY <1>1, <2>2, <2>3, <2>5, <2>7, <3>1, ViaRead
      <3>3. Through(p)
        BY <2>5, <3>1 DEF Meets, Through
      <3>4. QED
        BY <2>5, <2>6, <3>1, <3>2, <3>3, MeetsThen
    <2>8. QED
      BY <1>2, <1>4, <2>5, <2>7, LinksMove
  <1>5. QED
    BY <1>3, <1>4 DEF readRoute

LEMMA ReadWithBotLinks ==
    ASSUME ResourcesInv, ResourcesInv', LinksInv, NEW r \in Requests,
           NEW b \in Bots \cup {Gone}, NEW h \in Destinations \cup {Gone},
           readWithBot(r, "event", b, h) \/ readWithBot(r, "delivery", b, h),
           h # Gone => There(h),
           ~crossed /\ b # Gone /\ h # Gone => creator[b] = creator[h]
    PROVE  LinksInv'
  <1> DEFINE q == request[r]
             a == After(r, {b})
             p == [a EXCEPT !.bot = b, !.via = h]
  <1>1. /\ UNCHANGED tables /\ q.todo # <<>> /\ At(q) /\ q \in Request
        /\ Head(q.todo) \in {"event", "delivery"}
    BY DEF readWithBot, Doing, ResourcesInv, RequestInv
  <1>2. TablesLink
    BY <1>1, LinksOfUnchanged
  <1>3. CASE Refuse(r)
    BY <1>2, <1>3, RefuseLinks
  <1>4. CASE b # Gone /\ Permits(r, b) /\ Does(r, p)
    <2>1. b \in Bots /\ b \in Things /\ There(b)
      BY <1>4 DEF Things, Permits
    <2>2. {b} \in SUBSET Things
      BY <2>1
    <2>3. /\ a \in Request /\ a.todo = Tail(q.todo) /\ a.actor = q.actor /\ a.mine = q.mine
          /\ a.through = q.through
      BY <1>1, <2>2, AfterIs DEF ResourcesInv, RequestInv
    <2> HIDE DEF a
    <2>4. /\ p \in Request /\ p.todo = Tail(q.todo) /\ p.actor = q.actor /\ p.mine = q.mine
          /\ p.through = q.through /\ p.bot = b /\ p.via = h
      BY <2>1, <2>3 DEF Request
    <2> HIDE DEF p
    <2>5. Quiet(p)
      <3>1. Tail(q.todo) \in BotPassed \cup Unguarded \cup EventRead
        <4>1. CASE Head(q.todo) = "event"
          BY <1>1, <4>1, Places
        <4>2. CASE Head(q.todo) = "delivery"
          BY <1>1, <4>2, Places
        <4>3. QED
          BY <1>1, <4>1, <4>2
      <3>2. \A s \in Unguarded \cup BotPassed : s # <<>> => Head(s) \notin Linking
        BY Statements DEF Linking
      <3>3. \A s \in EventRead : s # <<>> => Head(s) \notin Linking
        BY Statements DEF Linking
      <3>4. QED
        BY <2>4, <3>1, <3>2, <3>3 DEF Quiet
    <2>6. ASSUME ~crossed
          PROVE  Meets(p)
      <3>1. Meets(q)
        BY <2>6 DEF LinksInv
      <3>2. ViaKnown(p)
        BY <1>1, <1>4, <2>1, <2>4, <2>6, <3>1, ViaRead
      <3>3. Through(p)
        BY <2>4, <3>1 DEF Meets, Through
      <3>4. QED
        BY <2>4, <2>5, <3>1, <3>2, <3>3, MeetsThen
    <2>7. QED
      BY <1>2, <1>4, <2>4, <2>6, LinksMove
  <1>5. QED
    BY <1>3, <1>4 DEF readWithBot

LEMMA ReadOriginalLinks ==
    ASSUME ResourcesInv, ResourcesInv', LinksInv, NEW r \in Requests, readOriginal(r)
    PROVE  LinksInv'
  <1> DEFINE q == request[r]
             d == delivery[q.item]
             a == After(r, {})
             p == [a EXCEPT !.bot = d.bot, !.via = d.destination, !.item = d.event]
  <1>1. UNCHANGED tables /\ q.todo # <<>> /\ Head(q.todo) = "original" /\ At(q) /\ q \in Request
    BY DEF readOriginal, Doing, ResourcesInv, RequestInv
  <1>2. TablesLink
    BY <1>1, LinksOfUnchanged
  <1>3. CASE Refuse(r)
    BY <1>2, <1>3, RefuseLinks
  <1>4. CASE d # NoDelivery /\ Does(r, p)
    <2>1. q.item \in Deliveries /\ Tail(q.todo) \in EventRead
      BY <1>1, Places
    <2>2. /\ d.event \in Events /\ d.bot \in Bots /\ d.destination \in Destinations \cup {Gone}
      BY <1>4, <2>1 DEF ResourcesInv, TablesInv, TablesType, Delivery
    <2>3. d.destination # Gone => There(d.destination)
      BY <1>4, <2>1 DEF ResourcesInv, TablesInv, References
    <2>4. There(d.bot)
      <3>1. event[d.event] = d.bot
        BY <1>4, <2>1 DEF ResourcesInv, TablesInv, References
      <3>2. d.bot # Gone
        BY <2>2, ResourcesAssumption DEF Things
      <3>3. QED
        BY <2>2, <3>1, <3>2 DEF ResourcesInv, TablesInv, References
    <2>5. ~crossed /\ d.destination # Gone => creator[d.bot] = creator[d.destination]
      BY <1>4, <2>1 DEF LinksInv, Joined
    <2>6. /\ a \in Request /\ a.todo = Tail(q.todo) /\ a.actor = q.actor /\ a.mine = q.mine
          /\ a.through = q.through
      BY <1>1, AfterIs DEF ResourcesInv, RequestInv
    <2> HIDE DEF a, d
    <2>7. /\ p \in Request /\ p.todo = Tail(q.todo) /\ p.actor = q.actor /\ p.mine = q.mine
          /\ p.through = q.through /\ p.bot = d.bot /\ p.via = d.destination
      BY <2>2, <2>6 DEF Request
    <2> HIDE DEF p
    <2>8. Quiet(p)
      <3>1. \A s \in EventRead : s # <<>> => Head(s) \notin Linking
        BY Statements DEF Linking
      <3>2. QED
        BY <2>1, <2>7, <3>1 DEF Quiet
    <2>9. ASSUME ~crossed
          PROVE  Meets(p)
      <3>1. Meets(q)
        BY <2>9 DEF LinksInv
      <3>2. ViaKnown(p)
        BY <1>1, <2>2, <2>3, <2>4, <2>5, <2>7, <2>9, <3>1, ViaRead
      <3>3. Through(p)
        BY <2>7, <3>1 DEF Meets, Through
      <3>4. QED
        BY <2>7, <2>8, <3>1, <3>2, <3>3, MeetsThen
    <2>10. QED
      BY <1>2, <1>4, <2>7, <2>9, LinksMove
  <1>5. QED
    BY <1>3, <1>4 DEF readOriginal

------------------------------------------------------------------------------
\* Requests begin and end, and who has made what

LEMMA AnswerLinks ==
    ASSUME ResourcesInv, ResourcesInv', LinksInv, NEW r \in Requests, Answer(r)
    PROVE  LinksInv'
  <1>1. TablesLink /\ Does(r, Idle)
    BY LinksOfUnchanged DEF Answer, Does
  <1>2. PICK q \in Request : q = Idle
    BY IdleIs
  <1>3. /\ q.todo = <<>> /\ q.actor = Nobody /\ q.via = Gone /\ q.through = {} /\ q.mine = {}
    BY <1>2 DEF Idle
  <1>4. \A x \in Things : creator[x] # Nobody
    BY ResourcesAssumption DEF LinksInv, HistoryType
  <1>5. Meets(q)
    BY <1>3, <1>4 DEF Meets, Through, OwnOnly, HasOwn, ViaKnown, Made
  <1>6. QED
    BY <1>1, <1>2, <1>5, LinksMove

\* A request that begins can reach what its actor has made, or everything.
LEMMA StartLinks ==
    ASSUME ResourcesInv, ResourcesInv', LinksInv,
           NEW r \in Requests, NEW u \in Users, NEW m \in Methods,
           NEW b \in Bots \cup {Gone}, NEW h \in Destinations \cup {Gone},
           NEW i \in Routes \cup Events \cup Deliveries \cup {Gone},
           Start(r, u, m, On(b, h, i)),
           m # <<>> /\ Head(m) \in Linking => b = Gone
    PROVE  LinksInv'
  <1>1. TablesLink
    BY LinksOfUnchanged DEF Start
  <1> DEFINE mine == Reach(u, role, owner)
  <1>2. PICK p : p = [On(b, h, i) EXCEPT !.todo = m, !.actor = u, !.admin = role[u] = "admin",
                                         !.mine = mine]
    OBVIOUS
  <1>3. mine \in SUBSET Things /\ m \in Seq(Words)
    BY MethodsAreSequences DEF Reach
  <1> HIDE DEF mine
  <1>4. p = [todo |-> m, actor |-> u, admin |-> role[u] = "admin", bot |-> b, destination |-> h,
             item |-> i, scope |-> {}, via |-> Gone, did |-> {}, through |-> {}, mine |-> mine]
    BY <1>2 DEF On, Idle
  <1>5. /\ p \in Request /\ p.todo = m /\ p.actor = u /\ p.bot = b /\ p.via = Gone
        /\ p.through = {} /\ p.mine = mine
    BY <1>3, <1>4 DEF Request
  <1>6. ASSUME ~crossed
        PROVE  Meets(p)
    <2>1. u # Nobody /\ u # Gone /\ role[u] # "gone"
      BY ResourcesAssumption DEF Start
    <2>2. Through(p) /\ ViaKnown(p)
      BY <1>5 DEF Through, ViaKnown
    <2>3. OwnOnly(p)
      <3>1. role[u] = "admin" => mine = Things
        BY <2>1 DEF mine, Reach
      <3>2. ASSUME role[u] # "admin", NEW x \in mine
            PROVE  x \notin fresh /\ creator[x] = u
        <4>1. x \in Things /\ owner[x] = u
          BY <2>1, <3>2 DEF mine, Reach
        <4>2. QED
          BY <1>6, <2>1, <4>1 DEF LinksInv, NewThings, Kept, There
      <3>3. QED
        BY <1>5, <3>1, <3>2 DEF OwnOnly
    <2>4. HasOwn(p)
      <3>1. SUFFICES ASSUME NEW x \in Things, There(x), creator[x] = u
                     PROVE  x \in mine
        BY <1>5 DEF HasOwn
      <3>2. owner[x] = u
        BY <1>6, <2>1, <3>1 DEF LinksInv, Kept
      <3>3. QED
        BY <2>1, <3>2 DEF mine, Reach
    <2>5. Made(p)
      BY <1>5 DEF Made, Linking
    <2>6. QED
      BY <2>2, <2>3, <2>4, <2>5 DEF Meets
  <1>7. Does(r, p)
    BY <1>2 DEF Start, Does, mine
  <1>8. QED
    BY <1>1, <1>5, <1>6, <1>7, LinksMove

LEMMA AskedLinks ==
    ASSUME ResourcesInv, ResourcesInv', LinksInv, NEW r \in Requests, NEW u \in Users, Asked(r, u)
    PROVE  LinksInv'
  <1>1. Idle = On(Gone, Gone, Gone)
    <2>1. PICK p : p = On(Gone, Gone, Gone)
      OBVIOUS
    <2>2. p = [todo |-> <<>>, actor |-> Nobody, admin |-> FALSE, bot |-> Gone, destination |-> Gone,
               item |-> Gone, scope |-> {}, via |-> Gone, did |-> {}, through |-> {}, mine |-> {}]
      BY <2>1 DEF On, Idle
    <2>3. QED
      BY <2>1, <2>2 DEF Idle
  <1>2. \A s \in Unguarded : s # <<>> => Head(s) \notin Linking
    BY Statements DEF Linking
  <1>3. ASSUME NEW m \in Global, Start(r, u, m, Idle)
        PROVE  LinksInv'
    <2>1. m \in Unguarded /\ m \in Methods
      BY DEF Global, Unguarded, Methods
    <2>2. QED
      BY <1>1, <1>3, <2>1, StartLinks
  <1>4. ASSUME NEW m \in OnBot, NEW b \in Bots, Start(r, u, m, On(b, Gone, Gone))
        PROVE  LinksInv'
    <2>1. m \in Unguarded /\ m \in Methods
      BY DEF OnBot, Unguarded, Methods
    <2>2. QED
      BY <1>2, <1>4, <2>1, StartLinks
  <1>5. ASSUME NEW m \in OnDestination, NEW d \in Destinations, Start(r, u, m, On(Gone, d, Gone))
        PROVE  LinksInv'
    <2>1. m \in Methods
      BY DEF Methods
    <2>2. QED
      BY <1>5, <2>1, StartLinks
  <1>6. ASSUME NEW m \in OnRoute, NEW t \in Routes, Start(r, u, m, On(Gone, Gone, t))
        PROVE  LinksInv'
    <2>1. m \in Methods
      BY DEF Methods
    <2>2. QED
      BY <1>6, <2>1, StartLinks
  <1>7. ASSUME NEW d \in Destinations, NEW t \in Routes, Start(r, u, routes_retarget, On(Gone, d, t))
        PROVE  LinksInv'
    <2>1. routes_retarget \in Methods
      BY DEF Methods
    <2>2. QED
      BY <1>7, <2>1, StartLinks
  <1>8. ASSUME NEW m \in OnEvent, NEW e \in Events, Start(r, u, m, On(Gone, Gone, e))
        PROVE  LinksInv'
    <2>1. m \in Methods
      BY DEF Methods
    <2>2. QED
      BY <1>8, <2>1, StartLinks
  <1>9. ASSUME NEW m \in OnDelivery, NEW d \in Deliveries, Start(r, u, m, On(Gone, Gone, d))
        PROVE  LinksInv'
    <2>1. m \in Methods
      BY DEF Methods
    <2>2. QED
      BY <1>9, <2>1, StartLinks
  <1>10. /\ bots_create \in Methods /\ destinations_create \in Methods /\ routes_create \in Methods
         /\ Head(bots_create) = "insert" /\ Head(destinations_create) = "insert"
         /\ Head(routes_create) = "bot"
    BY TakenApart DEF Methods
  <1>11. ASSUME NEW b \in Bots, Start(r, u, bots_create, On(b, Gone, Gone))
         PROVE  LinksInv'
    BY <1>10, <1>11, StartLinks DEF Linking
  <1>12. ASSUME NEW d \in Destinations, Start(r, u, destinations_create, On(Gone, d, Gone))
         PROVE  LinksInv'
    BY <1>10, <1>12, StartLinks DEF Linking
  <1>13. ASSUME NEW b \in Bots, NEW d \in Destinations, NEW t \in Routes,
                Start(r, u, routes_create, On(b, d, t))
         PROVE  LinksInv'
    BY <1>10, <1>13, StartLinks DEF Linking
  <1>14. QED
    BY <1>3, <1>4, <1>5, <1>6, <1>7, <1>8, <1>9, <1>11, <1>12, <1>13 DEF Asked

------------------------------------------------------------------------------
\* The statements and events that change a table, and who has made what

\* Routes and deliveries lead to rows, whose ids are given out.
LEMMA LinkedAreThere ==
    ASSUME TablesInv, NewThings
    PROVE  /\ \A t \in Routes : route[t] # NoRoute =>
                 /\ route[t].bot \in Things \ fresh /\ There(route[t].bot)
                 /\ route[t].destination \in Things \ fresh /\ There(route[t].destination)
           /\ \A d \in Deliveries : delivery[d] # NoDelivery =>
                 /\ delivery[d].bot \in Things \ fresh /\ There(delivery[d].bot)
                 /\ delivery[d].destination # Gone =>
                       delivery[d].destination \in Things \ fresh /\ There(delivery[d].destination)
  <1>1. \A x \in Things : There(x) => x \notin fresh
    BY DEF NewThings, There
  <1>2. ASSUME NEW t \in Routes, route[t] # NoRoute
        PROVE  /\ route[t].bot \in Things /\ There(route[t].bot)
               /\ route[t].destination \in Things /\ There(route[t].destination)
    BY <1>2 DEF TablesInv, TablesType, Route, References, Things
  <1>3. ASSUME NEW d \in Deliveries, delivery[d] # NoDelivery
        PROVE  /\ delivery[d].bot \in Things /\ There(delivery[d].bot)
               /\ delivery[d].destination # Gone =>
                     delivery[d].destination \in Things /\ There(delivery[d].destination)
    <2>1. delivery[d] \in [event: Events, bot: Bots, destination: Destinations \cup {Gone}]
      BY <1>3 DEF TablesInv, TablesType, Delivery
    <2>2. delivery[d].bot = event[delivery[d].event] /\ delivery[d].bot # Gone
      BY <1>3, <2>1, ResourcesAssumption DEF TablesInv, References, Things
    <2>3. There(delivery[d].bot)
      BY <2>1, <2>2 DEF TablesInv, References
    <2>4. QED
      BY <1>3, <2>1, <2>3 DEF TablesInv, References, Things
  <1>4. QED
    BY <1>1, <1>2, <1>3

\* Once owners are crossed nothing more is claimed.
LEMMA LinksOfCrossing ==
    ASSUME Crossing(TRUE), NewThings'
    PROVE  TablesLink
  <1>1. crossed' = TRUE /\ creator' = [x \in Things |-> Gone]
    BY DEF Crossing
  <1>2. HistoryType'
    BY <1>1 DEF HistoryType
  <1>3. QED
    BY <1>1, <1>2 DEF TablesLink

LEMMA InsertLinks ==
    ASSUME ResourcesInv, ResourcesInv', LinksInv, NEW r \in Requests, insert(r)
    PROVE  LinksInv'
  <1> DEFINE q == request[r]
  <1>1. /\ q.todo # <<>> /\ Head(q.todo) = "insert" /\ At(q) /\ Within(q) /\ q \in Request
        /\ TablesInv
    BY DEF insert, Doing, ResourcesInv, RequestInv
  <1>2. CASE Refuse(r) /\ UNCHANGED tables
    BY <1>2, LinksOfUnchanged, RefuseLinks
  <1>3. CASE /\ Thing(r) \in fresh /\ fresh' = fresh \ {Thing(r)}
             /\ owner' = [owner EXCEPT ![Thing(r)] = q.actor]
             /\ creator' = [creator EXCEPT ![Thing(r)] = IF crossed THEN @ ELSE q.actor]
             /\ request' = Noted([request EXCEPT ![r] = After(r, {Thing(r)})], role, owner')
             /\ UNCHANGED <<role, route, event, delivery, crossed>>
    <2>1. /\ q.bot \in Bots \/ (q.bot = Gone /\ q.destination \in Destinations)
          /\ q.actor \in Users /\ q.actor # Gone
      BY <1>1, Places, ResourcesAssumption DEF Within
    <2>2. PICK x \in Things : x = Thing(r)
      BY <2>1, ResourcesAssumption DEF Thing, Things
    <2>3. /\ owner \in [Things -> Users \cup {Nobody, Gone}]
          /\ owner' = [owner EXCEPT ![x] = q.actor] /\ x \in fresh /\ fresh' = fresh \ {x}
      BY <1>1, <1>3, <2>2 DEF TablesInv, TablesType
    <2>4. \A y \in Things : y # x => owner'[y] = owner[y]
      BY <2>3
    <2>5. owner'[x] = q.actor
      BY <2>3
    <2>6. HistoryType /\ NewThings
      BY DEF LinksInv
    <2>7. /\ creator' \in [Things -> Users \cup {Gone}]
          /\ \A y \in Things : y # x => creator'[y] = creator[y]
          /\ ~crossed => creator'[x] = q.actor
      BY <1>3, <2>1, <2>2, <2>6 DEF HistoryType
    <2>8. HistoryType' /\ NewThings'
      BY <1>3, <2>3, <2>4, <2>6, <2>7 DEF HistoryType, NewThings
    <2>9. ASSUME ~crossed
          PROVE  Kept' /\ Joined' /\ MakersFollow
      <3>1. Kept'
        BY <1>3, <2>4, <2>5, <2>7, <2>9 DEF LinksInv, Kept, There
      <3>2. Joined'
        BY <1>1, <1>3, <2>3, <2>6, <2>7, <2>9, LinkedAreThere DEF LinksInv, Joined
      <3>3. MakersFollow
        BY <2>3, <2>4, <2>5, <2>7, <2>9 DEF MakersFollow, There
      <3>4. QED
        BY <3>1, <3>2, <3>3
    <2>10. TablesLink
      BY <1>3, <2>8, <2>9 DEF TablesLink
    <2>11. {x} \in SUBSET Things
      BY <2>2
    <2>12. request' = Noted([request EXCEPT ![r] = After(r, {x})], role', owner')
      BY <1>3, <2>2
    <2>13. QED
      BY <1>1, <2>10, <2>11, <2>12, AfterLinks DEF Words
  <1>4. QED
    BY <1>2, <1>3 DEF insert

LEMMA GiveLinks ==
    ASSUME ResourcesInv, ResourcesInv', LinksInv, NEW r \in Requests, NEW u \in Users, give(r, u)
    PROVE  LinksInv'
  <1> DEFINE q == request[r]
  <1>1. q.todo # <<>> /\ Head(q.todo) = "give" /\ At(q) /\ Crossing(TRUE)
    BY DEF give, Doing, ResourcesInv, RequestInv
  <1>2. PICK x \in Things : x = Thing(r)
    BY <1>1, Places, ReachedThing
  <1>3. owner \in [Things -> Users \cup {Nobody, Gone}] /\ NewThings
    BY DEF ResourcesInv, TablesInv, TablesType, LinksInv
  <1>4. owner' = [owner EXCEPT ![x] = IF @ = Gone THEN Gone ELSE u] /\ UNCHANGED fresh
    BY <1>2 DEF give
  <1>5. NewThings'
    BY <1>3, <1>4 DEF NewThings
  <1>6. TablesLink
    BY <1>1, <1>5, LinksOfCrossing
  <1>7. {x} \in SUBSET Things
    OBVIOUS
  <1>8. request' = Noted([request EXCEPT ![r] = After(r, {x})], role', owner')
    BY <1>2 DEF give
  <1>9. QED
    BY <1>1, <1>6, <1>7, <1>8, AfterLinks DEF Words

LEMMA ReassignLinks ==
    ASSUME ResourcesInv, ResourcesInv', LinksInv, NEW x \in Things, NEW u \in Users, Reassign(x, u)
    PROVE  LinksInv'
  <1>1. NewThings'
    BY DEF Reassign, ResourcesInv, TablesInv, TablesType, LinksInv, NewThings, There
  <1>2. TablesLink
    BY <1>1, LinksOfCrossing DEF Reassign
  <1>3. request' = Noted(request, role', owner')
    BY DEF Reassign
  <1>4. QED
    BY <1>2, <1>3, LinksOthers

LEMMA SetRoleLinks ==
    ASSUME ResourcesInv, ResourcesInv', LinksInv,
           NEW u \in Users, NEW to \in {"admin", "manager", "gone"}, SetRole(u, to)
    PROVE  LinksInv'
  <1>1. /\ TablesInv /\ Gone \notin Users /\ Nobody \notin Users /\ Nobody # Gone
        /\ HistoryType /\ NewThings
    BY ResourcesAssumption DEF ResourcesInv, LinksInv
  <1>2. /\ role[u] # "gone" /\ role' = [role EXCEPT ![u] = to]
        /\ role \in [Users -> {"admin", "manager", "gone"}]
        /\ UNCHANGED <<route, delivery, fresh, crossed, creator>>
    BY <1>1 DEF SetRole, TablesInv, TablesType, history
  <1>3. \A x \in Things : /\ to = "gone" /\ owner[x] = u => owner'[x] = Nobody
                          /\ ~(to = "gone" /\ owner[x] = u) => owner'[x] = owner[x]
    BY <1>1 DEF SetRole, TablesInv, TablesType
  <1>4. \A x \in Things : There(x)' <=> There(x)
    BY <1>1, <1>3 DEF There
  <1>5. HistoryType' /\ NewThings'
    BY <1>1, <1>2, <1>3 DEF HistoryType, NewThings
  <1>6. ASSUME ~crossed
        PROVE  Kept'
    <2>1. SUFFICES ASSUME NEW x \in Things, There(x)
                   PROVE  \/ owner'[x] = creator'[x]
                          \/ /\ owner'[x] = Nobody /\ creator'[x] \in Users
                             /\ role'[creator'[x]] = "gone"
      BY <1>4 DEF Kept
    <2>2. creator' = creator
      BY <1>2
    <2>3. CASE to = "gone" /\ owner[x] = u
      <3>1. creator[x] = u
        BY <1>1, <1>6, <2>1, <2>3 DEF LinksInv, Kept
      <3>2. role'[u] = "gone"
        BY <1>2, <2>3
      <3>3. QED
        BY <1>3, <2>2, <2>3, <3>1, <3>2
    <2>4. CASE ~(to = "gone" /\ owner[x] = u)
      <3>1. owner'[x] = owner[x]
        BY <1>3, <2>4
      <3>2. CASE owner[x] = creator[x]
        BY <2>2, <3>1, <3>2
      <3>3. CASE owner[x] = Nobody /\ creator[x] \in Users /\ role[creator[x]] = "gone"
        BY <1>2, <2>2, <3>1, <3>3
      <3>4. QED
        BY <1>6, <2>1, <3>2, <3>3 DEF LinksInv, Kept
    <2>5. QED
      BY <2>3, <2>4
  <1>7. Joined => Joined'
    BY <1>2 DEF Joined
  <1>8. MakersFollow
    BY <1>2, <1>4 DEF MakersFollow
  <1>9. TablesLink
    BY <1>2, <1>5, <1>6, <1>7, <1>8 DEF TablesLink, LinksInv
  <1>10. request' = Noted(request, role', owner')
    BY DEF SetRole
  <1>11. QED
    BY <1>9, <1>10, LinksOthers

\* ON DELETE of x: what is left leads where it led.
LEMMA LinksOfDropped ==
    ASSUME TablesInv, LinksInv, NEW x \in Things, Dropped(x)
    PROVE  TablesLink
  <1>1. /\ Gone \notin Things /\ Gone # Nobody /\ owner \in [Things -> Users \cup {Nobody, Gone}]
        /\ owner' = [owner EXCEPT ![x] = Gone]
        /\ UNCHANGED <<role, fresh, crossed, creator>>
    BY ResourcesAssumption DEF TablesInv, TablesType, Dropped, history
  <1>2. \A y \in Things : There(y)' => There(y) /\ owner'[y] = owner[y]
    BY <1>1 DEF There
  <1>3. HistoryType' /\ NewThings'
    BY <1>1 DEF LinksInv, HistoryType, NewThings
  <1>4. Kept => Kept'
    BY <1>1, <1>2 DEF Kept
  <1>5. Joined => Joined'
    <2>1. \A t \in Routes : route'[t] # NoRoute => route'[t] = route[t]
      BY DEF Dropped
    <2>2. ASSUME NEW d \in Deliveries, delivery'[d] # NoDelivery, delivery'[d].destination # Gone
          PROVE  delivery'[d] = delivery[d]
      <3>1. CASE delivery[d].bot = x
        BY <2>2, <3>1 DEF Dropped, CascadeDeliveries
      <3>2. CASE delivery[d].bot # x /\ delivery[d].destination = x
        <4>1. delivery'[d] = [delivery[d] EXCEPT !.destination = Gone]
          BY <3>2 DEF Dropped, CascadeDeliveries
        <4>2. delivery[d] \in [event: Events, bot: Bots, destination: Destinations \cup {Gone}]
          BY <1>1, <3>2 DEF TablesInv, TablesType, Delivery, NoDelivery
        <4>3. QED
          BY <2>2, <4>1, <4>2
      <3>3. CASE delivery[d].bot # x /\ delivery[d].destination # x
        BY <3>3 DEF Dropped, CascadeDeliveries
      <3>4. QED
        BY <3>1, <3>2, <3>3
    <2>3. QED
      BY <1>1, <2>1, <2>2 DEF Joined
  <1>6. MakersFollow
    BY <1>1, <1>2 DEF MakersFollow
  <1>7. QED
    BY <1>1, <1>3, <1>4, <1>5, <1>6 DEF TablesLink, LinksInv

LEMMA DropLinks ==
    ASSUME ResourcesInv, ResourcesInv', LinksInv, NEW r \in Requests, drop(r)
    PROVE  LinksInv'
  <1> DEFINE q == request[r]
  <1>1. q.todo # <<>> /\ Head(q.todo) = "drop" /\ At(q)
    BY DEF drop, Doing, ResourcesInv, RequestInv
  <1>2. PICK x \in Things : x = Thing(r)
    BY <1>1, Places, ReachedThing
  <1>3. TablesLink
    BY <1>2, LinksOfDropped DEF drop, ResourcesInv
  <1>4. {x} \in SUBSET Things /\ Does(r, After(r, {x}))
    BY <1>2 DEF drop
  <1>5. QED
    BY <1>1, <1>3, <1>4, AfterLinks DEF Words

LEMMA DropMeanwhileLinks ==
    ASSUME ResourcesInv, ResourcesInv', LinksInv, NEW x \in Things, DropMeanwhile(x)
    PROVE  LinksInv'
  BY LinksOfDropped, LinksOthers DEF DropMeanwhile, ResourcesInv

\* A route comes or changes: it joins what one user has made, or owners are crossed.
LEMMA LinksOfRoutes ==
    ASSUME TablesInv, LinksInv, UNCHANGED <<role, owner, delivery>>, fresh' \subseteq fresh,
           NEW t \in Routes, NEW rt \in Route, route' = [route EXCEPT ![t] = rt],
           NEW c \in BOOLEAN, Crossing(c),
           ~crossed /\ ~c => creator[rt.bot] = creator[rt.destination]
    PROVE  TablesLink
  <1>1. HistoryType /\ NewThings
    BY DEF LinksInv
  <1>2. /\ crossed' = (crossed \/ c)
        /\ crossed' => creator' = [x \in Things |-> Gone]
        /\ ~crossed' => creator' = creator
    BY DEF Crossing
  <1>3. HistoryType'
    BY <1>1, <1>2 DEF HistoryType
  <1>4. NewThings'
    BY <1>1 DEF NewThings
  <1>5. ASSUME ~crossed'
        PROVE  ~crossed /\ Kept' /\ Joined' /\ MakersFollow
    <2>1. ~crossed /\ ~c /\ creator' = creator
      BY <1>1, <1>2, <1>5 DEF HistoryType
    <2>2. Kept' /\ MakersFollow
      BY <2>1 DEF LinksInv, Kept, MakersFollow, There
    <2>3. \A s \in Routes : route'[s] = IF s = t THEN rt ELSE route[s]
      BY DEF TablesInv, TablesType
    <2>4. Joined'
      BY <2>1, <2>3 DEF LinksInv, Joined
    <2>5. QED
      BY <2>1, <2>2, <2>4
  <1>6. QED
    BY <1>3, <1>4, <1>5 DEF TablesLink

\* What a user without an administrator's role joins, he has made.
LEMMA MadeBoth ==
    ASSUME ResourcesInv, LinksInv, ~crossed, NEW r \in Requests, request[r].todo # <<>>,
           Head(request[r].todo) \in {"insert_route", "retarget"}, request[r].bot \in Bots,
           ~Crosses(request[r])
    PROVE  creator[request[r].bot] = creator[request[r].destination]
  <1> DEFINE q == request[r]
  <1>1. Made(q)
    BY DEF LinksInv, Meets
  <1>2. q.bot # Gone
    BY ResourcesAssumption DEF Things
  <1>3. QED
    BY <1>1, <1>2 DEF Made, Linking, Crosses

LEMMA InsertRouteLinks ==
    ASSUME ResourcesInv, ResourcesInv', LinksInv, NEW r \in Requests, insertRoute(r)
    PROVE  LinksInv'
  <1> DEFINE q == request[r]
  <1>1. /\ q.todo # <<>> /\ Head(q.todo) = "insert_route" /\ At(q) /\ TablesInv
        /\ UNCHANGED <<role, owner, event, delivery>>
    BY DEF insertRoute, Doing, ResourcesInv, RequestInv
  <1>2. q.item \in Routes /\ BotReached(q) /\ DestinationReached(q)
    BY <1>1, Places
  <1>3. CASE Refuse(r) /\ UNCHANGED <<route, fresh, history>>
    <2>1. UNCHANGED tables
      BY <1>1, <1>3 DEF tables
    <2>2. QED
      BY <1>3, <2>1, LinksOfUnchanged, RefuseLinks
  <1>4. CASE /\ route' = [route EXCEPT ![q.item] = [bot |-> q.bot, destination |-> q.destination]]
             /\ fresh' = fresh \ {q.item} /\ Crossing(Crosses(q))
             /\ Does(r, After(r, {q.bot, q.destination}))
    <2>1. PICK rt \in Route : rt = [bot |-> q.bot, destination |-> q.destination]
      BY <1>2 DEF Route, BotReached, DestinationReached
    <2>2. rt.bot = q.bot /\ rt.destination = q.destination
      BY <2>1
    <2>3. PICK t \in Routes : t = q.item
      BY <1>2
    <2>4. PICK c \in BOOLEAN : c = Crosses(q)
      <3>1. Crosses(q) \in BOOLEAN
        BY DEF Crosses, ResourcesInv, RequestInv, Request
      <3>2. QED
        BY <3>1
    <2>5. ~crossed /\ ~c => creator[rt.bot] = creator[rt.destination]
      BY <1>1, <1>2, <2>2, <2>4, MadeBoth DEF BotReached
    <2>6. TablesLink
      BY <1>1, <1>4, <2>1, <2>3, <2>4, <2>5, LinksOfRoutes
    <2>7. PICK did \in SUBSET Things : did = {q.bot, q.destination}
      BY <1>2 DEF BotReached, DestinationReached, Things
    <2>8. QED
      BY <1>1, <1>4, <2>6, <2>7, AfterLinks DEF Words
  <1>5. QED
    BY <1>3, <1>4 DEF insertRoute

LEMMA WriteRouteLinks ==
    ASSUME ResourcesInv, ResourcesInv', LinksInv, NEW r \in Requests,
           writeRoute(r, "write_route") \/ writeRoute(r, "retarget")
    PROVE  LinksInv'
  <1> DEFINE q == request[r]
             t == route[q.item]
  <1>1. /\ q.todo # <<>> /\ Head(q.todo) \in {"write_route", "retarget"} /\ At(q)
        /\ TablesInv /\ UNCHANGED <<role, owner, event, delivery, fresh>>
    BY DEF writeRoute, Doing, ResourcesInv, RequestInv
  <1>2. /\ RouteKnown(q) /\ BotReached(q)
        /\ Head(q.todo) = "retarget" => DestinationReached(q)
    <2>1. CASE Head(q.todo) = "write_route"
      BY <1>1, <2>1, Places
    <2>2. CASE Head(q.todo) = "retarget"
      BY <1>1, <2>2, Places
    <2>3. QED
      BY <1>1, <2>1, <2>2
  <1>3. t # NoRoute => t.bot = q.bot
    <2>1. t # NoRoute => t.bot # Gone
      BY <1>1, <1>2, ResourcesAssumption DEF RouteKnown, TablesInv, TablesType, Route, Things
    <2>2. QED
      BY <1>2, <2>1 DEF RouteKnown
  <1>4. UNCHANGED <<route, history>> => TablesLink
    BY <1>1, LinksOfUnchanged DEF tables
  <1>5. CASE UNCHANGED <<route, history>> /\ Refuse(r)
    BY <1>4, <1>5, RefuseLinks
  <1>6. CASE UNCHANGED <<route, history>> /\ Does(r, After(r, {}))
    <2>1. {} \in SUBSET Things
      OBVIOUS
    <2>2. QED
      BY <1>1, <1>4, <1>6, <2>1, AfterLinks DEF Words
  <1>7. CASE UNCHANGED <<route, history>> /\ t # NoRoute /\ Does(r, After(r, {t.bot}))
    <2>1. PICK did \in SUBSET Things : did = {t.bot}
      BY <1>2, <1>3, <1>7 DEF BotReached, Things
    <2>2. QED
      BY <1>1, <1>4, <1>7, <2>1, AfterLinks DEF Words
  <1>8. CASE /\ t # NoRoute /\ Head(q.todo) = "retarget"
             /\ route' = [route EXCEPT ![q.item].destination = q.destination]
             /\ Crossing(Crosses(q)) /\ Does(r, After(r, {t.bot, q.destination}))
    <2>1. q.destination \in Destinations /\ q.bot \in Bots
      BY <1>2, <1>8 DEF DestinationReached, BotReached
    <2>2. PICK s \in Routes : s = q.item
      BY <1>2 DEF RouteKnown
    <2>3. route[s] \in [bot: Bots, destination: Destinations] /\ route \in [Routes -> Route]
      BY <1>1, <1>8, <2>2 DEF TablesInv, TablesType, Route
    <2>4. PICK rt : rt = [route[s] EXCEPT !.destination = q.destination]
      OBVIOUS
    <2>5. rt \in Route /\ rt.bot = route[s].bot /\ rt.destination = q.destination
      BY <2>1, <2>3, <2>4 DEF Route
    <2>6. route' = [route EXCEPT ![s] = rt]
      BY <1>8, <2>2, <2>4
    <2>7. PICK c \in BOOLEAN : c = Crosses(q)
      <3>1. Crosses(q) \in BOOLEAN
        BY DEF Crosses, ResourcesInv, RequestInv, Request
      <3>2. QED
        BY <3>1
    <2>8. ~crossed /\ ~c => creator[rt.bot] = creator[rt.destination]
      BY <1>1, <1>3, <1>8, <2>1, <2>2, <2>5, <2>7, MadeBoth
    <2>9. TablesLink
      BY <1>1, <1>8, <2>5, <2>6, <2>7, <2>8, LinksOfRoutes
    <2>10. PICK did \in SUBSET Things : did = {t.bot, q.destination}
      BY <1>3, <1>8, <2>1 DEF Things
    <2>11. QED
      BY <1>1, <1>8, <2>9, <2>10, AfterLinks DEF Words
  <1>9. QED
    <2>1. CASE writeRoute(r, "write_route")
      BY <1>6, <1>7, <2>1 DEF writeRoute
    <2>2. CASE writeRoute(r, "retarget")
      <3>1. Head(q.todo) = "retarget"
        BY <2>2 DEF writeRoute, Doing
      <3>2. QED
        BY <1>5, <1>6, <1>8, <2>2, <3>1 DEF writeRoute
    <2>3. QED
      BY <2>1, <2>2

LEMMA DropRouteLinks ==
    ASSUME ResourcesInv, ResourcesInv', LinksInv, NEW r \in Requests, dropRoute(r)
    PROVE  LinksInv'
  <1> DEFINE q == request[r]
  <1>1. /\ q.todo # <<>> /\ Head(q.todo) = "drop_route" /\ At(q) /\ TablesInv
        /\ UNCHANGED <<role, owner, event, delivery, fresh, history>>
    BY DEF dropRoute, Doing, ResourcesInv, RequestInv
  <1>2. RouteKnown(q) /\ BotReached(q)
    BY <1>1, Places
  <1>3. PICK t \in Routes : t = q.item /\ route[t].bot \in {Gone, q.bot}
    BY <1>2 DEF RouteKnown
  <1>4. Joined => Joined'
    <2>1. \A s \in Routes : route'[s] # NoRoute => route'[s] = route[s]
      BY <1>1, <1>3 DEF dropRoute, TablesInv, TablesType
    <2>2. UNCHANGED <<delivery, creator>>
      BY <1>1 DEF history
    <2>3. QED
      BY <2>1, <2>2 DEF Joined
  <1>5. fresh' \subseteq fresh
    BY <1>1
  <1>6. TablesLink
    BY <1>1, <1>4, <1>5, LinksOfTables
  <1>7. PICK did \in SUBSET Things : did = {route[t].bot} \ {Gone}
    BY <1>2, <1>3 DEF BotReached, Things
  <1>8. Does(r, After(r, did))
    BY <1>3, <1>7 DEF dropRoute
  <1>9. QED
    BY <1>1, <1>6, <1>7, <1>8, AfterLinks DEF Words

LEMMA StoreTestLinks ==
    ASSUME ResourcesInv, ResourcesInv', LinksInv, NEW r \in Requests, NEW e \in Events,
           storeTest(r, e)
    PROVE  LinksInv'
  <1> DEFINE q == request[r]
             a == After(r, {q.bot})
             p == [a EXCEPT !.item = e]
  <1>1. /\ q.todo # <<>> /\ Head(q.todo) = "store" /\ At(q) /\ fresh' \subseteq fresh
        /\ UNCHANGED <<role, owner, route, delivery, history>>
    BY DEF storeTest, Doing, ResourcesInv, RequestInv
  <1>2. TablesLink
    <2>1. Joined => Joined'
      BY <1>1 DEF Joined, history
    <2>2. QED
      BY <1>1, <2>1, LinksOfTables
  <1>3. CASE Refuse(r)
    BY <1>2, <1>3, RefuseLinks
  <1>4. CASE Does(r, p)
    <2>1. BotReached(q)
      BY <1>1, Places
    <2>2. {q.bot} \in SUBSET Things
      BY <2>1 DEF BotReached, Things
    <2>3. /\ a \in Request /\ a.todo = Tail(q.todo) /\ a.actor = q.actor /\ a.mine = q.mine
          /\ a.bot = q.bot /\ a.via = q.via /\ a.through = q.through
      BY <1>1, <2>2, AfterIs DEF ResourcesInv, RequestInv
    <2> HIDE DEF a
    <2>4. /\ p \in Request /\ p.todo = Tail(q.todo) /\ p.actor = q.actor /\ p.mine = q.mine
          /\ p.bot = q.bot /\ p.via = q.via /\ p.through = q.through
      BY <2>3 DEF Request
    <2> HIDE DEF p
    <2>5. ASSUME ~crossed
          PROVE  Meets(p)
      <3>1. Meets(q)
        BY <2>5 DEF LinksInv
      <3>2. Quiet(p)
        BY <1>1, <2>4, QuietRest DEF Quiet, Words
      <3>3. Through(p)
        BY <2>4, <3>1 DEF Meets, Through
      <3>4. QED
        BY <2>4, <3>1, <3>2, <3>3, MeetsAlong
    <2>6. QED
      BY <1>2, <1>4, <2>4, <2>5, LinksMove
  <1>5. QED
    BY <1>3, <1>4 DEF storeTest

\* A delivery comes that leads from a bot to a destination of the same maker, or nowhere.
LEMMA LinksOfDelivery ==
    ASSUME TablesInv, LinksInv, UNCHANGED <<role, owner, route, history>>, fresh' \subseteq fresh,
           NEW d \in Deliveries, NEW e \in Events, NEW b \in Bots, NEW h \in Destinations \cup {Gone},
           delivery' = [delivery EXCEPT ![d] = [event |-> e, bot |-> b, destination |-> h]],
           ~crossed /\ h # Gone => creator[b] = creator[h]
    PROVE  TablesLink
  <1>1. UNCHANGED <<role, owner, route, crossed, creator>>
    BY DEF history
  <1>2. \A c \in Deliveries :
           delivery'[c] = IF c = d THEN [event |-> e, bot |-> b, destination |-> h] ELSE delivery[c]
    BY DEF TablesInv, TablesType
  <1>3. CASE crossed
    <2>1. HistoryType' /\ NewThings'
      BY <1>1 DEF LinksInv, HistoryType, NewThings
    <2>2. QED
      BY <1>1, <1>3, <2>1 DEF TablesLink
  <1>4. CASE ~crossed
    <2>1. Joined => Joined'
      BY <1>1, <1>2, <1>4 DEF Joined
    <2>2. QED
      BY <2>1, LinksOfTables
  <1>5. QED
    BY <1>3, <1>4

LEMMA EnqueueLinks ==
    ASSUME ResourcesInv, ResourcesInv', LinksInv, NEW r \in Requests, enqueue(r)
    PROVE  LinksInv'
  <1> DEFINE q == request[r]
  <1>1. /\ q.todo # <<>> /\ Head(q.todo) = "enqueue" /\ At(q) /\ TablesInv /\ q \in Request
        /\ UNCHANGED <<role, owner, route, event, history>>
    BY DEF enqueue, Doing, ResourcesInv, RequestInv
  <1>2. EventKnown(q) /\ BotReached(q)
    BY <1>1, Places
  <1>3. PICK b \in Bots : b = q.bot /\ b \in Things /\ b \in q.mine
    BY <1>2 DEF BotReached, Things
  <1>4. {b} \in SUBSET Things
    BY <1>3
  <1>5. CASE Does(r, After(r, {q.bot})) /\ UNCHANGED <<delivery, fresh>>
    <2>1. TablesLink
      BY <1>1, <1>5, LinksOfUnchanged DEF tables
    <2>2. QED
      BY <1>1, <1>3, <1>4, <1>5, <2>1, AfterLinks DEF Words
  <1>6. CASE \E d \in Deliveries, h \in Destinations :
                /\ Queued(d, q.item, q.bot, h) /\ fresh' = fresh \ {d}
                /\ Does(r, Along(r, {q.bot}, {h}))
    <2>1. PICK d \in Deliveries, h \in Destinations :
             /\ Queued(d, q.item, b, h) /\ fresh' = fresh \ {d}
             /\ Does(r, Along(r, {b}, {h}))
      BY <1>3, <1>6
    <2>2. PICK t \in Routes :
             /\ route[t].bot = b /\ route[t].destination = h
             /\ delivery' = [delivery EXCEPT ![d] =
                               [event |-> q.item, bot |-> b, destination |-> h]]
      BY <2>1 DEF Queued
    <2>3. ~crossed => creator[b] = creator[h]
      <3>1. route[t] # NoRoute
        BY <2>2, ResourcesAssumption DEF NoRoute, Things
      <3>2. QED
        BY <2>2, <3>1 DEF LinksInv, Joined
    <2>4. q.item \in Events /\ fresh' \subseteq fresh /\ h \in Destinations \cup {Gone}
      BY <1>2, <2>1 DEF EventKnown
    <2>5. TablesLink
      BY <1>1, <2>2, <2>3, <2>4, LinksOfDelivery
    <2>6. ASSUME ~crossed
          PROVE  {h} \ {Gone} \subseteq q.mine
      <3>1. Meets(q)
        BY <2>6 DEF LinksInv
      <3>2. QED
        BY <1>1, <1>3, <2>2, <2>6, <3>1, EndsReached
    <2>7. {h} \in Ends
      BY DEF Ends
    <2>8. QED
      BY <1>1, <1>4, <2>1, <2>5, <2>6, <2>7, AlongLinks DEF Words
  <1>7. QED
    BY <1>5, <1>6 DEF enqueue

LEMMA InsertReplayLinks ==
    ASSUME ResourcesInv, ResourcesInv', LinksInv, NEW r \in Requests, NEW d \in Deliveries,
           insertReplay(r, d)
    PROVE  LinksInv'
  <1> DEFINE q == request[r]
             a == Along(r, {q.bot}, {q.via})
             p == [a EXCEPT !.item = d]
  <1>1. /\ q.todo # <<>> /\ Head(q.todo) = "insert_replay" /\ At(q) /\ TablesInv /\ q \in Request
        /\ UNCHANGED <<role, owner, route, event, history>>
    BY DEF insertReplay, Doing, ResourcesInv, RequestInv
  <1>2. EventKnown(q) /\ BotReached(q)
    BY <1>1, Places
  <1>3. CASE Refuse(r) /\ UNCHANGED <<delivery, fresh>>
    <2>1. TablesLink
      BY <1>1, <1>3, LinksOfUnchanged DEF tables
    <2>2. QED
      BY <1>3, <2>1, RefuseLinks
  <1>4. CASE /\ delivery' = [delivery EXCEPT ![d] =
                   [event |-> q.item, bot |-> q.bot, destination |-> q.via]]
             /\ fresh' = fresh \ {d} /\ Does(r, p)
    <2>1. PICK b \in Bots : b = q.bot /\ b \in q.mine
      BY <1>2 DEF BotReached
    <2>2. PICK h \in Destinations \cup {Gone} : h = q.via
      BY <1>1 DEF Request
    <2>3. ~crossed /\ h # Gone => creator[b] = creator[h]
      BY <2>1, <2>2 DEF LinksInv, Meets, ViaKnown
    <2>4. q.item \in Events /\ fresh' \subseteq fresh
      BY <1>2, <1>4 DEF EventKnown
    <2>5. TablesLink
      BY <1>1, <1>4, <2>1, <2>2, <2>3, <2>4, LinksOfDelivery
    <2>6. {b} \in SUBSET Things /\ {h} \in Ends
      BY DEF Ends, Things
    <2>7. /\ a \in Request /\ a.todo = Tail(q.todo) /\ a.actor = q.actor /\ a.mine = q.mine
          /\ a.bot = q.bot /\ a.via = q.via
      BY <1>1, <2>1, <2>2, <2>6, AlongIs DEF ResourcesInv, RequestInv
    <2>8. a.through = q.through \cup ({h} \ {Gone})
      BY <1>1, <2>1, <2>2, <2>6, AlongThrough DEF ResourcesInv, RequestInv
    <2> HIDE DEF a
    <2>9. /\ p \in Request /\ p.todo = Tail(q.todo) /\ p.actor = q.actor /\ p.mine = q.mine
          /\ p.bot = q.bot /\ p.via = q.via /\ p.through = a.through
      BY <2>7 DEF Request
    <2> HIDE DEF p
    <2>10. ASSUME ~crossed
           PROVE  Meets(p)
      <3>1. Meets(q)
        BY <2>10 DEF LinksInv
      <3>2. Quiet(p)
        BY <1>1, <2>9, QuietRest DEF Quiet, Words
      <3>3. {q.via} \ {Gone} \subseteq q.mine
        BY <1>1, <2>1, <3>1, ViaReached
      <3>4. Through(p)
        BY <2>2, <2>8, <2>9, <3>1, <3>3 DEF Meets, Through
      <3>5. QED
        BY <2>9, <3>1, <3>2, <3>4, MeetsAlong
    <2>11. QED
      BY <1>4, <2>5, <2>9, <2>10, LinksMove
  <1>5. QED
    BY <1>3, <1>4 DEF insertReplay

LEMMA ReceiveLinks ==
    ASSUME ResourcesInv, ResourcesInv', LinksInv,
           NEW e \in Events, NEW b \in Bots, NEW d \in Deliveries, Receive(e, b, d)
    PROVE  LinksInv'
  <1>1. PICK h \in Destinations, t \in Routes :
           /\ route[t].bot = b /\ route[t].destination = h
           /\ delivery' = [delivery EXCEPT ![d] = [event |-> e, bot |-> b, destination |-> h]]
    BY DEF Receive, Queued
  <1>2. ~crossed => creator[b] = creator[h]
    <2>1. route[t] # NoRoute
      BY <1>1, ResourcesAssumption DEF NoRoute, Things
    <2>2. QED
      BY <1>1, <2>1 DEF LinksInv, Joined
  <1>3. /\ UNCHANGED <<role, owner, route, history>> /\ UNCHANGED request
        /\ fresh' \subseteq fresh /\ h \in Destinations \cup {Gone} /\ TablesInv
    BY DEF Receive, ResourcesInv
  <1>4. TablesLink
    BY <1>1, <1>2, <1>3, LinksOfDelivery
  <1>5. QED
    BY <1>3, <1>4, LinksOthers

LEMMA PurgeLinks ==
    ASSUME ResourcesInv, ResourcesInv', LinksInv, NEW e \in Events, Purge(e)
    PROVE  LinksInv'
  <1>1. \A d \in Deliveries : delivery'[d] # NoDelivery => delivery'[d] = delivery[d]
    BY DEF Purge
  <1>2. UNCHANGED <<role, owner, history>> /\ UNCHANGED <<route, creator, request, fresh>>
    BY DEF Purge, history
  <1>3. Joined => Joined'
    BY <1>1, <1>2 DEF Joined
  <1>4. fresh' \subseteq fresh
    BY <1>2
  <1>5. TablesLink
    BY <1>2, <1>3, <1>4, LinksOfTables
  <1>6. QED
    BY <1>2, <1>5, LinksOthers

------------------------------------------------------------------------------
\* The theorems

\* Nothing is there but the owned bots and destinations, and nobody asks for anything.
LEMMA Begins == Init => ResourcesInv
  <1> SUFFICES ASSUME Init PROVE ResourcesInv
    OBVIOUS
  <1>1. TablesType
    BY DEF Init, TablesType, Route, Delivery
  <1>2. OwnersThere
    BY DEF Init, OwnersThere
  <1>3. Unused /\ References
    BY DEF Init, Unused, References
  <1>4. RequestInv
    BY IdleIs DEF Init, RequestInv
  <1>5. QED
    BY <1>1, <1>2, <1>3, <1>4 DEF ResourcesInv, TablesInv

LEMMA GuardedKeeps ==
    ASSUME ResourcesInv, NEW r \in Requests, Guarded(r)
    PROVE  ResourcesInv'
  <1>1. ASSUME NEW e \in Events, e = request[r].item, readWithBot(r, "event", event[e], Gone)
        PROVE  ResourcesInv'
    <2>1. event[e] \in Bots \cup {Gone}
      BY DEF ResourcesInv, TablesInv, TablesType
    <2>2. QED
      BY <1>1, <2>1, ReadWithBotKeeps
  <1>2. ASSUME NEW d \in Deliveries, readWithBot(r, "delivery", delivery[d].bot, delivery[d].destination)
        PROVE  ResourcesInv'
    <2>1. delivery[d].bot \in Bots \cup {Gone} /\ delivery[d].destination \in Destinations \cup {Gone}
      BY DEF ResourcesInv, TablesInv, TablesType, Delivery, NoDelivery
    <2>2. QED
      BY <1>2, <2>1, ReadWithBotKeeps
  <1>3. QED
    BY <1>1, <1>2, GuardKeeps, AdminOnlyKeeps, ReadRouteKeeps, ReadEventKeeps, ReadOriginalKeeps
       DEF Guarded

\* Every statement of every method, and what happens beside them, keeps the invariant.
LEMMA StepKeeps == ResourcesInv /\ [Next]_vars => ResourcesInv'
  <1> SUFFICES ASSUME ResourcesInv, [Next]_vars PROVE ResourcesInv'
    OBVIOUS
  <1>1. ASSUME NEW r \in Requests, NEW u \in Users, Asked(r, u)
        PROVE  ResourcesInv'
    BY <1>1, AskedKeeps
  <1>2. ASSUME NEW r \in Requests, Guarded(r)
        PROVE  ResourcesInv'
    BY <1>2, GuardedKeeps
  <1>3. ASSUME NEW r \in Requests, Reads(r)
        PROVE  ResourcesInv'
    BY <1>3, ShowKeeps, ReadScopeKeeps, ReadRowsKeeps, ListKeeps DEF Reads
  <1>4. ASSUME NEW r \in Requests, Writes(r)
        PROVE  ResourcesInv'
    BY <1>4, InsertKeeps, WriteKeeps, DropKeeps, GiveKeeps, InsertRouteKeeps, WriteRouteKeeps,
       DropRouteKeeps, StoreTestKeeps, EnqueueKeeps, InsertReplayKeeps DEF Writes
  <1>5. ASSUME NEW r \in Requests, Answer(r)
        PROVE  ResourcesInv'
    BY <1>5, AnswerKeeps
  <1>6. ASSUME Meanwhile
        PROVE  ResourcesInv'
    BY <1>6, SetRoleKeeps, DropMeanwhileKeeps, ReassignKeeps, PurgeKeeps, ReceiveKeeps DEF Meanwhile
  <1>7. CASE UNCHANGED vars
    <2>1. UNCHANGED tables /\ UNCHANGED request
      BY <1>7 DEF vars, tables
    <2>2. QED
      BY <2>1, TablesStay, RequestsStay DEF ResourcesInv
  <1>8. QED
    BY <1>1, <1>2, <1>3, <1>4, <1>5, <1>6, <1>7 DEF Next

LEMMA ResourcesInvariant == Spec => []ResourcesInv
  BY Begins, StepKeeps, PTL DEF Spec

\* At first everything is its maker's, and nothing is joined.
LEMMA LinksBegin == Init => LinksInv
  <1> SUFFICES ASSUME Init PROVE LinksInv
    OBVIOUS
  <1>1. HistoryType
    BY DEF Init, HistoryType
  <1>2. NewThings
    BY ResourcesAssumption DEF Init, NewThings, Things
  <1>3. Kept
    BY DEF Init, Kept, There
  <1>4. Joined
    BY DEF Init, Joined
  <1>5. PICK q \in Request : q = Idle
    BY IdleIs
  <1>6. /\ q.todo = <<>> /\ q.actor = Nobody /\ q.via = Gone /\ q.through = {} /\ q.mine = {}
    BY <1>5 DEF Idle
  <1>7. \A x \in Things : creator[x] # Nobody
    BY <1>1, ResourcesAssumption DEF HistoryType
  <1>8. Meets(q)
    BY <1>6, <1>7 DEF Meets, Through, OwnOnly, HasOwn, ViaKnown, Made
  <1>9. \A r \in Requests : request[r] = q
    BY <1>5 DEF Init
  <1>10. QED
    BY <1>1, <1>2, <1>3, <1>4, <1>8, <1>9 DEF LinksInv

LEMMA GuardedLinks ==
    ASSUME ResourcesInv, ResourcesInv', LinksInv, NEW r \in Requests, Guarded(r)
    PROVE  LinksInv'
  <1>1. ASSUME NEW e \in Events, readWithBot(r, "event", event[e], Gone)
        PROVE  LinksInv'
    <2>1. event[e] \in Bots \cup {Gone}
      BY DEF ResourcesInv, TablesInv, TablesType
    <2>2. QED
      BY <1>1, <2>1, ReadWithBotLinks
  <1>2. ASSUME NEW d \in Deliveries, readWithBot(r, "delivery", delivery[d].bot, delivery[d].destination)
        PROVE  LinksInv'
    <2>1. delivery[d].bot \in Bots \cup {Gone} /\ delivery[d].destination \in Destinations \cup {Gone}
      BY DEF ResourcesInv, TablesInv, TablesType, Delivery, NoDelivery
    <2>2. delivery[d].bot # Gone \/ delivery[d].destination # Gone => delivery[d] # NoDelivery
      BY DEF NoDelivery
    <2>3. delivery[d].destination # Gone => There(delivery[d].destination)
      BY <2>2 DEF ResourcesInv, TablesInv, References
    <2>4. ~crossed /\ delivery[d].bot # Gone /\ delivery[d].destination # Gone =>
             creator[delivery[d].bot] = creator[delivery[d].destination]
      BY <2>2 DEF LinksInv, Joined
    <2>5. QED
      BY <1>2, <2>1, <2>3, <2>4, ReadWithBotLinks
  <1>3. QED
    BY <1>1, <1>2, GuardLinks, StillLinks, ReadRouteLinks, ReadOriginalLinks DEF Guarded

\* Every step keeps joined what one user has made, until an administrator crosses owners.
LEMMA StepLinks == ResourcesInv /\ ResourcesInv' /\ LinksInv /\ [Next]_vars => LinksInv'
  <1> SUFFICES ASSUME ResourcesInv, ResourcesInv', LinksInv, [Next]_vars PROVE LinksInv'
    OBVIOUS
  <1>1. ASSUME NEW r \in Requests, NEW u \in Users, Asked(r, u)
        PROVE  LinksInv'
    BY <1>1, AskedLinks
  <1>2. ASSUME NEW r \in Requests, Guarded(r)
        PROVE  LinksInv'
    BY <1>2, GuardedLinks
  <1>3. ASSUME NEW r \in Requests, Reads(r)
        PROVE  LinksInv'
    BY <1>3, ShowLinks, ListRoutesLinks, ReadScopeLinks, ReadRowsLinks, StillLinks DEF Reads
  <1>4. ASSUME NEW r \in Requests, Writes(r)
        PROVE  LinksInv'
    BY <1>4, InsertLinks, StillLinks, DropLinks, GiveLinks, InsertRouteLinks, WriteRouteLinks,
       DropRouteLinks, StoreTestLinks, EnqueueLinks, InsertReplayLinks DEF Writes
  <1>5. ASSUME NEW r \in Requests, Answer(r)
        PROVE  LinksInv'
    BY <1>5, AnswerLinks
  <1>6. ASSUME Meanwhile
        PROVE  LinksInv'
    BY <1>6, SetRoleLinks, DropMeanwhileLinks, ReassignLinks, PurgeLinks, ReceiveLinks DEF Meanwhile
  <1>7. CASE UNCHANGED vars
    <2>1. UNCHANGED tables /\ UNCHANGED request
      BY <1>7 DEF vars, tables
    <2>2. QED
      BY <2>1, LinksOfUnchanged, LinksOthers
  <1>8. QED
    BY <1>1, <1>2, <1>3, <1>4, <1>5, <1>6, <1>7 DEF Next

LEMMA LinksInvariant == Spec => []LinksInv
  BY LinksBegin, StepLinks, ResourcesInvariant, PTL DEF Spec

\* Tables and requests have their types, and no row is owned by a user who is gone.
THEOREM ResourcesTypeCorrect == Spec => []TypeOK
  <1>1. ResourcesInv /\ LinksInv => TypeOK
    <2> SUFFICES ASSUME ResourcesInv, LinksInv PROVE TypeOK
      OBVIOUS
    <2>1. TablesType /\ OwnersThere
      BY DEF ResourcesInv, TablesInv
    <2>2. \A r \in Requests : request[r] \in Request
      BY DEF ResourcesInv, RequestInv
    <2>3. HistoryType
      BY DEF LinksInv
    <2>4. QED
      BY <2>1, <2>2, <2>3 DEF TypeOK, TablesType, OwnersThere, HistoryType, Request
  <1>2. QED
    BY <1>1, ResourcesInvariant, LinksInvariant, PTL

\* The bots a request shows, changes or uses, and the destinations it does by their own
\* id, were within its actor's reach during the request, however many requests overlap and
\* whatever changes under them (assertAccess, accessibleBotIds).  The destinations it
\* shows or sends to as the ends of routes and deliveries were, as long as no
\* administrator has routed across owners or reassigned anything.
THEOREM NothingBeyondReach == Spec => []WithinReach
  <1>1. ResourcesInv /\ LinksInv => WithinReach
    BY DEF ResourcesInv, RequestInv, Within, LinksInv, Meets, Through, WithinReach
  <1>2. QED
    BY <1>1, ResourcesInvariant, LinksInvariant, PTL

\* Routes lead from bots to destinations that are there; deliveries are of their event's
\* bot, however tests, replays, deletions and the retention overlap (schema.ts).
THEOREM ReferencesHold == Spec => []References
  <1>1. ResourcesInv => References
    BY DEF ResourcesInv, TablesInv
  <1>2. QED
    BY <1>1, ResourcesInvariant, PTL

==============================================================================
