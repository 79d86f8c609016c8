----------------------------- MODULE IngestProofs -----------------------------
(***************************************************************************)
(* Proofs about Ingest: the tables and the requests fit together, Telegram *)
(* forgets only what the gateway keeps, an update is lost by a failure or a*)
(* deletion only, and Ingest implements Intake.  The last section is about *)
(* the operators of Routing: classifier, samples and matching.             *)
(***************************************************************************)
EXTENDS Ingest, WellFoundedInduction, TLAPS

\* The phases of a request whose event is stored.
Working == {"matching", "loading", "saving"}

\* q works on an update that it has stored itself.
Fans(q) == request[q].kind # "replay" /\ request[q].phase \in Working

------------------------------------------------------------------------------
\* The inductive invariant

\* Only Telegram's requests are about Telegram's updates by definition; a replay
\* stores nothing.
KindsHonest ==
    \A q \in Requests : /\ request[q].kind = "webhook" => request[q].update \in Updates
                        /\ request[q].phase = "storing" => request[q].kind # "replay"

\* What is worked on is in the table, unless the bot took it along.
WorkIsStored ==
    \A q \in Requests : request[q].phase \in Working =>
        request[q].update \in events \/ bot = "gone"

\* A delivery is of the update of the request that made it, and that one is over.
DeliveredByItsRequest ==
    \A d \in deliveries : /\ request[d.by].phase = "accepted"
                          /\ request[d.by].update = d.update

\* The unique index: at most one request has stored an update and works on it.
OneFans ==
    \A p, q \in Requests :
        Fans(p) /\ Fans(q) /\ request[p].update = request[q].update => p = q

\* Without a failure or a deletion every stored update is on its way or through.
OnItsWay ==
    Undisturbed => \A u \in events : \E q \in Requests :
        /\ request[q].update = u /\ request[q].kind # "replay"
        /\ request[q].phase \in Working \cup Taken

IngestInv ==
    /\ TypeOK
    /\ KindsHonest
    /\ WorkIsStored
    /\ AcknowledgedIsKept
    /\ DeliveredByItsRequest
    /\ OneFans
    /\ OnItsWay

------------------------------------------------------------------------------
\* What a step does to the requests and to Telegram

\* Request q goes on to this phase; it stays about the same update.
Moves(q, phase) ==
    /\ request' \in [Requests -> Request]
    /\ \A x \in Requests \ {q} : request'[x] = request[x]
    /\ request'[q].kind = request[q].kind
    /\ request'[q].update = request[q].update
    /\ request'[q].phase = phase

\* Telegram may take the update of q for done if the answer is a 200.
Hears(q, answer) ==
    /\ telegram' \in [Updates -> {"pending", "acknowledged"}]
    /\ \A u \in Updates :
        \/ telegram'[u] = telegram[u]
        \/ u = request[q].update /\ request[q].kind = "webhook" /\ answer \in Ok

LEMMA ReplyMoves ==
    ASSUME TypeOK, NEW q \in Requests, NEW answer \in Settled, Reply(q, answer)
    PROVE  Moves(q, answer) /\ Hears(q, answer)
  <1>1. request[q] \in Request /\ request \in [Requests -> Request]
    BY DEF TypeOK
  <1>2. request' = [request EXCEPT ![q].phase = answer]
    BY DEF Reply
  <1>3. request'[q] = [request[q] EXCEPT !.phase = answer]
    BY <1>1, <1>2
  <1>4. request'[q] \in Request
    BY <1>1, <1>3 DEF Request
  <1>5. Moves(q, answer)
    BY <1>1, <1>2, <1>3, <1>4 DEF Moves, Request
  <1>6. Hears(q, answer)
    <2>1. telegram \in [Updates -> {"pending", "acknowledged"}]
      BY DEF TypeOK
    <2>2. CASE request[q].kind = "webhook" /\ answer \in Ok
      BY <2>1, <2>2 DEF Reply, Hears
    <2>3. CASE ~(request[q].kind = "webhook" /\ answer \in Ok)
      BY <2>1, <2>3 DEF Reply, Hears
    <2>4. QED
      BY <2>2, <2>3
  <1>7. QED
    BY <1>5, <1>6

\* A request whose phase and targets change moves.
LEMMA PhaseMoves ==
    ASSUME TypeOK, NEW q \in Requests, NEW phase \in Working, NEW targets \in SUBSET Target,
           request' = [request EXCEPT ![q].phase = phase, ![q].targets = targets]
    PROVE  Moves(q, phase)
  <1>1. request[q] \in Request /\ request \in [Requests -> Request]
    BY DEF TypeOK
  <1>2. request'[q] = [request[q] EXCEPT !.phase = phase, !.targets = targets]
    BY <1>1
  <1>3. request'[q] \in Request
    BY <1>1, <1>2 DEF Request, Working, InHand
  <1>4. QED
    BY <1>1, <1>2, <1>3 DEF Moves, Request

------------------------------------------------------------------------------
\* Steps of one request

\* A request in hand is over, with an answer that says taken only if nothing went wrong.
LEMMA EndKeeps ==
    ASSUME IngestInv, NEW q \in Requests, NEW answer \in Settled, request[q].phase \in InHand,
           Moves(q, answer), Hears(q, answer), UNCHANGED <<operator, events, deliveries>>,
           faults' \in 0..MaxFaults, faults' >= faults,
           answer = "disabled" => request[q].phase = "storing",
           answer \in Ok => request[q].update \in events \/ bot = "gone",
           ~Undisturbed' \/ answer = "accepted" \/ answer = "no_routes" \/ ~Fans(q)
    PROVE  IngestInv'
  <1> USE DEF operator
  <1>1. TypeOK'
    BY DEF IngestInv, TypeOK, Moves, Hears
  <1>2. KindsHonest'
    BY DEF IngestInv, KindsHonest, Moves, Settled, Ok, Taken
  <1>3. WorkIsStored'
    BY DEF IngestInv, WorkIsStored, Moves, Settled, Ok, Taken, Working
  <1>4. AcknowledgedIsKept'
    <2>1. ASSUME NEW u \in Updates, telegram'[u] = "acknowledged", u \notin events, bot # "gone"
          PROVE  \E x \in Requests : request'[x].update = u /\ request'[x].phase = "disabled"
      <3>1. telegram'[u] = telegram[u]
        BY <2>1 DEF Hears
      <3>2. PICK x \in Requests : request[x].update = u /\ request[x].phase = "disabled"
        BY <2>1, <3>1 DEF IngestInv, AcknowledgedIsKept
      <3>3. x # q
        BY <3>2 DEF InHand
      <3>4. QED
        BY <3>2, <3>3 DEF Moves
    <2>2. QED
      BY <2>1 DEF AcknowledgedIsKept
  <1>5. DeliveredByItsRequest'
    <2>1. \A d \in deliveries : d.by \in Requests /\ d.by # q
      BY DEF IngestInv, TypeOK, Delivery, DeliveredByItsRequest, InHand
    <2>2. QED
      BY <2>1 DEF IngestInv, DeliveredByItsRequest, Moves
  <1>6. \A x \in Requests : Fans(x)' => Fans(x) /\ request'[x].update = request[x].update
    BY DEF Moves, Fans, Settled, Ok, Taken, Working
  <1>7. OneFans'
    BY <1>6 DEF IngestInv, OneFans
  <1>9. OnItsWay'
    <2>1. Undisturbed' => Undisturbed
      BY DEF Undisturbed, IngestInv, TypeOK
    <2>2. ASSUME Undisturbed', NEW u \in events
          PROVE  \E x \in Requests : /\ request'[x].update = u /\ request'[x].kind # "replay"
                                     /\ request'[x].phase \in Working \cup Taken
      <3>1. PICK x \in Requests : /\ request[x].update = u /\ request[x].kind # "replay"
                                  /\ request[x].phase \in Working \cup Taken
        BY <2>1, <2>2 DEF IngestInv, OnItsWay
      <3>2. CASE x = q
        <4>1. Fans(q)
          BY <3>1, <3>2 DEF Fans, Taken, InHand, Working
        <4>2. QED
          BY <2>2, <3>1, <3>2, <4>1 DEF Moves, Taken
      <3>3. CASE x # q
        BY <3>1, <3>3 DEF Moves
      <3>4. QED
        BY <3>2, <3>3
    <2>3. QED
      BY <2>2 DEF OnItsWay
  <1>10. QED
    BY <1>1, <1>2, <1>3, <1>4, <1>5, <1>7, <1>9 DEF IngestInv

\* A request goes on with the update that is stored.
LEMMA GoesOnKeeps ==
    ASSUME IngestInv, NEW q \in Requests, NEW phase \in Working, request[q].phase \in Working,
           Moves(q, phase), UNCHANGED <<operator, events, deliveries, telegram, faults>>
    PROVE  IngestInv'
  <1> USE DEF operator
  <1>1. TypeOK'
    BY DEF IngestInv, TypeOK, Moves
  <1>2. KindsHonest'
    BY DEF IngestInv, KindsHonest, Moves, Working
  <1>3. WorkIsStored'
    BY DEF IngestInv, WorkIsStored, Moves
  <1>4. AcknowledgedIsKept'
    <2>1. \A x \in Requests : request[x].phase = "disabled" =>
              request'[x].phase = "disabled" /\ request'[x].update = request[x].update
      BY DEF Moves, Working
    <2>2. QED
      BY <2>1 DEF IngestInv, AcknowledgedIsKept
  <1>5. DeliveredByItsRequest'
    <2>1. \A d \in deliveries : d.by \in Requests /\ d.by # q
      BY DEF IngestInv, TypeOK, Delivery, DeliveredByItsRequest, Working
    <2>2. QED
      BY <2>1 DEF IngestInv, DeliveredByItsRequest, Moves
  <1>6. \A x \in Requests : Fans(x)' => Fans(x) /\ request'[x].update = request[x].update
    BY DEF Moves, Fans
  <1>7. OneFans'
    BY <1>6 DEF IngestInv, OneFans
  <1>9. OnItsWay'
    BY DEF IngestInv, OnItsWay, Undisturbed, Moves
  <1>10. QED
    BY <1>1, <1>2, <1>3, <1>4, <1>5, <1>7, <1>9 DEF IngestInv

\* The event is stored for the first time.
LEMMA StoreKeeps ==
    ASSUME IngestInv, NEW q \in Requests, request[q].phase = "storing", bot # "gone",
           ~AlreadyStored(request[q].update), events' = events \cup {request[q].update},
           Moves(q, "matching"), UNCHANGED <<operator, deliveries, telegram, faults>>
    PROVE  IngestInv'
  <1> USE DEF operator
  <1> DEFINE u == request[q].update
  <1>0. u \notin events /\ u \in Updates \cup Samples /\ request[q].kind # "replay"
    BY DEF AlreadyStored, IngestInv, TypeOK, Request, KindsHonest
  <1>1. TypeOK'
    BY <1>0 DEF IngestInv, TypeOK, Moves
  <1>2. KindsHonest'
    BY DEF IngestInv, KindsHonest, Moves
  <1>3. WorkIsStored'
    BY DEF IngestInv, WorkIsStored, Moves
  <1>4. AcknowledgedIsKept'
    <2>1. \A x \in Requests : request[x].phase = "disabled" =>
              request'[x].phase = "disabled" /\ request'[x].update = request[x].update
      BY DEF Moves
    <2>2. QED
      BY <2>1 DEF IngestInv, AcknowledgedIsKept
  <1>5. DeliveredByItsRequest'
    <2>1. \A d \in deliveries : d.by \in Requests /\ d.by # q
      BY DEF IngestInv, TypeOK, Delivery, DeliveredByItsRequest
    <2>2. QED
      BY <2>1 DEF IngestInv, DeliveredByItsRequest, Moves
  <1>6. \A x \in Requests : x # q => (Fans(x)' <=> Fans(x)) /\ request'[x].update = request[x].update
    BY DEF Moves, Fans
  <1>7. \A x \in Requests : Fans(x) => request[x].update # u
    BY <1>0 DEF IngestInv, WorkIsStored, Fans
  <1>8. OneFans'
    <2>1. request'[q].update = u
      BY DEF Moves
    <2>2. QED
      BY <1>6, <1>7, <2>1 DEF IngestInv, OneFans
  <1>10. OnItsWay'
    <2>1. ASSUME Undisturbed, NEW v \in events'
          PROVE  \E x \in Requests : /\ request'[x].update = v /\ request'[x].kind # "replay"
                                     /\ request'[x].phase \in Working \cup Taken
      <3>1. CASE v = u
        BY <1>0, <3>1 DEF Moves, Working
      <3>2. CASE v # u
        <4>1. PICK x \in Requests : /\ request[x].update = v /\ request[x].kind # "replay"
                                    /\ request[x].phase \in Working \cup Taken
          BY <2>1, <3>2 DEF IngestInv, OnItsWay
        <4>2. QED
          BY <3>2, <4>1 DEF Moves
      <3>3. QED
        BY <3>1, <3>2
    <2>2. QED
      BY <2>1 DEF OnItsWay, Undisturbed
  <1>11. QED
    BY <1>1, <1>2, <1>3, <1>4, <1>5, <1>8, <1>10 DEF IngestInv

\* The deliveries of a request are inserted, all of them, and it is answered.
LEMMA SaveKeeps ==
    ASSUME IngestInv, NEW q \in Requests, request[q].phase = "saving", References(q),
           deliveries' = deliveries \cup Rows(q), Moves(q, "accepted"), Hears(q, "accepted"),
           UNCHANGED <<operator, events, faults>>
    PROVE  IngestInv'
  <1> USE DEF operator
  <1> DEFINE u == request[q].update
  <1>0. u \in events /\ u \in Updates \cup Samples
    BY DEF References, IngestInv, TypeOK, Request
  <1>1. \A d \in Rows(q) : d \in Delivery /\ d.update = u /\ d.by = q
    BY DEF Rows, Delivery, IngestInv, TypeOK, Request
  <1>2. TypeOK'
    BY <1>0, <1>1 DEF IngestInv, TypeOK, Moves, Hears
  <1>3. KindsHonest'
    BY DEF IngestInv, KindsHonest, Moves
  <1>4. WorkIsStored'
    BY DEF IngestInv, WorkIsStored, Moves, Working
  <1>5. AcknowledgedIsKept'
    <2>1. \A x \in Requests : request[x].phase = "disabled" =>
              request'[x].phase = "disabled" /\ request'[x].update = request[x].update
      BY DEF Moves
    <2>2. QED
      BY <1>0, <2>1 DEF IngestInv, AcknowledgedIsKept, Hears
  <1>6. DeliveredByItsRequest'
    <2>1. \A d \in deliveries : d.by \in Requests /\ d.by # q
      BY DEF IngestInv, TypeOK, Delivery, DeliveredByItsRequest
    <2>2. QED
      BY <1>1, <2>1 DEF IngestInv, DeliveredByItsRequest, Moves
  <1>7. \A x \in Requests : Fans(x)' => Fans(x) /\ request'[x].update = request[x].update /\ x # q
    BY DEF Moves, Fans, Working
  <1>8. OneFans'
    BY <1>7 DEF IngestInv, OneFans
  <1>10. OnItsWay'
    <2>1. \A x \in Requests : request[x].phase \in Working \cup Taken =>
              /\ request'[x].phase \in Working \cup Taken
              /\ request'[x].update = request[x].update /\ request'[x].kind = request[x].kind
      BY DEF Moves, Taken
    <2>2. QED
      BY <2>1 DEF IngestInv, OnItsWay, Undisturbed
  <1>11. QED
    BY <1>2, <1>3, <1>4, <1>5, <1>6, <1>8, <1>10 DEF IngestInv

\* A request comes in; one that finds its bot disabled is answered at once.
LEMMA ArrivesKeeps ==
    ASSUME IngestInv, NEW q \in Requests, NEW kind \in {"webhook", "replay", "test"},
           NEW u \in Updates \cup Samples, NEW only \in SUBSET Routes,
           NEW phase \in {"storing", "matching", "not_found", "disabled"},
           Arrives(q, kind, u, only, phase),
           kind = "webhook" => u \in Updates,
           phase = "matching" => kind = "replay" /\ u \in events,
           phase = "storing" => kind # "replay",
           telegram' \in [Updates -> {"pending", "acknowledged"}],
           \A v \in Updates : telegram'[v] = telegram[v] \/ (v = u /\ phase = "disabled"),
           UNCHANGED <<operator, events, deliveries, faults>>
    PROVE  IngestInv'
  <1> USE DEF operator
  <1>1. /\ request \in [Requests -> Request] /\ request[q].phase = "unused"
        /\ request' = [request EXCEPT ![q] = [kind |-> kind, phase |-> phase, update |-> u,
                                              only |-> only, targets |-> {}]]
    BY DEF Arrives, Unused, IngestInv, TypeOK
  <1>2. /\ \A x \in Requests \ {q} : request'[x] = request[x]
        /\ request'[q].kind = kind /\ request'[q].phase = phase /\ request'[q].update = u
    BY <1>1
  <1>3. request' \in [Requests -> Request]
    <2>1. [kind |-> kind, phase |-> phase, update |-> u, only |-> only, targets |-> {}] \in Request
      BY DEF Request, InHand, Settled, Ok
    <2>2. QED
      BY <1>1, <2>1
  <1>4. TypeOK'
    BY <1>3 DEF IngestInv, TypeOK
  <1>5. KindsHonest'
    BY <1>2 DEF IngestInv, KindsHonest
  <1>6. WorkIsStored'
    BY <1>2 DEF IngestInv, WorkIsStored, Working
  <1>7. AcknowledgedIsKept'
    <2>1. \A x \in Requests : request[x].phase = "disabled" => request'[x] = request[x]
      BY <1>1, <1>2
    <2>2. QED
      BY <1>2, <2>1 DEF IngestInv, AcknowledgedIsKept
  <1>8. \A d \in deliveries : d.by \in Requests /\ request'[d.by] = request[d.by]
    BY <1>1, <1>2 DEF IngestInv, TypeOK, Delivery, DeliveredByItsRequest
  <1>9. DeliveredByItsRequest'
    BY <1>8 DEF IngestInv, DeliveredByItsRequest
  <1>10. \A x \in Requests : Fans(x)' => x # q /\ Fans(x) /\ request'[x] = request[x]
    BY <1>2 DEF Fans, Working
  <1>11. OneFans'
    BY <1>10 DEF IngestInv, OneFans
  <1>13. OnItsWay'
    <2>1. \A x \in Requests : request[x].phase \in Working \cup Taken => request'[x] = request[x]
      BY <1>1, <1>2 DEF Working, Taken
    <2>2. QED
      BY <2>1 DEF IngestInv, OnItsWay, Undisturbed
  <1>14. QED
    BY <1>4, <1>5, <1>6, <1>7, <1>9, <1>11, <1>13 DEF IngestInv

------------------------------------------------------------------------------
\* The actions

LEMMA WebhookKeeps ==
    ASSUME IngestInv, NEW q \in Requests, NEW u \in Updates, Webhook(q, u)
    PROVE  IngestInv'
  <1>0. telegram \in [Updates -> {"pending", "acknowledged"}]
    BY DEF IngestInv, TypeOK
  <1>1. CASE bot = "enabled" /\ Arrives(q, "webhook", u, Routes, "storing") /\ UNCHANGED telegram
    BY <1>0, <1>1, ArrivesKeeps DEF Webhook
  <1>2. CASE bot = "gone" /\ Arrives(q, "webhook", u, Routes, "not_found") /\ UNCHANGED telegram
    BY <1>0, <1>2, ArrivesKeeps DEF Webhook
  <1>3. CASE /\ bot = "disabled" /\ Arrives(q, "webhook", u, Routes, "disabled")
             /\ telegram' \in {telegram, [telegram EXCEPT ![u] = "acknowledged"]}
    <2>1. /\ telegram' \in [Updates -> {"pending", "acknowledged"}]
          /\ \A v \in Updates : telegram'[v] = telegram[v] \/ v = u
      BY <1>0, <1>3
    <2>2. QED
      BY <1>3, <2>1, ArrivesKeeps DEF Webhook
  <1>4. QED
    BY <1>1, <1>2, <1>3 DEF Webhook

LEMMA ReplayKeeps ==
    ASSUME IngestInv, NEW q \in Requests, NEW u \in Updates \cup Samples, Replay(q, u)
    PROVE  IngestInv'
  <1>1. telegram \in [Updates -> {"pending", "acknowledged"}]
    BY DEF IngestInv, TypeOK
  <1>2. QED
    BY <1>1, ArrivesKeeps DEF Replay

LEMMA TestKeeps ==
    ASSUME IngestInv, NEW q \in Requests, NEW u \in Samples, NEW r \in Routes, Test(q, u, r)
    PROVE  IngestInv'
  <1>1. telegram \in [Updates -> {"pending", "acknowledged"}]
    BY DEF IngestInv, TypeOK
  <1>2. QED
    BY <1>1, ArrivesKeeps DEF Test

LEMMA StoreEventKeeps ==
    ASSUME IngestInv, NEW q \in Requests, StoreEvent(q)
    PROVE  IngestInv'
  <1> DEFINE u == request[q].update
  <1>0. TypeOK /\ request[q].phase = "storing" /\ request[q].phase \in InHand /\ ~Fans(q)
        /\ faults \in 0..MaxFaults /\ faults >= faults
    BY DEF IngestInv, TypeOK, StoreEvent, InHand, Fans, Working
  <1>1. CASE /\ bot # "gone" /\ ~AlreadyStored(u) /\ events' = events \cup {u}
             /\ request' = [request EXCEPT ![q].phase = "matching"] /\ UNCHANGED telegram
    <2>1. request[q] \in Request /\ request \in [Requests -> Request]
      BY <1>0 DEF TypeOK
    <2>2. request'[q] = [request[q] EXCEPT !.phase = "matching"]
      BY <1>1, <2>1
    <2>3. request'[q] \in Request
      BY <2>1, <2>2 DEF Request, InHand
    <2>4. Moves(q, "matching")
      BY <1>1, <2>1, <2>2, <2>3 DEF Moves, Request
    <2>5. QED
      BY <1>0, <1>1, <2>4, StoreKeeps DEF StoreEvent
  <1>2. CASE AlreadyStored(u) /\ Reply(q, "duplicate") /\ UNCHANGED events
    <2>1. "duplicate" \in Settled
      BY DEF Settled, Ok
    <2>2. Moves(q, "duplicate") /\ Hears(q, "duplicate")
      BY <1>0, <1>2, <2>1, ReplyMoves
    <2>3. UNCHANGED <<operator, events, deliveries>> /\ faults' = faults
      BY <1>2 DEF StoreEvent
    <2>4. QED
      BY <1>0, <1>2, <2>1, <2>2, <2>3, EndKeeps DEF AlreadyStored
  <1>3. CASE bot = "gone" /\ Reply(q, "error") /\ UNCHANGED events
    <2>1. "error" \in Settled
      BY DEF Settled
    <2>2. Moves(q, "error") /\ Hears(q, "error")
      BY <1>0, <1>3, <2>1, ReplyMoves
    <2>3. UNCHANGED <<operator, events, deliveries>> /\ faults' = faults
      BY <1>3 DEF StoreEvent
    <2>4. QED
      BY <1>0, <1>3, <2>1, <2>2, <2>3, EndKeeps
  <1>4. QED
    BY <1>1, <1>2, <1>3 DEF StoreEvent

\* A request that finds no route any more is over with a 200.
LEMMA NoRoutesKeeps ==
    ASSUME IngestInv, NEW q \in Requests, request[q].phase \in Working, Reply(q, "no_routes"),
           UNCHANGED <<operator, events, deliveries, faults>>
    PROVE  IngestInv'
  <1>1. TypeOK /\ "no_routes" \in Settled /\ request[q].phase \in InHand
        /\ faults \in 0..MaxFaults /\ faults >= faults
    BY DEF IngestInv, TypeOK, Settled, Ok, Taken, Working, InHand
  <1>2. Moves(q, "no_routes") /\ Hears(q, "no_routes")
    BY <1>1, ReplyMoves
  <1>3. request[q].update \in events \/ bot = "gone"
    BY DEF IngestInv, WorkIsStored
  <1>4. QED
    BY <1>1, <1>2, <1>3, EndKeeps

LEMMA MatchRoutesMoves ==
    ASSUME TypeOK, NEW q \in Requests, MatchRoutes(q)
    PROVE  Reply(q, "no_routes") \/ (Moves(q, "loading") /\ UNCHANGED telegram)
  <1> DEFINE matched == request[q].only \cap Matched(request[q].update)
             targets == {[route |-> r, destination |-> route[r].destination] : r \in matched}
  <1>1. CASE matched = {}
    BY <1>1 DEF MatchRoutes
  <1>2. CASE matched # {}
    <2>1. targets \in SUBSET Target
      <3>1. \A r \in matched : r \in Routes /\ route[r] # Gone
        BY DEF Matched
      <3>2. \A r \in matched : route[r].destination \in Destinations
        BY <3>1, IngestAssumption DEF TypeOK
      <3>3. QED
        BY <3>1, <3>2 DEF Target
    <2>2. request' = [request EXCEPT ![q].phase = "loading", ![q].targets = targets]
          /\ UNCHANGED telegram
      BY <1>2 DEF MatchRoutes
    <2> HIDE DEF targets
    <2>3. "loading" \in Working
      BY DEF Working
    <2>4. QED
      BY <2>1, <2>2, <2>3, PhaseMoves
  <1>3. QED
    BY <1>1, <1>2

LEMMA MatchRoutesKeeps ==
    ASSUME IngestInv, NEW q \in Requests, MatchRoutes(q)
    PROVE  IngestInv'
  <1>1. /\ TypeOK /\ request[q].phase \in Working /\ "loading" \in Working
        /\ UNCHANGED <<operator, events, deliveries, faults>>
    BY DEF IngestInv, MatchRoutes, Working
  <1>2. QED
    BY <1>1, MatchRoutesMoves, NoRoutesKeeps, GoesOnKeeps

LEMMA LoadDestinationsMoves ==
    ASSUME TypeOK, NEW q \in Requests, LoadDestinations(q)
    PROVE  Reply(q, "no_routes") \/ (Moves(q, "saving") /\ UNCHANGED telegram)
  <1> DEFINE targets == {t \in request[q].targets : destination[t.destination] # "gone"}
  <1>1. CASE targets = {}
    BY <1>1 DEF LoadDestinations
  <1>2. CASE targets # {}
    <2>1. targets \in SUBSET Target
      BY DEF TypeOK, Request
    <2>2. request' = [request EXCEPT ![q].phase = "saving", ![q].targets = targets]
          /\ UNCHANGED telegram
      BY <1>2 DEF LoadDestinations
    <2> HIDE DEF targets
    <2>3. "saving" \in Working
      BY DEF Working
    <2>4. QED
      BY <2>1, <2>2, <2>3, PhaseMoves
  <1>3. QED
    BY <1>1, <1>2

LEMMA LoadDestinationsKeeps ==
    ASSUME IngestInv, NEW q \in Requests, LoadDestinations(q)
    PROVE  IngestInv'
  <1>1. /\ TypeOK /\ request[q].phase \in Working /\ "saving" \in Working
        /\ UNCHANGED <<operator, events, deliveries, faults>>
    BY DEF IngestInv, LoadDestinations, Working
  <1>2. QED
    BY <1>1, LoadDestinationsMoves, NoRoutesKeeps, GoesOnKeeps

\* While nothing was deleted, the foreign keys of the INSERT hold.
LEMMA SaveDeliveriesKeeps ==
    ASSUME IngestInv, NEW q \in Requests, SaveDeliveries(q)
    PROVE  IngestInv'
  <1>1. /\ TypeOK /\ request[q].phase = "saving" /\ request[q].phase \in InHand
        /\ faults \in 0..MaxFaults /\ faults >= faults
    BY DEF IngestInv, TypeOK, SaveDeliveries, InHand
  <1>2. CASE References(q)
    <2>1. deliveries' = deliveries \cup Rows(q) /\ Reply(q, "accepted")
          /\ UNCHANGED <<operator, events, faults>>
      BY <1>2 DEF SaveDeliveries
    <2>2. "accepted" \in Settled
      BY DEF Settled, Ok, Taken
    <2>3. Moves(q, "accepted") /\ Hears(q, "accepted")
      BY <1>1, <2>1, <2>2, ReplyMoves
    <2>4. QED
      BY <1>1, <1>2, <2>1, <2>3, SaveKeeps
  <1>3. CASE ~References(q)
    <2>1. Reply(q, "error") /\ UNCHANGED <<operator, events, deliveries, faults>>
      BY <1>3 DEF SaveDeliveries
    <2>2. "error" \in Settled /\ "error" \notin Ok
      BY DEF Settled, Ok, Taken
    <2>3. Moves(q, "error") /\ Hears(q, "error")
      BY <1>1, <2>1, <2>2, ReplyMoves
    <2>4. ~Undisturbed
      <3>1. request[q].targets \subseteq Target
        BY <1>1 DEF TypeOK, Request
      <3>2. bot # "gone" => request[q].update \in events
        BY <1>1 DEF IngestInv, WorkIsStored, Working
      <3>3. QED
        BY <1>3, <3>1, <3>2 DEF Undisturbed, References, Target
    <2>5. ~Undisturbed'
      BY <2>1, <2>4 DEF Undisturbed, operator
    <2>6. QED
      BY <1>1, <2>1, <2>2, <2>3, <2>5, EndKeeps
  <1>4. QED
    BY <1>2, <1>3

LEMMA QueryFailsKeeps ==
    ASSUME IngestInv, NEW q \in Requests, QueryFails(q)
    PROVE  IngestInv'
  <1>1. TypeOK /\ request[q].phase \in InHand /\ faults \in 0..MaxFaults /\ faults < MaxFaults
        /\ faults' = faults + 1
    BY DEF IngestInv, TypeOK, QueryFails
  <1>2. "error" \in Settled /\ "error" \notin Ok /\ Failed = "error"
    BY DEF Settled, Ok, Taken, Failed
  <1>3. Moves(q, "error") /\ Hears(q, "error") /\ UNCHANGED <<operator, events, deliveries>>
    BY <1>1, <1>2, ReplyMoves DEF QueryFails
  <1>4. faults' \in 0..MaxFaults /\ faults' >= faults /\ faults' # 0
    BY <1>1, IngestAssumption
  <1>5. ~Undisturbed'
    BY <1>4 DEF Undisturbed
  <1>6. QED
    BY <1>1, <1>2, <1>3, <1>4, <1>5, EndKeeps

LEMMA CrashKeeps ==
    ASSUME IngestInv, Crash
    PROVE  IngestInv'
  <1> USE DEF operator
  <1>0. /\ request \in [Requests -> Request] /\ faults \in 0..MaxFaults /\ faults < MaxFaults
        /\ faults' = faults + 1 /\ UNCHANGED <<operator, events, deliveries, telegram>>
    BY DEF IngestInv, TypeOK, Crash
  <1>1. faults' \in 0..MaxFaults /\ faults' # 0
    BY <1>0, IngestAssumption
  <1>2. ASSUME NEW q \in Requests
        PROVE  /\ request'[q] \in Request
               /\ request'[q].kind = request[q].kind /\ request'[q].update = request[q].update
               /\ request'[q].phase \notin InHand
               /\ request[q].phase \notin InHand => request'[q].phase = request[q].phase
    <2>1. request'[q] = [request[q] EXCEPT !.phase = IF @ \in InHand THEN "broken" ELSE @]
      BY DEF Crash
    <2>2. request[q] \in Request
      BY <1>0
    <2>3. request'[q].phase = IF request[q].phase \in InHand THEN "broken" ELSE request[q].phase
      BY <2>1, <2>2 DEF Request
    <2>4. request'[q] \in Request
      BY <2>1, <2>2 DEF Request, Settled
    <2>5. "broken" \notin InHand
      BY DEF InHand
    <2>6. QED
      BY <2>1, <2>2, <2>3, <2>4, <2>5 DEF Request
  <1>3. TypeOK'
    <2>1. request' \in [Requests -> Request]
      BY <1>2 DEF Crash
    <2>2. QED
      BY <1>0, <1>1, <2>1 DEF IngestInv, TypeOK
  <1>4. KindsHonest' /\ WorkIsStored'
    BY <1>2 DEF IngestInv, KindsHonest, WorkIsStored, InHand, Working
  <1>5. AcknowledgedIsKept'
    BY <1>0, <1>2 DEF IngestInv, AcknowledgedIsKept, InHand
  <1>6. DeliveredByItsRequest'
    <2>1. \A d \in deliveries : d.by \in Requests
      BY DEF IngestInv, TypeOK, Delivery
    <2>2. QED
      BY <1>0, <1>2, <2>1 DEF IngestInv, DeliveredByItsRequest, InHand
  <1>7. OneFans'
    BY <1>2 DEF OneFans, Fans, InHand, Working
  <1>8. OnItsWay'
    BY <1>1 DEF OnItsWay, Undisturbed
  <1>9. QED
    BY <1>3, <1>4, <1>5, <1>6, <1>7, <1>8 DEF IngestInv

\* What an operator's step does to the tables.
Operates ==
    /\ UNCHANGED <<request, telegram, faults>>
    /\ bot' \in {"enabled", "disabled", "gone"}
    /\ route' \in [Routes -> RouteForms \cup {Gone}]
    /\ destination' \in [Destinations -> {"enabled", "disabled", "gone"}]
    /\ \A r \in Routes : route'[r] # Gone => destination'[route'[r].destination] # "gone"
    /\ \/ UNCHANGED <<events, deliveries>> /\ (bot' = "gone" <=> bot = "gone")
       \/ bot' = "gone" /\ events' = {} /\ deliveries' = {}
    /\ Undisturbed' => Undisturbed

\* What is deleted stays deleted; but for the bot's rows nothing an operator does
\* reaches what the requests have stored.
LEMMA OperatorSteps ==
    ASSUME IngestInv, Operator
    PROVE  Operates
  <1> USE DEF operator
  <1>0. /\ bot \in {"enabled", "disabled", "gone"}
        /\ route \in [Routes -> RouteForms \cup {Gone}]
        /\ destination \in [Destinations -> {"enabled", "disabled", "gone"}]
        /\ \A r \in Routes : route[r] # Gone => destination[route[r].destination] # "gone"
        /\ \A form \in RouteForms : form.destination \in Destinations
    BY IngestAssumption DEF IngestInv, TypeOK
  <1>1. ASSUME NEW r \in Routes, RemoveRoute(r)
        PROVE  Operates
    BY <1>0, <1>1 DEF RemoveRoute, Undisturbed, Operates
  <1>2. ASSUME NEW r \in Routes, NEW form \in RouteForms, EditRoute(r, form)
        PROVE  Operates
    BY <1>0, <1>2 DEF EditRoute, Undisturbed, Operates
  <1>3. ASSUME NEW d \in Destinations, ToggleDestination(d)
        PROVE  Operates
    BY <1>0, <1>3 DEF ToggleDestination, Undisturbed, Operates
  <1>4. ASSUME NEW d \in Destinations, RemoveDestination(d)
        PROVE  Operates
    BY <1>0, <1>4 DEF RemoveDestination, Undisturbed, Operates
  <1>5. ASSUME ToggleBot
        PROVE  Operates
    BY <1>0, <1>5 DEF ToggleBot, Undisturbed, Operates
  <1>6. ASSUME RemoveBot
        PROVE  Operates
    BY <1>0, <1>6 DEF RemoveBot, Undisturbed, Operates
  <1>7. QED
    BY <1>1, <1>2, <1>3, <1>4, <1>5, <1>6 DEF Operator

LEMMA OperatorKeeps ==
    ASSUME IngestInv, Operator
    PROVE  IngestInv'
  <1> USE DEF operator
  <1>1. Operates
    BY OperatorSteps
  <1>2. TypeOK'
    BY <1>1 DEF Operates, IngestInv, TypeOK
  <1>3. KindsHonest' /\ OneFans'
    BY <1>1 DEF Operates, IngestInv, KindsHonest, OneFans, Fans
  <1>4. WorkIsStored'
    BY <1>1 DEF Operates, IngestInv, WorkIsStored
  <1>5. AcknowledgedIsKept'
    BY <1>1 DEF Operates, IngestInv, AcknowledgedIsKept
  <1>6. DeliveredByItsRequest'
    BY <1>1 DEF Operates, IngestInv, DeliveredByItsRequest, Fans
  <1>7. OnItsWay'
    <2>1. Undisturbed' => events' = events
      BY <1>1 DEF Operates, Undisturbed
    <2>2. QED
      BY <1>1, <2>1 DEF Operates, IngestInv, OnItsWay
  <1>8. QED
    BY <1>2, <1>3, <1>4, <1>5, <1>6, <1>7 DEF IngestInv

------------------------------------------------------------------------------
\* The invariant and what follows from it

LEMMA InitHolds == Init => IngestInv
  <1> SUFFICES ASSUME Init PROVE IngestInv
    OBVIOUS
  <1>1. NewRequest \in Request /\ NewRequest.update \in Updates
    <2>1. NewRequest.update \in Updates
      BY IngestAssumption DEF NewRequest
    <2>2. QED
      BY <2>1 DEF NewRequest, Request
  <1>2. \A q \in Requests : request[q] = NewRequest
    BY DEF Init
  <1>3. TypeOK
    BY <1>1, IngestAssumption DEF Init, TypeOK
  <1>4. KindsHonest /\ WorkIsStored
    BY <1>1, <1>2 DEF KindsHonest, WorkIsStored, NewRequest, Working
  <1>5. AcknowledgedIsKept
    BY DEF Init, AcknowledgedIsKept
  <1>6. DeliveredByItsRequest /\ OnItsWay
    BY DEF Init, DeliveredByItsRequest, OnItsWay
  <1>7. OneFans
    <2>0. NewRequest.phase = "unused"
      BY DEF NewRequest
    <2>1. \A q \in Requests : request[q].phase = "unused"
      BY <1>2, <2>0
    <2>2. \A q \in Requests : ~Fans(q)
      BY <2>1 DEF Fans, Working
    <2>3. QED
      BY <2>2 DEF OneFans
  <1>8. QED
    BY <1>3, <1>4, <1>5, <1>6, <1>7 DEF IngestInv

LEMMA StepKeeps == IngestInv /\ [Next]_vars => IngestInv'
  <1> SUFFICES ASSUME IngestInv, [Next]_vars PROVE IngestInv'
    OBVIOUS
  <1>1. ASSUME NEW q \in Requests, NEW u \in Updates, Webhook(q, u) PROVE IngestInv'
    BY <1>1, WebhookKeeps
  <1>2. ASSUME NEW q \in Requests, NEW u \in Updates \cup Samples, Replay(q, u) PROVE IngestInv'
    BY <1>2, ReplayKeeps
  <1>3. ASSUME NEW q \in Requests, NEW u \in Samples, NEW r \in Routes, Test(q, u, r)
        PROVE  IngestInv'
    BY <1>3, TestKeeps
  <1>4. ASSUME NEW q \in Requests, Handle(q) PROVE IngestInv'
    BY <1>4, StoreEventKeeps, MatchRoutesKeeps, LoadDestinationsKeeps, SaveDeliveriesKeeps DEF Handle
  <1>5. ASSUME NEW q \in Requests, QueryFails(q) PROVE IngestInv'
    BY <1>5, QueryFailsKeeps
  <1>6. CASE Crash
    BY <1>6, CrashKeeps
  <1>7. CASE Operator
    BY <1>7, OperatorKeeps
  <1>8. CASE UNCHANGED vars
    BY <1>8 DEF vars, IngestInv, TypeOK, KindsHonest, WorkIsStored, AcknowledgedIsKept,
                DeliveredByItsRequest, OneFans, OnItsWay, Undisturbed, Fans
  <1>9. QED
    BY <1>1, <1>2, <1>3, <1>4, <1>5, <1>6, <1>7, <1>8 DEF Next

LEMMA IngestInvariant == Spec => []IngestInv
  BY InitHolds, StepKeeps, PTL DEF Spec

\* The tables, the requests and Telegram hold what they may, and the foreign keys of
\* the schema hold: whatever is edited or deleted while a request is handled, no
\* delivery is inserted for an event, a route or a destination that is gone.
THEOREM IngestTypeCorrect == Spec => []TypeOK
  BY IngestInvariant, PTL DEF IngestInv

\* Telegram is told 200 for an update only when the gateway has stored it, is gone or
\* is disabled: a failed statement, a crash or a second copy of the update that
\* overtakes the first never makes it forget one that was not kept.
THEOREM AcknowledgedNeverLost == Spec => []AcknowledgedIsKept
  BY IngestInvariant, PTL DEF IngestInv

\* A stored update that nobody handles any more has gone through its fan-out, unless a
\* statement failed, the process died or something was deleted: no edit, switch, repeat
\* or replay makes it disappear between its INSERT and that of its deliveries.
THEOREM OnlyFailureLosesUpdates == Spec => []LostOnlyByFailure
  <1>1. IngestInv => LostOnlyByFailure
    BY DEF IngestInv, OnItsWay, LostOnlyByFailure, NothingLost, Handling, InHand, Working
  <1>2. QED
    BY <1>1, IngestInvariant, PTL

------------------------------------------------------------------------------
\* Ingest implements Intake: what a step does to the stage and the fan-out of an update

Stage(u) ==
    IF Fanning(u) THEN "taken" ELSE IF u \in events \/ bot = "gone" THEN "closed" ELSE "new"

Fanned(u) ==
    {d.target.route : d \in {e \in deliveries : e.update = u /\ request[e.by].kind # "replay"}}

LEMMA FanningIs ==
    \A u : Fanning(u) <=> \E q \in Requests : request[q].update = u /\ Fans(q)
  BY DEF Fanning, Fans, InHand, Working

LEMMA SameIntake ==
    ASSUME \A u \in Updates \cup Samples : Stage(u)' = Stage(u) /\ Fanned(u)' = Fanned(u)
    PROVE  UNCHANGED TakenOnce!intakeVars
  BY DEF TakenOnce!intakeVars, Stage, Fanned

LEMMA RefinesInit == Init => TakenOnce!Init
  <1> SUFFICES ASSUME Init PROVE TakenOnce!Init
    OBVIOUS
  <1>1. \A u \in Updates \cup Samples : Stage(u) = "new" /\ Fanned(u) = {}
    <2>1. \A q \in Requests : request[q].phase = "unused"
      BY DEF Init, NewRequest
    <2>2. \A u : ~Fanning(u)
      BY <2>1, FanningIs DEF Fans, Working
    <2>3. \A u : Stage(u) = "new"
      BY <2>2 DEF Init, Stage
    <2>4. \A u : Fanned(u) = {}
      BY DEF Init, Fanned
    <2>5. QED
      BY <2>3, <2>4
  <1>2. QED
    BY <1>1 DEF TakenOnce!Init, Stage, Fanned

\* The deliveries there are were made by the kinds of request they still have.
LEMMA SameFanned ==
    ASSUME IngestInv, deliveries' = deliveries,
           \A d \in deliveries : request'[d.by].kind = request[d.by].kind
    PROVE  \A u \in Updates \cup Samples : Fanned(u)' = Fanned(u)
  <1>1. \A u \in Updates \cup Samples :
            {e \in deliveries : e.update = u /\ request'[e.by].kind # "replay"}
            = {e \in deliveries : e.update = u /\ request[e.by].kind # "replay"}
    OBVIOUS
  <1>2. QED
    BY <1>1 DEF Fanned

\* Stored updates whose request stays what it was keep their stage.
LEMMA SameFanning ==
    ASSUME \A x \in Requests : /\ Fans(x)' <=> Fans(x)
                               /\ Fans(x) => request'[x].update = request[x].update
    PROVE  \A u : Fanning(u)' <=> Fanning(u)
  BY FanningIs DEF Fans, Fanning, InHand, Working

\* A request in hand ends without deliveries: its matching is cut short, if it was at it.
LEMMA EndRefines ==
    ASSUME IngestInv, NEW q \in Requests, NEW answer \in Settled, Moves(q, answer),
           UNCHANGED <<operator, events, deliveries>>, request[q].phase \in InHand
    PROVE  [TakenOnce!Next]_(TakenOnce!intakeVars)
  <1>0. PICK u : u = request[q].update
    OBVIOUS
  <1>1. \A d \in deliveries : request'[d.by].kind = request[d.by].kind
    BY DEF IngestInv, TypeOK, Delivery, Moves
  <1>2. \A v \in Updates \cup Samples : Fanned(v)' = Fanned(v)
    BY <1>1, SameFanned
  <1>3. u \in Updates \cup Samples
    BY <1>0 DEF IngestInv, TypeOK, Request
  <1>4. request'[q].phase \notin Working /\ request'[q].kind = request[q].kind
    BY DEF Moves, Settled, Ok, Taken, Working
  <1>5. \A x \in Requests : x # q => request'[x] = request[x]
    BY DEF Moves
  <1>6. CASE Fans(q)
    <2>1. \A v : Fanning(v)' <=> Fanning(v) /\ v # u
      <3>1. \A v : Fanning(v)' <=> \E x \in Requests : request'[x].update = v /\ Fans(x)'
        BY DEF Fanning, Fans, InHand, Working
      <3>2. \A x \in Requests : Fans(x)' <=> Fans(x) /\ x # q
        BY <1>4, <1>5 DEF Fans
      <3>3. \A x \in Requests : Fans(x) /\ request[x].update = u => x = q
        BY <1>0, <1>6 DEF IngestInv, OneFans
      <3>4. QED
        BY <1>0, <1>5, <1>6, <3>1, <3>2, <3>3, FanningIs
    <2>2. Stage(u) = "taken"
      BY <1>0, <1>6, FanningIs DEF Stage
    <2>3. u \in events \/ bot = "gone"
      BY <1>0, <1>6 DEF IngestInv, WorkIsStored, Fans
    <2>4. Stage(u)' = "closed"
      BY <2>1, <2>3 DEF Stage, operator
    <2>5. \A v \in Updates \cup Samples : v # u => Stage(v)' = Stage(v)
      BY <2>1 DEF Stage, operator
    <2>6. TakenOnce!CutShort({u})
      BY <1>2, <1>3, <2>2, <2>4, <2>5 DEF TakenOnce!CutShort, Stage, Fanned
    <2>7. QED
      BY <1>3, <2>6 DEF TakenOnce!Next
  <1>7. CASE ~Fans(q)
    <2>1. \A x \in Requests : /\ Fans(x)' <=> Fans(x)
                              /\ Fans(x) => request'[x].update = request[x].update
      BY <1>4, <1>5, <1>7 DEF Fans
    <2>2. \A v \in Updates \cup Samples : Stage(v)' = Stage(v)
      BY <2>1, SameFanning DEF Stage, operator
    <2>3. QED
      BY <1>2, <2>2, SameIntake
  <1>8. QED
    BY <1>6, <1>7

\* A request that goes on, or arrives, is not seen.
LEMMA UnseenRefines ==
    ASSUME IngestInv, UNCHANGED <<operator, events, deliveries>>,
           \A d \in deliveries : request'[d.by].kind = request[d.by].kind,
           \A x \in Requests : /\ Fans(x)' <=> Fans(x)
                               /\ Fans(x) => request'[x].update = request[x].update
    PROVE  [TakenOnce!Next]_(TakenOnce!intakeVars)
  <1>1. \A v \in Updates \cup Samples : Stage(v)' = Stage(v)
    BY SameFanning DEF Stage, operator
  <1>2. QED
    BY <1>1, SameFanned, SameIntake

LEMMA ArrivesRefines ==
    ASSUME IngestInv, NEW q \in Requests, NEW kind, NEW u, NEW only, NEW phase,
           Arrives(q, kind, u, only, phase), kind = "replay" \/ phase \notin Working,
           UNCHANGED <<operator, events, deliveries>>
    PROVE  [TakenOnce!Next]_(TakenOnce!intakeVars)
  <1>1. /\ request \in [Requests -> Request] /\ request[q].phase = "unused"
        /\ request' = [request EXCEPT ![q] = [kind |-> kind, phase |-> phase, update |-> u,
                                              only |-> only, targets |-> {}]]
    BY DEF Arrives, Unused, IngestInv, TypeOK
  <1>2. /\ \A x \in Requests : x # q => request'[x] = request[x]
        /\ request'[q].kind = kind /\ request'[q].phase = phase
    BY <1>1
  <1>3. \A d \in deliveries : request'[d.by].kind = request[d.by].kind
    BY <1>1, <1>2 DEF IngestInv, TypeOK, Delivery, DeliveredByItsRequest
  <1>4. \A x \in Requests : /\ Fans(x)' <=> Fans(x)
                            /\ Fans(x) => request'[x].update = request[x].update
    BY <1>1, <1>2 DEF Fans, Working
  <1>5. QED
    BY <1>3, <1>4, UnseenRefines

LEMMA GoesOnRefines ==
    ASSUME IngestInv, NEW q \in Requests, NEW phase \in Working, request[q].phase \in Working,
           Moves(q, phase), UNCHANGED <<operator, events, deliveries>>
    PROVE  [TakenOnce!Next]_(TakenOnce!intakeVars)
  <1>1. \A d \in deliveries : request'[d.by].kind = request[d.by].kind
    BY DEF IngestInv, TypeOK, Delivery, Moves
  <1>2. \A x \in Requests : /\ Fans(x)' <=> Fans(x)
                            /\ Fans(x) => request'[x].update = request[x].update
    BY DEF Fans, Moves
  <1>3. QED
    BY <1>1, <1>2, UnseenRefines

\* Stored for the first time: taken.
LEMMA StoreRefines ==
    ASSUME IngestInv, NEW q \in Requests, request[q].phase = "storing", bot # "gone",
           ~AlreadyStored(request[q].update), events' = events \cup {request[q].update},
           Moves(q, "matching"), UNCHANGED <<operator, deliveries>>
    PROVE  [TakenOnce!Next]_(TakenOnce!intakeVars)
  <1>0. PICK u : u = request[q].update
    OBVIOUS
  <1>1. u \notin events /\ u \in Updates \cup Samples /\ request[q].kind # "replay"
    BY <1>0 DEF AlreadyStored, IngestInv, TypeOK, Request, KindsHonest
  <1>2. \A d \in deliveries : request'[d.by].kind = request[d.by].kind
    BY DEF IngestInv, TypeOK, Delivery, Moves
  <1>3. \A v \in Updates \cup Samples : Fanned(v)' = Fanned(v)
    BY <1>2, SameFanned
  <1>4. ~Fanning(u)
    BY <1>1, FanningIs DEF IngestInv, WorkIsStored, Fans
  <1>5. Stage(u) = "new"
    BY <1>1, <1>4 DEF Stage
  <1>6. \A v : Fanning(v)' <=> \E x \in Requests : request'[x].update = v /\ Fans(x)'
    BY DEF Fanning, Fans, InHand, Working
  <1>7. Fans(q)' /\ request'[q].update = u /\ ~Fans(q)
    BY <1>0, <1>1 DEF Moves, Fans, Working
  <1>8. \A x \in Requests : x # q => (Fans(x)' <=> Fans(x)) /\ request'[x].update = request[x].update
    BY DEF Moves, Fans
  <1>9. \A v : Fanning(v)' <=> Fanning(v) \/ v = u
    BY <1>6, <1>7, <1>8, FanningIs
  <1>10. Stage(u)' = "taken"
    BY <1>9 DEF Stage
  <1>11. \A v \in Updates \cup Samples : v # u => Stage(v)' = Stage(v)
    BY <1>0, <1>9 DEF Stage, operator
  <1>12. TakenOnce!Take(u)
    BY <1>1, <1>3, <1>5, <1>10, <1>11 DEF TakenOnce!Take, Stage, Fanned
  <1>13. QED
    BY <1>1, <1>12 DEF TakenOnce!Next

\* The deliveries of one match are inserted together: the first request for the update
\* fans it out, a replay is not Intake's.
LEMMA SaveRefines ==
    ASSUME IngestInv, NEW q \in Requests, request[q].phase = "saving",
           deliveries' = deliveries \cup Rows(q), Moves(q, "accepted"),
           UNCHANGED <<operator, events>>
    PROVE  [TakenOnce!Next]_(TakenOnce!intakeVars)
  <1>0. PICK u : u = request[q].update
    OBVIOUS
  <1>1. u \in Updates \cup Samples /\ request[q].targets \subseteq Target
    BY <1>0 DEF IngestInv, TypeOK, Request
  <1>2. \A d \in deliveries : request'[d.by].kind = request[d.by].kind
    BY DEF IngestInv, TypeOK, Delivery, Moves
  <1>3. /\ \A d \in Rows(q) : d.update = u /\ d.by = q
        /\ request'[q].kind = request[q].kind
        /\ \A d \in Rows(q) : d.target.route \in Routes
    BY <1>0, <1>1 DEF Rows, Moves, Target
  <1>4. \A v : Fanning(v)' <=> \E x \in Requests : request'[x].update = v /\ Fans(x)'
    BY DEF Fanning, Fans, InHand, Working
  <1>5. \A x \in Requests : Fans(x)' <=> Fans(x) /\ x # q
    BY DEF Moves, Fans, Working
  <1>6. \A x \in Requests : x # q => request'[x].update = request[x].update
    BY DEF Moves
  <1>7. CASE Fans(q)
    <2>1. \A x \in Requests : Fans(x) /\ request[x].update = u => x = q
      BY <1>0, <1>7 DEF IngestInv, OneFans
    <2>2. \A v : Fanning(v)' <=> Fanning(v) /\ v # u
      BY <1>0, <1>4, <1>5, <1>6, <1>7, <2>1, FanningIs
    <2>3. Stage(u) = "taken"
      BY <1>0, <1>7, FanningIs DEF Stage
    <2>4. u \in events \/ bot = "gone"
      BY <1>0, <1>7 DEF IngestInv, WorkIsStored, Fans
    <2>5. Stage(u)' = "closed"
      BY <2>2, <2>4 DEF Stage, operator
    <2>6. \A v \in Updates \cup Samples : v # u => Stage(v)' = Stage(v)
      BY <2>2 DEF Stage, operator
    <2>7. \A v \in Updates \cup Samples : v # u => Fanned(v)' = Fanned(v)
      <3>1. ASSUME NEW v \in Updates \cup Samples, v # u
            PROVE  {e \in deliveries' : e.update = v /\ request'[e.by].kind # "replay"}
                   = {e \in deliveries : e.update = v /\ request[e.by].kind # "replay"}
        BY <1>2, <1>3, <3>1
      <3>2. QED
        BY <3>1 DEF Fanned
    <2>8. PICK matched : matched = Fanned(u)'
      OBVIOUS
    <2>9. matched \in SUBSET Routes
      <3>1. \A d \in deliveries' : d.target.route \in Routes
        BY <1>3 DEF IngestInv, TypeOK, Delivery, Target
      <3>2. QED
        BY <2>8, <3>1 DEF Fanned
    <2>10. TakenOnce!FanOut(u, matched)
      BY <1>1, <2>3, <2>5, <2>6, <2>7, <2>8 DEF TakenOnce!FanOut, Stage, Fanned
    <2>11. QED
      BY <1>1, <2>9, <2>10 DEF TakenOnce!Next
  <1>8. CASE ~Fans(q)
    <2>1. request[q].kind = "replay"
      BY <1>8 DEF Fans, Working
    <2>2. \A v : Fanning(v)' <=> Fanning(v)
      BY <1>4, <1>5, <1>6, <1>8, FanningIs
    <2>3. \A v \in Updates \cup Samples : Stage(v)' = Stage(v)
      BY <2>2 DEF Stage, operator
    <2>4. \A v \in Updates \cup Samples : Fanned(v)' = Fanned(v)
      <3>1. ASSUME NEW v \in Updates \cup Samples
            PROVE  {e \in deliveries' : e.update = v /\ request'[e.by].kind # "replay"}
                   = {e \in deliveries : e.update = v /\ request[e.by].kind # "replay"}
        BY <1>2, <1>3, <2>1, <3>1
      <3>2. QED
        BY <3>1 DEF Fanned
    <2>5. QED
      BY <2>3, <2>4, SameIntake
  <1>9. QED
    BY <1>7, <1>8

\* A crash cuts every matching short.
LEMMA CrashRefines ==
    ASSUME IngestInv, Crash
    PROVE  [TakenOnce!Next]_(TakenOnce!intakeVars)
  <1>1. /\ request \in [Requests -> Request]
        /\ UNCHANGED <<operator, events, deliveries>>
    BY DEF IngestInv, TypeOK, Crash
  <1>2. ASSUME NEW q \in Requests
        PROVE  request'[q].kind = request[q].kind /\ request'[q].phase \notin Working
    <2>1. request'[q] = [request[q] EXCEPT !.phase = IF @ \in InHand THEN "broken" ELSE @]
      BY DEF Crash
    <2>2. request[q] \in Request
      BY <1>1
    <2>3. QED
      BY <2>1, <2>2 DEF Request, InHand, Working
  <1>3. \A d \in deliveries : request'[d.by].kind = request[d.by].kind
    BY <1>2 DEF IngestInv, TypeOK, Delivery
  <1>4. \A v \in Updates \cup Samples : Fanned(v)' = Fanned(v)
    BY <1>1, <1>3, SameFanned
  <1>5. \A v : ~Fanning(v)'
    BY <1>2 DEF Fanning, InHand, Working
  <1>6. PICK U \in SUBSET (Updates \cup Samples) : U = {v \in Updates \cup Samples : Fanning(v)}
    OBVIOUS
  <1>7. \A v \in U : Stage(v) = "taken" /\ (v \in events \/ bot = "gone")
    BY <1>6, FanningIs DEF Stage, IngestInv, WorkIsStored, Fans
  <1>8. \A v \in Updates \cup Samples : Stage(v)' = IF v \in U THEN "closed" ELSE Stage(v)
    BY <1>1, <1>5, <1>6, <1>7 DEF Stage, operator
  <1>9. TakenOnce!CutShort(U)
    BY <1>4, <1>7, <1>8, <1>6 DEF TakenOnce!CutShort, Stage, Fanned
  <1>10. QED
    BY <1>9 DEF TakenOnce!Next

\* Only the removal of the bot is seen.
LEMMA OperatorRefines ==
    ASSUME IngestInv, Operator
    PROVE  [TakenOnce!Next]_(TakenOnce!intakeVars)
  <1>1. Operates
    BY OperatorSteps
  <1>2. \A v : Fanning(v)' <=> Fanning(v)
    BY <1>1 DEF Operates, Fanning
  <1>3. CASE UNCHANGED <<events, deliveries>> /\ (bot' = "gone" <=> bot = "gone")
    <2>1. \A v \in Updates \cup Samples : Stage(v)' = Stage(v)
      BY <1>2, <1>3 DEF Stage
    <2>2. \A v \in Updates \cup Samples : Fanned(v)' = Fanned(v)
      BY <1>1, <1>3 DEF Operates, Fanned
    <2>3. QED
      BY <2>1, <2>2, SameIntake
  <1>4. CASE bot' = "gone" /\ events' = {} /\ deliveries' = {}
    <2>1. \A v \in Updates \cup Samples :
              Stage(v)' = IF Stage(v) = "taken" THEN "taken" ELSE "closed"
      BY <1>2, <1>4 DEF Stage
    <2>2. \A v \in Updates \cup Samples : Fanned(v)' = {}
      BY <1>4 DEF Fanned
    <2>3. TakenOnce!Forget
      BY <2>1, <2>2 DEF TakenOnce!Forget, Stage, Fanned
    <2>4. QED
      BY <2>3 DEF TakenOnce!Next
  <1>5. QED
    BY <1>1, <1>3, <1>4 DEF Operates

LEMMA HandleRefines ==
    ASSUME IngestInv, NEW q \in Requests, Handle(q)
    PROVE  [TakenOnce!Next]_(TakenOnce!intakeVars)
  <1>0. TypeOK /\ {"duplicate", "error", "no_routes", "accepted"} \subseteq Settled
        /\ {"matching", "loading", "saving"} \subseteq Working /\ Working \subseteq InHand
    BY DEF IngestInv, Settled, Ok, Taken, Working, InHand
  <1>1. CASE StoreEvent(q)
    <2>1. request[q].phase = "storing" /\ request[q].phase \in InHand
          /\ UNCHANGED <<operator, deliveries>>
      BY <1>1 DEF StoreEvent, InHand
    <2>2. CASE /\ bot # "gone" /\ ~AlreadyStored(request[q].update)
               /\ events' = events \cup {request[q].update}
               /\ request' = [request EXCEPT ![q].phase = "matching"]
      <3>1. request \in [Requests -> Request] /\ request[q] \in Request
        BY <1>0 DEF TypeOK
      <3>2. request'[q] = [request[q] EXCEPT !.phase = "matching"]
        BY <2>2, <3>1
      <3>3. request'[q] \in Request
        BY <3>1, <3>2 DEF Request, InHand
      <3>4. Moves(q, "matching")
        BY <2>2, <3>1, <3>2, <3>3 DEF Moves, Request
      <3>5. QED
        BY <2>1, <2>2, <3>4, StoreRefines
    <2>3. CASE Reply(q, "duplicate") /\ UNCHANGED events
      BY <1>0, <2>1, <2>3, ReplyMoves, EndRefines
    <2>4. CASE Reply(q, "error") /\ UNCHANGED events
      BY <1>0, <2>1, <2>4, ReplyMoves, EndRefines
    <2>5. QED
      BY <1>1, <2>2, <2>3, <2>4 DEF StoreEvent
  <1>2. CASE MatchRoutes(q)
    <2>1. /\ request[q].phase \in Working /\ UNCHANGED <<operator, events, deliveries>>
          /\ Reply(q, "no_routes") \/ Moves(q, "loading")
      BY <1>0, <1>2, MatchRoutesMoves DEF MatchRoutes
    <2>2. QED
      BY <1>0, <2>1, ReplyMoves, EndRefines, GoesOnRefines
  <1>3. CASE LoadDestinations(q)
    <2>1. /\ request[q].phase \in Working /\ UNCHANGED <<operator, events, deliveries>>
          /\ Reply(q, "no_routes") \/ Moves(q, "saving")
      BY <1>0, <1>3, LoadDestinationsMoves DEF LoadDestinations
    <2>2. QED
      BY <1>0, <2>1, ReplyMoves, EndRefines, GoesOnRefines
  <1>4. CASE SaveDeliveries(q)
    <2>1. request[q].phase = "saving" /\ request[q].phase \in InHand
          /\ UNCHANGED <<operator, events>>
      BY <1>4 DEF SaveDeliveries, InHand
    <2>2. CASE deliveries' = deliveries \cup Rows(q) /\ Reply(q, "accepted")
      BY <1>0, <2>1, <2>2, ReplyMoves, SaveRefines
    <2>3. CASE UNCHANGED deliveries /\ Reply(q, "error")
      BY <1>0, <2>1, <2>3, ReplyMoves, EndRefines
    <2>4. QED
      BY <1>4, <2>2, <2>3 DEF SaveDeliveries
  <1>5. QED
    BY <1>1, <1>2, <1>3, <1>4 DEF Handle

LEMMA RefinesNext == IngestInv /\ [Next]_vars => [TakenOnce!Next]_(TakenOnce!intakeVars)
  <1> SUFFICES ASSUME IngestInv, [Next]_vars PROVE [TakenOnce!Next]_(TakenOnce!intakeVars)
    OBVIOUS
  <1>1. ASSUME NEW q \in Requests, NEW u \in Updates, Webhook(q, u)
        PROVE  [TakenOnce!Next]_(TakenOnce!intakeVars)
    <2>1. \E phase \in {"storing", "not_found", "disabled"} :
              Arrives(q, "webhook", u, Routes, phase)
      BY <1>1 DEF Webhook
    <2>2. UNCHANGED <<operator, events, deliveries>>
      BY <1>1 DEF Webhook
    <2>3. QED
      BY <2>1, <2>2, ArrivesRefines DEF Working
  <1>2. ASSUME NEW q \in Requests, NEW u \in Updates \cup Samples, Replay(q, u)
        PROVE  [TakenOnce!Next]_(TakenOnce!intakeVars)
    BY <1>2, ArrivesRefines DEF Replay
  <1>3. ASSUME NEW q \in Requests, NEW u \in Samples, NEW r \in Routes, Test(q, u, r)
        PROVE  [TakenOnce!Next]_(TakenOnce!intakeVars)
    <2>1. "storing" \notin Working
      BY DEF Working
    <2>2. QED
      BY <1>3, <2>1, ArrivesRefines DEF Test
  <1>4. ASSUME NEW q \in Requests, Handle(q)
        PROVE  [TakenOnce!Next]_(TakenOnce!intakeVars)
    BY <1>4, HandleRefines
  <1>5. ASSUME NEW q \in Requests, QueryFails(q)
        PROVE  [TakenOnce!Next]_(TakenOnce!intakeVars)
    <2>1. "error" \in Settled /\ Failed = "error"
      BY DEF Settled, Failed
    <2>2. Moves(q, "error")
      BY <1>5, <2>1, ReplyMoves DEF QueryFails, IngestInv
    <2>3. QED
      BY <1>5, <2>1, <2>2, EndRefines DEF QueryFails
  <1>6. CASE Crash
    BY <1>6, CrashRefines
  <1>7. CASE Operator
    BY <1>7, OperatorRefines
  <1>8. CASE UNCHANGED vars
    BY <1>8, SameIntake DEF vars, Stage, Fanned, Fanning
  <1>9. QED
    BY <1>1, <1>2, <1>3, <1>4, <1>5, <1>6, <1>7, <1>8 DEF Next

\* Whatever the number of copies Telegram sends, an update is taken by one request and
\* fans out at most once, to all the routes of one match together; repeats, replays,
\* edits, failures and crashes between the statements add no second fan-out.
THEOREM IngestImplementsIntake == Spec => ImplementsIntake
  <1>1. IngestInv /\ [Next]_vars => [TakenOnce!Next]_(TakenOnce!intakeVars)
    BY RefinesNext
  <1>2. QED
    BY <1>1, RefinesInit, IngestInvariant, PTL DEF Spec, ImplementsIntake, TakenOnce!Spec

------------------------------------------------------------------------------
\* What the classifier and the matcher make of an update

\* No type is listed twice.
LEMMA TypesDistinct ==
    \A i, j \in DOMAIN TELEGRAM_UPDATE_TYPES :
        TELEGRAM_UPDATE_TYPES[i] = TELEGRAM_UPDATE_TYPES[j] => i = j
  BY DEF TELEGRAM_UPDATE_TYPES

LEMMA TypesNamed ==
    /\ "message" \in Known /\ "gateway_test" \notin Known /\ "*" \notin Known
    /\ "unknown" \notin Known /\ Chatless \subseteq Known
  BY DEF Known, TELEGRAM_UPDATE_TYPES, Chatless

\* There is a first one among the listed types.
LEMMA FirstOfListed ==
    ASSUME NEW listed \in SUBSET DOMAIN TELEGRAM_UPDATE_TYPES, listed # {}
    PROVE  \E i \in listed : \A j \in listed : i <= j
  <1>1. DOMAIN TELEGRAM_UPDATE_TYPES \subseteq Nat
    BY DEF TELEGRAM_UPDATE_TYPES
  <1>2. PICK first \in listed : \A j \in listed : <<j, first>> \notin OpToRel(<, Nat)
    BY <1>1, NatLessThanWellFounded, WFMin
  <1>3. \A j \in listed : ~(j < first)
    BY <1>1, <1>2 DEF OpToRel
  <1>4. QED
    BY <1>1, <1>3

\* An update with one listed type that has a body is of that type.
LEMMA OnlyListed ==
    ASSUME NEW update, NEW n \in DOMAIN TELEGRAM_UPDATE_TYPES, Listed(update) = {n}
    PROVE  classifyUpdate(update) =
              [eventType |-> TELEGRAM_UPDATE_TYPES[n],
               chatId |-> ChatOf(BodyOf(update, TELEGRAM_UPDATE_TYPES[n]))]
  <1>1. DOMAIN TELEGRAM_UPDATE_TYPES \subseteq Int
    BY DEF TELEGRAM_UPDATE_TYPES
  <1>2. (CHOOSE i \in Listed(update) : \A j \in Listed(update) : i <= j) = n
    BY <1>1
  <1>3. QED
    BY <1>2 DEF classifyUpdate

\* The chat of a body that carries at most one, by itself or in its message.
LEMMA ChatIn ==
    ASSUME NEW chat, NEW body, body \in {PlainBody(chat), Body(NoChat, chat, NoChat, NoChat, NoChat)}
    PROVE  ChatOf(body) = chat
  <1>1. body.kind = "object"
    BY DEF PlainBody, Body
  <1>2. PICK places : places = <<body.chat, body.message, body.replyTo, body.sender, body.voter>>
    OBVIOUS
  <1>3. PICK found : found = {i \in DOMAIN places : places[i] # NoChat}
    OBVIOUS
  <1>4. DOMAIN places = 1..5
    BY <1>2
  <1>5. \/ chat = NoChat /\ found = {}
        \/ chat # NoChat /\ found = {1} /\ places[1] = chat
        \/ chat # NoChat /\ found = {2} /\ places[2] = chat
    <2>1. CASE body = PlainBody(chat)
      <3>1. places = <<chat, NoChat, NoChat, NoChat, NoChat>>
        BY <1>2, <2>1 DEF PlainBody, Body
      <3>2. QED
        BY <1>3, <1>4, <3>1
    <2>2. CASE body = Body(NoChat, chat, NoChat, NoChat, NoChat)
      <3>1. places = <<NoChat, chat, NoChat, NoChat, NoChat>>
        BY <1>2, <2>2 DEF Body
      <3>2. QED
        BY <1>3, <1>4, <3>1
    <2>3. QED
      BY <2>1, <2>2
  <1>6. extractChatId(body) = IF found = {} THEN NoChat
                              ELSE places[CHOOSE i \in found : \A j \in found : i <= j]
    BY <1>2, <1>3 DEF extractChatId
  <1>7. \A n \in 1..5 : found = {n} => (CHOOSE i \in found : \A j \in found : i <= j) = n
    OBVIOUS
  <1>8. extractChatId(body) = chat
    BY <1>5, <1>6, <1>7
  <1>9. QED
    BY <1>1, <1>8 DEF ChatOf

\* The types a route test can be asked for: those of the list, the wildcard and the
\* name of all others.
Testable == Known \cup {"*", "unknown"}

\* The classifier recognises each sample, and finds its chat where it has one.
LEMMA SampleClassified ==
    ASSUME NEW type \in Testable
    PROVE  classifyUpdate(buildSampleUpdate(type)) =
              [eventType |-> IF type \in {"*", "unknown"} THEN "message" ELSE type,
               chatId |-> IF type \in Chatless THEN NoChat ELSE SampleChat]
  <1>1. PICK key : key = IF type \in {"*", "unknown"} THEN "message" ELSE type
    OBVIOUS
  <1>2. PICK body : body = SampleBody(type)
    OBVIOUS
  <1>3. PICK update : update = buildSampleUpdate(type)
    OBVIOUS
  <1>4. /\ DOMAIN update = {1, 2}
        /\ update[1].key = key /\ update[1].body = body
        /\ update[2].key = "gateway_test"
    BY <1>1, <1>2, <1>3 DEF buildSampleUpdate
  <1>5. key \in Known /\ key # "gateway_test"
    BY <1>1, TypesNamed DEF Testable
  <1>6. PICK n \in DOMAIN TELEGRAM_UPDATE_TYPES : TELEGRAM_UPDATE_TYPES[n] = key
    BY <1>5 DEF Known
  <1>7. body # Null
    BY <1>2 DEF SampleBody, PlainBody, Body, Null
  <1>8. Listed(update) = {n}
    <2>1. ASSUME NEW i \in DOMAIN TELEGRAM_UPDATE_TYPES
          PROVE  i \in Listed(update) <=> i = n
      <3>1. TELEGRAM_UPDATE_TYPES[i] # "gateway_test"
        BY TypesNamed DEF Known
      <3>2. TELEGRAM_UPDATE_TYPES[i] = key <=> i = n
        BY <1>6, TypesDistinct
      <3>3. i \in Listed(update) <=> TELEGRAM_UPDATE_TYPES[i] = key
        BY <1>4, <1>7, <3>1 DEF Listed
      <3>4. QED
        BY <3>2, <3>3
    <2>2. QED
      BY <1>6, <2>1 DEF Listed
  <1>9. BodyOf(update, key) = body
    <2>1. (CHOOSE k \in DOMAIN update : update[k].key = key) = 1
      BY <1>4, <1>5
    <2>2. QED
      BY <1>4, <2>1 DEF BodyOf
  <1>10. ChatOf(body) = IF type \in Chatless THEN NoChat ELSE SampleChat
    BY <1>2, ChatIn DEF SampleBody, Chatless, WithMessage
  <1>11. classifyUpdate(update) = [eventType |-> key, chatId |-> ChatOf(body)]
    BY <1>6, <1>8, <1>9, OnlyListed
  <1>12. QED
    BY <1>1, <1>3, <1>10, <1>11

\* A route test verifies its route (bots.ts:101-104): the sample goes through every
\* enabled route with an enabled destination, whatever type is asked for, unless its
\* chat filter lets the sample's chat not through, or the sample has none.
THEOREM TestReachesRoute ==
    ASSUME NEW r, r.enabled,
           r.types \subseteq Known \cup {"*"}, r.types # {}, NoChat \notin r.chats,
           NEW asked \in Testable, NEW type, type = TestType(asked, r.types)
    PROVE  routeMatches(r, TRUE, classifyUpdate(buildSampleUpdate(type))) <=>
              r.chats = {} \/ (type \notin Chatless /\ SampleChat \in r.chats)
  <1>1. PICK input : input = classifyUpdate(buildSampleUpdate(type))
    OBVIOUS
  <1>2. type \in Testable /\ ("*" \in r.types \/ type \in r.types)
    BY DEF TestType, Testable
  <1>3. /\ input.eventType = IF type \in {"*", "unknown"} THEN "message" ELSE type
        /\ input.chatId = IF type \in Chatless THEN NoChat ELSE SampleChat
    BY <1>1, <1>2, SampleClassified
  <1>4. "*" \in r.types \/ input.eventType \in r.types
    BY <1>2, <1>3, TypesNamed
  <1>5. routeMatches(r, TRUE, input) <=> r.chats = {} \/ input.chatId \in r.chats
    BY <1>4 DEF routeMatches
  <1>6. QED
    BY <1>1, <1>3, <1>5

\* The keys of an update that has a known type may come in any order: what is
\* delivered and to whom depends on what the update says only (classifier.ts:76-82).
THEOREM KeyOrderIsIrrelevant ==
    ASSUME NEW update, NEW other, Listed(update) # {},
           \A k, l \in DOMAIN update : update[k].key = update[l].key => k = l,
           \A k, l \in DOMAIN other : other[k].key = other[l].key => k = l,
           \A k \in DOMAIN update : \E l \in DOMAIN other :
              other[l].key = update[k].key /\ other[l].body = update[k].body,
           \A l \in DOMAIN other : \E k \in DOMAIN update :
              other[l].key = update[k].key /\ other[l].body = update[k].body
    PROVE  classifyUpdate(other) = classifyUpdate(update)
  <1>1. Listed(other) = Listed(update)
    BY DEF Listed
  <1>2. PICK listed : listed = Listed(update)
    OBVIOUS
  <1>3. PICK first : first = CHOOSE i \in listed : \A j \in listed : i <= j
    OBVIOUS
  <1>4. first \in listed /\ first \in DOMAIN TELEGRAM_UPDATE_TYPES
    <2>1. listed # {} /\ listed \in SUBSET DOMAIN TELEGRAM_UPDATE_TYPES
      BY <1>2 DEF Listed
    <2>2. \E i \in listed : \A j \in listed : i <= j
      BY <2>1, FirstOfListed
    <2>3. QED
      BY <1>2, <1>3, <2>2 DEF Listed
  <1>5. PICK type : type = TELEGRAM_UPDATE_TYPES[first]
    OBVIOUS
  <1>6. PICK k \in DOMAIN update : update[k].key = type
    BY <1>2, <1>4, <1>5 DEF Listed
  <1>7. BodyOf(update, type) = update[k].body
    BY <1>6 DEF BodyOf
  <1>8. PICK l \in DOMAIN other : other[l].key = type /\ other[l].body = update[k].body
    BY <1>6
  <1>9. BodyOf(other, type) = other[l].body
    BY <1>8 DEF BodyOf
  <1>10. classifyUpdate(update) = [eventType |-> type, chatId |-> ChatOf(BodyOf(update, type))]
    BY <1>2, <1>3, <1>5 DEF classifyUpdate
  <1>11. classifyUpdate(other) = [eventType |-> type, chatId |-> ChatOf(BodyOf(other, type))]
    BY <1>1, <1>2, <1>3, <1>5 DEF classifyUpdate
  <1>12. QED
    BY <1>7, <1>8, <1>9, <1>10, <1>11
==============================================================================
