---------------------------- MODULE WebhookProofs -----------------------------
(***************************************************************************)
(* Proofs about BotWebhook: when the row of table bots tells what Telegram *)
(* has, for any number of requests, ids, base URLs and lists.              *)
(***************************************************************************)
EXTENDS BotWebhook, TLAPS

\* The URLs of one bot, under whichever base.
UrlsOf(b) == {<<b, p>> : p \in Bases}

\* A registration that will still write the row, or find it disabled or gone.
Registers == {"refreshing", "registering", "setting", "set", "failing"}

\* One that has yet to send the list, or to note that it was refused.
Pending == {"refreshing", "registering", "setting", "failing"}

------------------------------------------------------------------------------
\* The inductive invariant

NothingWhenDown == ~up => Busy = {}

\* A request is about an id that has been given to the row.
OnGivenBot ==
    \A r \in Requests : request[r].phase # "idle" =>
        request[r].bot \in Bots /\ request[r].bot \notin unused

\* A request alone is the only one, and its row is still there.
AloneIsAlone ==
    \A r \in Requests : request[r].alone =>
        /\ request[r].phase # "idle" /\ row.id = request[r].bot
        /\ \A q \in Requests : request[q].phase # "idle" => q = r

\* So what it knows of Telegram and of the row is up to date.
AloneKnows ==
    \A r \in Requests :
        LET q == request[r]
        IN  q.alone =>
              /\ q.phase \in {"setting", "set"} => q.allowed = row.allowed
              /\ q.phase = "set" =>
                    telegram.url = webhookUrlFor(q.bot) /\ telegram.allowed = q.allowed
              /\ q.phase = "unset" => telegram.url = NoUrl
              /\ q.phase = "noting" => q.url = telegram.url
              /\ q.phase = "dropping" /\ "url" \in calm => telegram.url = NoUrl

\* Telegram has a webhook of an id that was given to the row, if any; a row that says
\* active has one of its own id, of some base.
UrlsAreGiven ==
    /\ \A b \in unused : telegram.url \notin UrlsOf(b)
    /\ row.state = "active" => row.id \in Bots /\ row.url \in UrlsOf(row.id)

\* The row tells the webhook, also while requests are handled.
Told ==
    /\ row.id = None => telegram.url = NoUrl
    /\ row.id # None =>
        /\ row.state = "active" => telegram.url = row.url
        /\ row.state = "not_configured" => telegram.url = NoUrl
        /\ row.state = "mismatch" => telegram.url = row.url /\ row.url # NoUrl

CalmTells ==
    /\ "list" \in calm => "url" \in calm
    /\ "url" \in calm => Told

\* Telegram has the list of an enabled row whose webhook it has, the row says error, or
\* some request is about to send the list or to write that it failed.
ListSent ==
    "list" \in calm /\ row.enabled /\ row.id \in Bots /\ telegram.url \in UrlsOf(row.id) =>
        \/ telegram.allowed = row.allowed
        \/ row.state = "error"
        \/ \E r \in Requests : request[r].bot = row.id /\ request[r].phase \in Pending

\* An enabled row active under another base is being registered anew.
MoveIsHandled ==
    up /\ row.enabled /\ row.state = "active" =>
        \/ row.url = webhookUrlFor(row.id)
        \/ \E r \in Requests : request[r].bot = row.id /\ request[r].phase \in Registers

WebhookInv ==
    /\ TypeOK
    /\ NothingWhenDown
    /\ OnGivenBot
    /\ AloneIsAlone
    /\ AloneKnows
    /\ UrlsAreGiven
    /\ CalmTells
    /\ ListSent
    /\ MoveIsHandled

------------------------------------------------------------------------------
\* Urls

LEMMA Urls ==
    /\ NoUrl \in Url
    /\ \A b \in Bots : UrlsOf(b) \subseteq Url /\ NoUrl \notin UrlsOf(b)
    /\ \A b \in Bots, c \in Bots : \A u : u \in UrlsOf(b) /\ u \in UrlsOf(c) => b = c
    /\ base \in Bases => \A b \in Bots : webhookUrlFor(b) \in UrlsOf(b)
  <1>1. \A b, p, c, x : <<b, p>> = <<c, x>> => b = c /\ p = x
    OBVIOUS
  <1>2. \A b \in Bots : NoUrl \notin UrlsOf(b)
    BY <1>1, WebhookAssumption DEF UrlsOf, NoUrl
  <1>3. \A b \in Bots : UrlsOf(b) \subseteq Url
    BY DEF UrlsOf, Url
  <1>4. \A b \in Bots, c \in Bots : \A u : u \in UrlsOf(b) /\ u \in UrlsOf(c) => b = c
    BY <1>1 DEF UrlsOf
  <1>5. NoUrl \in Url
    BY DEF Url, NoUrl
  <1>6. base \in Bases => \A b \in Bots : webhookUrlFor(b) \in UrlsOf(b)
    BY DEF UrlsOf, webhookUrlFor
  <1>7. QED
    BY <1>2, <1>3, <1>4, <1>5, <1>6

LEMMA RowsAndRequests ==
    /\ NoRow \in [id: Bots \cup {None}, enabled: BOOLEAN, state: State, url: Url, allowed: Lists]
    /\ NoRow.id = None /\ ~NoRow.enabled /\ NoRow.state = "not_configured" /\ NoRow.url = NoUrl
    /\ Idle \in [phase: Phase, bot: Bots \cup {None}, allowed: Lists,
                 removing: BOOLEAN, url: Url, err: BOOLEAN, alone: BOOLEAN]
    /\ Idle.phase = "idle" /\ ~Idle.alone
  <1>1. PICK l \in Lists : l = CHOOSE x \in Lists : TRUE
    BY WebhookAssumption
  <1>2. NoRow = [id |-> None, enabled |-> FALSE, state |-> "not_configured", url |-> NoUrl,
                 allowed |-> l]
    BY <1>1 DEF NoRow
  <1>3. Idle = [phase |-> "idle", bot |-> None, allowed |-> l, removing |-> FALSE,
                url |-> NoUrl, err |-> FALSE, alone |-> FALSE]
    BY <1>2 DEF Idle
  <1>4. QED
    BY <1>2, <1>3, Urls DEF State, Phase

------------------------------------------------------------------------------
\* What a step does to the requests

RequestType ==
    [phase: Phase, bot: Bots \cup {None}, allowed: Lists,
     removing: BOOLEAN, url: Url, err: BOOLEAN, alone: BOOLEAN]

RowType == [id: Bots \cup {None}, enabled: BOOLEAN, state: State, url: Url, allowed: Lists]

LEMMA Typed ==
    /\ TypeOK => /\ row \in RowType /\ request \in [Requests -> RequestType]
                 /\ base \in Bases /\ telegram \in [url: Url, allowed: Lists, err: BOOLEAN]
                 /\ telegram.url \in Url /\ row.id \in Bots \cup {None}
    /\ NoRow \in RowType /\ Idle \in RequestType
  BY RowsAndRequests DEF TypeOK, RowType, RequestType

\* Request r, which is under way, goes on or ends; nobody else does.
Steps(r) ==
    /\ request' \in [Requests -> RequestType]
    /\ \A x \in Requests : x # r => request'[x] = request[x]
    /\ \/ request'[r] = Idle
       \/ /\ request'[r].phase # "idle" /\ request'[r].bot = request[r].bot
          /\ request'[r].alone = request[r].alone

LEMMA GotoSteps ==
    ASSUME TypeOK, NEW r \in Requests, NEW phase \in Phase \ {"idle"}, Goto(r, phase)
    PROVE  /\ Steps(r) /\ request'[r].phase = phase /\ request'[r].bot = request[r].bot
           /\ request'[r].allowed = request[r].allowed /\ request'[r].url = request[r].url
  <1>1. request \in [Requests -> RequestType] /\ request[r] \in RequestType
    BY Typed
  <1>2. request' = [request EXCEPT ![r] = [request[r] EXCEPT !.phase = phase]]
    BY <1>1 DEF Goto
  <1>3. PICK q : q = [request[r] EXCEPT !.phase = phase]
    OBVIOUS
  <1>4. /\ q \in RequestType /\ q.phase = phase /\ q.bot = request[r].bot
        /\ q.alone = request[r].alone /\ q.allowed = request[r].allowed /\ q.url = request[r].url
    BY <1>1, <1>3 DEF RequestType
  <1>5. request' \in [Requests -> RequestType] /\ request'[r] = q
        /\ \A x \in Requests : x # r => request'[x] = request[x]
    BY <1>1, <1>2, <1>3, <1>4
  <1>6. QED
    BY <1>4, <1>5 DEF Steps

LEMMA EndsSteps ==
    ASSUME TypeOK, NEW r \in Requests, Ends(r)
    PROVE  Steps(r) /\ request'[r] = Idle
  BY Typed DEF Ends, Steps

\* What keeps track of the requests keeps it.
LEMMA StepsKeep ==
    ASSUME WebhookInv, NEW r \in Requests, request[r].phase # "idle", up, Steps(r),
           UNCHANGED <<unused, up>>, row'.id = row.id \/ request'[r] = Idle
    PROVE  /\ NothingWhenDown' /\ OnGivenBot' /\ AloneIsAlone'
           /\ \A x \in Requests : x # r => ~request'[x].alone
           /\ request'[r] # Idle /\ request'[r].alone =>
                request[r].alone /\ request[r].bot = row.id
  <1>1. request'[r] = Idle => request'[r].phase = "idle" /\ ~request'[r].alone
    BY RowsAndRequests
  <1>2. NothingWhenDown'
    BY DEF NothingWhenDown
  <1>3. OnGivenBot'
    BY <1>1 DEF WebhookInv, OnGivenBot, Steps
  <1>4. \A x \in Requests : x # r => ~request'[x].alone
    BY DEF WebhookInv, AloneIsAlone, Steps
  <1>5. request'[r].alone => request'[r] # Idle /\ request'[r].phase # "idle"
                             /\ request[r].alone /\ request'[r].bot = request[r].bot
    BY <1>1 DEF Steps
  <1>6. AloneIsAlone'
    BY <1>4, <1>5 DEF WebhookInv, AloneIsAlone, Steps
  <1>7. QED
    BY <1>2, <1>3, <1>4, <1>5, <1>6 DEF WebhookInv, AloneIsAlone

\* A request that starts; the others are alone no more.
Starts(r, b, phase) ==
    /\ request' \in [Requests -> RequestType]
    /\ request'[r].phase = phase /\ request'[r].bot = b /\ request'[r].alone = (Busy = {})
    /\ \A x \in Requests : x # r =>
          /\ request'[x].phase = request[x].phase /\ request'[x].bot = request[x].bot
          /\ ~request'[x].alone

LEMMA StartStarts ==
    ASSUME TypeOK, NEW r \in Requests, NEW b \in Bots, NEW removing \in BOOLEAN,
           NEW phase \in Phase,
           \/ Start(r, b, phase)
           \/ request' = [q \in Requests |->
                 IF q = r THEN [Idle EXCEPT !.phase = phase, !.bot = b, !.removing = removing,
                                            !.alone = Busy = {}]
                 ELSE [request[q] EXCEPT !.alone = FALSE]]
    PROVE  Starts(r, b, phase)
  <1> DEFINE busy == Busy = {}
  <1>1. PICK idle : idle = Idle
    OBVIOUS
  <1>2. idle \in RequestType /\ busy \in BOOLEAN
    BY <1>1, Typed
  <1>3. request' = [q \in Requests |->
            IF q = r THEN [idle EXCEPT !.phase = phase, !.bot = b, !.alone = busy]
            ELSE [request[q] EXCEPT !.alone = FALSE]]
        \/ request' = [q \in Requests |->
            IF q = r THEN [idle EXCEPT !.phase = phase, !.bot = b, !.removing = removing,
                                       !.alone = busy]
            ELSE [request[q] EXCEPT !.alone = FALSE]]
    BY <1>1 DEF Start
  <1> HIDE DEF busy
  <1>4. \A x \in Requests : request[x] \in RequestType
    BY Typed
  <1>5. /\ request'[r] \in RequestType
        /\ request'[r].phase = phase /\ request'[r].bot = b /\ request'[r].alone = busy
    <2>1. \/ request'[r] = [idle EXCEPT !.phase = phase, !.bot = b, !.alone = busy]
          \/ request'[r] = [idle EXCEPT !.phase = phase, !.bot = b, !.removing = removing,
                                        !.alone = busy]
      BY <1>3
    <2>2. QED
      BY <1>2, <2>1 DEF RequestType
  <1>6. \A x \in Requests : x # r =>
            /\ request'[x] \in RequestType
            /\ request'[x].phase = request[x].phase /\ request'[x].bot = request[x].bot
            /\ ~request'[x].alone
    <2>1. ASSUME NEW old \in RequestType
          PROVE  LET new == [old EXCEPT !.alone = FALSE]
                 IN  /\ new \in RequestType /\ ~new.alone
                     /\ new.phase = old.phase /\ new.bot = old.bot
      BY <2>1 DEF RequestType
    <2> SUFFICES ASSUME NEW x \in Requests, x # r
                 PROVE  /\ request'[x] \in RequestType
                        /\ request'[x].phase = request[x].phase /\ request'[x].bot = request[x].bot
                        /\ ~request'[x].alone
      OBVIOUS
    <2>2. request'[x] = [request[x] EXCEPT !.alone = FALSE]
      BY <1>3
    <2>3. PICK old \in RequestType : old = request[x]
      BY <1>4
    <2>4. QED
      BY <2>1, <2>2, <2>3
  <1>7. request' \in [Requests -> RequestType]
    BY <1>3, <1>5, <1>6
  <1>8. QED
    BY <1>5, <1>6, <1>7 DEF Starts, busy

LEMMA StartsKeep ==
    ASSUME WebhookInv, NEW r \in Requests, NEW b \in Bots, up, UNCHANGED up,
           NEW phase \in {"registering", "refreshing", "unhooking", "asking"},
           Starts(r, b, phase), request[r].phase = "idle",
           row'.id = b, b \notin unused', unused' \subseteq unused
    PROVE  NothingWhenDown' /\ OnGivenBot' /\ AloneIsAlone' /\ AloneKnows'
  <1>1. NothingWhenDown'
    BY DEF NothingWhenDown
  <1>2. OnGivenBot'
    BY DEF WebhookInv, OnGivenBot, Starts
  <1>3. \A x \in Requests : request'[x].alone => x = r /\ Busy = {}
    BY DEF Starts
  <1>4. AloneIsAlone'
    <2>1. Busy = {} => \A x \in Requests : x # r => request'[x].phase = "idle"
      BY DEF Busy, Starts
    <2>2. QED
      BY <1>3, <2>1 DEF AloneIsAlone, Starts
  <1>5. AloneKnows'
    BY <1>3 DEF AloneKnows, Starts
  <1>6. QED
    BY <1>1, <1>2, <1>4, <1>5

------------------------------------------------------------------------------
\* Steps that leave the row and Telegram alone

LEMMA QuietKeeps ==
    ASSUME WebhookInv, NEW r \in Requests, up, request[r].phase # "idle", Steps(r),
           UNCHANGED <<row, unused, telegram, base, up>>,
           calm' \subseteq calm, "list" \in calm' => "url" \in calm',
           request[r].phase \in Pending /\ request[r].bot = row.id /\ row.enabled
               /\ "list" \in calm' => request'[r].phase \in Pending,
           request[r].phase \in Registers /\ request[r].bot = row.id /\ row.enabled =>
               request'[r].phase \in Registers,
           request'[r] # Idle /\ request[r].alone /\ request[r].bot = row.id =>
               LET q == request'[r]
               IN  /\ q.phase \in {"setting", "set"} => q.allowed = row.allowed
                   /\ q.phase \notin {"set", "unset"}
                   /\ q.phase = "noting" => q.url = telegram.url
                   /\ q.phase = "dropping" => calm' = {}
    PROVE  WebhookInv'
  <1>1. /\ NothingWhenDown' /\ OnGivenBot' /\ AloneIsAlone'
        /\ \A x \in Requests : x # r => ~request'[x].alone
        /\ request'[r] # Idle /\ request'[r].alone => request[r].alone /\ request[r].bot = row.id
    BY StepsKeep
  <1>2. TypeOK'
    BY DEF WebhookInv, TypeOK, Steps, RequestType
  <1>3. ~Idle.alone /\ Idle.phase = "idle"
    BY RowsAndRequests
  <1>4. AloneKnows'
    BY <1>1, <1>3 DEF AloneKnows
  <1>5. UrlsAreGiven'
    BY DEF WebhookInv, UrlsAreGiven, UrlsOf
  <1>6. CalmTells'
    BY DEF WebhookInv, CalmTells, Told
  <1>7. \A x \in Requests : x # r => request'[x] = request[x]
    BY DEF Steps
  <1>8. request'[r].phase \in Pending \/ request'[r].phase \in Registers =>
            request'[r].bot = request[r].bot
    BY <1>3 DEF Steps, Pending, Registers
  <1>9. ListSent'
    BY <1>7, <1>8 DEF WebhookInv, ListSent
  <1>10. MoveIsHandled'
    BY <1>7, <1>8 DEF WebhookInv, MoveIsHandled, webhookUrlFor
  <1>11. QED
    BY <1>1, <1>2, <1>4, <1>5, <1>6, <1>9, <1>10 DEF WebhookInv

LEMMA refreshKeeps ==
    ASSUME WebhookInv, NEW r \in Requests, refresh(r)
    PROVE  WebhookInv'
  <1>1. /\ TypeOK /\ up /\ request[r].phase = "refreshing"
        /\ UNCHANGED <<row, unused, telegram, base, up, calm>>
        /\ "list" \in calm' => "url" \in calm'
    BY DEF refresh, At, WebhookInv, CalmTells
  <1>2. CASE row.id = request[r].bot /\ row.enabled
    <2>1. Goto(r, "registering") /\ "registering" \in Phase \ {"idle"}
      BY <1>2 DEF refresh, Phase
    <2>2. Steps(r) /\ request'[r].phase = "registering"
      BY <1>1, <2>1, GotoSteps
    <2>3. QED
      BY <1>1, <2>2, QuietKeeps DEF Pending, Registers
  <1>3. CASE ~(row.id = request[r].bot /\ row.enabled)
    <2>1. Ends(r)
      BY <1>3 DEF refresh
    <2>2. Steps(r) /\ request'[r] = Idle
      BY <1>1, <2>1, EndsSteps
    <2>3. QED
      BY <1>1, <1>3, <2>2, QuietKeeps
  <1>4. QED
    BY <1>2, <1>3

LEMMA readRowKeeps ==
    ASSUME WebhookInv, NEW r \in Requests, readRow(r)
    PROVE  WebhookInv'
  <1>1. /\ TypeOK /\ up /\ request[r].phase = "registering"
        /\ UNCHANGED <<row, unused, telegram, base, up, calm>>
        /\ "list" \in calm' => "url" \in calm'
    BY DEF readRow, At, WebhookInv, CalmTells
  <1>2. CASE row.id = request[r].bot
    <2>1. request \in [Requests -> RequestType] /\ request[r] \in RequestType /\ row.allowed \in Lists
      BY <1>1, Typed DEF TypeOK
    <2>2. request' = [request EXCEPT ![r] = [request[r] EXCEPT !.phase = "setting",
                                                               !.allowed = row.allowed]]
      BY <1>2, <2>1 DEF readRow
    <2>3. PICK q : q = [request[r] EXCEPT !.phase = "setting", !.allowed = row.allowed]
      OBVIOUS
    <2>4. /\ q \in RequestType /\ q.phase = "setting" /\ q.bot = request[r].bot
          /\ q.alone = request[r].alone /\ q.allowed = row.allowed
      BY <2>1, <2>3 DEF RequestType, Phase
    <2>5. request' \in [Requests -> RequestType] /\ request'[r] = q
          /\ \A x \in Requests : x # r => request'[x] = request[x]
      BY <2>1, <2>2, <2>3, <2>4
    <2>6. Steps(r)
      BY <2>4, <2>5 DEF Steps
    <2>7. QED
      BY <1>1, <2>4, <2>5, <2>6, QuietKeeps DEF Pending, Registers
  <1>3. CASE row.id # request[r].bot
    <2>1. Steps(r) /\ request'[r] = Idle
      BY <1>1, <1>3, EndsSteps DEF readRow
    <2>2. QED
      BY <1>1, <1>3, <2>1, QuietKeeps
  <1>4. QED
    BY <1>2, <1>3

LEMMA setWebhookFailsKeeps ==
    ASSUME WebhookInv, NEW r \in Requests, setWebhookFails(r)
    PROVE  WebhookInv'
  <1>1. /\ TypeOK /\ up /\ request[r].phase = "setting" /\ "failing" \in Phase \ {"idle"}
        /\ UNCHANGED <<row, unused, telegram, base, up, calm>>
        /\ "list" \in calm' => "url" \in calm'
    BY DEF setWebhookFails, At, WebhookInv, CalmTells, Phase
  <1>2. Steps(r) /\ request'[r].phase = "failing"
    BY <1>1, GotoSteps DEF setWebhookFails
  <1>3. QED
    BY <1>1, <1>2, QuietKeeps DEF Pending, Registers

LEMMA unhookKeeps ==
    ASSUME WebhookInv, NEW r \in Requests, unhook(r)
    PROVE  WebhookInv'
  <1>1. /\ TypeOK /\ up /\ request[r].phase = "unhooking" /\ request[r].phase \notin Registers
        /\ request[r].phase \notin Pending /\ {"deleting", "dropping"} \subseteq Phase \ {"idle"}
        /\ UNCHANGED <<row, unused, telegram, base, up, calm>>
        /\ "list" \in calm' => "url" \in calm'
    BY DEF unhook, At, WebhookInv, CalmTells, Registers, Pending, Phase
  <1>2. CASE row.id = request[r].bot /\ Goto(r, "deleting")
    <2>1. Steps(r) /\ request'[r].phase = "deleting"
      BY <1>1, <1>2, GotoSteps
    <2>2. QED
      BY <1>1, <2>1, QuietKeeps
  <1>3. CASE row.id # request[r].bot /\ Goto(r, "dropping")
    <2>1. Steps(r)
      BY <1>1, <1>3, GotoSteps
    <2>2. QED
      BY <1>1, <1>3, <2>1, QuietKeeps
  <1>4. CASE Ends(r)
    <2>1. Steps(r) /\ request'[r] = Idle
      BY <1>1, <1>4, EndsSteps
    <2>2. QED
      BY <1>1, <2>1, QuietKeeps
  <1>5. QED
    BY <1>2, <1>3, <1>4 DEF unhook

LEMMA deleteWebhookFailsKeeps ==
    ASSUME WebhookInv, NEW r \in Requests, deleteWebhookFails(r)
    PROVE  WebhookInv'
  <1>1. /\ TypeOK /\ up /\ request[r].phase = "deleting" /\ request[r].phase \notin Registers
        /\ request[r].phase \notin Pending /\ "dropping" \in Phase \ {"idle"}
        /\ UNCHANGED <<row, unused, telegram, base, up>>
        /\ calm' \subseteq calm /\ ("list" \in calm' => "url" \in calm')
    BY DEF deleteWebhookFails, At, WebhookInv, CalmTells, Registers, Pending, Phase
  <1>2. CASE request[r].removing
    <2>1. Steps(r) /\ request'[r].phase = "dropping" /\ calm' = {}
      BY <1>1, <1>2, GotoSteps DEF deleteWebhookFails, GiveUpDelete
    <2>2. QED
      BY <1>1, <2>1, QuietKeeps
  <1>3. CASE ~request[r].removing
    <2>1. Steps(r) /\ request'[r] = Idle
      BY <1>1, <1>3, EndsSteps DEF deleteWebhookFails, GiveUpDelete
    <2>2. QED
      BY <1>1, <2>1, QuietKeeps
  <1>4. QED
    BY <1>2, <1>3

LEMMA getWebhookInfoKeeps ==
    ASSUME WebhookInv, NEW r \in Requests, getWebhookInfo(r)
    PROVE  WebhookInv'
  <1>1. /\ TypeOK /\ up /\ request[r].phase = "asking" /\ request[r].phase \notin Registers
        /\ request[r].phase \notin Pending
        /\ UNCHANGED <<row, unused, telegram, base, up, calm>>
        /\ "list" \in calm' => "url" \in calm'
    BY DEF getWebhookInfo, At, WebhookInv, CalmTells, Registers, Pending
  <1>2. /\ request \in [Requests -> RequestType] /\ request[r] \in RequestType
        /\ telegram.url \in Url /\ telegram.err \in BOOLEAN
    BY <1>1, Typed
  <1>3. request' = [request EXCEPT ![r] = [request[r] EXCEPT !.phase = "noting",
                                           !.url = telegram.url, !.err = telegram.err]]
    BY <1>2 DEF getWebhookInfo
  <1>4. PICK q : q = [request[r] EXCEPT !.phase = "noting", !.url = telegram.url,
                                        !.err = telegram.err]
    OBVIOUS
  <1>5. /\ q \in RequestType /\ q.phase = "noting" /\ q.bot = request[r].bot
        /\ q.alone = request[r].alone /\ q.url = telegram.url
    BY <1>2, <1>4 DEF RequestType, Phase
  <1>6. request' \in [Requests -> RequestType] /\ request'[r] = q
        /\ \A x \in Requests : x # r => request'[x] = request[x]
    BY <1>2, <1>3, <1>4, <1>5
  <1>7. Steps(r)
    BY <1>5, <1>6 DEF Steps
  <1>8. QED
    BY <1>1, <1>5, <1>6, <1>7, QuietKeeps

LEMMA getWebhookInfoFailsKeeps ==
    ASSUME WebhookInv, NEW r \in Requests, getWebhookInfoFails(r)
    PROVE  WebhookInv'
  <1>1. /\ TypeOK /\ up /\ request[r].phase = "asking" /\ request[r].phase \notin Registers
        /\ request[r].phase \notin Pending
        /\ UNCHANGED <<row, unused, telegram, base, up, calm>>
        /\ "list" \in calm' => "url" \in calm'
    BY DEF getWebhookInfoFails, At, WebhookInv, CalmTells, Registers, Pending
  <1>2. Steps(r) /\ request'[r] = Idle
    BY <1>1, EndsSteps DEF getWebhookInfoFails
  <1>3. QED
    BY <1>1, <1>2, QuietKeeps

------------------------------------------------------------------------------
\* Steps that change what Telegram has

LEMMA TelegramKeeps ==
    ASSUME WebhookInv, NEW r \in Requests, up, request[r].phase # "idle", Steps(r),
           UNCHANGED <<row, unused, base, up>>, calm' = {},
           telegram' \in [url: Url, allowed: Lists, err: BOOLEAN],
           \A b \in unused : telegram'.url \notin UrlsOf(b),
           request[r].phase \in Registers => request'[r].phase \in Registers,
           request'[r] # Idle /\ request[r].alone /\ request[r].bot = row.id =>
               LET q == request'[r]
               IN  /\ q.phase \notin {"setting", "noting"}
                   /\ q.phase = "set" => /\ q.allowed = row.allowed
                                         /\ telegram'.url = webhookUrlFor(q.bot)
                                         /\ telegram'.allowed = q.allowed
                   /\ q.phase = "unset" => telegram'.url = NoUrl
    PROVE  WebhookInv'
  <1>1. /\ NothingWhenDown' /\ OnGivenBot' /\ AloneIsAlone'
        /\ \A x \in Requests : x # r => ~request'[x].alone
        /\ request'[r] # Idle /\ request'[r].alone => request[r].alone /\ request[r].bot = row.id
    BY StepsKeep
  <1>2. TypeOK'
    BY DEF WebhookInv, TypeOK, Steps, RequestType
  <1>3. ~Idle.alone /\ Idle.phase = "idle"
    BY RowsAndRequests
  <1>4. AloneKnows'
    BY <1>1, <1>3 DEF AloneKnows, webhookUrlFor
  <1>5. UrlsAreGiven'
    BY DEF WebhookInv, UrlsAreGiven, UrlsOf
  <1>6. CalmTells' /\ ListSent'
    BY DEF CalmTells, ListSent
  <1>7. \A x \in Requests : x # r => request'[x] = request[x]
    BY DEF Steps
  <1>8. request'[r].phase \in Registers => request'[r].bot = request[r].bot
    BY <1>3 DEF Steps, Registers
  <1>9. MoveIsHandled'
    BY <1>7, <1>8 DEF WebhookInv, MoveIsHandled, webhookUrlFor
  <1>10. QED
    BY <1>1, <1>2, <1>4, <1>5, <1>6, <1>9 DEF WebhookInv

LEMMA setWebhookKeeps ==
    ASSUME WebhookInv, NEW r \in Requests, NEW lost \in BOOLEAN, setWebhook(r, lost)
    PROVE  WebhookInv'
  <1>1. /\ TypeOK /\ up /\ request[r].phase = "setting" /\ {"failing", "set"} \subseteq Phase \ {"idle"}
        /\ UNCHANGED <<row, unused, base, up>> /\ calm' = {}
        /\ telegram' = [url |-> webhookUrlFor(request[r].bot), allowed |-> request[r].allowed,
                        err |-> FALSE]
        /\ Goto(r, IF lost THEN "failing" ELSE "set")
    BY DEF setWebhook, At, WebhookInv, Phase, Unsettled
  <1>2. request[r] \in RequestType /\ base \in Bases
    BY <1>1, Typed
  <1>3. request[r].bot \in Bots \ unused /\ request[r].allowed \in Lists
    BY <1>1, <1>2 DEF WebhookInv, OnGivenBot, RequestType
  <1>4. /\ telegram'.url = webhookUrlFor(request[r].bot) /\ telegram'.allowed = request[r].allowed
        /\ telegram'.url \in UrlsOf(request[r].bot)
    BY <1>1, <1>2, <1>3, Urls
  <1>5. telegram' \in [url: Url, allowed: Lists, err: BOOLEAN]
    BY <1>1, <1>2, <1>3, Urls
  <1>6. \A b \in unused : telegram'.url \notin UrlsOf(b)
    BY <1>1, <1>3, <1>4, Urls DEF TypeOK
  <1>7. /\ Steps(r) /\ request'[r].phase \in {"failing", "set"}
        /\ request'[r].bot = request[r].bot /\ request'[r].allowed = request[r].allowed
    BY <1>1, GotoSteps
  <1>8. request[r].alone => request[r].allowed = row.allowed
    BY <1>1 DEF WebhookInv, AloneKnows
  <1>9. QED
    BY <1>1, <1>4, <1>5, <1>6, <1>7, <1>8, TelegramKeeps DEF Registers

LEMMA deleteWebhookKeeps ==
    ASSUME WebhookInv, NEW r \in Requests, NEW lost \in BOOLEAN, deleteWebhook(r, lost)
    PROVE  WebhookInv'
  <1>1. /\ TypeOK /\ up /\ request[r].phase = "deleting" /\ request[r].phase \notin Registers
        /\ {"dropping", "unset"} \subseteq Phase \ {"idle"}
        /\ UNCHANGED <<row, unused, base, up>> /\ calm' = {}
        /\ telegram' = [telegram EXCEPT !.url = NoUrl, !.err = FALSE]
    BY DEF deleteWebhook, At, WebhookInv, Phase, Unsettled, Registers
  <1>2. telegram' \in [url: Url, allowed: Lists, err: BOOLEAN] /\ telegram'.url = NoUrl
    BY <1>1, Urls DEF TypeOK
  <1>3. \A b \in unused : telegram'.url \notin UrlsOf(b)
    BY <1>1, <1>2, Urls DEF TypeOK
  <1>4. /\ Steps(r)
        /\ request'[r] = Idle \/ request'[r].phase = "dropping" \/ request'[r].phase = "unset"
    <2>1. CASE Goto(r, "unset")
      BY <1>1, <2>1, GotoSteps
    <2>2. CASE Goto(r, "dropping")
      BY <1>1, <2>2, GotoSteps
    <2>3. CASE Ends(r)
      BY <1>1, <2>3, EndsSteps
    <2>4. QED
      BY <2>1, <2>2, <2>3 DEF deleteWebhook, GiveUpDelete
  <1>5. QED
    BY <1>1, <1>2, <1>3, <1>4, TelegramKeeps

------------------------------------------------------------------------------
\* Steps that note in the row what became of an exchange

LEMMA Updates ==
    ASSUME TypeOK, NEW b \in Bots, NEW changed \in RowType, Update(b, changed),
           changed.id = row.id
    PROVE  /\ row' \in RowType /\ row'.id = row.id
           /\ row.id # b => row' = row
           /\ row.id = b => row' = changed
  BY Typed DEF Update

\* A state and a URL are written, by a request that has got an answer.
LEMMA NotesKeep ==
    ASSUME WebhookInv, NEW r \in Requests, up, request[r].phase # "idle", Steps(r),
           UNCHANGED <<unused, telegram, base, up>>,
           NEW state \in State, NEW url \in Url,
           request[r].phase \in Pending => state = "error",
           Update(request[r].bot, [row EXCEPT !.state = state, !.url = url]),
           state = "active" => url = webhookUrlFor(request[r].bot),
           request[r].phase \in Registers => request'[r] = Idle /\ state \in {"active", "error"},
           calm' \subseteq {"url", "list"}, "list" \in calm' => "url" \in calm',
           "url" \in calm' =>
               \/ request[r].alone /\ (state = "active" \/ state = "mismatch" => telegram.url = url)
                  /\ (state = "not_configured" => telegram.url = NoUrl)
                  /\ (state = "mismatch" => url # NoUrl)
               \/ calm' = calm /\ state = "error",
           "list" \in calm' =>
               \/ "list" \in calm /\ (row.state # "error" \/ state = "error")
               \/ request[r].alone /\ telegram.allowed = row.allowed
               \/ request[r].alone /\ telegram.url = NoUrl,
           request'[r] # Idle => request'[r].phase = "dropping" /\ (request[r].alone => telegram.url = NoUrl)
    PROVE  WebhookInv'
  <1>0. TypeOK /\ row \in RowType /\ request[r].bot \in Bots /\ base \in Bases
    BY Typed DEF WebhookInv, OnGivenBot
  <1>1. PICK changed : changed = [row EXCEPT !.state = state, !.url = url]
    OBVIOUS
  <1>2. /\ changed \in RowType /\ changed.id = row.id /\ changed.enabled = row.enabled
        /\ changed.allowed = row.allowed /\ changed.state = state /\ changed.url = url
    BY <1>0, <1>1 DEF RowType
  <1>3. /\ row' \in RowType /\ row'.id = row.id
        /\ row.id # request[r].bot => row' = row
        /\ row.id = request[r].bot => row' = changed
    BY <1>0, <1>1, <1>2, Updates
  <1>4. row'.enabled = row.enabled /\ row'.allowed = row.allowed
    BY <1>2, <1>3
  <1>5. /\ NothingWhenDown' /\ OnGivenBot' /\ AloneIsAlone'
        /\ \A x \in Requests : x # r => ~request'[x].alone
        /\ request'[r] # Idle /\ request'[r].alone => request[r].alone /\ request[r].bot = row.id
    BY <1>3, StepsKeep
  <1>6. request[r].alone => row.id = request[r].bot
    BY DEF WebhookInv, AloneIsAlone
  <1>7. ~Idle.alone /\ Idle.phase = "idle"
    BY RowsAndRequests
  <1>8. TypeOK'
    BY <1>0, <1>3 DEF TypeOK, Steps, RequestType, RowType
  <1>9. AloneKnows'
    BY <1>5, <1>7 DEF AloneKnows
  <1>10. UrlsAreGiven'
    BY <1>0, <1>2, <1>3, Urls DEF WebhookInv, UrlsAreGiven, UrlsOf
  <1>11. CalmTells'
    <2>1. ASSUME "url" \in calm' PROVE Told'
      <3>1. CASE request[r].alone
        BY <1>0, <1>2, <1>3, <1>6, <2>1, <3>1, WebhookAssumption DEF WebhookInv, CalmTells, Told
      <3>2. CASE ~request[r].alone
        BY <1>2, <1>3, <2>1, <3>2 DEF WebhookInv, CalmTells, Told
      <3>3. QED
        BY <3>1, <3>2
    <2>2. QED
      BY <2>1 DEF CalmTells
  <1>12. ListSent'
    <2>1. telegram.url \in UrlsOf(row.id) /\ row.id \in Bots => telegram.url # NoUrl
      BY Urls
    <2>2. \A x \in Requests : x # r => request'[x] = request[x]
      BY DEF Steps
    <2>3. row.id = request[r].bot => row'.state = state
      BY <1>2, <1>3
    <2>4. row.id # request[r].bot => row'.state = row.state
      BY <1>3
    <2> SUFFICES ASSUME "list" \in calm', row.enabled, row.id \in Bots,
                        telegram.url \in UrlsOf(row.id), telegram.allowed # row.allowed,
                        row'.state # "error"
                 PROVE  \E x \in Requests : /\ request'[x].bot = row.id
                                            /\ request'[x].phase \in Pending
      BY <1>3, <1>4 DEF ListSent, UrlsOf
    <2>5. /\ "list" \in calm /\ (row.state # "error" \/ state = "error")
      BY <2>1
    <2>6. row.state # "error"
      BY <2>3, <2>4, <2>5
    <2>7. PICK x \in Requests : request[x].bot = row.id /\ request[x].phase \in Pending
      BY <2>5, <2>6 DEF WebhookInv, ListSent
    <2>8. x # r
      BY <2>3, <2>7
    <2>9. QED
      BY <2>2, <2>7, <2>8
  <1>13. MoveIsHandled'
    <2>1. \A x \in Requests : request[x].phase \in Registers =>
              x = r \/ request'[x] = request[x]
      BY DEF Steps
    <2>2. row.id = request[r].bot => row'.state = state /\ row'.url = url
      BY <1>2, <1>3
    <2>3. QED
      BY <1>3, <1>4, <2>1, <2>2 DEF WebhookInv, MoveIsHandled, webhookUrlFor
  <1>14. QED
    BY <1>5, <1>8, <1>9, <1>10, <1>11, <1>12, <1>13 DEF WebhookInv

LEMMA markActiveKeeps ==
    ASSUME WebhookInv, NEW r \in Requests, markActive(r)
    PROVE  WebhookInv'
  <1>1. /\ TypeOK /\ up /\ request[r].phase = "set" /\ request[r].phase \notin Pending
        /\ UNCHANGED <<unused, telegram, base, up>> /\ "active" \in State
        /\ calm \subseteq {"url", "list"} /\ base \in Bases
    BY DEF markActive, At, WebhookInv, TypeOK, Pending, State
  <1>2. Steps(r) /\ request'[r] = Idle
    BY <1>1, EndsSteps DEF markActive
  <1>3. request[r].bot \in Bots
    BY <1>1 DEF WebhookInv, OnGivenBot
  <1>4. PICK url \in Url : url = webhookUrlFor(request[r].bot)
    BY <1>1, <1>3, Urls
  <1>5. Update(request[r].bot, [row EXCEPT !.state = "active", !.url = url])
    BY <1>4 DEF markActive
  <1>6. request[r].alone => telegram.url = url /\ telegram.allowed = row.allowed
    BY <1>1, <1>4 DEF WebhookInv, AloneKnows
  <1>7. calm' = IF request[r].alone THEN calm \cup {"url", "list"} ELSE {}
    BY DEF markActive, Settle
  <1>8. QED
    BY <1>1, <1>2, <1>4, <1>5, <1>6, <1>7, NotesKeep

LEMMA markErrorKeeps ==
    ASSUME WebhookInv, NEW r \in Requests, markError(r)
    PROVE  WebhookInv'
  <1>1. /\ TypeOK /\ up /\ request[r].phase = "failing"
        /\ UNCHANGED <<unused, telegram, base, up, calm>> /\ "error" \in State
        /\ calm \subseteq {"url", "list"} /\ ("list" \in calm => "url" \in calm)
    BY DEF markError, At, WebhookInv, TypeOK, Pending, State, CalmTells
  <1>2. Steps(r) /\ request'[r] = Idle
    BY <1>1, EndsSteps DEF markError
  <1>3. row \in RowType
    BY <1>1, Typed
  <1>4. PICK url \in Url : url = row.url
    BY <1>3 DEF RowType
  <1>5. [row EXCEPT !.state = "error"] = [row EXCEPT !.state = "error", !.url = url]
    BY <1>3, <1>4 DEF RowType
  <1>6. Update(request[r].bot, [row EXCEPT !.state = "error", !.url = url])
    BY <1>5 DEF markError
  <1>7. QED
    BY <1>1, <1>2, <1>6, NotesKeep

LEMMA markUnsetKeeps ==
    ASSUME WebhookInv, NEW r \in Requests, markUnset(r)
    PROVE  WebhookInv'
  <1>1. /\ TypeOK /\ up /\ request[r].phase = "unset" /\ request[r].phase \notin Pending
        /\ request[r].phase \notin Registers /\ "dropping" \in Phase \ {"idle"}
        /\ UNCHANGED <<unused, telegram, base, up>> /\ "not_configured" \in State
        /\ calm \subseteq {"url", "list"}
    BY DEF markUnset, At, WebhookInv, TypeOK, Pending, Registers, State, Phase
  <1>2. Steps(r) /\ (request'[r] = Idle \/ request'[r].phase = "dropping")
    <2>1. CASE Goto(r, "dropping")
      BY <1>1, <2>1, GotoSteps
    <2>2. CASE Ends(r)
      BY <1>1, <2>2, EndsSteps
    <2>3. QED
      BY <2>1, <2>2 DEF markUnset, GiveUpDelete
  <1>3. request[r].alone => telegram.url = NoUrl
    BY <1>1 DEF WebhookInv, AloneKnows
  <1>4. calm' = IF request[r].alone THEN calm \cup {"url", "list"} ELSE {}
    BY DEF markUnset, Settle
  <1>5. Update(request[r].bot, [row EXCEPT !.state = "not_configured", !.url = NoUrl])
    BY DEF markUnset
  <1>6. NoUrl \in Url
    BY Urls
  <1>7. /\ calm' \subseteq {"url", "list"} /\ ("list" \in calm' => "url" \in calm')
        /\ "url" \in calm' => request[r].alone
    BY <1>1, <1>4
  <1>8. /\ "url" \in calm' => request[r].alone /\ telegram.url = NoUrl
        /\ "list" \in calm' => request[r].alone /\ telegram.url = NoUrl
        /\ request'[r] # Idle => request'[r].phase = "dropping"
        /\ NoUrl \in Url /\ "not_configured" \notin {"active", "mismatch"}
    BY <1>2, <1>3, <1>4, <1>6, <1>7
  <1>9. QED
    BY <1>1, <1>2, <1>3, <1>5, <1>7, <1>8, NotesKeep

LEMMA noteInfoKeeps ==
    ASSUME WebhookInv, NEW r \in Requests, noteInfo(r)
    PROVE  WebhookInv'
  <1>1. /\ TypeOK /\ up /\ request[r].phase = "noting" /\ request[r].phase \notin Pending
        /\ request[r].phase \notin Registers
        /\ UNCHANGED <<unused, telegram, base, up>>
        /\ calm \subseteq {"url", "list"} /\ ("list" \in calm => "url" \in calm)
    BY DEF noteInfo, At, WebhookInv, TypeOK, Pending, Registers, CalmTells
  <1>2. Steps(r) /\ request'[r] = Idle
    BY <1>1, EndsSteps DEF noteInfo
  <1>3. request[r] \in RequestType
    BY <1>1, Typed
  <1>4. PICK url \in Url : url = request[r].url
    BY <1>3 DEF RequestType
  <1>5. PICK state \in State : state = InfoState(request[r].bot, url, request[r].err)
    BY DEF InfoState, State
  <1>6. /\ state = "active" => url = webhookUrlFor(request[r].bot)
        /\ state = "not_configured" => url = NoUrl
        /\ state = "mismatch" => url # NoUrl
    BY <1>5 DEF InfoState
  <1>7. Update(request[r].bot, [row EXCEPT !.state = state, !.url = url])
    BY <1>4, <1>5 DEF noteInfo
  <1>8. request[r].alone => telegram.url = url
    BY <1>1, <1>4 DEF WebhookInv, AloneKnows
  <1>9. calm' = IF ~request[r].alone THEN {}
                ELSE {"url"} \cup (IF row.state = "error" THEN {} ELSE calm)
    BY DEF noteInfo
  <1>10. QED
    BY <1>1, <1>2, <1>6, <1>7, <1>8, <1>9, NotesKeep

\* A row that goes takes nothing along that the panel would miss, unless calm forgets it.
LEMMA removeKeeps ==
    ASSUME WebhookInv, NEW r \in Requests, remove(r)
    PROVE  WebhookInv'
  <1>1. /\ TypeOK /\ up /\ request[r].phase = "dropping"
        /\ UNCHANGED <<unused, telegram, base, up>>
        /\ calm' = IF request[r].alone THEN calm ELSE {}
        /\ row' = IF row.id = request[r].bot THEN NoRow ELSE row
    BY DEF remove, At, WebhookInv, Update
  <1>2. Steps(r) /\ request'[r] = Idle
    BY <1>1, EndsSteps DEF remove
  <1>3. /\ NothingWhenDown' /\ OnGivenBot' /\ AloneIsAlone'
        /\ \A x \in Requests : x # r => ~request'[x].alone
    BY <1>1, <1>2, StepsKeep
  <1>4. ~Idle.alone /\ NoRow \in RowType /\ NoRow.id = None /\ ~NoRow.enabled
        /\ NoRow.state = "not_configured"
    BY RowsAndRequests, Typed
  <1>5. TypeOK'
    BY <1>1, <1>2, <1>4, WebhookAssumption DEF TypeOK, Steps, RequestType, RowType
  <1>6. AloneKnows'
    BY <1>2, <1>3, <1>4 DEF AloneKnows
  <1>7. UrlsAreGiven'
    BY <1>1, <1>4 DEF WebhookInv, UrlsAreGiven, UrlsOf
  <1>8. request[r].alone => row.id = request[r].bot /\ ("url" \in calm => telegram.url = NoUrl)
    BY <1>1 DEF WebhookInv, AloneIsAlone, AloneKnows
  <1>9. CalmTells'
    BY <1>1, <1>4, <1>8 DEF WebhookInv, CalmTells, Told
  <1>10. ListSent'
    BY <1>1, <1>4, <1>8 DEF ListSent
  <1>11. MoveIsHandled'
    <2>1. \A x \in Requests : request[x].phase \in Registers => request'[x] = request[x]
      BY <1>1, <1>2 DEF Steps, Registers
    <2>2. QED
      BY <1>1, <1>4, <2>1 DEF WebhookInv, MoveIsHandled, webhookUrlFor
  <1>12. QED
    BY <1>3, <1>5, <1>6, <1>7, <1>9, <1>10, <1>11 DEF WebhookInv

------------------------------------------------------------------------------
\* Steps that begin a request

LEMMA createKeeps ==
    ASSUME WebhookInv, NEW r \in Requests, NEW b \in Bots, NEW enabled \in BOOLEAN,
           NEW list \in Lists, create(r, b, enabled, list)
    PROVE  WebhookInv'
  <1>1. /\ TypeOK /\ up /\ request[r].phase = "idle" /\ row.id = None /\ b \in unused
        /\ unused' = unused \ {b} /\ UNCHANGED <<telegram, base, up, calm>>
        /\ b # None
    BY WebhookAssumption DEF create, At, WebhookInv
  <1>2. PICK empty : empty = NoRow
    OBVIOUS
  <1>3. row' = [empty EXCEPT !.id = b, !.enabled = enabled, !.allowed = list]
    BY <1>2 DEF create
  <1>4. empty \in RowType /\ empty.state = "not_configured"
    BY <1>2, Typed, RowsAndRequests
  <1>5. /\ row' \in RowType /\ row'.id = b /\ row'.enabled = enabled /\ row'.allowed = list
        /\ row'.state = "not_configured"
    BY <1>3, <1>4 DEF RowType
  <1>6. \A x \in Requests : ~request[x].alone
    BY <1>1, WebhookAssumption DEF WebhookInv, AloneIsAlone, OnGivenBot
  <1>7. request' \in [Requests -> RequestType]
        /\ NothingWhenDown' /\ OnGivenBot' /\ AloneIsAlone' /\ AloneKnows'
    <2>1. CASE enabled
      <3>1. "registering" \in Phase
        BY DEF Phase
      <3>2. Starts(r, b, "registering")
        BY <1>1, <2>1, <3>1, StartStarts DEF create
      <3>3. QED
        BY <1>1, <1>5, <3>2, StartsKeep DEF Starts
    <2>2. CASE ~enabled
      <3>1. UNCHANGED request
        BY <2>2 DEF create
      <3>2. QED
        BY <1>1, <1>6, <3>1, Typed
             DEF WebhookInv, NothingWhenDown, OnGivenBot, AloneIsAlone, AloneKnows, Busy
    <2>3. QED
      BY <2>1, <2>2
  <1>8. TypeOK'
    BY <1>1, <1>5, <1>7 DEF TypeOK, RequestType, RowType
  <1>9. UrlsAreGiven'
    BY <1>1, <1>5 DEF WebhookInv, UrlsAreGiven, UrlsOf
  <1>10. CalmTells'
    BY <1>1, <1>5 DEF WebhookInv, CalmTells, Told
  <1>11. ListSent'
    BY <1>1, <1>5 DEF WebhookInv, UrlsAreGiven, ListSent, UrlsOf
  <1>12. MoveIsHandled'
    BY <1>5 DEF MoveIsHandled
  <1>13. QED
    BY <1>7, <1>8, <1>9, <1>10, <1>11, <1>12 DEF WebhookInv

LEMMA updateKeeps ==
    ASSUME WebhookInv, NEW r \in Requests, NEW enabled \in {"same", "on", "off"},
           NEW list \in Lists \cup {None}, update(r, enabled, list)
    PROVE  WebhookInv'
  <1>1. /\ TypeOK /\ up /\ request[r].phase = "idle" /\ row.id \in Bots /\ row.id \notin unused
        /\ UNCHANGED <<unused, telegram, base, up, calm>>
    BY Typed DEF update, At, WebhookInv, TypeOK
  <1>2. row \in RowType
    BY <1>1, Typed
  <1>3. row' = [row EXCEPT !.enabled = IF enabled = "same" THEN row.enabled ELSE enabled = "on",
                           !.allowed = IF list = None THEN row.allowed ELSE list]
    BY <1>2 DEF update, RowType
  <1>4. PICK on \in BOOLEAN : on = IF enabled = "same" THEN row.enabled ELSE enabled = "on"
    BY <1>2 DEF RowType
  <1>5. PICK to \in Lists : to = IF list = None THEN row.allowed ELSE list
    BY <1>2 DEF RowType
  <1>6. row' = [row EXCEPT !.enabled = on, !.allowed = to]
    BY <1>3, <1>4, <1>5
  <1>7. /\ row' \in RowType /\ row'.id = row.id /\ row'.enabled = on /\ row'.allowed = to
        /\ row'.state = row.state /\ row'.url = row.url
    BY <1>2, <1>6 DEF RowType
  <1>8. /\ UrlsAreGiven' /\ CalmTells'
    BY <1>1, <1>7 DEF WebhookInv, UrlsAreGiven, CalmTells, Told, UrlsOf
  <1>9. ASSUME NEW phase \in {"unhooking", "refreshing"}, Start(r, row.id, phase),
               phase = "unhooking" => ~on
        PROVE  WebhookInv'
    <2>1. phase \in Phase
      BY DEF Phase
    <2>2. PICK b \in Bots : b = row.id
      BY <1>1
    <2>3. Starts(r, b, phase)
      BY <1>1, <1>9, <2>1, <2>2, StartStarts
    <2>4. NothingWhenDown' /\ OnGivenBot' /\ AloneIsAlone' /\ AloneKnows'
      BY <1>1, <1>7, <2>2, <2>3, StartsKeep
    <2>5. TypeOK'
      BY <1>1, <1>7, <2>3 DEF TypeOK, Starts, RequestType, RowType
    <2>6. request'[r].bot = row'.id /\ request'[r].phase = phase
      BY <1>7, <2>2, <2>3 DEF Starts
    <2>7. phase = "refreshing" => phase \in Pending /\ phase \in Registers
      BY DEF Pending, Registers
    <2>8. ListSent' /\ MoveIsHandled'
      BY <1>7, <1>9, <2>6, <2>7 DEF ListSent, MoveIsHandled
    <2>9. QED
      BY <1>8, <2>4, <2>5, <2>8 DEF WebhookInv
  <1>10. CASE enabled = "off"
    BY <1>4, <1>9, <1>10 DEF update
  <1>11. CASE enabled # "off" /\ (enabled = "on" \/ list # None)
    BY <1>9, <1>11 DEF update
  <1>12. CASE enabled = "same" /\ list = None
    <2>1. UNCHANGED request /\ on = row.enabled /\ to = row.allowed
      BY <1>4, <1>5, <1>12 DEF update
    <2>2. row' = row
      BY <1>2, <1>7, <2>1 DEF RowType
    <2>3. QED
      BY <1>1, <2>1, <2>2 DEF WebhookInv, TypeOK, NothingWhenDown, OnGivenBot, AloneIsAlone,
           AloneKnows, UrlsAreGiven, CalmTells, Told, ListSent, MoveIsHandled, UrlsOf, Busy,
           webhookUrlFor
  <1>13. QED
    BY <1>10, <1>11, <1>12

LEMMA askKeeps ==
    ASSUME WebhookInv, NEW r \in Requests, NEW phase \in {"registering", "unhooking", "asking"},
           NEW removing \in BOOLEAN, ask(r, phase, removing)
    PROVE  WebhookInv'
  <1>1. /\ TypeOK /\ up /\ request[r].phase = "idle" /\ row.id \in Bots /\ row.id \notin unused
        /\ UNCHANGED <<row, unused, telegram, base, up, calm>> /\ phase \in Phase
    BY Typed DEF ask, At, WebhookInv, TypeOK, Phase
  <1>2. PICK b \in Bots : b = row.id
    BY <1>1
  <1>3. Starts(r, b, phase)
    BY <1>1, <1>2, StartStarts DEF ask
  <1>4. NothingWhenDown' /\ OnGivenBot' /\ AloneIsAlone' /\ AloneKnows'
    BY <1>1, <1>2, <1>3, StartsKeep
  <1>5. TypeOK' /\ UrlsAreGiven' /\ CalmTells'
    BY <1>1, <1>3 DEF WebhookInv, TypeOK, Starts, RequestType, UrlsAreGiven, CalmTells, Told, UrlsOf
  <1>6. \A x \in Requests : request[x].phase \in Pending \/ request[x].phase \in Registers =>
            request'[x].phase = request[x].phase /\ request'[x].bot = request[x].bot
    BY <1>1, <1>3 DEF Starts, Pending, Registers
  <1>7. ListSent' /\ MoveIsHandled'
    BY <1>1, <1>6 DEF WebhookInv, ListSent, MoveIsHandled, webhookUrlFor, UrlsOf
  <1>8. QED
    BY <1>4, <1>5, <1>7 DEF WebhookInv

------------------------------------------------------------------------------
\* The process and Telegram

LEMMA BootKeeps ==
    ASSUME WebhookInv, Boot
    PROVE  WebhookInv'
  <1>1. /\ TypeOK /\ ~up /\ up' = TRUE /\ Busy = {}
        /\ UNCHANGED <<unused, telegram, base, request, calm>>
    BY DEF Boot, WebhookInv, NothingWhenDown
  <1>2. row \in RowType
    BY <1>1, Typed
  <1>3. CASE row.enabled /\ row.state = "active" /\ row.url \notin {NoUrl, webhookUrlFor(row.id)}
    <2>1. row' = [row EXCEPT !.state = "mismatch"]
      BY <1>3 DEF Boot, Audited
    <2>2. /\ row' \in RowType /\ row'.id = row.id /\ row'.enabled = row.enabled
          /\ row'.allowed = row.allowed /\ row'.state = "mismatch" /\ row'.url = row.url
      BY <1>2, <2>1 DEF RowType, State
    <2>3. TypeOK' /\ NothingWhenDown' /\ OnGivenBot' /\ AloneIsAlone' /\ AloneKnows'
      BY <1>1, <2>2 DEF WebhookInv, TypeOK, NothingWhenDown, OnGivenBot, AloneIsAlone, AloneKnows,
                        RowType, webhookUrlFor
    <2>4. UrlsAreGiven' /\ CalmTells' /\ ListSent' /\ MoveIsHandled'
      BY <1>1, <1>3, <2>2 DEF WebhookInv, UrlsAreGiven, CalmTells, Told, ListSent, MoveIsHandled,
                              UrlsOf
    <2>5. QED
      BY <2>3, <2>4 DEF WebhookInv
  <1>4. CASE ~(row.enabled /\ row.state = "active" /\ row.url \notin {NoUrl, webhookUrlFor(row.id)})
    <2>1. row' = row
      BY <1>4 DEF Boot, Audited
    <2>2. row.state = "active" => row.url # NoUrl
      BY Urls DEF WebhookInv, UrlsAreGiven
    <2>3. MoveIsHandled'
      BY <1>1, <1>4, <2>1, <2>2 DEF MoveIsHandled, webhookUrlFor
    <2>4. TypeOK' /\ NothingWhenDown' /\ OnGivenBot' /\ AloneIsAlone' /\ AloneKnows'
      BY <1>1, <2>1 DEF WebhookInv, TypeOK, NothingWhenDown, OnGivenBot, AloneIsAlone, AloneKnows,
                        webhookUrlFor
    <2>5. UrlsAreGiven' /\ CalmTells' /\ ListSent'
      BY <1>1, <2>1 DEF WebhookInv, UrlsAreGiven, CalmTells, Told, ListSent, UrlsOf
    <2>6. QED
      BY <2>3, <2>4, <2>5 DEF WebhookInv
  <1>5. QED
    BY <1>3, <1>4

LEMMA HaltKeeps ==
    ASSUME WebhookInv, Halt
    PROVE  WebhookInv'
  <1>1. /\ TypeOK /\ ~up' /\ base' \in Bases /\ UNCHANGED <<row, unused, telegram>>
        /\ calm' = IF Busy = {} THEN calm ELSE {}
        /\ request' = [r \in Requests |-> Idle]
    BY DEF Halt, WebhookInv
  <1>2. \A r \in Requests : request'[r] = Idle /\ request'[r].phase = "idle" /\ ~request'[r].alone
    BY <1>1, RowsAndRequests
  <1>3. TypeOK'
    BY <1>1, Typed DEF TypeOK, RequestType, Halt
  <1>4. NothingWhenDown' /\ OnGivenBot' /\ AloneIsAlone' /\ AloneKnows'
    BY <1>2 DEF NothingWhenDown, OnGivenBot, AloneIsAlone, AloneKnows, Busy
  <1>5. UrlsAreGiven' /\ CalmTells'
    BY <1>1 DEF WebhookInv, UrlsAreGiven, CalmTells, Told, UrlsOf
  <1>6. ListSent'
    <2>1. Busy = {} => \A r \in Requests : request[r].phase \notin Pending
      BY DEF Busy, Pending
    <2>2. QED
      BY <1>1, <2>1 DEF WebhookInv, ListSent, UrlsOf
  <1>7. MoveIsHandled'
    BY <1>1 DEF MoveIsHandled
  <1>8. QED
    BY <1>3, <1>4, <1>5, <1>6, <1>7 DEF WebhookInv

LEMMA DeliveryFailsKeeps ==
    ASSUME WebhookInv, DeliveryFails
    PROVE  WebhookInv'
  <1>1. /\ telegram' \in [url: Url, allowed: Lists, err: BOOLEAN]
        /\ telegram'.url = telegram.url /\ telegram'.allowed = telegram.allowed
        /\ UNCHANGED <<row, unused, base, request, up, calm>>
    BY Typed DEF DeliveryFails, WebhookInv
  <1>2. TypeOK' /\ NothingWhenDown' /\ OnGivenBot' /\ AloneIsAlone' /\ AloneKnows'
    BY <1>1 DEF WebhookInv, TypeOK, NothingWhenDown, OnGivenBot, AloneIsAlone, AloneKnows,
                webhookUrlFor, Busy
  <1>3. UrlsAreGiven' /\ CalmTells' /\ ListSent' /\ MoveIsHandled'
    BY <1>1 DEF WebhookInv, UrlsAreGiven, CalmTells, Told, ListSent, MoveIsHandled, UrlsOf,
                webhookUrlFor
  <1>4. QED
    BY <1>2, <1>3 DEF WebhookInv

------------------------------------------------------------------------------
\* The invariant and what follows from it

LEMMA InitHolds == Init => WebhookInv
  <1> SUFFICES ASSUME Init PROVE WebhookInv
    OBVIOUS
  <1>1. /\ row = NoRow /\ base \in Bases /\ ~up /\ telegram.url = NoUrl
        /\ telegram = [url |-> NoUrl, allowed |-> NoRow.allowed, err |-> FALSE]
        /\ \A r \in Requests : request[r] = Idle
        /\ row.id = None /\ ~row.enabled /\ row.state = "not_configured" /\ NoRow.allowed \in Lists
        /\ \A r \in Requests : request[r].phase = "idle" /\ ~request[r].alone
    BY RowsAndRequests DEF Init
  <1>2. TypeOK
    <2>1. row \in [id: Bots \cup {None}, enabled: BOOLEAN, state: State, url: Url, allowed: Lists]
      BY <1>1, RowsAndRequests
    <2>2. telegram \in [url: Url, allowed: Lists, err: BOOLEAN]
      BY <1>1, Urls
    <2>3. request \in [Requests -> [phase: Phase, bot: Bots \cup {None}, allowed: Lists,
                                   removing: BOOLEAN, url: Url, err: BOOLEAN, alone: BOOLEAN]]
      BY RowsAndRequests DEF Init
    <2>4. unused = Bots /\ calm = {"url", "list"} /\ up = FALSE
      BY DEF Init
    <2>5. QED
      BY <1>1, <2>1, <2>2, <2>3, <2>4, WebhookAssumption DEF TypeOK
  <1>3. NothingWhenDown /\ OnGivenBot /\ AloneIsAlone /\ AloneKnows
    BY <1>1 DEF NothingWhenDown, OnGivenBot, AloneIsAlone, AloneKnows, Busy
  <1>4. UrlsAreGiven
    BY <1>1, <1>2, Urls DEF UrlsAreGiven, TypeOK
  <1>5. CalmTells /\ ListSent /\ MoveIsHandled
    BY <1>1 DEF Init, CalmTells, Told, ListSent, MoveIsHandled
  <1>6. QED
    BY <1>2, <1>3, <1>4, <1>5 DEF WebhookInv

LEMMA StepKeeps == WebhookInv /\ [Next]_vars => WebhookInv'
  <1> SUFFICES ASSUME WebhookInv, [Next]_vars PROVE WebhookInv'
    OBVIOUS
  <1>1. CASE Boot \/ Halt \/ DeliveryFails
    BY <1>1, BootKeeps, HaltKeeps, DeliveryFailsKeeps
  <1>2. ASSUME NEW r \in Requests, NEW b \in Bots, NEW on \in BOOLEAN, NEW l \in Lists,
               create(r, b, on, l)
        PROVE  WebhookInv'
    BY <1>2, createKeeps
  <1>3. ASSUME NEW r \in Requests, NEW on \in {"same", "on", "off"}, NEW l \in Lists \cup {None},
               update(r, on, l)
        PROVE  WebhookInv'
    BY <1>3, updateKeeps
  <1>4. ASSUME NEW r \in Requests,
               \/ ask(r, "registering", FALSE) \/ ask(r, "unhooking", FALSE)
               \/ ask(r, "unhooking", TRUE) \/ ask(r, "asking", FALSE)
        PROVE  WebhookInv'
    BY <1>4, askKeeps
  <1>5. ASSUME NEW r \in Requests, refresh(r) \/ readRow(r) \/ setWebhookFails(r)
        PROVE  WebhookInv'
    BY <1>5, refreshKeeps, readRowKeeps, setWebhookFailsKeeps
  <1>6. ASSUME NEW r \in Requests, NEW lost \in BOOLEAN, setWebhook(r, lost) \/ deleteWebhook(r, lost)
        PROVE  WebhookInv'
    BY <1>6, setWebhookKeeps, deleteWebhookKeeps
  <1>7. ASSUME NEW r \in Requests, \/ markActive(r) \/ markError(r) \/ markUnset(r)
                                   \/ remove(r) \/ noteInfo(r)
        PROVE  WebhookInv'
    BY <1>7, markActiveKeeps, markErrorKeeps, markUnsetKeeps, removeKeeps, noteInfoKeeps
  <1>8. ASSUME NEW r \in Requests, \/ unhook(r) \/ deleteWebhookFails(r)
                                   \/ getWebhookInfo(r) \/ getWebhookInfoFails(r)
        PROVE  WebhookInv'
    BY <1>8, unhookKeeps, deleteWebhookFailsKeeps, getWebhookInfoKeeps, getWebhookInfoFailsKeeps
  <1>9. CASE UNCHANGED vars
    <2>1. TypeOK' /\ NothingWhenDown' /\ OnGivenBot' /\ AloneIsAlone' /\ AloneKnows'
      BY <1>9 DEF vars, WebhookInv, TypeOK, NothingWhenDown, OnGivenBot, AloneIsAlone, AloneKnows,
                  webhookUrlFor, Busy
    <2>2. UrlsAreGiven' /\ CalmTells' /\ ListSent' /\ MoveIsHandled'
      BY <1>9 DEF vars, WebhookInv, UrlsAreGiven, CalmTells, Told, ListSent, MoveIsHandled,
                  UrlsOf, webhookUrlFor
    <2>3. QED
      BY <2>1, <2>2 DEF WebhookInv
  <1>10. QED
    BY <1>1, <1>2, <1>3, <1>4, <1>5, <1>6, <1>7, <1>8, <1>9 DEF Next

LEMMA WebhookInvariant == Spec => []WebhookInv
  BY InitHolds, StepKeeps, PTL DEF Spec

\* The row, Telegram's webhook and the requests hold what they may, and no id is given
\* to the row twice.
THEOREM WebhookTypeCorrect == Spec => []TypeOK
  BY WebhookInvariant, PTL DEF WebhookInv

\* Whenever no request is under way, the state the panel shows is Telegram's, unless two
\* requests overlapped, an answer was lost, the process died in an exchange or a bot was
\* removed whose webhook stayed: whatever registrations, refreshes and removals came
\* before, under whichever base URLs.
THEOREM RowIsTold == Spec => []RowTellsWebhook
  <1>1. WebhookInv => RowTellsWebhook
    BY DEF WebhookInv, CalmTells, Told, RowTellsWebhook
  <1>2. QED
    BY <1>1, WebhookInvariant, PTL

\* A list of update types that was changed is in force once the bot is shown as active
\* again, also after a refusal, which leaves it in state error; unless requests
\* overlapped, an answer was lost, the process died in an exchange, or a status was read
\* over the state error.  The proof needs that the obligation to send the list survives
\* disabling the bot and a refusal.
THEOREM ListReachesTelegram == Spec => []ListInForce
  <1>1. WebhookInv => ListInForce
    <2> SUFFICES ASSUME WebhookInv, Quiet, "list" \in calm, row.enabled, row.state = "active"
                 PROVE  telegram.allowed = row.allowed
      BY DEF ListInForce
    <2>1. row.id \in Bots /\ row.url \in UrlsOf(row.id) /\ row.id # None
      BY WebhookAssumption DEF WebhookInv, UrlsAreGiven
    <2>2. telegram.url = row.url
      BY <2>1 DEF WebhookInv, CalmTells, Told
    <2>3. \A r \in Requests : request[r].phase \notin Pending
      BY DEF Quiet, Busy, Pending
    <2>4. QED
      BY <2>1, <2>2, <2>3 DEF WebhookInv, ListSent
  <1>2. QED
    BY <1>1, WebhookInvariant, PTL

\* An enabled bot shown as active while nothing is under way is active under the present
\* base URL: the audit at the start and the refreshes after it miss none, though requests
\* overlap, fail and are cut off by crashes.
THEOREM MovesAreNoticed == Spec => []MoveIsNoticed
  <1>1. WebhookInv => MoveIsNoticed
    <2>1. Quiet => \A r \in Requests : request[r].phase \notin Registers
      BY DEF Quiet, Busy, Registers
    <2>2. QED
      BY <2>1 DEF WebhookInv, MoveIsHandled, MoveIsNoticed, Quiet
  <1>2. QED
    BY <1>1, WebhookInvariant, PTL

==============================================================================
