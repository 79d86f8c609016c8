----------------------------- MODULE BotWebhook -----------------------------
(***************************************************************************)
(* The webhook of one Telegram bot: what Telegram has, and what the row of *)
(* table bots says of it (services/bots.ts, telegram/client.ts).  Every    *)
(* operation is a call to Telegram followed by an UPDATE, and nothing      *)
(* keeps two of them apart.                                                *)
(*                                                                         *)
(* telegram_bot_id is unique: the bot has one row at a time.  A bot that   *)
(* is deleted and added again gets another id, so another URL.             *)
(***************************************************************************)
EXTENDS Naturals, FiniteSets

CONSTANTS
    Bots,      \* ids the row may have, each used once
    Bases,     \* values of PUBLIC_BASE_URL
    Lists,     \* values of allowed_updates, none of them empty
    Requests,  \* requests in flight at the same time
    None       \* NULL

ASSUME WebhookAssumption == None \notin Bots /\ Bases # {} /\ Lists # {}

VARIABLES
    row,       \* the bot's row
    unused,    \* ids never given to a row
    telegram,  \* the webhook Telegram has, and whether its last delivery failed
    base,      \* PUBLIC_BASE_URL of this process
    request,   \* the requests being handled
    up,        \* the audit is over and the server listens
    calm       \* history: what the row is known to tell since an exchange nothing disturbed

vars == <<row, unused, telegram, base, request, up, calm>>

Url   == {<<b, p>> : b \in Bots, p \in Bases} \cup {<<None, None>>}
NoUrl == <<None, None>>
State == {"not_configured", "active", "mismatch", "error"}

NoRow == [id |-> None, enabled |-> FALSE, state |-> "not_configured", url |-> NoUrl,
          allowed |-> CHOOSE l \in Lists : TRUE]

\* alone (history): no other request has run while this one did.
Idle == [phase |-> "idle", bot |-> None, allowed |-> NoRow.allowed, removing |-> FALSE,
         url |-> NoUrl, err |-> FALSE, alone |-> FALSE]

Phase == {"idle", "refreshing", "registering", "setting", "set", "failing",
          "unhooking", "deleting", "unset", "dropping", "asking", "noting"}

TypeOK ==
    /\ row \in [id: Bots \cup {None}, enabled: BOOLEAN, state: State, url: Url, allowed: Lists]
    /\ unused \subseteq Bots /\ row.id \notin unused
    /\ telegram \in [url: Url, allowed: Lists, err: BOOLEAN]
    /\ base \in Bases
    /\ request \in [Requests -> [phase: Phase, bot: Bots \cup {None}, allowed: Lists,
                                 removing: BOOLEAN, url: Url, err: BOOLEAN, alone: BOOLEAN]]
    /\ up \in BOOLEAN
    /\ calm \subseteq {"url", "list"}

Init ==
    /\ row = NoRow
    /\ unused = Bots
    /\ telegram = [url |-> NoUrl, allowed |-> NoRow.allowed, err |-> FALSE]
    /\ base \in Bases
    /\ request = [r \in Requests |-> Idle]
    /\ up = FALSE
    /\ calm = {"url", "list"}

webhookUrlFor(b) == <<b, base>>

Busy == {r \in Requests : request[r].phase # "idle"}

At(r, phase) == up /\ request[r].phase = phase

\* The row is changed where it still has this id.
Update(b, changed) == row' = IF row.id = b THEN changed ELSE row

------------------------------------------------------------------------------
\* Progress of a request

\* A request starts: whoever runs at the same time is alone no more.
Start(r, b, phase) ==
    request' = [q \in Requests |->
        IF q = r THEN [Idle EXCEPT !.phase = phase, !.bot = b, !.alone = Busy = {}]
        ELSE [request[q] EXCEPT !.alone = FALSE]]

Goto(r, phase) == request' = [request EXCEPT ![r].phase = phase]

Ends(r) == request' = [request EXCEPT ![r] = Idle]

\* What a request settles that Telegram answered.
Settle(r, what) == calm' = IF request[r].alone THEN calm \cup what ELSE {}

Unsettled == calm' = {}

------------------------------------------------------------------------------
\* Requests

\* BotService.create: a second row for the bot is refused, by the SELECT or by the
\* unique index.
create(r, b, enabled, list) ==
    /\ At(r, "idle") /\ row.id = None /\ b \in unused
    /\ row' = [NoRow EXCEPT !.id = b, !.enabled = enabled, !.allowed = list]
    /\ unused' = unused \ {b}
    /\ IF enabled THEN Start(r, b, "registering") ELSE UNCHANGED request
    /\ UNCHANGED <<telegram, base, up, calm>>

\* Mutant of update: a field left out is written as well.
update_Unchecked(r, enabled, list) ==
    /\ At(r, "idle") /\ row.id # None
    /\ row' = [row EXCEPT !.allowed = list]
    /\ UNCHANGED <<unused, telegram, base, request, up, calm>>

\* The UPDATE of BotService.update; "same" stands for a field left out of the input, list
\* or token.
update(r, enabled, list) ==
    /\ At(r, "idle") /\ row.id # None
    /\ row' = [row EXCEPT !.enabled = IF enabled = "same" THEN @ ELSE enabled = "on",
                          !.allowed = IF list = None THEN @ ELSE list]
    /\ IF enabled = "off" THEN Start(r, row.id, "unhooking")
       ELSE IF enabled = "on" \/ list # None THEN Start(r, row.id, "refreshing")
       ELSE UNCHANGED request
    /\ UNCHANGED <<unused, telegram, base, up, calm>>

\* A bot that was disabled or deleted meanwhile is not registered.
refresh(r) ==
    /\ At(r, "refreshing")
    /\ IF row.id = request[r].bot /\ row.enabled THEN Goto(r, "registering") ELSE Ends(r)
    /\ UNCHANGED <<row, unused, telegram, base, up, calm>>

\* POST and DELETE /bots/:id/webhook, GET /bots/:id/webhook, DELETE /bots/:id: the
\* row is there when the guard reads it.
ask(r, phase, removing) ==
    /\ At(r, "idle") /\ row.id # None
    /\ request' = [q \in Requests |->
          IF q = r THEN [Idle EXCEPT !.phase = phase, !.bot = row.id, !.removing = removing,
                                     !.alone = Busy = {}]
          ELSE [request[q] EXCEPT !.alone = FALSE]]
    /\ UNCHANGED <<row, unused, telegram, base, up, calm>>

------------------------------------------------------------------------------
\* BotService.registerWebhook

readRow(r) ==
    /\ At(r, "registering")
    /\ IF row.id = request[r].bot
       THEN request' = [request EXCEPT ![r].phase = "setting", ![r].allowed = row.allowed]
       ELSE Ends(r)
    /\ UNCHANGED <<row, unused, telegram, base, up, calm>>

\* setWebhook, answered; lost: it took effect, the answer did not arrive.
setWebhook(r, lost) ==
    /\ At(r, "setting")
    /\ telegram' = [url |-> webhookUrlFor(request[r].bot), allowed |-> request[r].allowed,
                    err |-> FALSE]
    /\ Goto(r, IF lost THEN "failing" ELSE "set")
    /\ Unsettled
    /\ UNCHANGED <<row, unused, base, up>>

\* setWebhook without an effect: refused, or never arrived.
setWebhookFails(r) ==
    /\ At(r, "setting")
    /\ Goto(r, "failing")
    /\ UNCHANGED <<row, unused, telegram, base, up, calm>>

markActive(r) ==
    /\ At(r, "set")
    /\ Update(request[r].bot, [row EXCEPT !.state = "active",
                                          !.url = webhookUrlFor(request[r].bot)])
    /\ Settle(r, {"url", "list"})
    /\ Ends(r)
    /\ UNCHANGED <<unused, telegram, base, up>>

\* Mutant of markError: the refusal is only logged.
markError_OnlyLogged(r) ==
    /\ At(r, "failing")
    /\ Ends(r)
    /\ UNCHANGED <<row, unused, telegram, base, up, calm>>

\* The url of the last registration stays.
markError(r) ==
    /\ At(r, "failing")
    /\ Update(request[r].bot, [row EXCEPT !.state = "error"])
    /\ Ends(r)
    /\ UNCHANGED <<unused, telegram, base, up, calm>>

------------------------------------------------------------------------------
\* BotService.deleteWebhook; remove deletes the row whatever comes of it.

unhook(r) ==
    /\ At(r, "unhooking")
    /\ IF row.id = request[r].bot THEN Goto(r, "deleting")
       ELSE IF request[r].removing THEN Goto(r, "dropping") ELSE Ends(r)
    /\ UNCHANGED <<row, unused, telegram, base, up, calm>>

GiveUpDelete(r) == IF request[r].removing THEN Goto(r, "dropping") ELSE Ends(r)

deleteWebhook(r, lost) ==
    /\ At(r, "deleting")
    /\ telegram' = [telegram EXCEPT !.url = NoUrl, !.err = FALSE]
    /\ IF lost THEN GiveUpDelete(r) ELSE Goto(r, "unset")
    /\ Unsettled
    /\ UNCHANGED <<row, unused, base, up>>

\* Mutant of deleteWebhookFails: the row is reset though Telegram kept the webhook.
deleteWebhookFails_Resets(r) ==
    /\ At(r, "deleting")
    /\ Goto(r, "unset")
    /\ UNCHANGED <<row, unused, telegram, base, up, calm>>

\* Without an effect: remove then forgets a bot whose webhook stays.
deleteWebhookFails(r) ==
    /\ At(r, "deleting")
    /\ GiveUpDelete(r)
    /\ calm' = IF request[r].removing THEN {} ELSE calm
    /\ UNCHANGED <<row, unused, telegram, base, up>>

markUnset(r) ==
    /\ At(r, "unset")
    /\ Update(request[r].bot, [row EXCEPT !.state = "not_configured", !.url = NoUrl])
    /\ Settle(r, {"url", "list"})
    /\ GiveUpDelete(r)
    /\ UNCHANGED <<unused, telegram, base, up>>

remove(r) ==
    /\ At(r, "dropping")
    /\ Update(request[r].bot, NoRow)
    /\ calm' = IF request[r].alone THEN calm ELSE {}
    /\ Ends(r)
    /\ UNCHANGED <<unused, telegram, base, up>>

------------------------------------------------------------------------------
\* BotService.getWebhookInfo: what Telegram answers, then the UPDATE.

getWebhookInfo(r) ==
    /\ At(r, "asking")
    /\ request' = [request EXCEPT ![r].phase = "noting", ![r].url = telegram.url,
                                  ![r].err = telegram.err]
    /\ UNCHANGED <<row, unused, telegram, base, up, calm>>

getWebhookInfoFails(r) ==
    /\ At(r, "asking")
    /\ Ends(r)
    /\ UNCHANGED <<row, unused, telegram, base, up, calm>>

InfoState(b, url, err) ==
    IF url = NoUrl THEN "not_configured"
    ELSE IF url # webhookUrlFor(b) THEN "mismatch"
    ELSE IF err THEN "error" ELSE "active"

\* The state "error" is overwritten, whatever it stood for: that the list was refused is
\* not known from then on.
noteInfo(r) ==
    LET q == request[r]
    IN  /\ At(r, "noting")
        /\ Update(q.bot, [row EXCEPT !.state = InfoState(q.bot, q.url, q.err), !.url = q.url])
        /\ calm' = IF ~q.alone THEN {}
                   ELSE {"url"} \cup (IF row.state = "error" THEN {} ELSE calm)
        /\ Ends(r)
        /\ UNCHANGED <<unused, telegram, base, up>>

------------------------------------------------------------------------------
\* Process and Telegram

\* Mutant of Audited: the difference is only logged.
Audited_OnlyLogged == row

\* auditWebhooks, awaited before the server listens.
Audited ==
    IF row.enabled /\ row.state = "active" /\ row.url \notin {NoUrl, webhookUrlFor(row.id)}
    THEN [row EXCEPT !.state = "mismatch"]
    ELSE row

Boot ==
    /\ ~up
    /\ row' = Audited
    /\ up' = TRUE
    /\ UNCHANGED <<unused, telegram, base, request, calm>>

\* A crash, or a shutdown the requests do not survive; the next process may have
\* another PUBLIC_BASE_URL.
Halt ==
    /\ up
    /\ up' = FALSE
    /\ base' \in Bases
    /\ request' = [r \in Requests |-> Idle]
    /\ calm' = IF Busy = {} THEN calm ELSE {}
    /\ UNCHANGED <<row, unused, telegram>>

\* External: Telegram could not deliver an update.
DeliveryFails ==
    /\ telegram.url # NoUrl /\ ~telegram.err
    /\ telegram' = [telegram EXCEPT !.err = TRUE]
    /\ UNCHANGED <<row, unused, base, request, up, calm>>

Next ==
    \/ Boot \/ Halt \/ DeliveryFails
    \/ \E r \in Requests :
        \/ \E b \in Bots, on \in BOOLEAN, l \in Lists : create(r, b, on, l)
        \/ \E on \in {"same", "on", "off"}, l \in Lists \cup {None} : update(r, on, l)
        \/ ask(r, "registering", FALSE) \/ ask(r, "unhooking", FALSE)
        \/ ask(r, "unhooking", TRUE) \/ ask(r, "asking", FALSE)
        \/ refresh(r) \/ readRow(r)
        \/ \E lost \in BOOLEAN : setWebhook(r, lost) \/ deleteWebhook(r, lost)
        \/ setWebhookFails(r) \/ markActive(r) \/ markError(r)
        \/ unhook(r) \/ deleteWebhookFails(r) \/ markUnset(r) \/ remove(r)
        \/ getWebhookInfo(r) \/ getWebhookInfoFails(r) \/ noteInfo(r)

Spec == Init /\ [][Next]_vars

------------------------------------------------------------------------------
\* Properties

Quiet == up /\ Busy = {}

\* What the panel says of the webhook is what Telegram has, unless two requests
\* overlapped, an answer was lost, the process died during an exchange or a bot was
\* removed that Telegram did not let go (bots.ts:257-366).
RowTellsWebhook ==
    Quiet /\ "url" \in calm =>
        /\ row.id = None => telegram.url = NoUrl
        /\ row.id # None =>
            /\ row.state = "active" => telegram.url = row.url
            /\ row.state = "not_configured" => telegram.url = NoUrl
            /\ row.state = "mismatch" => telegram.url = row.url /\ row.url # NoUrl

\* An enabled bot shown as active receives the types of update it lists: a changed
\* list reaches Telegram, or Telegram refused it and the state says error
\* (bots.ts:226-252, 308-314).  Excluded are what RowTellsWebhook excludes and a status
\* read over the state error, which puts active back with the old list in force
\* (bots.ts:333-352).
ListInForce ==
    Quiet /\ "list" \in calm /\ row.enabled /\ row.state = "active" =>
        telegram.allowed = row.allowed

\* After a move to another PUBLIC_BASE_URL no enabled bot is shown as active under
\* the old one, whatever failed or overlapped (bots.ts:368-390).
MoveIsNoticed ==
    Quiet /\ row.enabled /\ row.state = "active" => row.url = webhookUrlFor(row.id)

==============================================================================
