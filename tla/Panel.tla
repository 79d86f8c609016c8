-------------------------------- MODULE Panel ---------------------------------
(***************************************************************************)
(* One page of the admin panel in one browser tab: the session             *)
(* (hooks/useSession.tsx), the cached list of the page's records with its  *)
(* fetches, the dialogs that edit or delete a record, and the mutation     *)
(* under way.  Sessions lapse, the network goes, other users write.        *)
(*                                                                         *)
(* The query client is TanStack's and modelled from its use: one fetch at  *)
(* a time per query; invalidation starts it anew, but joins a first load;  *)
(* data that is set leaves a fetch running; a mutation begun offline waits *)
(* and then runs with the function of the latest render.                   *)
(***************************************************************************)
EXTENDS Naturals, FiniteSets

(***************************************************************************)
(* The pages.  creates: a form for a new record; edits: a dialog about one *)
(* of the list's records; late: that dialog's mutationFn reads the record  *)
(* from the component's state and not from what mutate was given; directs: *)
(* buttons in the list's rows; deletes: a confirmation.                    *)
(***************************************************************************)
destinations == [creates |-> TRUE,  edits |-> TRUE,  late |-> TRUE,  directs |-> FALSE, deletes |-> TRUE]
routes       == [creates |-> TRUE,  edits |-> TRUE,  late |-> TRUE,  directs |-> FALSE, deletes |-> TRUE]
users        == [creates |-> TRUE,  edits |-> TRUE,  late |-> FALSE, directs |-> TRUE,  deletes |-> TRUE]
apiKeys      == [creates |-> TRUE,  edits |-> FALSE, late |-> FALSE, directs |-> TRUE,  deletes |-> TRUE]
bot          == [creates |-> FALSE, edits |-> FALSE, late |-> FALSE, directs |-> TRUE,  deletes |-> TRUE]
deliveries   == [creates |-> FALSE, edits |-> TRUE,  late |-> TRUE,  directs |-> FALSE, deletes |-> FALSE]
events       == [creates |-> FALSE, edits |-> TRUE,  late |-> TRUE,  directs |-> FALSE, deletes |-> FALSE]

Routes == {destinations, routes, users, apiKeys, bot, deliveries, events}

CONSTANTS
    Pages,       \* the pages considered
    Users,       \* who may use this browser, one after the other
    Nobody,      \* signed out
    Ids,         \* records of the page's list
    MaxWrites    \* bound: writes to them

ASSUME PanelAssumption == Pages \subseteq Routes /\ Nobody \notin Users /\ MaxWrites \in Nat \ {0}

VARIABLES
    page,     \* which page
    cookie,   \* whose session the browser's cookie is
    shown,    \* the session query: whom the panel takes the user for
    me,       \* its fetch under way, GET /auth/me, and whom it will answer
    lapsed,   \* history: since the last sign-out a session has ended otherwise, or an
              \* answer of /auth/me came that was not about the cookie of that moment
    online,   \* what the browser thinks of the network
    record,   \* the server's records: the write each is from, 0: no such record
    writes,   \* writes so far
    list,     \* the cached list
    fetch,    \* the fetch under way
    dialog,   \* the dialog that is open, and its record
    own,      \* history: the last write of this tab whose reload has arrived, where it was
              \* made with the list there already
    save      \* the mutation under way

server == <<record, writes>>
vars   == <<page, cookie, shown, me, lapsed, online, server, list, fetch, dialog, own, save>>

New    == "new"      \* the target of a form that creates
NoId   == "none"
Target == Ids \cup {New, NoId}

NoList  == [who |-> Nobody, at |-> 0, rows |-> {}]
List    == {NoList} \cup [who: Users, at: 0..MaxWrites, rows: SUBSET Ids]
NoFetch == [phase |-> "none", who |-> Nobody, at |-> 0, rows |-> {}]
Fetch   == [phase: {"none", "asked", "read"}, who: Users \cup {Nobody},
            at: 0..MaxWrites, rows: SUBSET Ids]
NoMe    == [asked |-> FALSE, who |-> Nobody]
Closed  == [kind |-> "none", on |-> NoId]
Dialog  == [kind: {"none", "form", "confirm"}, on: Target]

\* kind: what started it; on, by (history): the record and the user it was meant for;
\* target: the record mutationFn would take; as: whose cookie it was sent with;
\* waited, lapse (history): it waited offline, and lapsed was set by then;
\* mounted: the component it was started from is still there.
NoSave == [phase |-> "none", kind |-> "none", on |-> NoId, by |-> Nobody, target |-> NoId,
           as |-> Nobody, waited |-> FALSE, lapse |-> FALSE, mounted |-> FALSE, at |-> 0]
Save   == [phase: {"none", "paused", "sent", "written", "refused", "settling"},
           kind: {"none", "form", "confirm", "direct"}, on: Target, by: Users \cup {Nobody},
           target: Target, as: Users \cup {Nobody}, waited: BOOLEAN, lapse: BOOLEAN,
           mounted: BOOLEAN, at: 0..MaxWrites]

TypeOK ==
    /\ page \in Pages
    /\ cookie \in Users \cup {Nobody} /\ shown \in Users \cup {Nobody}
    /\ me \in [asked: BOOLEAN, who: Users \cup {Nobody}]
    /\ lapsed \in BOOLEAN /\ online \in BOOLEAN
    /\ record \in [Ids -> 0..MaxWrites] /\ writes \in 0..MaxWrites
    /\ list \in List /\ fetch \in Fetch /\ dialog \in Dialog /\ save \in Save
    /\ own \in 0..MaxWrites

Init ==
    /\ page \in Pages
    /\ cookie = Nobody /\ shown = Nobody /\ me = NoMe /\ lapsed = FALSE /\ online = TRUE
    /\ \E there \in SUBSET Ids :
         record = [i \in Ids |-> IF i \in there THEN 1 ELSE 0]
    /\ writes = 1
    /\ list = NoList /\ fetch = NoFetch /\ dialog = Closed /\ own = 0 /\ save = NoSave

------------------------------------------------------------------------------
\* The session

Signs == UNCHANGED <<page, online, server, own>>

\* RequireAuth shows the pages, and with them dialogs, only to a user.
Mounted == shown # Nobody

\* LoginPage: the server sets the cookie, setQueryData the session; a fetch of it that
\* is under way goes on.
signIn(u) ==
    /\ online /\ ~Mounted
    /\ cookie' = u /\ shown' = u
    /\ UNCHANGED <<me, lapsed, list, fetch, dialog, own, save>> /\ Signs

\* Mutant of cleared: the cache is left as it is.
cleared_Keeps == UNCHANGED <<me, list, fetch>>

\* queryClient.clear: queries with their fetches; mutations that wait are dropped.
cleared == me' = NoMe /\ list' = NoList /\ fetch' = NoFetch

Unmounted == [save EXCEPT !.mounted = FALSE]

\* Mutant of Left: the mutation cache is left as it is.
Left_KeepsWaiting == IF save.phase = "settling" THEN NoSave ELSE Unmounted

\* What becomes of a mutation: one that waits is dropped, one that was sent runs on.
Left == IF save.phase \in {"none", "paused", "settling"} THEN NoSave ELSE Unmounted

\* The logout request may fail; the panel forgets the user all the same.
signOut ==
    /\ Mounted
    /\ cookie' \in {Nobody, cookie}
    /\ shown' = Nobody /\ lapsed' = FALSE /\ dialog' = Closed
    /\ cleared
    /\ save' = Left
    /\ Signs

Strayed(s) == IF s.phase = "none" THEN s ELSE [s EXCEPT !.lapse = TRUE]

\* The session expires, its user is blocked, reset or deleted, or a logout is handled
\* whose answer is still awaited.  The server reads an /auth/me before it or after it.
Lapse ==
    /\ cookie # Nobody
    /\ cookie' = Nobody /\ lapsed' = TRUE
    /\ me' \in {me} \cup (IF me.who = cookie THEN {[me EXCEPT !.who = Nobody]} ELSE {})
    /\ save' = Strayed(save)
    /\ UNCHANGED <<shown, list, fetch, dialog>> /\ Signs

\* The session is fetched: at the start and after clear, on a reconnect, by refresh,
\* which starts a fetch under way anew.
askMe ==
    /\ online /\ (Mounted \/ ~me.asked)
    /\ me' = [asked |-> TRUE, who |-> cookie]
    /\ UNCHANGED <<cookie, shown, lapsed, list, fetch, dialog, save>> /\ Signs

\* The answer replaces the session, also one that was set since: a 401 is the signed-out
\* state, and unmounts the pages; the cache is left as it is.
meLands ==
    LET stay  == me.who # Nobody
        after == IF stay THEN save ELSE Unmounted
    IN  /\ me.asked
        /\ me' = NoMe /\ shown' = me.who
        /\ dialog' = IF stay THEN dialog ELSE Closed
        /\ lapsed' = (lapsed \/ me.who # cookie)
        /\ save' = IF me.who = cookie THEN after ELSE Strayed(after)
        /\ UNCHANGED <<cookie, list, fetch>> /\ Signs

\* Neither an answer nor a 401: the session stays what it was.
meFails ==
    /\ me.asked
    /\ me' = NoMe
    /\ UNCHANGED <<cookie, shown, lapsed, list, fetch, dialog, save>> /\ Signs

Network ==
    /\ online' = ~online
    /\ UNCHANGED <<page, cookie, shown, me, lapsed, server, list, fetch, dialog, own, save>>

------------------------------------------------------------------------------
\* The list

Shows == UNCHANGED <<page, cookie, shown, me, lapsed, online, server, dialog, own>>

Asked == [NoFetch EXCEPT !.phase = "asked", !.who = cookie]

\* The page is mounted, polls, or is told to refetch.
ask ==
    /\ Mounted /\ online /\ fetch = NoFetch
    /\ fetch' = Asked
    /\ UNCHANGED <<list, save>> /\ Shows

read ==
    /\ fetch.phase = "asked" /\ fetch.who # Nobody
    /\ fetch' = [fetch EXCEPT !.phase = "read", !.at = writes,
                              !.rows = {i \in Ids : record[i] # 0}]
    /\ UNCHANGED <<list, save>> /\ Shows

\* onSuccess is over once the invalidated query has been fetched, or has failed.
Settled == IF save.phase = "settling" THEN NoSave ELSE save

\* closeForm, setCreating(false), setDeleteTarget(null): whatever record it is on by now.
ClosedAfter == IF save.phase = "settling" /\ save.mounted /\ dialog.kind = save.kind THEN Closed ELSE dialog

land ==
    /\ fetch.phase = "read"
    /\ list' = [who |-> fetch.who, at |-> fetch.at, rows |-> fetch.rows]
    /\ fetch' = NoFetch
    /\ save' = Settled /\ dialog' = ClosedAfter
    /\ own' = IF save.phase = "settling" /\ list # NoList THEN save.at ELSE own
    /\ UNCHANGED <<page, cookie, shown, me, lapsed, online, server>>

\* 401, a network failure: the list stays, and an error is shown.
fetchFails ==
    /\ fetch.phase # "none"
    /\ fetch' = NoFetch
    /\ save' = Settled /\ dialog' = ClosedAfter
    /\ UNCHANGED <<page, cookie, shown, me, lapsed, online, server, list, own>>

------------------------------------------------------------------------------
\* Dialogs

\* A render hands the waiting mutation the function that knows the new dialog.
Rendered(open) ==
    IF save.phase = "paused" /\ save.kind = "form" /\ page.late /\ save.mounted
    THEN [save EXCEPT !.target = IF open.kind = "form" THEN open.on
                                 ELSE IF page.creates THEN New ELSE NoId]
    ELSE save

Opens(kind, on) ==
    /\ Mounted /\ dialog = Closed
    /\ dialog' = [kind |-> kind, on |-> on]
    /\ save' = Rendered(dialog')
    /\ UNCHANGED <<page, cookie, shown, me, lapsed, online, server, list, fetch, own>>

openCreate == page.creates /\ Opens("form", New)

openEdit(id) == page.edits /\ id \in list.rows /\ Opens("form", id)

setDeleteTarget(id) == page.deletes /\ id \in list.rows /\ Opens("confirm", id)

\* Escape, the backdrop, the cross or Cancel, also while the mutation is pending.
onClose ==
    /\ dialog # Closed
    /\ dialog' = Closed
    /\ save' = Rendered(Closed)
    /\ UNCHANGED <<page, cookie, shown, me, lapsed, online, server, list, fetch, own>>

------------------------------------------------------------------------------
\* Mutations.  The button is disabled while one is pending.

\* mutate.  Offline it waits for the network.
Mutates(kind, id) ==
    /\ Mounted /\ save = NoSave
    /\ save' = [NoSave EXCEPT !.phase = IF online THEN "sent" ELSE "paused", !.kind = kind,
                              !.on = id, !.target = id, !.by = shown, !.as = cookie,
                              !.waited = ~online, !.lapse = lapsed, !.mounted = TRUE]
    /\ UNCHANGED <<list, fetch>> /\ Shows

onSubmit  == dialog.kind = "form" /\ Mutates("form", dialog.on)
onConfirm == dialog.kind = "confirm" /\ Mutates("confirm", dialog.on)
onClick(id) == page.directs /\ dialog = Closed /\ id \in list.rows /\ Mutates("direct", id)

\* resumePausedMutations: the cookie and the CSRF token are read when the request is made.
resume ==
    /\ online /\ save.phase = "paused"
    /\ save' = [save EXCEPT !.phase = "sent", !.as = cookie]
    /\ UNCHANGED <<list, fetch>> /\ Shows

\* The records with a write to target; a form that creates gets a free id.
Written(target) ==
    {[record EXCEPT ![i] = IF save.kind = "confirm" THEN 0 ELSE writes + 1] :
        i \in {j \in Ids : IF target = New THEN record[j] = 0 ELSE j = target /\ record[j] # 0}}

\* The server handles the request: done, or refused.
handle ==
    /\ save.phase = "sent"
    /\ \/ /\ save.as # Nobody /\ writes < MaxWrites
          /\ record' \in Written(save.target)
          /\ writes' = writes + 1
          /\ save' = [save EXCEPT !.phase = "written", !.at = writes + 1]
       \/ save' = [save EXCEPT !.phase = "refused"] /\ UNCHANGED server
    /\ UNCHANGED <<page, cookie, shown, me, lapsed, online, list, fetch, dialog, own>>

\* Mutant of invalidated: any fetch under way is good enough.
invalidated_Joins == IF fetch = NoFetch THEN Asked ELSE fetch

\* invalidateQueries: a fetch under way is cancelled and begun anew; a first load, which
\* has no data to fall back on, is joined.
invalidated == IF fetch # NoFetch /\ list = NoList THEN fetch ELSE Asked

\* onSuccess; without the page there is nobody to refetch for, and nothing to close.
onSuccess ==
    /\ save.phase = "written"
    /\ IF Mounted THEN fetch' = invalidated /\ save' = [save EXCEPT !.phase = "settling"]
       ELSE save' = NoSave /\ UNCHANGED fetch
    /\ UNCHANGED list /\ Shows

\* onError: the form stays and shows the message, a confirmation is closed.  The
\* request may have been lost, or only its answer.
onError ==
    /\ save.phase = "refused" \/ (save.phase \in {"sent", "written"} /\ ~online)
    /\ save' = NoSave
    /\ dialog' = IF save.kind = "confirm" /\ save.mounted /\ dialog.kind = "confirm" THEN Closed ELSE dialog
    /\ UNCHANGED <<page, cookie, shown, me, lapsed, online, server, list, fetch, own>>

\* Somebody else, in another browser.
Others(id) ==
    /\ writes < MaxWrites
    /\ writes' = writes + 1
    /\ record' = [record EXCEPT ![id] = IF @ = 0 THEN writes + 1 ELSE 0]
    /\ UNCHANGED <<page, cookie, shown, me, lapsed, online, list, fetch, dialog, own, save>>

------------------------------------------------------------------------------
Next ==
    \/ signOut \/ Lapse \/ askMe \/ meLands \/ meFails \/ Network
    \/ \E u \in Users : signIn(u)
    \/ ask \/ read \/ land \/ fetchFails
    \/ openCreate \/ onClose \/ onSubmit \/ onConfirm
    \/ \E id \in Ids : openEdit(id) \/ setDeleteTarget(id) \/ onClick(id) \/ Others(id)
    \/ resume \/ handle \/ onSuccess \/ onError

Spec == Init /\ [][Next]_vars

------------------------------------------------------------------------------
(***************************************************************************)
(* What a user is shown was fetched for that user: signOut clears the      *)
(* cache, for all of it "belonged to the previous session" (useSession.tsx *)
(* :68).  A fetch of the previous user, and one of the session itself, may *)
(* still be under way.  Excluded is, until the next sign-out, what happens *)
(* once a session ended otherwise, or once a late answer of /auth/me has   *)
(* overwritten a sign-in (useSession.tsx:31-45, 57): both leave the pages  *)
(* without clearing the cache, and the next user is shown it.              *)
(***************************************************************************)
NothingOfOthers == ~lapsed /\ list # NoList => list.who = shown

(***************************************************************************)
(* Once the list has been reloaded after a change of one's own, it never   *)
(* again shows a state from before that change, whatever polls and         *)
(* invalidations fetched meanwhile (onSuccess awaits invalidateQueries).   *)
(* Excluded is a change made before the list was loaded for the first      *)
(* time: the reload joins that load, which may have been answered before   *)
(* the change (DestinationsPage.tsx:93, 164-174).                          *)
(***************************************************************************)
OwnChangeShown == list # NoList => list.at >= own

(***************************************************************************)
(* A change the server has made was sent with the session of the user who  *)
(* made it, unless lapsed was set before; and it is to the record that     *)
(* user had open, except that a save of a page that reads the record late, *)
(* if it waited for the network, goes to whatever is open by then.         *)
(***************************************************************************)
SavedAsMeant ==
    save.phase \in {"written", "settling"} =>
        /\ save.lapse \/ save.as = save.by
        /\ save.target = save.on \/ (page.late /\ save.waited)
==============================================================================
