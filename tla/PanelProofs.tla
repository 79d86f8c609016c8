----------------------------- MODULE PanelProofs ------------------------------
(***************************************************************************)
(* Proofs about Panel: whose data a page shows, that a change of one's own *)
(* stays shown, and where a save goes, for any pages, users and records.   *)
(***************************************************************************)
EXTENDS Panel, TLAPS

------------------------------------------------------------------------------
\* The inductive invariant

\* Until a session lapses or a late answer replaces it, the panel knows whose cookie it
\* has; what is cached or fetched is that user's, and nothing is while nobody is signed in.
OwnCache ==
    ~lapsed =>
        /\ shown = Nobody \/ shown = cookie
        /\ shown = Nobody => list = NoList /\ fetch = NoFetch
        /\ list # NoList => list.who = shown
        /\ fetch # NoFetch => fetch.who = shown

\* A fetch that has read the records did so for a user, after the last change of one's
\* own that was reloaded, and, unless it is a first load, after the one whose reload it is.
Fresh ==
    /\ own <= writes /\ save.at <= writes
    /\ list # NoList => list.at >= own
    /\ fetch.phase = "read" => fetch.who # Nobody /\ fetch.at >= own
    /\ fetch.phase = "read" /\ save.phase = "settling" /\ list # NoList => fetch.at >= save.at

\* A mutation goes to what it was started on, or waits, or has waited, for the network
\* on a page that reads the record late.
MeantFor ==
    save.phase # "none" =>
        /\ save.target = save.on \/ (page.late /\ save.waited)
        /\ save.phase = "paused" => save.waited
        /\ save.phase # "paused" => save.lapse \/ save.as = save.by

\* While it waits without a lapse, its user stays signed in.
WaitsForUser ==
    save.phase = "paused" /\ ~save.lapse =>
        cookie = save.by /\ shown = save.by /\ save.by # Nobody

PanelInv == TypeOK /\ OwnCache /\ Fresh /\ MeantFor /\ WaitsForUser

------------------------------------------------------------------------------
\* Types

LEMMA EmptyValues == NoList \in List /\ NoFetch \in Fetch /\ Closed \in Dialog /\ NoSave \in Save
               /\ NoMe \in [asked: BOOLEAN, who: Users \cup {Nobody}]
BY PanelAssumption DEF PanelAssumption, NoList, List, NoFetch, Fetch, Closed, Dialog, NoSave, Save, NoMe, Target

\* What the steps may make of the mutation under way.
LEMMA SaveTypes ==
    ASSUME TypeOK
    PROVE  /\ Unmounted \in Save /\ Left \in Save /\ Settled \in Save
           /\ Strayed(save) \in Save /\ Strayed(Unmounted) \in Save
           /\ \A phase \in {"written", "refused", "settling"} : [save EXCEPT !.phase = phase] \in Save
           /\ [save EXCEPT !.phase = "sent", !.as = cookie] \in Save
           /\ writes < MaxWrites => [save EXCEPT !.phase = "written", !.at = writes + 1] \in Save
           /\ \A open \in Dialog : Rendered(open) \in Save
<1>1. save \in Save /\ NoSave \in Save /\ cookie \in Users \cup {Nobody}
  BY EmptyValues DEF TypeOK
<1>2. Unmounted \in Save
  BY <1>1 DEF Unmounted, Save
<1>3. Left \in Save /\ Settled \in Save
  BY <1>1, <1>2 DEF Left, Settled
<1>4. Strayed(save) \in Save /\ Strayed(Unmounted) \in Save
  <2>1. ASSUME NEW s \in Save PROVE Strayed(s) \in Save
    BY DEF Strayed, Save
  <2> QED
    BY <1>1, <1>2, <2>1
<1>5. \A phase \in {"written", "refused", "settling"} : [save EXCEPT !.phase = phase] \in Save
  BY <1>1 DEF Save
<1>6. [save EXCEPT !.phase = "sent", !.as = cookie] \in Save
  BY <1>1 DEF Save
<1>7. writes < MaxWrites => [save EXCEPT !.phase = "written", !.at = writes + 1] \in Save
  <2>1. writes < MaxWrites => writes + 1 \in 0..MaxWrites
    BY PanelAssumption DEF TypeOK, PanelAssumption
  <2> QED
    BY <1>1, <2>1 DEF Save
<1>8. ASSUME NEW open \in Dialog
      PROVE  Rendered(open) \in Save
  <2>1. open.on \in Target /\ New \in Target /\ NoId \in Target
    BY DEF Dialog, Target
  <2>2. \A id \in Target : [save EXCEPT !.target = id] \in Save
    BY <1>1 DEF Save
  <2> QED
    BY <1>1, <2>1, <2>2 DEF Rendered
<1> QED
  BY <1>2, <1>3, <1>4, <1>5, <1>6, <1>7, <1>8

\* A mutation that begins.
LEMMA BegunType ==
    ASSUME TypeOK, NEW kind \in {"form", "confirm", "direct"}, NEW id \in Target, Mutates(kind, id)
    PROVE  save' \in Save
<1>1. cookie \in Users \cup {Nobody} /\ shown \in Users \cup {Nobody} /\ lapsed \in BOOLEAN /\ online \in BOOLEAN
  BY DEF TypeOK
<1>2. NoSave \in Save
  BY EmptyValues
<1>3. save' = [NoSave EXCEPT !.phase = IF online THEN "sent" ELSE "paused", !.kind = kind,
                             !.on = id, !.target = id, !.by = shown, !.as = cookie,
                             !.waited = ~online, !.lapse = lapsed, !.mounted = TRUE]
  BY DEF Mutates
<1>4. PICK phase \in {"sent", "paused"}, waited \in BOOLEAN :
         save' = [NoSave EXCEPT !.phase = phase, !.kind = kind, !.on = id, !.target = id,
                                !.by = shown, !.as = cookie, !.waited = waited,
                                !.lapse = lapsed, !.mounted = TRUE]
  BY <1>3
<1>5. save' = [phase |-> phase, kind |-> kind, on |-> id, by |-> shown, target |-> id,
               as |-> cookie, waited |-> waited, lapse |-> lapsed, mounted |-> TRUE,
               at |-> NoSave.at]
  BY <1>4 DEF NoSave
<1>6. NoSave.at \in 0..MaxWrites
  BY <1>2 DEF Save
<1> QED
  BY <1>1, <1>5, <1>6 DEF Save

LEMMA FetchTypes ==
    ASSUME TypeOK
    PROVE  /\ Asked \in Fetch
           /\ [fetch EXCEPT !.phase = "read", !.at = writes, !.rows = {i \in Ids : record[i] # 0}] \in Fetch
           /\ fetch.who # Nobody => [who |-> fetch.who, at |-> fetch.at, rows |-> fetch.rows] \in List
<1>1. fetch \in Fetch /\ NoFetch \in Fetch /\ cookie \in Users \cup {Nobody} /\ writes \in 0..MaxWrites
  BY EmptyValues DEF TypeOK
<1>2. Asked \in Fetch
  BY <1>1 DEF Asked, Fetch
<1>3. [fetch EXCEPT !.phase = "read", !.at = writes, !.rows = {i \in Ids : record[i] # 0}] \in Fetch
  <2>1. {i \in Ids : record[i] # 0} \in SUBSET Ids
    OBVIOUS
  <2> QED
    BY <1>1, <2>1 DEF Fetch
<1>4. fetch.who # Nobody => [who |-> fetch.who, at |-> fetch.at, rows |-> fetch.rows] \in List
  BY <1>1 DEF Fetch, List
<1> QED
  BY <1>2, <1>3, <1>4

\* A write to the records.
LEMMA WrittenType ==
    ASSUME TypeOK, writes < MaxWrites, NEW target
    PROVE  /\ writes + 1 \in 0..MaxWrites
           /\ Written(target) \subseteq [Ids -> 0..MaxWrites]
           /\ \A id \in Ids : [record EXCEPT ![id] = IF @ = 0 THEN writes + 1 ELSE 0] \in [Ids -> 0..MaxWrites]
<1>1. writes + 1 \in 0..MaxWrites /\ 0 \in 0..MaxWrites
  BY PanelAssumption DEF TypeOK, PanelAssumption
<1>2. record \in [Ids -> 0..MaxWrites]
  BY DEF TypeOK
<1>3. \A id \in Ids : \A v \in 0..MaxWrites : [record EXCEPT ![id] = v] \in [Ids -> 0..MaxWrites]
  BY <1>2
<1>4. Written(target) \subseteq [Ids -> 0..MaxWrites]
  BY <1>1, <1>3 DEF Written
<1> QED
  BY <1>1, <1>2, <1>4

------------------------------------------------------------------------------
\* Every step keeps the invariant

LEMMA InitHolds == Init => PanelInv
<1> SUFFICES ASSUME Init
             PROVE  PanelInv
  OBVIOUS
<1>1. list \in List /\ fetch \in Fetch /\ dialog \in Dialog /\ save \in Save
      /\ me \in [asked: BOOLEAN, who: Users \cup {Nobody}]
  BY EmptyValues DEF Init
<1>2. 0 \in 0..MaxWrites /\ 1 \in 0..MaxWrites
  BY PanelAssumption DEF PanelAssumption
<1>3. record \in [Ids -> 0..MaxWrites]
  <2>1. PICK there \in SUBSET Ids : record = [i \in Ids |-> IF i \in there THEN 1 ELSE 0]
    BY DEF Init
  <2> QED
    BY <1>2, <2>1
<1>4. TypeOK
  BY <1>1, <1>2, <1>3 DEF Init, TypeOK
<1>5. OwnCache
  BY DEF Init, OwnCache
<1>6. Fresh
  BY DEF Init, Fresh, NoSave, NoFetch
<1>7. MeantFor /\ WaitsForUser
  BY DEF Init, MeantFor, WaitsForUser, NoSave
<1> QED
  BY <1>4, <1>5, <1>6, <1>7 DEF PanelInv

LEMMA signInKeeps ==
    ASSUME PanelInv, NEW u \in Users, signIn(u)
    PROVE  PanelInv'
<1> USE DEF signIn, Signs, server
<1>1. TypeOK'
  BY DEF PanelInv, TypeOK
<1>2. OwnCache'
  BY DEF PanelInv, OwnCache, Mounted
<1>3. Fresh' /\ MeantFor'
  BY DEF PanelInv, Fresh, MeantFor
<1>4. WaitsForUser'
  BY DEF PanelInv, WaitsForUser, Mounted
<1> QED
  BY <1>1, <1>2, <1>3, <1>4 DEF PanelInv

LEMMA signOutKeeps ==
    ASSUME PanelInv, signOut
    PROVE  PanelInv'
<1> USE DEF signOut, Signs, server, cleared
<1>1. TypeOK'
  BY EmptyValues, SaveTypes DEF PanelInv, TypeOK
<1>2. OwnCache'
  BY DEF OwnCache
<1>3. save' = NoSave \/ (save' = Unmounted /\ save.phase \notin {"none", "paused", "settling"})
  BY DEF Left
<1>4. CASE save' = NoSave
  <2>1. Fresh'
    BY <1>4 DEF PanelInv, TypeOK, Fresh, NoSave, NoFetch
  <2>2. MeantFor' /\ WaitsForUser'
    BY <1>4 DEF MeantFor, WaitsForUser, NoSave
  <2> QED
    BY <1>1, <1>2, <2>1, <2>2 DEF PanelInv
<1>5. CASE save' = Unmounted /\ save.phase \notin {"none", "paused", "settling"}
  <2>1. save \in Save
    BY DEF PanelInv, TypeOK
  <2>2. /\ save'.phase = save.phase /\ save'.at = save.at /\ save'.target = save.target /\ save'.on = save.on
        /\ save'.waited = save.waited /\ save'.lapse = save.lapse /\ save'.as = save.as /\ save'.by = save.by
    BY <1>5, <2>1 DEF Unmounted, Save
  <2>3. Fresh'
    BY <1>5, <2>2 DEF PanelInv, Fresh, NoFetch
  <2>4. MeantFor' /\ WaitsForUser'
    BY <1>5, <2>2 DEF PanelInv, MeantFor, WaitsForUser
  <2> QED
    BY <1>1, <1>2, <2>3, <2>4 DEF PanelInv
<1> QED
  BY <1>3, <1>4, <1>5

\* A mutation under way that a lapse or a late answer makes stray, with or without its page.
LEMMA StrayedKeeps ==
    ASSUME PanelInv, NEW after \in {save, Unmounted},
           \/ save' = Strayed(after)
           \/ /\ save' = after
              /\ save.phase = "paused" /\ ~save.lapse => UNCHANGED cookie /\ shown' = cookie,
           UNCHANGED <<page, server, list, fetch, own>>
    PROVE  Fresh' /\ MeantFor' /\ WaitsForUser'
<1>1. save \in Save
  BY DEF PanelInv, TypeOK
<1>2. /\ after.phase = save.phase /\ after.at = save.at /\ after.target = save.target /\ after.on = save.on
      /\ after.waited = save.waited /\ after.lapse = save.lapse /\ after.as = save.as /\ after.by = save.by
      /\ after \in Save
  BY <1>1 DEF Unmounted, Save
<1>3. PICK s \in Save : s = after
  BY <1>2
<1>4. CASE /\ save' = after
           /\ save.phase = "paused" /\ ~save.lapse => UNCHANGED cookie /\ shown' = cookie
  BY <1>2, <1>4 DEF server, PanelInv, Fresh, MeantFor, WaitsForUser
<1>5. CASE save' = Strayed(after) /\ save.phase # "none"
  <2>1. save' = [s EXCEPT !.lapse = TRUE]
    BY <1>2, <1>3, <1>5 DEF Strayed
  <2>2. /\ save'.phase = save.phase /\ save'.at = save.at /\ save'.target = save.target /\ save'.on = save.on
        /\ save'.waited = save.waited /\ save'.lapse
    BY <1>2, <1>3, <2>1 DEF Save
  <2> QED
    BY <2>2 DEF server, PanelInv, Fresh, MeantFor, WaitsForUser
<1>6. CASE save' = Strayed(after) /\ save.phase = "none"
  <2>1. save' = after
    BY <1>2, <1>6 DEF Strayed
  <2> QED
    BY <1>2, <1>6, <2>1 DEF server, PanelInv, Fresh, MeantFor, WaitsForUser
<1> QED
  BY <1>4, <1>5, <1>6

LEMMA LapseKeeps ==
    ASSUME PanelInv, Lapse
    PROVE  PanelInv'
<1> USE DEF Lapse, Signs, server
<1>1. TypeOK'
  <2>1. me' \in [asked: BOOLEAN, who: Users \cup {Nobody}]
    BY DEF PanelInv, TypeOK
  <2> QED
    BY <2>1, SaveTypes DEF PanelInv, TypeOK
<1>2. OwnCache'
  BY DEF OwnCache
<1>3. Fresh' /\ MeantFor' /\ WaitsForUser'
  BY StrayedKeeps
<1> QED
  BY <1>1, <1>2, <1>3 DEF PanelInv

LEMMA askMeKeeps ==
    ASSUME PanelInv, askMe
    PROVE  PanelInv'
BY DEF askMe, Signs, server, PanelInv, TypeOK, OwnCache, Fresh, MeantFor, WaitsForUser

\* Unless it is about the cookie of now, the answer sets lapsed, and no more is claimed.
LEMMA meLandsKeeps ==
    ASSUME PanelInv, meLands
    PROVE  PanelInv'
<1> USE DEF meLands, Signs, server
<1>1. TypeOK'
  BY EmptyValues, SaveTypes DEF PanelInv, TypeOK
<1>2. OwnCache'
  <2> SUFFICES ASSUME ~lapsed, me.who = cookie
               PROVE  OwnCache'
    BY DEF OwnCache
  <2>1. shown' = cookie /\ (shown = Nobody \/ shown = cookie)
    BY DEF PanelInv, OwnCache
  <2> QED
    BY <2>1 DEF PanelInv, OwnCache
<1>3. PICK after \in {save, Unmounted} : save' = IF me.who = cookie THEN after ELSE Strayed(after)
  OBVIOUS
<1>4. Fresh' /\ MeantFor' /\ WaitsForUser'
  BY <1>3, StrayedKeeps
<1> QED
  BY <1>1, <1>2, <1>4 DEF PanelInv

LEMMA meFailsKeeps ==
    ASSUME PanelInv, meFails
    PROVE  PanelInv'
BY EmptyValues DEF meFails, Signs, server, PanelInv, TypeOK, OwnCache, Fresh, MeantFor, WaitsForUser

LEMMA NetworkKeeps ==
    ASSUME PanelInv, Network
    PROVE  PanelInv'
BY DEF Network, server, PanelInv, TypeOK, OwnCache, Fresh, MeantFor, WaitsForUser

LEMMA askKeeps ==
    ASSUME PanelInv, ask
    PROVE  PanelInv'
<1> USE DEF ask, Shows, server
<1>1. TypeOK'
  BY FetchTypes DEF PanelInv, TypeOK
<1>2. fetch'.who = cookie /\ fetch'.phase = "asked"
  BY DEF Asked, NoFetch
<1>3. OwnCache'
  BY <1>2 DEF PanelInv, OwnCache, Mounted
<1>4. Fresh' /\ MeantFor' /\ WaitsForUser'
  BY <1>2 DEF PanelInv, Fresh, MeantFor, WaitsForUser
<1> QED
  BY <1>1, <1>3, <1>4 DEF PanelInv

LEMMA readKeeps ==
    ASSUME PanelInv, read
    PROVE  PanelInv'
<1> USE DEF read, Shows, server
<1>1. TypeOK'
  BY FetchTypes DEF PanelInv, TypeOK
<1>2. fetch'.who = fetch.who /\ fetch'.at = writes /\ fetch # NoFetch
  BY DEF PanelInv, TypeOK, Fetch, NoFetch
<1>3. OwnCache'
  BY <1>2 DEF PanelInv, OwnCache
<1>4. Fresh' /\ MeantFor' /\ WaitsForUser'
  BY <1>2 DEF PanelInv, Fresh, MeantFor, WaitsForUser
<1> QED
  BY <1>1, <1>3, <1>4 DEF PanelInv

\* A fetch that is under way was begun for a user.
LEMMA FetchedForUser ==
    ASSUME PanelInv, fetch.phase = "read", ~lapsed
    PROVE  fetch.who = shown /\ shown # Nobody
BY DEF PanelInv, OwnCache, NoFetch

LEMMA SettledKeeps ==
    ASSUME PanelInv, save' = Settled, page' = page, cookie' = cookie, shown' = shown
    PROVE  MeantFor' /\ WaitsForUser' /\ (save' = NoSave \/ save' = save) /\ save'.phase # "settling"
BY DEF Settled, PanelInv, MeantFor, WaitsForUser, NoSave

LEMMA landKeeps ==
    ASSUME PanelInv, land
    PROVE  PanelInv'
<1> USE DEF land, server
<1>1. TypeOK'
  <2>1. list' \in List /\ fetch' \in Fetch /\ save' \in Save /\ dialog' \in Dialog
    <3>1. fetch.who # Nobody
      BY DEF PanelInv, Fresh
    <3>2. list' \in List
      BY <3>1, FetchTypes DEF PanelInv
    <3>3. fetch' \in Fetch /\ save' \in Save /\ dialog' \in Dialog
      BY EmptyValues, SaveTypes DEF PanelInv, TypeOK, ClosedAfter
    <3> QED
      BY <3>2, <3>3
  <2>2. own' \in 0..MaxWrites
    <3>1. save.at \in 0..MaxWrites
      BY DEF PanelInv, TypeOK, Save
    <3> QED
      BY <3>1 DEF PanelInv, TypeOK
  <2> QED
    BY <2>1, <2>2 DEF PanelInv, TypeOK
<1>2. OwnCache'
  BY FetchedForUser DEF PanelInv, OwnCache
<1>3. MeantFor' /\ WaitsForUser' /\ (save' = NoSave \/ save' = save) /\ save'.phase # "settling"
  BY SettledKeeps
<1>4. Fresh'
  <2>1. own' <= writes /\ own' <= fetch.at
    BY DEF PanelInv, Fresh
  <2>2. save'.at <= writes
    BY <1>3 DEF PanelInv, TypeOK, Fresh, NoSave
  <2>3. fetch'.phase # "read" /\ list'.at = fetch.at
    BY DEF NoFetch
  <2>4. own' \in 0..MaxWrites /\ fetch.at \in 0..MaxWrites
    BY <1>1 DEF PanelInv, TypeOK, Fetch
  <2> QED
    BY <2>1, <2>2, <2>3, <2>4 DEF Fresh
<1> QED
  BY <1>1, <1>2, <1>3, <1>4 DEF PanelInv

LEMMA fetchFailsKeeps ==
    ASSUME PanelInv, fetchFails
    PROVE  PanelInv'
<1> USE DEF fetchFails, server
<1>1. TypeOK'
  BY EmptyValues, SaveTypes DEF PanelInv, TypeOK, ClosedAfter
<1>2. OwnCache'
  BY DEF PanelInv, OwnCache
<1>3. MeantFor' /\ WaitsForUser' /\ (save' = NoSave \/ save' = save) /\ save'.phase # "settling"
  BY SettledKeeps
<1>4. Fresh'
  BY <1>3 DEF PanelInv, TypeOK, Fresh, NoSave, NoFetch
<1> QED
  BY <1>1, <1>2, <1>3, <1>4 DEF PanelInv

\* A render changes at most the target of a mutation that waits, on a page that reads it late.
LEMMA RenderedKeeps ==
    ASSUME PanelInv, NEW open \in Dialog, save' = Rendered(open),
           UNCHANGED <<page, cookie, shown, lapsed, server, list, fetch, own>>
    PROVE  OwnCache' /\ Fresh' /\ MeantFor' /\ WaitsForUser'
<1> USE DEF server
<1>1. OwnCache'
  BY DEF PanelInv, OwnCache
<1>2. CASE save' = save
  BY <1>1, <1>2 DEF PanelInv, Fresh, MeantFor, WaitsForUser
<1>3. CASE save' # save
  <2>1. save \in Save
    BY DEF PanelInv, TypeOK
  <2>2. save.phase = "paused" /\ page.late
    BY <1>3 DEF Rendered
  <2>3. PICK id : save' = [save EXCEPT !.target = id]
    BY <1>3, <2>2 DEF Rendered
  <2>4. /\ save'.phase = save.phase /\ save'.at = save.at
        /\ save'.waited = save.waited /\ save'.lapse = save.lapse /\ save'.as = save.as /\ save'.by = save.by
    BY <2>1, <2>3 DEF Save
  <2> QED
    BY <1>1, <2>2, <2>4 DEF PanelInv, Fresh, MeantFor, WaitsForUser
<1> QED
  BY <1>2, <1>3

LEMMA OpensKeeps ==
    ASSUME PanelInv, NEW kind \in {"form", "confirm"}, NEW on \in Target, Opens(kind, on)
    PROVE  PanelInv'
<1>1. dialog' \in Dialog /\ save' = Rendered(dialog')
  BY DEF Opens, Dialog
<1>2. PICK open \in Dialog : open = dialog'
  BY <1>1
<1>3. OwnCache' /\ Fresh' /\ MeantFor' /\ WaitsForUser'
  BY <1>1, <1>2, RenderedKeeps DEF Opens
<1>4. TypeOK'
  BY <1>1, <1>2, SaveTypes DEF Opens, server, PanelInv, TypeOK
<1> QED
  BY <1>3, <1>4 DEF PanelInv

LEMMA onCloseKeeps ==
    ASSUME PanelInv, onClose
    PROVE  PanelInv'
<1>1. Closed \in Dialog
  BY EmptyValues
<1>2. OwnCache' /\ Fresh' /\ MeantFor' /\ WaitsForUser'
  BY <1>1, RenderedKeeps DEF onClose
<1>3. TypeOK'
  BY <1>1, SaveTypes DEF onClose, server, PanelInv, TypeOK
<1> QED
  BY <1>2, <1>3 DEF PanelInv

LEMMA MutatesKeeps ==
    ASSUME PanelInv, NEW kind \in {"form", "confirm", "direct"}, NEW id \in Target, Mutates(kind, id)
    PROVE  PanelInv'
<1> USE DEF Mutates, Shows, server
<1>1. TypeOK'
  BY BegunType DEF PanelInv, TypeOK
<1>2. OwnCache'
  BY DEF PanelInv, OwnCache
<1>3. /\ save'.phase = (IF online THEN "sent" ELSE "paused") /\ save'.at = 0
      /\ save'.on = id /\ save'.target = id /\ save'.by = shown /\ save'.as = cookie
      /\ save'.waited = ~online /\ save'.lapse = lapsed
  BY DEF NoSave
<1>4. Fresh'
  BY <1>3 DEF PanelInv, TypeOK, Fresh
<1>5. shown # Nobody /\ (lapsed \/ shown = cookie)
  BY DEF PanelInv, OwnCache, Mounted
<1>6. CASE online
  <2>1. save'.phase = "sent" /\ save'.target = save'.on
    BY <1>3, <1>6
  <2>2. save'.lapse \/ save'.as = save'.by
    BY <1>3, <1>5
  <2> QED
    BY <1>1, <1>2, <1>4, <2>1, <2>2 DEF PanelInv, MeantFor, WaitsForUser
<1>7. CASE ~online
  <2>1. save'.phase = "paused" /\ save'.waited /\ save'.target = save'.on
    BY <1>3, <1>7
  <2>2. MeantFor'
    BY <2>1 DEF MeantFor
  <2>3. WaitsForUser'
    <3>1. ~save'.lapse => cookie' = save'.by /\ shown' = save'.by /\ save'.by # Nobody
      BY <1>3, <1>5
    <3> QED
      BY <3>1 DEF WaitsForUser
  <2> QED
    BY <1>1, <1>2, <1>4, <2>2, <2>3 DEF PanelInv
<1> QED
  BY <1>6, <1>7

LEMMA resumeKeeps ==
    ASSUME PanelInv, resume
    PROVE  PanelInv'
<1> USE DEF resume, Shows, server
<1>1. TypeOK'
  BY SaveTypes DEF PanelInv, TypeOK
<1>2. save \in Save
  BY DEF PanelInv, TypeOK
<1>3. /\ save'.phase = "sent" /\ save'.at = save.at /\ save'.target = save.target /\ save'.on = save.on
      /\ save'.waited = save.waited /\ save'.lapse = save.lapse /\ save'.as = cookie /\ save'.by = save.by
  BY <1>2 DEF Save
<1>4. OwnCache' /\ Fresh'
  BY <1>3 DEF PanelInv, OwnCache, Fresh
<1>5. save.lapse \/ cookie = save.by
  BY DEF PanelInv, WaitsForUser
<1>6. MeantFor' /\ WaitsForUser'
  BY <1>3, <1>5 DEF PanelInv, MeantFor, WaitsForUser
<1> QED
  BY <1>1, <1>4, <1>6 DEF PanelInv

\* The server answers: only the phase of the mutation changes, and what it has written.
LEMMA AnsweredKeeps ==
    ASSUME PanelInv, save.phase = "sent",
           save'.phase \in {"written", "refused"}, writes' \in Nat, writes <= writes', save'.at <= writes',
           save'.target = save.target, save'.on = save.on, save'.waited = save.waited,
           save'.lapse = save.lapse, save'.as = save.as, save'.by = save.by,
           UNCHANGED <<page, cookie, shown, lapsed, list, fetch, own>>
    PROVE  OwnCache' /\ Fresh' /\ MeantFor' /\ WaitsForUser'
<1>1. OwnCache' /\ MeantFor' /\ WaitsForUser'
  BY DEF PanelInv, OwnCache, MeantFor, WaitsForUser
<1>2. own \in Nat /\ writes \in Nat /\ own <= writes
  BY PanelAssumption DEF PanelAssumption, PanelInv, TypeOK, Fresh
<1>3. Fresh'
  BY <1>2 DEF PanelInv, Fresh
<1> QED
  BY <1>1, <1>3

LEMMA handleKeeps ==
    ASSUME PanelInv, handle
    PROVE  PanelInv'
<1>1. save \in Save /\ writes \in Nat /\ save.phase = "sent"
  BY PanelAssumption DEF PanelAssumption, PanelInv, TypeOK, handle
<1>2. CASE /\ writes < MaxWrites
           /\ record' \in Written(save.target)
           /\ writes' = writes + 1
           /\ save' = [save EXCEPT !.phase = "written", !.at = writes + 1]
  <2>1. TypeOK'
    BY <1>2, SaveTypes, WrittenType DEF handle, PanelInv, TypeOK
  <2>2. /\ save'.phase = "written" /\ save'.at = writes' /\ save'.target = save.target /\ save'.on = save.on
        /\ save'.waited = save.waited /\ save'.lapse = save.lapse /\ save'.as = save.as /\ save'.by = save.by
    BY <1>1, <1>2 DEF Save
  <2>3. writes' \in Nat /\ writes <= writes' /\ save'.at <= writes'
    BY <1>1, <1>2, <2>2
  <2>4. OwnCache' /\ Fresh' /\ MeantFor' /\ WaitsForUser'
    BY <1>1, <2>2, <2>3, AnsweredKeeps DEF handle
  <2> QED
    BY <2>1, <2>4 DEF PanelInv
<1>3. CASE save' = [save EXCEPT !.phase = "refused"] /\ UNCHANGED server
  <2>1. TypeOK'
    BY <1>3, SaveTypes DEF handle, server, PanelInv, TypeOK
  <2>2. /\ save'.phase = "refused" /\ save'.at = save.at /\ save'.target = save.target /\ save'.on = save.on
        /\ save'.waited = save.waited /\ save'.lapse = save.lapse /\ save'.as = save.as /\ save'.by = save.by
    BY <1>1, <1>3 DEF Save
  <2>3. writes' \in Nat /\ writes <= writes' /\ save'.at <= writes'
    BY <1>1, <1>3, <2>2 DEF PanelInv, Fresh, server
  <2>4. OwnCache' /\ Fresh' /\ MeantFor' /\ WaitsForUser'
    BY <1>1, <2>2, <2>3, AnsweredKeeps DEF handle
  <2> QED
    BY <2>1, <2>4 DEF PanelInv
<1> QED
  BY <1>2, <1>3 DEF handle

LEMMA onSuccessKeeps ==
    ASSUME PanelInv, onSuccess
    PROVE  PanelInv'
<1> USE DEF onSuccess, Shows, server
<1>1. save \in Save
  BY DEF PanelInv, TypeOK
<1>2. CASE Mounted
  <2>1. fetch' = invalidated /\ save' = [save EXCEPT !.phase = "settling"]
    BY <1>2
  <2>2. TypeOK'
    BY <2>1, SaveTypes, FetchTypes DEF invalidated, PanelInv, TypeOK
  <2>3. \/ fetch' = fetch /\ list = NoList
        \/ fetch'.who = cookie /\ fetch'.phase = "asked"
    BY <2>1 DEF invalidated, Asked, NoFetch
  <2>4. OwnCache'
    BY <1>2, <2>3 DEF PanelInv, OwnCache, Mounted
  <2>5. /\ save'.phase = "settling" /\ save'.at = save.at /\ save'.target = save.target /\ save'.on = save.on
        /\ save'.waited = save.waited /\ save'.lapse = save.lapse /\ save'.as = save.as /\ save'.by = save.by
    BY <1>1, <2>1 DEF Save
  <2>6. Fresh' /\ MeantFor' /\ WaitsForUser'
    BY <2>3, <2>5 DEF PanelInv, Fresh, MeantFor, WaitsForUser
  <2> QED
    BY <2>2, <2>4, <2>6 DEF PanelInv
<1>3. CASE ~Mounted
  <2>1. save' = NoSave /\ UNCHANGED fetch
    BY <1>3
  <2>2. TypeOK' /\ OwnCache'
    BY <2>1, EmptyValues DEF PanelInv, TypeOK, OwnCache
  <2>3. Fresh' /\ MeantFor' /\ WaitsForUser'
    BY <2>1 DEF PanelInv, TypeOK, Fresh, MeantFor, WaitsForUser, NoSave
  <2> QED
    BY <2>2, <2>3 DEF PanelInv
<1> QED
  BY <1>2, <1>3

LEMMA onErrorKeeps ==
    ASSUME PanelInv, onError
    PROVE  PanelInv'
<1> USE DEF onError, server
<1>1. TypeOK' /\ OwnCache'
  BY EmptyValues DEF PanelInv, TypeOK, OwnCache
<1>2. Fresh' /\ MeantFor' /\ WaitsForUser'
  BY DEF PanelInv, TypeOK, Fresh, MeantFor, WaitsForUser, NoSave
<1> QED
  BY <1>1, <1>2 DEF PanelInv

LEMMA OthersKeeps ==
    ASSUME PanelInv, NEW id \in Ids, Others(id)
    PROVE  PanelInv'
<1> USE DEF Others
<1>1. TypeOK'
  BY WrittenType DEF PanelInv, TypeOK
<1>2. writes \in Nat /\ own \in Nat /\ save.at \in Nat
  BY PanelAssumption DEF PanelAssumption, PanelInv, TypeOK, Save
<1>3. Fresh'
  BY <1>2 DEF PanelInv, Fresh
<1>4. OwnCache' /\ MeantFor' /\ WaitsForUser'
  BY DEF PanelInv, OwnCache, MeantFor, WaitsForUser
<1> QED
  BY <1>1, <1>3, <1>4 DEF PanelInv

LEMMA StepKeeps == PanelInv /\ [Next]_vars => PanelInv'
<1> SUFFICES ASSUME PanelInv, [Next]_vars
             PROVE  PanelInv'
  OBVIOUS
<1>1. CASE signOut \/ Lapse \/ askMe \/ meLands \/ meFails \/ Network
  BY <1>1, signOutKeeps, LapseKeeps, askMeKeeps, meLandsKeeps, meFailsKeeps, NetworkKeeps
<1>2. CASE \E u \in Users : signIn(u)
  BY <1>2, signInKeeps
<1>3. CASE ask \/ read \/ land \/ fetchFails
  BY <1>3, askKeeps, readKeeps, landKeeps, fetchFailsKeeps
<1>4. CASE openCreate \/ onClose
  <2>1. New \in Target
    BY DEF Target
  <2> QED
    BY <1>4, <2>1, OpensKeeps, onCloseKeeps DEF openCreate
<1>5. CASE onSubmit \/ onConfirm
  <2>1. dialog.on \in Target
    BY DEF PanelInv, TypeOK, Dialog
  <2> QED
    BY <1>5, <2>1, MutatesKeeps DEF onSubmit, onConfirm
<1>6. ASSUME NEW id \in Ids, openEdit(id) \/ setDeleteTarget(id) \/ onClick(id) \/ Others(id)
      PROVE  PanelInv'
  <2>1. id \in Target
    BY DEF Target
  <2> QED
    BY <1>6, <2>1, OpensKeeps, MutatesKeeps, OthersKeeps DEF openEdit, setDeleteTarget, onClick
<1>7. CASE resume \/ handle \/ onSuccess \/ onError
  BY <1>7, resumeKeeps, handleKeeps, onSuccessKeeps, onErrorKeeps
<1>8. CASE UNCHANGED vars
  BY <1>8 DEF vars, server, PanelInv, TypeOK, OwnCache, Fresh, MeantFor, WaitsForUser
<1> QED
  BY <1>1, <1>2, <1>3, <1>4, <1>5, <1>6, <1>7, <1>8 DEF Next

LEMMA PanelInvariant == Spec => []PanelInv
<1>1. Init => PanelInv
  BY InitHolds
<1>2. PanelInv /\ [Next]_vars => PanelInv'
  BY StepKeeps
<1> QED
  BY <1>1, <1>2, PTL DEF Spec

------------------------------------------------------------------------------
\* The theorems

\* The session, the cache, the dialogs and the mutation of a page keep their types
\* (useSession.tsx, the pages' queries and mutations).
THEOREM PanelTypeCorrect == Spec => []TypeOK
<1>1. PanelInv => TypeOK
  BY DEF PanelInv
<1> QED
  BY <1>1, PanelInvariant, PTL

\* The list shown was fetched for the user it is shown to, whatever answers of /auth/me,
\* fetches and sign-ins overlap: signOut clears the cache with the fetches under way
\* (useSession.tsx:68).  Not claimed, until the next sign-out, once a session has ended
\* otherwise or an answer of /auth/me has come that is about an earlier cookie.
THEOREM NothingOfOthersShown == Spec => []NothingOfOthers
<1>1. PanelInv => NothingOfOthers
  BY DEF PanelInv, OwnCache, NothingOfOthers
<1> QED
  BY <1>1, PanelInvariant, PTL

\* After the reload that follows a change of one's own, made with the list there already,
\* no fetch brings back a state from before it: the reload starts anew a fetch that was
\* under way, and onSuccess waits for it.  A first load it joins instead, so of a change
\* made before that has arrived nothing is claimed (DestinationsPage.tsx:93).
THEOREM OwnChangeStaysShown == Spec => []OwnChangeShown
<1>1. PanelInv => OwnChangeShown
  BY DEF PanelInv, Fresh, OwnChangeShown
<1> QED
  BY <1>1, PanelInvariant, PTL

\* What the server has written was sent as the user who asked for it, unless a session had
\* ended or a late answer of /auth/me had come by then, and to the record asked for, unless
\* it waited for the network on a page that reads the record late.
THEOREM SavesGoWhereMeant == Spec => []SavedAsMeant
<1>1. PanelInv => SavedAsMeant
  BY DEF PanelInv, MeantFor, SavedAsMeant
<1> QED
  BY <1>1, PanelInvariant, PTL

==============================================================================
