------------------------------- MODULE Accounts -------------------------------
(***************************************************************************)
(* Accounts, sessions and API keys (services/users.ts, services/auth.ts,   *)
(* services/api-keys.ts and the guards of http/plugins/auth.ts).  A        *)
(* request runs its statements one by one; between two of them lie a slow  *)
(* password hash or the requests of others.                                *)
(*                                                                         *)
(* Passwords, tokens and digests are not kept: a login or a change either  *)
(* proves the password it read or is refused.                              *)
(***************************************************************************)
EXTENDS Naturals, FiniteSets

CONSTANTS
    Users,      \* ids of accounts, used once
    Nobody,     \* no user
    Root,       \* the id an account named ADMIN_USERNAME has, or will get
    Sessions,   \* ids of sessions
    Keys,       \* ids of API keys
    Requests,   \* requests in flight at the same time
    NameOf      \* the username of each id

ASSUME AccountsAssumption ==
    /\ Root \in Users
    /\ Nobody \notin Users
    /\ Sessions \cap Keys = {}
    /\ NameOf \in [Users -> Users]
    /\ \A u \in Users : NameOf[u] = NameOf[Root] => u = Root

VARIABLES
    user,     \* table users
    session,  \* table sessions
    key,      \* table api_keys
    request,  \* the requests being handled
    up        \* bootstrapAdmin has run and the server listens

vars == <<user, session, key, request, up>>

------------------------------------------------------------------------------
\* Types

Role   == {"admin", "manager"}
Status == {"active", "blocked"}
User   == [there: BOOLEAN, role: Role, status: Status, boot: BOOLEAN, forced: BOOLEAN]

\* A row, or none; condemned (history): it was there when its user was blocked or
\* reset.
NoSession == [owner |-> Nobody, expired |-> FALSE, condemned |-> FALSE]
Session   == {NoSession} \cup [owner: Users, expired: BOOLEAN, condemned: BOOLEAN]

\* none: no row; dead: revoked, or expires_at has passed.
Key == [state: {"none", "live", "dead"}, owner: Users \cup {Nobody}]

\* The statement a request runs next.  admitted, keyed: the guard let it through.
Phase == {"idle", "opening", "resolving", "authenticating", "owner", "expiring", "expelling",
          "admitted", "keyed", "creating", "patching", "ending", "resetting", "changing",
          "counting", "removing", "revoking", "deleting"}

Patch == [role: Role \cup {"same"}, status: Status \cup {"same"}]

\* cred: the session or key it presents; late (history): when it arrived its
\* credential was dead already, and has been since; on: the account it is about;
\* sawRole, sawForced: of
\* the row it has read.
Request ==
    {x \in [phase: Phase, cred: Sessions \cup Keys \cup {Nobody}, late: BOOLEAN,
            actor: Users \cup {Nobody}, on: Users \cup {Nobody},
            sawRole: Role, sawForced: BOOLEAN, patch: Patch] :
        /\ x.phase \in {"opening", "owner", "patching", "resetting"} => x.on \in Users
        /\ x.phase \in {"admitted", "keyed"} => x.actor \in Users
        /\ x.phase = "resolving" => x.cred \in Sessions
        /\ x.phase = "authenticating" => x.cred \in Keys}

TypeOK ==
    /\ user \in [Users -> User]
    /\ session \in [Sessions -> Session]
    /\ key \in [Keys -> Key]
    /\ request \in [Requests -> Request]
    /\ up \in BOOLEAN

NoRow     == [there |-> FALSE, role |-> "manager", status |-> "active", boot |-> FALSE,
              forced |-> FALSE]
NoKey     == [state |-> "none", owner |-> Nobody]
NoPatch   == [role |-> "same", status |-> "same"]
Idle      == [phase |-> "idle", cred |-> Nobody, late |-> FALSE, actor |-> Nobody,
              on |-> Nobody, sawRole |-> "manager", sawForced |-> FALSE, patch |-> NoPatch]

Account(role) == [NoRow EXCEPT !.there = TRUE, !.role = role]

\* A new database, or one whose bootstrap account was deleted by hand, as
\* docs/SECURITY.md has it: other administrators may be left, and one of them may
\* have the configured name.
Init ==
    /\ user \in [Users -> {NoRow, Account("admin")}]
    /\ \A u, v \in Users : user[u].there /\ user[v].there /\ NameOf[u] = NameOf[v] => u = v
    /\ session = [s \in Sessions |-> NoSession]
    /\ key = [k \in Keys |-> NoKey]
    /\ request = [r \in Requests |-> Idle]
    /\ up = FALSE

At(r, phase) == up /\ request[r].phase = phase

\* The request answers: it is done, or an error goes to the client.
Ends(r) == request' = [request EXCEPT ![r] = Idle]

\* The handler goes on about account u.
About(u, phase) == [Idle EXCEPT !.phase = phase, !.on = u]

\* The guard lets the request act for u, as it has just read u's row.
Admit(r, phase, u) ==
    request' = [request EXCEPT ![r] =
                  [Idle EXCEPT !.phase = phase, !.actor = u, !.sawRole = user[u].role,
                               !.late = request[r].late, !.cred = request[r].cred]]

------------------------------------------------------------------------------
\* bootstrapAdmin: nothing else runs before the server listens.

Bootstrapped ==
    IF \E u \in Users : user[u].there /\ user[u].boot THEN user
    ELSE IF user[Root].there THEN [user EXCEPT ![Root].boot = TRUE, ![Root].role = "admin"]
    ELSE [user EXCEPT ![Root] = [Account("admin") EXCEPT !.boot = TRUE]]

Boot ==
    /\ ~up
    /\ up' = TRUE
    /\ user' = Bootstrapped
    /\ UNCHANGED <<session, key, request>>

\* The process dies or stops; the requests it was handling are gone.
Halt ==
    /\ up
    /\ up' = FALSE
    /\ request' = [r \in Requests |-> Idle]
    /\ session' = [s \in Sessions |-> [session[s] EXCEPT !.condemned = FALSE]]
    /\ UNCHANGED <<user, key>>

------------------------------------------------------------------------------
\* Sessions: login, resolve, logout

\* Mutant of Without: the foreign key would be ON DELETE SET NULL.
Without_Orphans(u) ==
    [s \in Sessions |-> IF session[s].owner = u THEN [session[s] EXCEPT !.owner = Nobody]
                        ELSE session[s]]

\* The sessions with those of u deleted.
Without(u) == [s \in Sessions |-> IF session[s].owner = u THEN NoSession ELSE session[s]]

\* findByUsername, and the password is right for the row read.
Login(r, u) ==
    /\ At(r, "idle")
    /\ user[u].there /\ user[u].status = "active"
    /\ request' = [request EXCEPT ![r] = About(u, "opening")]
    /\ UNCHANGED <<user, session, key, up>>

\* INSERT; the foreign key refuses it when the user has been deleted.
OpenSession(r) ==
    /\ At(r, "opening")
    /\ LET u == request[r].on IN
       IF user[u].there
       THEN \E s \in Sessions :
              /\ session[s] = NoSession /\ \A q \in Requests : request[q].cred # s
              /\ session' = [session EXCEPT ![s].owner = u]
       ELSE UNCHANGED session
    /\ Ends(r)
    /\ UNCHANGED <<user, key, up>>

\* Whoever presents c has nothing to expect of it, unless the user is unblocked.
Dead(c, account) ==
    \/ /\ c \in Sessions
       /\ \/ session[c] = NoSession \/ session[c].expired
          \/ account[session[c].owner].status = "blocked"
    \/ /\ c \in Keys
       /\ \/ key[c].state # "live" \/ key[c].owner = Nobody
          \/ account[key[c].owner].status = "blocked"

\* A request comes with the cookie of a session that exists or did, or with a key.
Arrive(r, c) ==
    /\ At(r, "idle")
    /\ request' = [request EXCEPT ![r] =
         [Idle EXCEPT !.phase = IF c \in Sessions THEN "resolving" ELSE "authenticating",
                      !.cred = c, !.late = Dead(c, user)]]
    /\ UNCHANGED <<user, session, key, up>>

\* One SELECT joins the session and its user; then expired, blocked, or admitted.
Resolved(r, s) ==
    IF session[s].expired
    THEN request' = [request EXCEPT ![r] = [Idle EXCEPT !.phase = "expiring", !.cred = s]]
    ELSE IF user[session[s].owner].status = "blocked"
    THEN request' = [request EXCEPT ![r] =
                       About(session[s].owner, "expelling")]
    ELSE Admit(r, "admitted", session[s].owner)

Resolve(r) ==
    /\ At(r, "resolving")
    /\ LET s == request[r].cred
       IN IF session[s] = NoSession THEN Ends(r) ELSE Resolved(r, s)
    /\ UNCHANGED <<user, session, key, up>>

\* resolve deletes what it refused: the expired session, all of a blocked user.
DeleteRefused(r) ==
    /\ At(r, "expiring") \/ At(r, "expelling")
    /\ session' = IF request[r].phase = "expiring"
                  THEN [session EXCEPT ![request[r].cred] = NoSession]
                  ELSE Without(request[r].on)
    /\ Ends(r)
    /\ UNCHANGED <<user, key, up>>

Logout(r) ==
    /\ At(r, "admitted")
    /\ session' = [session EXCEPT ![request[r].cred] = NoSession]
    /\ Ends(r)
    /\ UNCHANGED <<user, key, up>>

\* expires_at passes, and at some time purgeExpired finds the row.
Expire(s) ==
    /\ session[s] # NoSession
    /\ session' = [session EXCEPT ![s] = IF @.expired THEN NoSession ELSE [@ EXCEPT !.expired = TRUE]]
    /\ UNCHANGED <<user, key, request, up>>

------------------------------------------------------------------------------
\* API keys

\* Mutant of Authenticated: an expired or revoked key is found as well.
Authenticated_AnyKey(k) ==
    key[k].state # "none" /\ (key[k].owner # Nobody => user[key[k].owner].status = "active")

\* authenticate: not revoked, not expired, its owner, if any, not blocked.
Authenticated(k) ==
    key[k].state = "live" /\ (key[k].owner # Nobody => user[key[k].owner].status = "active")

\* A key without an owner is refused; the owner's row is read again.
Authenticate(r) ==
    /\ At(r, "authenticating")
    /\ LET k == request[r].cred IN
       IF Authenticated(k) /\ key[k].owner # Nobody
       THEN request' = [request EXCEPT ![r].phase = "owner", ![r].on = key[k].owner]
       ELSE Ends(r)
    /\ UNCHANGED <<user, session, key, up>>

ReadOwner(r) ==
    /\ At(r, "owner")
    /\ LET u == request[r].on IN
       IF user[u].there /\ user[u].status = "active" THEN Admit(r, "keyed", u) ELSE Ends(r)
    /\ UNCHANGED <<user, session, key, up>>

\* A request that does none of what is modelled here is answered.
Answer(r) ==
    /\ At(r, "admitted") \/ At(r, "keyed")
    /\ Ends(r)
    /\ UNCHANGED <<user, session, key, up>>

\* INSERT of a new key for the actor, unless the actor has been deleted.
CreateKey(r) ==
    /\ At(r, "admitted")
    /\ LET u == request[r].actor IN
       IF user[u].there
       THEN \E k \in Keys :
              /\ key[k] = NoKey /\ \A q \in Requests : request[q].cred # k
              /\ key' = [key EXCEPT ![k] = [state |-> "live", owner |-> u]]
       ELSE UNCHANGED key
    /\ Ends(r)
    /\ UNCHANGED <<user, session, up>>

\* revoke and remove read the key first: admins any, others their own.
ReadKey(r, k, phase) ==
    /\ At(r, "admitted")
    /\ key[k] # NoKey
    /\ IF request[r].sawRole = "admin" \/ key[k].owner = request[r].actor
       THEN request' = [request EXCEPT ![r] = [Idle EXCEPT !.phase = phase, !.cred = k]]
       ELSE Ends(r)
    /\ UNCHANGED <<user, session, key, up>>

RevokeKey(r) ==
    /\ At(r, "revoking")
    /\ key' = [key EXCEPT ![request[r].cred].state = IF @ = "none" THEN "none" ELSE "dead"]
    /\ Ends(r)
    /\ UNCHANGED <<user, session, up>>

DeleteKey(r) ==
    /\ At(r, "deleting")
    /\ key' = [key EXCEPT ![request[r].cred] = NoKey]
    /\ Ends(r)
    /\ UNCHANGED <<user, session, up>>

\* expires_at passes; purgeStale takes expired and revoked keys at some time.
ExpireKey(k) ==
    /\ key[k].state # "none"
    /\ key' = [key EXCEPT ![k] = IF @.state = "live" THEN [@ EXCEPT !.state = "dead"] ELSE NoKey]
    /\ UNCHANGED <<user, session, request, up>>

------------------------------------------------------------------------------
\* Users: every route of http/routes/users.ts is behind requireAdmin.

Administers(r) == At(r, "admitted") /\ request[r].sawRole = "admin"

\* create: findByUsername, then the hash.
StartCreate(r, u) ==
    /\ Administers(r)
    /\ ~user[u].there /\ \A s \in Requests : request[s].on # u
    /\ IF \E v \in Users : user[v].there /\ NameOf[v] = NameOf[u] THEN Ends(r)
       ELSE request' = [request EXCEPT ![r] = About(u, "creating")]
    /\ UNCHANGED <<user, session, key, up>>

\* INSERT; the unique index on the name may refuse it.
CreateUser(r) ==
    /\ At(r, "creating")
    /\ \E role \in Role :
         LET u == request[r].on
             taken == \E v \in Users : user[v].there /\ NameOf[v] = NameOf[u]
         IN user' = IF taken THEN user ELSE [user EXCEPT ![u] = Account(role)]
    /\ Ends(r)
    /\ UNCHANGED <<session, key, up>>

\* What update refuses, on the row it has read.
MayPatch(r, u, patch) ==
    /\ user[u].boot => patch.status # "blocked" /\ patch.role # "manager"
    /\ u = request[r].actor => patch.status # "blocked" /\ patch.role \in {"same", user[u].role}

StartUpdate(r, u, patch) ==
    /\ Administers(r)
    /\ IF user[u].there /\ MayPatch(r, u, patch)
       THEN request' = [request EXCEPT ![r] =
              [About(u, "patching") EXCEPT !.patch = patch]]
       ELSE Ends(r)
    /\ UNCHANGED <<user, session, key, up>>

Patched(row, patch) ==
    [row EXCEPT !.role = IF patch.role = "same" THEN @ ELSE patch.role,
                !.status = IF patch.status = "same" THEN @ ELSE patch.status]

\* Every session of u is about to be deleted.
Condemned(u) ==
    [s \in Sessions |-> IF session[s].owner = u THEN [session[s] EXCEPT !.condemned = TRUE]
                        ELSE session[s]]

\* UPDATE ... RETURNING; blocking goes on to the sessions.
PatchUser(r) ==
    /\ At(r, "patching")
    /\ LET u == request[r].on
           patch == request[r].patch
           blocks == user[u].there /\ patch.status = "blocked"
       IN  /\ user' = IF user[u].there THEN [user EXCEPT ![u] = Patched(@, patch)] ELSE user
           /\ session' = IF blocks THEN Condemned(u) ELSE session
           /\ request' = [q \in Requests |->
                IF q = r THEN IF blocks THEN About(u, "ending") ELSE Idle
                ELSE [request[q] EXCEPT !.late = @ /\ Dead(request[q].cred, user')]]
    /\ UNCHANGED <<key, up>>

EndSessions(r) ==
    /\ At(r, "ending")
    /\ session' = Without(request[r].on)
    /\ Ends(r)
    /\ UNCHANGED <<user, key, up>>

\* resetPassword: the row is there; then the hash.
StartReset(r, u) ==
    /\ Administers(r)
    /\ IF user[u].there THEN request' = [request EXCEPT ![r] = About(u, "resetting")] ELSE Ends(r)
    /\ UNCHANGED <<user, session, key, up>>

\* Mutant of ResetPassword: the sessions stay.
ResetPassword_KeepsSessions(r) ==
    /\ At(r, "resetting")
    /\ LET u == request[r].on
       IN  /\ user' = [user EXCEPT ![u].forced = @ \/ user[u].there]
           /\ session' = Condemned(u)
           /\ Ends(r)
    /\ UNCHANGED <<key, up>>

\* The new hash and the flag in one UPDATE; the sessions are next.
ResetPassword(r) ==
    /\ At(r, "resetting")
    /\ LET u == request[r].on
       IN  /\ user' = [user EXCEPT ![u].forced = @ \/ user[u].there]
           /\ session' = Condemned(u)
           /\ request' = [request EXCEPT ![r] = About(u, "ending")]
    /\ UNCHANGED <<key, up>>

\* changeOwnPassword: the current password is right for the row read.
StartChange(r) ==
    /\ At(r, "admitted")
    /\ LET u == request[r].actor
       IN IF user[u].there
          THEN request' = [request EXCEPT ![r] =
                             [About(u, "changing") EXCEPT !.sawForced = user[u].forced]]
          ELSE Ends(r)
    /\ UNCHANGED <<user, session, key, up>>

ChangeOwnPassword(r) ==
    /\ At(r, "changing")
    /\ user' = [user EXCEPT ![request[r].on].forced = FALSE]
    /\ Ends(r)
    /\ UNCHANGED <<session, key, up>>

\* Mutant of MayRemove: the count of administrators is thought to be enough.
MayRemove_Boot(r, u) == user[u].there /\ u # request[r].actor

\* What remove refuses before it counts.
MayRemove(r, u) == user[u].there /\ ~user[u].boot /\ u # request[r].actor

StartRemove(r, u) ==
    /\ Administers(r)
    /\ IF MayRemove(r, u)
       THEN request' = [request EXCEPT ![r] = [About(u, "counting") EXCEPT !.sawRole = user[u].role]]
       ELSE Ends(r)
    /\ UNCHANGED <<user, session, key, up>>

ActiveAdmins == {u \in Users : user[u].there /\ user[u].role = "admin" /\ user[u].status = "active"}

\* The count, one statement before the DELETE.
CountAdmins(r) ==
    /\ At(r, "counting")
    /\ IF request[r].sawRole = "admin" /\ Cardinality(ActiveAdmins) <= 1 THEN Ends(r)
       ELSE request' = [request EXCEPT ![r] = About(request[r].on, "removing")]
    /\ UNCHANGED <<user, session, key, up>>

\* DELETE: the sessions and the keys of the user cascade.
RemoveUser(r) ==
    /\ At(r, "removing")
    /\ LET u == request[r].on
       IN  /\ user' = [user EXCEPT ![u] = NoRow]
           /\ session' = Without(u)
           /\ key' = [k \in Keys |-> IF key[k].owner = u THEN NoKey ELSE key[k]]
    /\ Ends(r)
    /\ UNCHANGED up

\* A statement fails; the client is told.  Nobody promises the sessions' end then.
Fails(r) ==
    /\ up /\ request[r].phase # "idle"
    /\ session' = IF request[r].phase # "ending" THEN session
                  ELSE [s \in Sessions |-> IF session[s].owner = request[r].on
                                           THEN [session[s] EXCEPT !.condemned = FALSE]
                                           ELSE session[s]]
    /\ Ends(r)
    /\ UNCHANGED <<user, key, up>>

------------------------------------------------------------------------------
SessionStep(r) ==
    \/ \E u \in Users : Login(r, u)
    \/ \E c \in Sessions \cup Keys : Arrive(r, c)
    \/ OpenSession(r) \/ Resolve(r) \/ DeleteRefused(r) \/ Logout(r) \/ Answer(r) \/ Fails(r)

KeyStep(r) ==
    \/ Authenticate(r) \/ ReadOwner(r) \/ CreateKey(r) \/ RevokeKey(r) \/ DeleteKey(r)
    \/ \E k \in Keys : ReadKey(r, k, "revoking") \/ ReadKey(r, k, "deleting")

UserStep(r) ==
    \/ CreateUser(r) \/ PatchUser(r) \/ EndSessions(r) \/ ResetPassword(r)
    \/ StartChange(r) \/ ChangeOwnPassword(r) \/ CountAdmins(r) \/ RemoveUser(r)
    \/ \E u \in Users :
         \/ StartCreate(r, u) \/ StartReset(r, u) \/ StartRemove(r, u)
         \/ \E patch \in Patch : StartUpdate(r, u, patch)

Next ==
    \/ Boot \/ Halt
    \/ \E s \in Sessions : Expire(s)
    \/ \E k \in Keys : ExpireKey(k)
    \/ \E r \in Requests : SessionStep(r) \/ KeyStep(r) \/ UserStep(r)

Spec == Init /\ [][Next]_vars

------------------------------------------------------------------------------
(***************************************************************************)
(* Properties                                                              *)
(***************************************************************************)

\* While the server listens there is an active administrator, whatever requests
\* overlap: two administrators who remove each other at the same time both pass
\* remove's count.
ActiveAdminRemains == up => ActiveAdmins # {}

\* A request that comes after its session ended, its key was revoked or expired, or
\* its user was blocked or deleted is not let through, by neither guard.
DeadCredentialRefused ==
    \A r \in Requests : request[r].phase \in {"admitted", "keyed"} => ~request[r].late

\* A session from before a reset or a block is gone when the administrator has the
\* answer that it worked.
ResetEndsSessions ==
    \A s \in Sessions : session[s].condemned =>
        \E r \in Requests : request[r].phase = "ending" /\ request[r].on = session[s].owner

\* README: blocking a user terminates their sessions immediately.
BlockedHasNoSession ==
    \A u \in Users : user[u].there /\ user[u].status = "blocked" =>
        \/ \A s \in Sessions : session[s].owner # u
        \/ \E r \in Requests : request[r].phase = "ending" /\ request[r].on = u

\* README: a reset forces the user to change the password.  Only a change that has
\* seen the reset clears the flag.
ForcedChangeStands ==
    [][\A r \in Requests : ChangeOwnPassword(r) =>
         (user[request[r].on].forced => request[r].sawForced)]_vars

\* Why an active administrator remains: the bootstrap account is one, and no
\* request in flight is about to take that away.
AdminInv ==
    /\ TypeOK
    /\ ~up => \A r \in Requests : request[r].phase = "idle"
    /\ \/ \E b \in Users : user[b].there /\ user[b].boot
       \/ ~up /\ user[Root].status = "active"
    /\ \A b \in Users : user[b].there /\ user[b].boot =>
         /\ user[b].role = "admin" /\ user[b].status = "active"
         /\ \A r \in Requests : request[r].on = b =>
              /\ request[r].phase \notin {"creating", "counting", "removing"}
              /\ request[r].phase = "patching" =>
                   request[r].patch.role # "manager" /\ request[r].patch.status # "blocked"
==============================================================================
