---------------------------- MODULE AccountsProofs ----------------------------
(***************************************************************************)
(* For any number of accounts, sessions, keys and overlapping requests, an *)
(* active administrator remains: it is the bootstrap account, which no     *)
(* request can block, demote or delete.                                    *)
(***************************************************************************)
EXTENDS Accounts, TLAPS

------------------------------------------------------------------------------
\* Types

\* The phases a request about an account may be in once it has been let through.
AboutPhase == Phase \ {"resolving", "authenticating", "admitted", "keyed"}

\* The records the actions write are of the declared types.
LEMMA RecordTypes ==
    /\ Idle \in Request /\ NoRow \in User /\ NoSession \in Session /\ NoKey \in Key
    /\ \A role \in Role : Account(role) \in User
    /\ [Account("admin") EXCEPT !.boot = TRUE] \in User
    /\ \A u \in Users, phase \in AboutPhase :
          About(u, phase) \in Request
  <1>1. NoRow \in User /\ NoSession \in Session /\ NoKey \in Key
    BY DEF NoRow, NoSession, NoKey, User, Session, Key, Role, Status
  <1>2. \A role \in Role : Account(role) \in User
    BY DEF NoRow, Account, User, Role, Status
  <1>3. [Account("admin") EXCEPT !.boot = TRUE] \in User
    BY DEF NoRow, Account, User, Role, Status
  <1>4. Idle \in Request
    BY DEF Idle, Request, Phase, Role, NoPatch, Patch
  <1>5. ASSUME NEW u \in Users, NEW phase \in AboutPhase
        PROVE  About(u, phase) \in Request
    BY DEF AboutPhase, About, Idle, Request, Phase, Role, NoPatch, Patch
  <1>6. QED
    BY <1>1, <1>2, <1>3, <1>4, <1>5

\* A request replaced by one of the type leaves the table of requests well typed.
LEMMA RequestType ==
    ASSUME TypeOK, NEW r \in Requests, NEW x \in Request,
           request' = [request EXCEPT ![r] = x]
    PROVE  request' \in [Requests -> Request]
  BY DEF TypeOK

LEMMA EndsType ==
    ASSUME TypeOK, NEW r \in Requests, Ends(r)
    PROVE  request' \in [Requests -> Request]
  BY RecordTypes, RequestType DEF Ends

LEMMA AboutType ==
    ASSUME TypeOK, NEW r \in Requests, NEW u \in Users,
           NEW phase \in AboutPhase,
           request' = [request EXCEPT ![r] = About(u, phase)]
    PROVE  request' \in [Requests -> Request]
  BY RecordTypes, RequestType

LEMMA AboutAny ==
    ASSUME NEW u \in Users \cup {Nobody}, NEW phase \in {"ending", "removing"}
    PROVE  About(u, phase) \in Request
  <1>1. Idle \in Request
    BY RecordTypes
  <1>2. phase \in Phase
    BY DEF Phase
  <1>3. QED
    BY <1>1, <1>2 DEF About, Idle, Request

LEMMA AdmitType ==
    ASSUME TypeOK, NEW r \in Requests, NEW u \in Users, NEW phase \in {"admitted", "keyed"},
           Admit(r, phase, u)
    PROVE  request' \in [Requests -> Request]
  <1>1. /\ request[r].late \in BOOLEAN
        /\ request[r].cred \in Sessions \cup Keys \cup {Nobody}
        /\ user[u].role \in Role
    BY DEF TypeOK, Request, User
  <1>2. ASSUME NEW late \in BOOLEAN, NEW cred \in Sessions \cup Keys \cup {Nobody},
               NEW role \in Role
        PROVE  [Idle EXCEPT !.phase = phase, !.actor = u, !.sawRole = role,
                            !.late = late, !.cred = cred] \in Request
    BY DEF Request, Phase, Idle, NoPatch, Patch, Role, Status
  <1>3. QED
    BY <1>1, <1>2, RequestType DEF Admit

LEMMA NoSessionKept == [NoSession EXCEPT !.condemned = FALSE] = NoSession
  <1>1. ASSUME NEW x \in [owner: {Nobody}, expired: {FALSE}, condemned: {FALSE}]
        PROVE  x = NoSession
    BY DEF NoSession
  <1>2. [NoSession EXCEPT !.condemned = FALSE]
           \in [owner: {Nobody}, expired: {FALSE}, condemned: {FALSE}]
    BY DEF NoSession
  <1>3. QED
    BY <1>1, <1>2

LEMMA Uncondemned ==
    ASSUME TypeOK, NEW s \in Sessions
    PROVE  [session[s] EXCEPT !.condemned = FALSE] \in Session
  <1>1. session[s] \in Session
    BY DEF TypeOK
  <1>2. CASE session[s] = NoSession
    BY <1>2, NoSessionKept DEF Session
  <1>3. CASE session[s] \in [owner: Users, expired: BOOLEAN, condemned: BOOLEAN]
    BY <1>3 DEF Session
  <1>4. QED
    BY <1>1, <1>2, <1>3 DEF Session

\* The session table with the sessions of a user deleted, or condemned.
LEMMA SessionType ==
    ASSUME TypeOK, NEW u
    PROVE  Without(u) \in [Sessions -> Session] /\ (u \in Users => Condemned(u) \in [Sessions -> Session])
  <1>1. \A s \in Sessions : session[s] \in Session
    BY DEF TypeOK
  <1>2. \A s \in Sessions : session[s].owner \in Users =>
           [session[s] EXCEPT !.condemned = TRUE] \in Session
    <2> SUFFICES ASSUME NEW s \in Sessions, session[s].owner \in Users
                 PROVE  [session[s] EXCEPT !.condemned = TRUE] \in Session
      OBVIOUS
    <2>1. session[s] \in [owner: Users, expired: BOOLEAN, condemned: BOOLEAN]
      BY <1>1, AccountsAssumption DEF Session, NoSession
    <2>2. QED
      BY <2>1 DEF Session
  <1>3. QED
    BY <1>1, <1>2, RecordTypes DEF Without, Condemned

LEMMA TypeInit == Init => TypeOK
  <1> SUFFICES ASSUME Init PROVE TypeOK
    OBVIOUS
  <1>1. user \in [Users -> User]
    <2>1. NoRow \in User /\ Account("admin") \in User
      BY RecordTypes DEF Role
    <2>2. QED
      BY <2>1 DEF Init
  <1>2. QED
    BY <1>1, RecordTypes DEF Init, TypeOK

LEMMA SessionStepType ==
    ASSUME TypeOK, NEW r \in Requests, SessionStep(r)
    PROVE  TypeOK'
  <1>1. /\ request[r] \in Request /\ session \in [Sessions -> Session]
        /\ request[r].cred \in Sessions \cup Keys \cup {Nobody}
        /\ request[r].on \in Users \cup {Nobody}
    BY DEF TypeOK, Request
  <1>2. ASSUME NEW u \in Users, Login(r, u) PROVE TypeOK'
    BY <1>2, AboutType DEF Login, TypeOK, AboutPhase, Phase
  <1>3. ASSUME NEW c \in Sessions \cup Keys, Arrive(r, c) PROVE TypeOK'
    <2> DEFINE phase == IF c \in Sessions THEN "resolving" ELSE "authenticating"
    <2>1. ASSUME NEW late \in BOOLEAN
          PROVE  [Idle EXCEPT !.phase = phase, !.cred = c, !.late = late] \in Request
      BY DEF Request, Phase, Idle, NoPatch, Patch, Role, Status
    <2>2. Dead(c, user) \in BOOLEAN
      BY DEF Dead
    <2>3. QED
      BY <1>3, <2>1, <2>2, RequestType DEF Arrive, TypeOK
  <1>4. CASE OpenSession(r)
    <2>1. request[r].on \in Users
      BY <1>1, <1>4 DEF OpenSession, At, Request
    <2>2. ASSUME NEW u \in Users
          PROVE  [NoSession EXCEPT !.owner = u] \in Session
      BY DEF Session, NoSession
    <2>3. session' \in [Sessions -> Session]
      BY <1>1, <1>4, <2>1, <2>2 DEF OpenSession
    <2>4. QED
      BY <1>4, <2>3, EndsType DEF OpenSession, TypeOK
  <1>5. CASE Resolve(r)
    <2> DEFINE s == request[r].cred
    <2>1. s \in Sessions
      BY <1>1, <1>5 DEF Resolve, At, Request
    <2>2. CASE session[s] = NoSession
      BY <1>5, <2>2, EndsType DEF Resolve, TypeOK
    <2>3. CASE session[s] # NoSession
      <3>1. session[s].owner \in Users /\ Resolved(r, s)
        BY <1>1, <1>5, <2>1, <2>3 DEF Session, Resolve
      <3>2. [Idle EXCEPT !.phase = "expiring", !.cred = s] \in Request
        BY <2>1 DEF Request, Phase, Idle, NoPatch, Patch, Role, Status
      <3>3. request' \in [Requests -> Request]
        BY <3>1, <3>2, RequestType, AboutType, AdmitType DEF Resolved, AboutPhase, Phase
      <3>4. QED
        BY <1>5, <3>3 DEF Resolve, TypeOK
    <2>4. QED
      BY <2>2, <2>3
  <1>6. CASE DeleteRefused(r)
    BY <1>1, <1>6, EndsType, SessionType, RecordTypes DEF DeleteRefused, TypeOK
  <1>7. CASE Logout(r)
    BY <1>1, <1>7, EndsType, RecordTypes DEF Logout, TypeOK
  <1>8. CASE Answer(r)
    BY <1>8, EndsType DEF Answer, TypeOK
  <1>9. CASE Fails(r)
    <2>1. \A s \in Sessions : [session[s] EXCEPT !.condemned = FALSE] \in Session
      BY <1>1, Uncondemned
    <2>2. session' \in [Sessions -> Session]
      BY <1>1, <1>9, <2>1 DEF Fails
    <2>3. QED
      BY <1>9, <2>2, EndsType DEF Fails, TypeOK
  <1>10. QED
    BY <1>2, <1>3, <1>4, <1>5, <1>6, <1>7, <1>8, <1>9 DEF SessionStep

LEMMA KeyStepType ==
    ASSUME TypeOK, NEW r \in Requests, KeyStep(r)
    PROVE  TypeOK'
  <1>1. /\ request[r] \in Request /\ key \in [Keys -> Key]
        /\ request[r].cred \in Sessions \cup Keys \cup {Nobody}
        /\ request[r].actor \in Users \cup {Nobody} /\ request[r].on \in Users \cup {Nobody}
    BY DEF TypeOK, Request
  <1>2. CASE Authenticate(r)
    <2> DEFINE k == request[r].cred
    <2>1. k \in Keys /\ key[k].owner \in Users \cup {Nobody}
      BY <1>1, <1>2 DEF Authenticate, At, Request, Key
    <2>2. ASSUME NEW u \in Users
          PROVE  [request[r] EXCEPT !.phase = "owner", !.on = u] \in Request
      BY <1>1 DEF Request, Phase
    <2>3. CASE Ends(r)
      BY <1>2, <2>3, EndsType DEF Authenticate, TypeOK
    <2>4. CASE request' = [request EXCEPT ![r].phase = "owner", ![r].on = key[k].owner]
               /\ key[k].owner # Nobody
      <3>1. request' = [request EXCEPT ![r] = [request[r] EXCEPT !.phase = "owner", !.on = key[k].owner]]
        BY <2>4, <1>1
      <3>2. QED
        BY <1>2, <2>1, <2>2, <2>4, <3>1, RequestType DEF Authenticate, TypeOK
    <2>5. QED
      BY <1>2, <2>3, <2>4 DEF Authenticate
  <1>3. CASE ReadOwner(r)
    <2>1. request[r].on \in Users
      BY <1>1, <1>3 DEF ReadOwner, At, Request
    <2>2. QED
      BY <1>3, <2>1, EndsType, AdmitType DEF ReadOwner, TypeOK
  <1>4. CASE CreateKey(r)
    <2>1. \A u \in Users \cup {Nobody} : [state |-> "live", owner |-> u] \in Key
      BY DEF Key
    <2>2. key' \in [Keys -> Key]
      BY <1>1, <1>4, <2>1 DEF CreateKey
    <2>3. QED
      BY <1>4, <2>2, EndsType DEF CreateKey, TypeOK
  <1>5. CASE RevokeKey(r)
    <2>1. key' \in [Keys -> Key]
      BY <1>1, <1>5 DEF RevokeKey, Key
    <2>2. QED
      BY <1>5, <2>1, EndsType DEF RevokeKey, TypeOK
  <1>6. CASE DeleteKey(r)
    BY <1>1, <1>6, EndsType, RecordTypes DEF DeleteKey, TypeOK
  <1>7. ASSUME NEW k \in Keys, NEW phase \in {"revoking", "deleting"}, ReadKey(r, k, phase)
        PROVE  TypeOK'
    <2>1. [Idle EXCEPT !.phase = phase, !.cred = k] \in Request
      BY DEF Request, Phase, Idle, NoPatch, Patch, Role, Status
    <2>2. QED
      BY <1>7, <2>1, EndsType, RequestType DEF ReadKey, TypeOK
  <1>8. QED
    BY <1>2, <1>3, <1>4, <1>5, <1>6, <1>7 DEF KeyStep

\* A row of users replaced by one of the type.
LEMMA PatchedType ==
    ASSUME TypeOK, NEW u \in Users, NEW patch \in Patch
    PROVE  Patched(user[u], patch) \in User
  <1>1. user[u] \in User
    BY DEF TypeOK
  <1>2. /\ (IF patch.role = "same" THEN user[u].role ELSE patch.role) \in Role
        /\ (IF patch.status = "same" THEN user[u].status ELSE patch.status) \in Status
    BY <1>1 DEF User, Patch, Role, Status
  <1>3. QED
    BY <1>1, <1>2 DEF Patched, User

LEMMA UserStepType ==
    ASSUME TypeOK, NEW r \in Requests, UserStep(r)
    PROVE  TypeOK'
  <1>1. /\ request[r] \in Request /\ user \in [Users -> User]
        /\ request[r].actor \in Users \cup {Nobody} /\ request[r].on \in Users \cup {Nobody}
        /\ request[r].patch \in Patch
    BY DEF TypeOK, Request
  <1>2. CASE CreateUser(r)
    <2>1. user' \in [Users -> User]
      BY <1>1, <1>2, RecordTypes DEF CreateUser
    <2>2. QED
      BY <1>2, <2>1, EndsType DEF CreateUser, TypeOK
  <1>3. CASE PatchUser(r)
    <2> DEFINE u == request[r].on
    <2>0. u \in Users
      BY <1>1, <1>3 DEF PatchUser, At, Request
    <2>1. user' \in [Users -> User]
      BY <1>1, <1>3, PatchedType DEF PatchUser
    <2>2. session' \in [Sessions -> Session]
      BY <1>3, <2>0, SessionType DEF PatchUser, TypeOK
    <2>3. request' \in [Requests -> Request]
      <3>1. ASSUME NEW q \in Requests, NEW late \in BOOLEAN
            PROVE  [request[q] EXCEPT !.late = late] \in Request
        BY DEF TypeOK, Request
      <3>2. \A q \in Requests : (request[q].late /\ Dead(request[q].cred, user')) \in BOOLEAN
        OBVIOUS
      <3>3. About(u, "ending") \in Request
        BY <2>0, RecordTypes DEF AboutPhase, Phase
      <3>4. QED
        BY <1>3, <3>1, <3>2, <3>3, RecordTypes DEF PatchUser
    <2>4. QED
      BY <1>3, <2>1, <2>2, <2>3 DEF PatchUser, TypeOK
  <1>4. CASE EndSessions(r)
    BY <1>1, <1>4, EndsType, SessionType DEF EndSessions, TypeOK
  <1>5. CASE ResetPassword(r)
    <2> DEFINE u == request[r].on
    <2>0. u \in Users
      BY <1>1, <1>5 DEF ResetPassword, At, Request
    <2>1. user' \in [Users -> User]
      <3>1. ASSUME NEW forced \in BOOLEAN
            PROVE  [user EXCEPT ![u].forced = forced] \in [Users -> User]
        BY <1>1, <2>0 DEF User
      <3>2. user' = [user EXCEPT ![u].forced = user[u].forced \/ user[u].there]
        BY <1>5 DEF ResetPassword
      <3>3. (user[u].forced \/ user[u].there) \in BOOLEAN
        OBVIOUS
      <3>4. \E forced \in BOOLEAN : user' = [user EXCEPT ![u].forced = forced]
        BY <3>2, <3>3
      <3>5. QED
        BY <3>1, <3>4
    <2>2. session' \in [Sessions -> Session]
      BY <1>5, <2>0, SessionType DEF ResetPassword, TypeOK
    <2>3. About(u, "ending") \in Request
      BY <2>0, AboutAny
    <2>4. QED
      BY <1>5, <2>1, <2>2, <2>3, RequestType DEF ResetPassword, TypeOK
  <1>6. CASE StartChange(r)
    <2> DEFINE u == request[r].actor
    <2>0. u \in Users
      BY <1>1, <1>6 DEF StartChange, At, Request
    <2>1. ASSUME NEW forced \in BOOLEAN
          PROVE  [About(u, "changing") EXCEPT !.sawForced = forced] \in Request
      BY <2>0 DEF About, Idle, Request, Phase, Role, NoPatch, Patch
    <2>2. user[u].forced \in BOOLEAN
      BY <1>1, <2>0 DEF User
    <2>3. QED
      BY <1>6, <2>1, <2>2, EndsType, RequestType DEF StartChange, TypeOK
  <1>7. CASE ChangeOwnPassword(r)
    <2>1. user' \in [Users -> User]
      <3>1. \A u \in Users : [user[u] EXCEPT !.forced = FALSE] \in User
        BY <1>1 DEF User
      <3>2. QED
        BY <1>1, <1>7, <3>1 DEF ChangeOwnPassword
    <2>2. QED
      BY <1>7, <2>1, EndsType DEF ChangeOwnPassword, TypeOK
  <1>8. CASE CountAdmins(r)
    <2>1. About(request[r].on, "removing") \in Request
      <3>1. request[r].on \in Users \cup {Nobody}
        BY <1>1 DEF Request
      <3>2. QED
        BY <3>1, AboutAny
    <2>2. QED
      BY <1>8, <2>1, EndsType, RequestType DEF CountAdmins, TypeOK
  <1>9. CASE RemoveUser(r)
    <2>1. key' \in [Keys -> Key]
      BY <1>9 DEF RemoveUser, TypeOK, Key, NoKey
    <2>2. user' \in [Users -> User]
      BY <1>1, <1>9, RecordTypes DEF RemoveUser
    <2>3. QED
      BY <1>9, <2>1, <2>2, EndsType, SessionType DEF RemoveUser, TypeOK
  <1>10. ASSUME NEW u \in Users, StartCreate(r, u) PROVE TypeOK'
    BY <1>10, EndsType, AboutType DEF StartCreate, TypeOK, AboutPhase, Phase
  <1>11. ASSUME NEW u \in Users, StartReset(r, u) PROVE TypeOK'
    BY <1>11, EndsType, AboutType DEF StartReset, TypeOK, AboutPhase, Phase
  <1>12. ASSUME NEW u \in Users, StartRemove(r, u) PROVE TypeOK'
    <2>1. user[u].role \in Role
      BY <1>1 DEF User
    <2>2. ASSUME NEW role \in Role
          PROVE  [About(u, "counting") EXCEPT !.sawRole = role] \in Request
      BY DEF About, Idle, Request, Phase, Role, NoPatch, Patch
    <2>3. QED
      BY <1>12, <2>1, <2>2, EndsType, RequestType DEF StartRemove, TypeOK
  <1>13. ASSUME NEW u \in Users, NEW patch \in Patch, StartUpdate(r, u, patch) PROVE TypeOK'
    <2>1. [About(u, "patching") EXCEPT !.patch = patch] \in Request
      BY DEF About, Idle, Request, Phase, Role, NoPatch
    <2>2. QED
      BY <1>13, <2>1, EndsType, RequestType DEF StartUpdate, TypeOK
  <1>14. QED
    BY <1>2, <1>3, <1>4, <1>5, <1>6, <1>7, <1>8, <1>9, <1>10, <1>11, <1>12, <1>13 DEF UserStep

\* Expiry changes one session or one key.
LEMMA ExpiryType ==
    ASSUME TypeOK, \/ \E s \in Sessions : Expire(s)
                   \/ \E k \in Keys : ExpireKey(k)
    PROVE  TypeOK'
  <1>1. ASSUME NEW s \in Sessions, Expire(s) PROVE TypeOK'
    <2>1. session[s] \in [owner: Users, expired: BOOLEAN, condemned: BOOLEAN]
      BY <1>1 DEF Expire, TypeOK, Session
    <2>2. [session[s] EXCEPT !.expired = TRUE] \in Session
      BY <2>1 DEF Session
    <2>3. QED
      BY <1>1, <2>2, RecordTypes DEF Expire, TypeOK
  <1>2. ASSUME NEW k \in Keys, ExpireKey(k) PROVE TypeOK'
    <2>1. [key[k] EXCEPT !.state = "dead"] \in Key
      BY DEF TypeOK, Key
    <2>2. QED
      BY <1>2, <2>1, RecordTypes DEF ExpireKey, TypeOK
  <1>3. QED
    BY <1>1, <1>2

LEMMA TypeNext == TypeOK /\ [Next]_vars => TypeOK'
  <1> SUFFICES ASSUME TypeOK, [Next]_vars PROVE TypeOK'
    OBVIOUS
  <1>1. CASE Boot
    <2>1. user' \in [Users -> User]
      <3>1. \A u \in Users : user[u] \in User
        BY DEF TypeOK
      <3>2. [user EXCEPT ![Root].boot = TRUE, ![Root].role = "admin"] \in [Users -> User]
        BY <3>1 DEF TypeOK, User, Role
      <3>3. QED
        BY <1>1, <3>1, <3>2, RecordTypes DEF Boot, Bootstrapped, TypeOK
    <2>2. QED
      BY <1>1, <2>1 DEF Boot, TypeOK
  <1>2. CASE Halt
    BY <1>2, RecordTypes, Uncondemned DEF Halt, TypeOK
  <1>3. CASE (\E s \in Sessions : Expire(s)) \/ (\E k \in Keys : ExpireKey(k))
    BY <1>3, ExpiryType
  <1>4. ASSUME NEW r \in Requests, SessionStep(r) \/ KeyStep(r) \/ UserStep(r) PROVE TypeOK'
    BY <1>4, SessionStepType, KeyStepType, UserStepType
  <1>5. CASE UNCHANGED vars
    BY <1>5 DEF vars, TypeOK
  <1>6. QED
    BY <1>1, <1>2, <1>3, <1>4, <1>5 DEF Next

\* Every variable keeps its type, whatever requests overlap.
THEOREM AccountsTypeCorrect == Spec => []TypeOK
  BY TypeInit, TypeNext, PTL DEF Spec

------------------------------------------------------------------------------
\* The bootstrap account stays an active administrator

\* What a request in flight may not be about to do to an account that stands.
Harmless(x, b) ==
    x.on = b =>
      /\ x.phase \notin {"creating", "counting", "removing"}
      /\ x.phase = "patching" => x.patch.role # "manager" /\ x.patch.status # "blocked"

Stands(b) == user[b].there /\ user[b].boot

\* A step that replaces one request by a harmless one and leaves the rows of
\* standing accounts alone, but for the forced flag, keeps the invariant.
LEMMA ReplaceKeeps ==
    ASSUME AdminInv, TypeOK', up, up' = up, NEW r \in Requests, NEW x,
           request' = [request EXCEPT ![r] = x],
           \A b \in Users : Stands(b) => Harmless(x, b),
           \A b \in Users : Stands(b)' <=> Stands(b),
           \A b \in Users : Stands(b) =>
               user'[b].role = user[b].role /\ user'[b].status = user[b].status
    PROVE  AdminInv'
  <1>1. \A q \in Requests : request'[q] = IF q = r THEN x ELSE request[q]
    BY DEF AdminInv, TypeOK
  <1>2. \A b \in Users, q \in Requests : Stands(b) => Harmless(request[q], b)
    BY DEF AdminInv, Stands, Harmless
  <1>3. \A b \in Users, q \in Requests : Stands(b)' => Harmless(request'[q], b)
    BY <1>1, <1>2
  <1>4. QED
    BY <1>3 DEF AdminInv, Stands, Harmless

\* The same when no row of users changes.
LEMMA QuietKeeps ==
    ASSUME AdminInv, TypeOK', up, UNCHANGED <<user, up>>, NEW r \in Requests, NEW x,
           request' = [request EXCEPT ![r] = x],
           \A b \in Users : Stands(b) => Harmless(x, b)
    PROVE  AdminInv'
  BY ReplaceKeeps DEF Stands

\* A request that ends, or goes on to what touches no row of users, is harmless.
LEMMA IdleHarmless == \A b \in Users : Harmless(Idle, b)
  BY AccountsAssumption DEF Harmless, Idle

LEMMA AboutHarmless ==
    ASSUME NEW u, NEW phase, phase \notin {"creating", "counting", "removing", "patching"}
    PROVE  \A b \in Users : Harmless(About(u, phase), b)
  BY DEF Harmless, Idle, About

LEMMA AboutKeeps ==
    ASSUME AdminInv, TypeOK', up, UNCHANGED <<user, up>>, NEW r \in Requests, NEW u,
           NEW phase, phase \notin {"creating", "counting", "removing", "patching"},
           request' = [request EXCEPT ![r] = About(u, phase)]
    PROVE  AdminInv'
  BY AboutHarmless, QuietKeeps

\* A request that is not about an account is harmless.
LEMMA OffKeeps ==
    ASSUME AdminInv, TypeOK', up, UNCHANGED <<user, up>>, NEW r \in Requests, NEW x,
           request' = [request EXCEPT ![r] = x], x.on = Nobody
    PROVE  AdminInv'
  <1>1. \A b \in Users : Harmless(x, b)
    BY AccountsAssumption DEF Harmless
  <1>2. QED
    BY <1>1, QuietKeeps

LEMMA EndsKeeps ==
    ASSUME AdminInv, TypeOK', up, UNCHANGED <<user, up>>, NEW r \in Requests, Ends(r)
    PROVE  AdminInv'
  BY QuietKeeps, IdleHarmless DEF Ends

LEMMA AdmitKeeps ==
    ASSUME AdminInv, TypeOK', up, UNCHANGED <<user, up>>, NEW r \in Requests,
           NEW u \in Users, NEW phase \in {"admitted", "keyed"}, Admit(r, phase, u)
    PROVE  AdminInv'
  <1> DEFINE x == [Idle EXCEPT !.phase = phase, !.actor = u, !.sawRole = user[u].role,
                               !.late = request[r].late, !.cred = request[r].cred]
  <1>1. x.on = Nobody
    BY DEF Idle
  <1>2. request' = [request EXCEPT ![r] = x]
    BY DEF Admit
  <1> HIDE DEF x
  <1>3. QED
    BY <1>1, <1>2, OffKeeps

LEMMA SessionStepKeeps ==
    ASSUME AdminInv, TypeOK', NEW r \in Requests, SessionStep(r)
    PROVE  AdminInv'
  <1>1. request[r] \in Request /\ session \in [Sessions -> Session]
    BY DEF AdminInv, TypeOK
  <1>2. ASSUME NEW u \in Users, Login(r, u) PROVE AdminInv'
    BY <1>2, AboutKeeps DEF Login, At
  <1>3. ASSUME NEW c \in Sessions \cup Keys, Arrive(r, c) PROVE AdminInv'
    <2> DEFINE x == [Idle EXCEPT !.phase = IF c \in Sessions THEN "resolving" ELSE "authenticating",
                                 !.cred = c, !.late = Dead(c, user)]
    <2>1. x.on = Nobody
      BY DEF Idle
    <2>2. request' = [request EXCEPT ![r] = x] /\ up /\ UNCHANGED <<user, up>>
      BY <1>3 DEF Arrive, At
    <2> HIDE DEF x
    <2>3. QED
      BY <2>1, <2>2, OffKeeps
  <1>4. CASE OpenSession(r)
    BY <1>4, EndsKeeps DEF OpenSession, At
  <1>5. CASE Resolve(r)
    <2> DEFINE s == request[r].cred
    <2>1. CASE session[s] = NoSession
      BY <1>5, <2>1, EndsKeeps DEF Resolve, At
    <2>2. CASE session[s] # NoSession
      <3>1. s \in Sessions /\ session[s].owner \in Users /\ Resolved(r, s)
        BY <1>1, <1>5, <2>2 DEF Session, Resolve, At, Request
      <3>2. up /\ UNCHANGED <<user, up>>
        BY <1>5 DEF Resolve, At
      <3> DEFINE x == [Idle EXCEPT !.phase = "expiring", !.cred = s]
      <3>3. x.on = Nobody
        BY DEF Idle
      <3> HIDE DEF x
      <3>4. CASE request' = [request EXCEPT ![r] = x]
        BY <3>2, <3>3, <3>4, OffKeeps
      <3>5. CASE request' = [request EXCEPT ![r] = About(session[s].owner, "expelling")]
        <4> DEFINE u == session[s].owner
        <4>1. request' = [request EXCEPT ![r] = About(u, "expelling")]
          BY <3>5
        <4> HIDE DEF u
        <4>2. QED
          BY <3>2, <4>1, AboutKeeps
      <3>6. CASE Admit(r, "admitted", session[s].owner)
        BY <3>1, <3>2, <3>6, AdmitKeeps
      <3>7. QED
        BY <3>1, <3>4, <3>5, <3>6 DEF Resolved, x
    <2>3. QED
      BY <2>1, <2>2
  <1>6. CASE DeleteRefused(r) \/ Logout(r) \/ Answer(r) \/ Fails(r)
    BY <1>6, EndsKeeps DEF DeleteRefused, Logout, Answer, Fails, At
  <1>7. QED
    BY <1>2, <1>3, <1>4, <1>5, <1>6 DEF SessionStep

LEMMA KeyStepKeeps ==
    ASSUME AdminInv, TypeOK', NEW r \in Requests, KeyStep(r)
    PROVE  AdminInv'
  <1>1. request[r] \in Request /\ key \in [Keys -> Key] /\ request \in [Requests -> Request]
    BY DEF AdminInv, TypeOK
  <1>2. CASE Authenticate(r)
    <2> DEFINE x == [request[r] EXCEPT !.phase = "owner", !.on = key[request[r].cred].owner]
    <2>1. x.phase = "owner"
      BY <1>1 DEF Request
    <2>2. CASE Ends(r)
      BY <1>2, <2>2, EndsKeeps DEF Authenticate, At
    <2>3. CASE request' = [request EXCEPT ![r].phase = "owner", ![r].on = key[request[r].cred].owner]
      <3>1. request' = [request EXCEPT ![r] = x]
        BY <1>1, <2>3
      <3>2. \A b \in Users : Harmless(x, b)
        BY <2>1 DEF Harmless
      <3>3. QED
        BY <1>2, <3>1, <3>2, QuietKeeps DEF Authenticate, At
    <2>4. QED
      BY <1>2, <2>2, <2>3 DEF Authenticate
  <1>3. CASE ReadOwner(r)
    <2>1. request[r].on \in Users
      BY <1>1, <1>3 DEF ReadOwner, At, Request
    <2>2. QED
      BY <1>3, <2>1, EndsKeeps, AdmitKeeps DEF ReadOwner, At
  <1>4. CASE CreateKey(r) \/ RevokeKey(r) \/ DeleteKey(r)
    BY <1>4, EndsKeeps DEF CreateKey, RevokeKey, DeleteKey, At
  <1>5. ASSUME NEW k \in Keys, NEW phase \in {"revoking", "deleting"}, ReadKey(r, k, phase)
        PROVE  AdminInv'
    <2> DEFINE x == [Idle EXCEPT !.phase = phase, !.cred = k]
    <2>1. x.on = Nobody
      BY DEF Idle
    <2>2. /\ up /\ UNCHANGED <<user, up>>
          /\ request' = [request EXCEPT ![r] = x] \/ Ends(r)
      BY <1>5 DEF ReadKey, At
    <2> HIDE DEF x
    <2>3. QED
      BY <2>1, <2>2, EndsKeeps, OffKeeps
  <1>6. QED
    BY <1>2, <1>3, <1>4, <1>5 DEF KeyStep

\* A row of users that is not a standing account may change in any way that does
\* not make it one.
LEMMA UserStepKeeps ==
    ASSUME AdminInv, TypeOK', NEW r \in Requests, UserStep(r)
    PROVE  AdminInv'
  <1>1. /\ request[r] \in Request /\ user \in [Users -> User] /\ request \in [Requests -> Request]
        /\ \A b \in Users : Stands(b) => Harmless(request[r], b)
    BY DEF AdminInv, TypeOK, Stands, Harmless
  <1>2. CASE CreateUser(r)
    <2> DEFINE u == request[r].on
    <2>1. up /\ up' = up /\ Ends(r) /\ request[r].phase = "creating"
      BY <1>2 DEF CreateUser, At
    <2>2. \A b \in Users : Stands(b) => b # u
      BY <1>1, <2>1 DEF Harmless
    <2>3. \A b \in Users : user'[b] = user[b] \/ (b = u /\ ~user'[b].boot)
      BY <1>1, <1>2 DEF CreateUser, Account, NoRow
    <2>4. QED
      BY <1>1, <2>1, <2>2, <2>3, ReplaceKeeps, IdleHarmless DEF Ends, Stands
  <1>3. CASE PatchUser(r)
    <2> DEFINE u == request[r].on
    <2>1. /\ up /\ up' = up /\ request[r].phase = "patching"
          /\ user' = IF user[u].there THEN [user EXCEPT ![u] = Patched(user[u], request[r].patch)]
                     ELSE user
      BY <1>3 DEF PatchUser, At
    <2>2. \A b \in Users : Stands(b)' <=> Stands(b)
      BY <1>1, <2>1 DEF Stands, Patched
    <2>3. \A b \in Users : Stands(b) =>
             user'[b].role = user[b].role /\ user'[b].status = user[b].status
      <3>1. /\ request[r].patch.role \in Role \cup {"same"}
            /\ request[r].patch.status \in Status \cup {"same"}
        BY <1>1 DEF Request, Patch
      <3>2. \A b \in Users : Stands(b) => user[b].role = "admin" /\ user[b].status = "active"
        BY DEF AdminInv, Stands
      <3>3. Stands(u) => request[r].patch.role # "manager" /\ request[r].patch.status # "blocked"
        BY <1>1, <2>1 DEF Harmless, Request
      <3>4. \A b \in Users : user'[b] = IF b = u /\ user[u].there
                                        THEN Patched(user[u], request[r].patch) ELSE user[b]
        BY <1>1, <2>1
      <3>5. QED
        <4> SUFFICES ASSUME NEW b \in Users, Stands(b)
                     PROVE  user'[b].role = user[b].role /\ user'[b].status = user[b].status
          OBVIOUS
        <4>1. CASE b # u \/ ~user[u].there
          BY <3>4, <4>1
        <4>2. CASE b = u /\ user[u].there
          <5>1. /\ request[r].patch.role \in {"same", "admin"}
                /\ request[r].patch.status \in {"same", "active"}
            BY <3>1, <3>3, <4>2 DEF Role, Status
          <5>2. user'[b] = Patched(user[b], request[r].patch) /\ user[b] \in User
            BY <1>1, <3>4, <4>2
          <5>3. user[b].role = "admin" /\ user[b].status = "active"
            BY <3>2
          <5>4. QED
            BY <5>1, <5>2, <5>3 DEF Patched, User
        <4>3. QED
          BY <4>1, <4>2
    <2>4. \A q \in Requests : /\ \A b \in Users : Stands(b) => Harmless(request'[q], b)
      <3>1. \A q \in Requests, b \in Users : Stands(b) => Harmless(request[q], b)
        BY DEF AdminInv, Stands, Harmless
      <3>2. \A q \in Requests : q # r =>
               /\ request'[q].on = request[q].on /\ request'[q].phase = request[q].phase
               /\ request'[q].patch = request[q].patch
        BY <1>1, <1>3 DEF PatchUser, TypeOK, Request
      <3>3. request'[r] = About(u, "ending") \/ request'[r] = Idle
        BY <1>3 DEF PatchUser
      <3>4. QED
        BY <3>1, <3>2, <3>3, AboutHarmless, IdleHarmless DEF Harmless
    <2>5. QED
      BY <2>1, <2>2, <2>3, <2>4 DEF AdminInv, Stands, Harmless
  <1>4. CASE EndSessions(r)
    BY <1>4, EndsKeeps DEF EndSessions, At
  <1>5. CASE ResetPassword(r)
    <2>1. \A b \in Users : /\ user'[b].role = user[b].role /\ user'[b].status = user[b].status
                           /\ user'[b].boot = user[b].boot /\ user'[b].there = user[b].there
      BY <1>1, <1>5 DEF ResetPassword, User
    <2>2. \A b \in Users : Harmless(About(request[r].on, "ending"), b)
      BY AboutHarmless
    <2>3. QED
      BY <1>5, <2>1, <2>2, ReplaceKeeps DEF ResetPassword, At, Stands
  <1>6. CASE StartChange(r)
    <2> DEFINE u == request[r].actor
               x == [About(u, "changing") EXCEPT !.sawForced = user[u].forced]
    <2>1. x.phase = "changing"
      BY DEF About, Idle
    <2>2. /\ up /\ UNCHANGED <<user, up>>
          /\ request' = [request EXCEPT ![r] = x] \/ Ends(r)
      BY <1>6 DEF StartChange, At
    <2> HIDE DEF x
    <2>3. \A b \in Users : Harmless(x, b)
      BY <2>1 DEF Harmless
    <2>4. QED
      BY <2>2, <2>3, EndsKeeps, QuietKeeps
  <1>7. CASE ChangeOwnPassword(r)
    <2>1. \A b \in Users : /\ user'[b].role = user[b].role /\ user'[b].status = user[b].status
                           /\ user'[b].boot = user[b].boot /\ user'[b].there = user[b].there
      BY <1>1, <1>7 DEF ChangeOwnPassword, User
    <2>2. QED
      BY <1>7, <2>1, ReplaceKeeps, IdleHarmless DEF ChangeOwnPassword, At, Stands, Ends
  <1>8. CASE CountAdmins(r)
    <2> DEFINE x == About(request[r].on, "removing")
    <2>1. x.on = request[r].on /\ request[r].phase = "counting"
      BY <1>8 DEF About, Idle, CountAdmins, At
    <2>2. \A b \in Users : Stands(b) => Harmless(x, b)
      BY <1>1, <2>1 DEF Harmless
    <2>3. QED
      BY <1>8, <2>2, EndsKeeps, QuietKeeps DEF CountAdmins, At
  <1>9. CASE RemoveUser(r)
    <2> DEFINE u == request[r].on
    <2>1. up /\ up' = up /\ Ends(r) /\ request[r].phase = "removing"
      BY <1>9 DEF RemoveUser, At
    <2>2. \A b \in Users : Stands(b) => b # u
      BY <1>1, <2>1 DEF Harmless
    <2>3. \A b \in Users : user'[b] = user[b] \/ (b = u /\ ~user'[b].there)
      BY <1>1, <1>9 DEF RemoveUser, NoRow
    <2>4. QED
      BY <1>1, <2>1, <2>2, <2>3, ReplaceKeeps, IdleHarmless DEF Ends, Stands
  <1>10. ASSUME NEW u \in Users, StartCreate(r, u) PROVE AdminInv'
    <2>1. \A b \in Users : Stands(b) => Harmless(About(u, "creating"), b)
      BY <1>10 DEF StartCreate, Stands, Harmless, About, Idle
    <2>2. QED
      BY <1>10, <2>1, EndsKeeps, QuietKeeps DEF StartCreate, Administers, At
  <1>11. ASSUME NEW u \in Users, StartReset(r, u) PROVE AdminInv'
    BY <1>11, EndsKeeps, AboutKeeps DEF StartReset, Administers, At
  <1>12. ASSUME NEW u \in Users, StartRemove(r, u) PROVE AdminInv'
    <2> DEFINE x == [About(u, "counting") EXCEPT !.sawRole = user[u].role]
    <2>1. x.on = u
      BY DEF About, Idle
    <2>2. /\ up /\ UNCHANGED <<user, up>>
          /\ (request' = [request EXCEPT ![r] = x] /\ ~Stands(u)) \/ Ends(r)
      BY <1>12 DEF StartRemove, Administers, At, MayRemove, Stands
    <2> HIDE DEF x
    <2>3. ~Stands(u) => \A b \in Users : Stands(b) => Harmless(x, b)
      BY <2>1 DEF Harmless
    <2>4. QED
      BY <2>2, <2>3, EndsKeeps, QuietKeeps
  <1>13. ASSUME NEW u \in Users, NEW patch \in Patch, StartUpdate(r, u, patch) PROVE AdminInv'
    <2> DEFINE x == [About(u, "patching") EXCEPT !.patch = patch]
    <2>1. x.on = u /\ x.phase = "patching" /\ x.patch = patch
      BY DEF About, Idle
    <2>2. /\ up /\ UNCHANGED <<user, up>>
          /\ (request' = [request EXCEPT ![r] = x] /\ MayPatch(r, u, patch)) \/ Ends(r)
      BY <1>13 DEF StartUpdate, Administers, At
    <2> HIDE DEF x
    <2>3. MayPatch(r, u, patch) => \A b \in Users : Stands(b) => Harmless(x, b)
      BY <2>1 DEF Harmless, MayPatch, Stands
    <2>4. QED
      BY <2>2, <2>3, EndsKeeps, QuietKeeps
  <1>14. QED
    BY <1>2, <1>3, <1>4, <1>5, <1>6, <1>7, <1>8, <1>9, <1>10, <1>11, <1>12, <1>13 DEF UserStep

LEMMA AdminInit == Init => AdminInv
  <1> SUFFICES ASSUME Init PROVE AdminInv
    OBVIOUS
  <1>1. TypeOK
    BY TypeInit
  <1>2. /\ ~NoRow.boot /\ NoRow.status = "active"
        /\ ~Account("admin").boot /\ Account("admin").status = "active"
    BY DEF NoRow, Account
  <1>3. \A b \in Users : ~user[b].boot /\ user[b].status = "active"
    BY <1>2 DEF Init
  <1>4. \A r \in Requests : request[r].phase = "idle"
    BY DEF Init, Idle
  <1>5. QED
    BY <1>1, <1>3, <1>4, AccountsAssumption DEF Init, AdminInv

LEMMA AdminNext == AdminInv /\ [Next]_vars => AdminInv'
  <1> SUFFICES ASSUME AdminInv, [Next]_vars PROVE AdminInv'
    OBVIOUS
  <1>1. TypeOK' /\ TypeOK
    BY TypeNext DEF AdminInv
  <1>2. CASE Boot
    <2>1. \A r \in Requests : request[r].phase = "idle" /\ request'[r] = request[r]
      BY <1>2 DEF Boot, AdminInv
    <2>2. /\ \E b \in Users : Stands(b)'
          /\ \A b \in Users : Stands(b)' => user'[b].role = "admin" /\ user'[b].status = "active"
      <3>1. CASE \E b \in Users : Stands(b)
        BY <1>2, <3>1 DEF Boot, Bootstrapped, AdminInv, Stands
      <3>2. CASE ~\E b \in Users : Stands(b)
        <4>1. Root \in Users /\ user \in [Users -> User]
          BY <1>1, AccountsAssumption DEF TypeOK
        <4>2. CASE user[Root].there
          <5>1. user' = [user EXCEPT ![Root].boot = TRUE, ![Root].role = "admin"]
            BY <1>2, <3>2, <4>2 DEF Boot, Bootstrapped, Stands
          <5>2. user[Root].status = "active"
            BY <3>2 DEF AdminInv, Stands
          <5>3. /\ user'[Root].there /\ user'[Root].boot
                /\ user'[Root].role = "admin" /\ user'[Root].status = "active"
                /\ \A b \in Users : b # Root => user'[b] = user[b]
            BY <4>1, <4>2, <5>1, <5>2 DEF User
          <5>4. QED
            BY <3>2, <4>1, <5>3 DEF Stands
        <4>3. CASE ~user[Root].there
          <5>1. user' = [user EXCEPT ![Root] = [Account("admin") EXCEPT !.boot = TRUE]]
            BY <1>2, <3>2, <4>3 DEF Boot, Bootstrapped, Stands
          <5>2. \A b \in Users : user'[b] = IF b = Root THEN [Account("admin") EXCEPT !.boot = TRUE] ELSE user[b]
            BY <4>1, <5>1
          <5>3. QED
            BY <3>2, <4>1, <5>2 DEF Stands, Account, NoRow
        <4>4. QED
          BY <4>2, <4>3
      <3>3. QED
        BY <3>1, <3>2
    <2>3. QED
      BY <1>1, <1>2, <2>1, <2>2 DEF Boot, AdminInv, Stands
  <1>3. CASE Halt
    BY <1>1, <1>3, IdleHarmless DEF Halt, AdminInv, Harmless, Idle
  <1>4. CASE (\E s \in Sessions : Expire(s)) \/ (\E k \in Keys : ExpireKey(k))
    BY <1>1, <1>4 DEF Expire, ExpireKey, AdminInv
  <1>5. ASSUME NEW r \in Requests, SessionStep(r) \/ KeyStep(r) \/ UserStep(r) PROVE AdminInv'
    BY <1>1, <1>5, SessionStepKeeps, KeyStepKeeps, UserStepKeeps
  <1>6. CASE UNCHANGED vars
    BY <1>6 DEF vars, AdminInv, TypeOK
  <1>7. QED
    BY <1>2, <1>3, <1>4, <1>5, <1>6 DEF Next

\* The two administrators who remove each other at the same moment, and every
\* other overlap of requests, leave an active administrator behind.
THEOREM ActiveAdminStays == Spec => []ActiveAdminRemains
  <1>1. AdminInv => ActiveAdminRemains
    BY DEF AdminInv, ActiveAdminRemains, ActiveAdmins
  <1>2. QED
    BY <1>1, AdminInit, AdminNext, PTL DEF Spec
------------------------------------------------------------------------------
\* The sessions of a user who was blocked or reset

EndsCondemned == TypeOK /\ ResetEndsSessions

\* A step that gives r another request keeps the end of u's sessions in sight, if the
\* sessions it leaves condemned were so before, and not r's to end.
LEMMA CondemnedKeeps ==
    ASSUME EndsCondemned, TypeOK', NEW r \in Requests, NEW x,
           request' = [request EXCEPT ![r] = x],
           \A s \in Sessions : session'[s].condemned =>
               \/ x.phase = "ending" /\ x.on = session'[s].owner
               \/ /\ session[s].condemned /\ session'[s].owner = session[s].owner
                  /\ request[r].phase = "ending" => session[s].owner # request[r].on
    PROVE  EndsCondemned'
  <1>1. \A q \in Requests : request'[q] = IF q = r THEN x ELSE request[q]
    BY DEF EndsCondemned, TypeOK
  <1>2. ASSUME NEW s \in Sessions, session'[s].condemned
        PROVE  \E q \in Requests : request'[q].phase = "ending" /\ request'[q].on = session'[s].owner
    <2>1. CASE x.phase = "ending" /\ x.on = session'[s].owner
      BY <1>1, <2>1
    <2>2. CASE ~(x.phase = "ending" /\ x.on = session'[s].owner)
      <3>1. /\ session[s].condemned /\ session'[s].owner = session[s].owner
            /\ request[r].phase = "ending" => session[s].owner # request[r].on
        BY <1>2, <2>2
      <3>2. PICK q \in Requests : request[q].phase = "ending" /\ request[q].on = session[s].owner
        BY <3>1 DEF EndsCondemned, ResetEndsSessions
      <3>3. q # r
        BY <3>1, <3>2
      <3>4. QED
        BY <1>1, <3>1, <3>2, <3>3
    <2>3. QED
      BY <2>1, <2>2
  <1>3. QED
    BY <1>2 DEF EndsCondemned, ResetEndsSessions

\* A request that ends and only closes sessions leaves those of the others.
LEMMA EndsClosing ==
    ASSUME EndsCondemned, TypeOK', NEW r \in Requests, Ends(r), request[r].phase # "ending",
           \A s \in Sessions : session'[s] = session[s] \/ session'[s] = NoSession
    PROVE  EndsCondemned'
  <1>1. \A s \in Sessions : session'[s].condemned =>
           session[s].condemned /\ session'[s].owner = session[s].owner
    BY DEF NoSession
  <1>2. request' = [request EXCEPT ![r] = Idle]
    BY DEF Ends
  <1>3. QED
    BY <1>1, <1>2, CondemnedKeeps

\* What the other steps of a request make of it and of the sessions.
LEMMA CondemnedStep ==
    ASSUME EndsCondemned, TypeOK', NEW r \in Requests,
           SessionStep(r) \/ KeyStep(r) \/ UserStep(r), ~PatchUser(r)
    PROVE  EndsCondemned'
  <1>1. /\ request \in [Requests -> Request] /\ session \in [Sessions -> Session]
        /\ ~NoSession.condemned
    BY DEF EndsCondemned, TypeOK, NoSession
  <1>2. ASSUME UNCHANGED session, request[r].phase # "ending",
               \E x : request' = [request EXCEPT ![r] = x]
        PROVE  EndsCondemned'
    BY <1>2, CondemnedKeeps
  <1>3. ASSUME NEW phase \in Phase \ {"ending"}, At(r, phase) PROVE request[r].phase # "ending"
    BY <1>3 DEF At
  <1>4. CASE (\E u \in Users : Login(r, u)) \/ (\E c \in Sessions \cup Keys : Arrive(r, c))
             \/ Resolve(r) \/ Answer(r)
    <2>1. UNCHANGED session /\ request[r].phase # "ending"
      BY <1>4 DEF Login, Arrive, Resolve, Answer, At
    <2>2. \E x : request' = [request EXCEPT ![r] = x]
      BY <1>4 DEF Login, Arrive, Resolve, Resolved, Answer, Ends, Admit
    <2>3. QED
      BY <1>2, <2>1, <2>2
  <1>5. CASE OpenSession(r)
    <2>1. request[r].phase = "opening" /\ Ends(r)
      BY <1>5 DEF OpenSession, At
    <2>2. \A s \in Sessions : session'[s] = session[s] \/ ~session'[s].condemned
      <3>1. CASE UNCHANGED session
        BY <3>1
      <3>2. CASE session' # session
        <4>1. PICK s \in Sessions : session[s] = NoSession /\ session' = [session EXCEPT ![s].owner = request[r].on]
          BY <1>5, <3>2 DEF OpenSession
        <4>2. session' = [session EXCEPT ![s] = [NoSession EXCEPT !.owner = request[r].on]]
          BY <1>1, <4>1
        <4>3. ~[NoSession EXCEPT !.owner = request[r].on].condemned
          BY DEF NoSession
        <4>4. QED
          BY <1>1, <4>2, <4>3
      <3>3. QED
        BY <3>1, <3>2
    <2>3. QED
      BY <2>1, <2>2, CondemnedKeeps DEF Ends
  <1>6. CASE DeleteRefused(r) \/ Logout(r)
    <2>1. request[r].phase # "ending" /\ Ends(r)
      BY <1>6 DEF DeleteRefused, Logout, At
    <2>2. \A s \in Sessions : session'[s] = session[s] \/ session'[s] = NoSession
      <3>1. CASE DeleteRefused(r)
        BY <1>1, <3>1 DEF DeleteRefused, Without
      <3>2. CASE Logout(r)
        BY <1>1, <3>2 DEF Logout, Without
      <3>3. QED
        BY <1>6, <3>1, <3>2
    <2>3. QED
      BY <1>1, <2>1, <2>2, EndsClosing
  <1>7. CASE Fails(r)
    <2>1. Ends(r)
      BY <1>7 DEF Fails
    <2>2. CASE request[r].phase # "ending"
      BY <1>2, <1>7, <2>1, <2>2 DEF Fails, Ends
    <2>3. CASE request[r].phase = "ending"
      <3>1. \A s \in Sessions : IF session[s].owner = request[r].on
                                THEN session'[s] = [session[s] EXCEPT !.condemned = FALSE]
                                ELSE session'[s] = session[s]
        BY <1>7, <2>3 DEF Fails
      <3>2. \A s \in Sessions : ~[session[s] EXCEPT !.condemned = FALSE].condemned
        BY <1>1 DEF Session, NoSession
      <3>3. \A s \in Sessions : session'[s].condemned =>
               session'[s] = session[s] /\ session[s].owner # request[r].on
        BY <3>1, <3>2
      <3>4. QED
        BY <2>1, <3>3, CondemnedKeeps DEF Ends
    <2>4. QED
      BY <2>2, <2>3
  <1>8. CASE KeyStep(r)
    <2>1. UNCHANGED session /\ request[r].phase # "ending"
      BY <1>8 DEF KeyStep, Authenticate, ReadOwner, CreateKey, RevokeKey, DeleteKey, ReadKey, At
    <2>2. \E x : request' = [request EXCEPT ![r] = x]
      <3>1. CASE Authenticate(r)
        <4>1. Ends(r) \/ request' = [request EXCEPT ![r].phase = "owner", ![r].on = key[request[r].cred].owner]
          BY <3>1 DEF Authenticate
        <4>2. request' = [request EXCEPT ![r].phase = "owner", ![r].on = key[request[r].cred].owner] =>
                request' = [request EXCEPT ![r] = [request[r] EXCEPT !.phase = "owner", !.on = key[request[r].cred].owner]]
          BY <1>1
        <4>3. QED
          BY <4>1, <4>2 DEF Ends
      <3>2. CASE ReadOwner(r) \/ CreateKey(r) \/ RevokeKey(r) \/ DeleteKey(r)
        BY <3>2 DEF ReadOwner, CreateKey, RevokeKey, DeleteKey, Ends, Admit
      <3>3. CASE \E k \in Keys : ReadKey(r, k, "revoking") \/ ReadKey(r, k, "deleting")
        BY <3>3 DEF ReadKey, Ends
      <3>4. QED
        BY <1>8, <3>1, <3>2, <3>3 DEF KeyStep
    <2>3. QED
      BY <1>2, <2>1, <2>2
  <1>9. CASE EndSessions(r)
    <2>1. \A s \in Sessions : session'[s] = IF session[s].owner = request[r].on THEN NoSession ELSE session[s]
      BY <1>9 DEF EndSessions, Without
    <2>2. QED
      BY <1>1, <1>9, <2>1, CondemnedKeeps DEF EndSessions, Ends
  <1>10. CASE ResetPassword(r)
    <2> DEFINE u == request[r].on
    <2>1. /\ request[r].phase = "resetting" /\ request' = [request EXCEPT ![r] = About(u, "ending")]
          /\ session' = Condemned(u)
      BY <1>10 DEF ResetPassword, At
    <2>2. About(u, "ending").phase = "ending" /\ About(u, "ending").on = u
      BY DEF About, Idle
    <2>3. \A s \in Sessions : session'[s] = session[s] \/ session'[s].owner = u
      BY <1>1, <2>1 DEF Condemned, Session, NoSession
    <2> DEFINE x == About(u, "ending")
    <2> HIDE DEF u
    <2>4. /\ request' = [request EXCEPT ![r] = x] /\ x.phase = "ending" /\ x.on = u
          /\ request[r].phase # "ending"
      BY <2>1, <2>2
    <2> HIDE DEF x
    <2>5. QED
      BY <1>1, <2>3, <2>4, CondemnedKeeps
  <1>11. CASE RemoveUser(r)
    <2>1. request[r].phase # "ending" /\ Ends(r)
      BY <1>11 DEF RemoveUser, At
    <2>2. \A s \in Sessions : session'[s] = session[s] \/ session'[s] = NoSession
      BY <1>1, <1>11 DEF RemoveUser, Without
    <2>3. QED
      BY <1>1, <2>1, <2>2, EndsClosing
  <1>12. CASE CreateUser(r) \/ StartChange(r) \/ ChangeOwnPassword(r) \/ CountAdmins(r)
              \/ (\E u \in Users : \/ StartCreate(r, u) \/ StartReset(r, u) \/ StartRemove(r, u)
                                   \/ \E patch \in Patch : StartUpdate(r, u, patch))
    <2>1. UNCHANGED session /\ request[r].phase # "ending"
      BY <1>12 DEF CreateUser, StartChange, ChangeOwnPassword, CountAdmins, StartCreate,
                   StartReset, StartRemove, StartUpdate, Administers, At
    <2>2. \E x : request' = [request EXCEPT ![r] = x]
      BY <1>12 DEF CreateUser, StartChange, ChangeOwnPassword, CountAdmins, StartCreate,
                   StartReset, StartRemove, StartUpdate, Ends
    <2>3. QED
      BY <1>2, <2>1, <2>2
  <1>13. QED
    BY <1>4, <1>5, <1>6, <1>7, <1>8, <1>9, <1>10, <1>11, <1>12 DEF SessionStep, UserStep

LEMMA CondemnedNext == EndsCondemned /\ [Next]_vars => EndsCondemned'
  <1> SUFFICES ASSUME EndsCondemned, [Next]_vars PROVE EndsCondemned'
    OBVIOUS
  <1>1. TypeOK /\ TypeOK'
    BY TypeNext DEF EndsCondemned
  <1>2. /\ request \in [Requests -> Request] /\ session \in [Sessions -> Session]
        /\ ~NoSession.condemned
    BY <1>1 DEF TypeOK, NoSession
  <1>3. CASE Boot \/ (\E k \in Keys : ExpireKey(k)) \/ UNCHANGED vars
    BY <1>1, <1>3 DEF Boot, ExpireKey, vars, EndsCondemned, ResetEndsSessions
  <1>4. CASE Halt
    <2>1. \A s \in Sessions : session'[s] = [session[s] EXCEPT !.condemned = FALSE]
      BY <1>4 DEF Halt
    <2>2. \A s \in Sessions : ~[session[s] EXCEPT !.condemned = FALSE].condemned
      BY <1>2 DEF Session, NoSession
    <2>3. QED
      BY <1>1, <2>1, <2>2 DEF EndsCondemned, ResetEndsSessions
  <1>5. ASSUME NEW s \in Sessions, Expire(s) PROVE EndsCondemned'
    <2>1. [session[s] EXCEPT !.expired = TRUE].condemned = session[s].condemned
          /\ [session[s] EXCEPT !.expired = TRUE].owner = session[s].owner
      BY <1>2 DEF Session, NoSession
    <2>2. \A t \in Sessions : \/ session'[t] = session[t] \/ session'[t] = NoSession
                              \/ /\ session'[t].condemned = session[t].condemned
                                 /\ session'[t].owner = session[t].owner
      BY <1>2, <1>5, <2>1 DEF Expire
    <2>3. request' = request
      BY <1>5 DEF Expire
    <2>4. QED
      BY <1>1, <1>2, <2>2, <2>3 DEF EndsCondemned, ResetEndsSessions
  <1>6. ASSUME NEW r \in Requests, PatchUser(r) PROVE EndsCondemned'
    <2> DEFINE u == request[r].on
               blocks == user[u].there /\ request[r].patch.status = "blocked"
    <2>1. /\ request[r].phase = "patching"
          /\ session' = IF blocks THEN Condemned(u) ELSE session
          /\ request'[r] = IF blocks THEN About(u, "ending") ELSE Idle
          /\ \A q \in Requests \ {r} : request'[q] =
                [request[q] EXCEPT !.late = request[q].late /\ Dead(request[q].cred, user')]
      BY <1>6 DEF PatchUser, At
    <2>2. About(u, "ending").phase = "ending" /\ About(u, "ending").on = u
      BY DEF About, Idle
    <2>3. \A q \in Requests \ {r} : request'[q].phase = request[q].phase /\ request'[q].on = request[q].on
      <3> TAKE q \in Requests \ {r}
      <3>1. request[q] \in Request
        BY <1>2
      <3>2. \E late : request'[q] = [request[q] EXCEPT !.late = late]
        BY <2>1
      <3>3. QED
        BY <3>1, <3>2 DEF Request
    <2>4. \A s \in Sessions : session'[s] = session[s] \/ (blocks /\ session'[s].owner = u)
      BY <1>2, <2>1 DEF Condemned, Session, NoSession
    <2> HIDE DEF u, blocks
    <2>5. ASSUME NEW s \in Sessions, session'[s].condemned
          PROVE  \E q \in Requests : request'[q].phase = "ending" /\ request'[q].on = session'[s].owner
      <3>1. CASE session'[s] = session[s]
        <4>1. PICK q \in Requests : request[q].phase = "ending" /\ request[q].on = session[s].owner
          BY <2>5, <3>1 DEF EndsCondemned, ResetEndsSessions
        <4>2. q # r
          BY <2>1, <4>1
        <4>3. QED
          BY <2>3, <3>1, <4>1, <4>2
      <3>2. CASE blocks /\ session'[s].owner = u
        BY <2>1, <2>2, <3>2
      <3>3. QED
        BY <2>4, <3>1, <3>2
    <2>6. QED
      BY <1>1, <2>5 DEF EndsCondemned, ResetEndsSessions
  <1>7. ASSUME NEW r \in Requests, SessionStep(r) \/ KeyStep(r) \/ UserStep(r) PROVE EndsCondemned'
    BY <1>1, <1>6, <1>7, CondemnedStep
  <1>8. QED
    BY <1>3, <1>4, <1>5, <1>7 DEF Next

\* As long as a session from before a reset or a block is there, the administrator's
\* request that deletes it has not been answered (users.ts: resetPassword, update).
THEOREM ResetLeavesNoSession == Spec => []ResetEndsSessions
  <1>1. Init => EndsCondemned
    BY TypeInit DEF Init, EndsCondemned, ResetEndsSessions, NoSession
  <1>2. EndsCondemned => ResetEndsSessions
    BY DEF EndsCondemned
  <1>3. QED
    BY <1>1, <1>2, CondemnedNext, PTL DEF Spec

------------------------------------------------------------------------------
\* Dead credentials

\* A request whose credential was dead when it came has not got past the statement
\* that looks the credential up, and the credential is still dead.
LateInv ==
    /\ TypeOK
    /\ \A u \in Users : ~user[u].there => user[u].status = "active"
    /\ \A r \in Requests : request[r].late =>
          /\ request[r].phase \in {"resolving", "authenticating"}
          /\ Dead(request[r].cred, user)

\* A step that gives c nothing back: its row is as it was, or refused as well, and its
\* user's status changes only together with the row.
Unrevived(c) ==
    /\ c \in Sessions =>
          \/ session'[c] = NoSession
          \/ /\ session[c] # NoSession /\ session'[c].owner = session[c].owner
             /\ session[c].expired => session'[c].expired
    /\ c \in Keys => key'[c].state # "live" \/ key'[c] = key[c]
    /\ \A u \in Users : user'[u].status # user[u].status =>
          /\ c \in Sessions => session'[c].owner # u
          /\ c \in Keys => key'[c].owner # u

LEMMA DeadStays ==
    ASSUME TypeOK, TypeOK', NEW c \in Sessions \cup Keys, Dead(c, user), Unrevived(c)
    PROVE  Dead(c, user)'
  <1>1. CASE c \in Sessions
    <2>1. c \notin Keys /\ session[c] \in Session /\ session'[c] \in Session
      BY <1>1, AccountsAssumption DEF TypeOK
    <2>2. CASE session'[c] = NoSession
      BY <1>1, <2>2 DEF Dead
    <2>3. CASE session'[c] # NoSession
      <3>1. /\ session[c] # NoSession /\ session'[c].owner = session[c].owner
            /\ session[c].expired => session'[c].expired
        BY <1>1, <2>3 DEF Unrevived
      <3>2. session[c].owner \in Users
        BY <2>1, <3>1 DEF Session
      <3>3. user'[session[c].owner].status = user[session[c].owner].status
        BY <1>1, <3>1, <3>2 DEF Unrevived
      <3>4. session[c].expired \/ user[session[c].owner].status = "blocked"
        BY <2>1, <3>1 DEF Dead
      <3>5. QED
        BY <1>1, <3>1, <3>3, <3>4 DEF Dead
    <2>4. QED
      BY <2>2, <2>3
  <1>2. CASE c \in Keys
    <2>1. c \notin Sessions /\ key[c] \in Key
      BY <1>2, AccountsAssumption DEF TypeOK
    <2>2. CASE key'[c].state # "live"
      BY <1>2, <2>2 DEF Dead
    <2>3. CASE key'[c] = key[c]
      <3>1. key[c].state # "live" \/ key[c].owner = Nobody \/ user[key[c].owner].status = "blocked"
        BY <2>1 DEF Dead
      <3>2. key[c].owner \in Users => user'[key[c].owner].status = user[key[c].owner].status
        BY <1>2, <2>3 DEF Unrevived
      <3>3. key[c].owner \in Users \cup {Nobody}
        BY <2>1 DEF Key
      <3>4. QED
        BY <1>2, <2>3, <3>1, <3>2, <3>3 DEF Dead
    <2>4. QED
      BY <1>2, <2>2, <2>3 DEF Unrevived
  <1>3. QED
    BY <1>1, <1>2

\* No statement of another request revives what some request presents: sessions and
\* keys are inserted with ids nobody has yet, accounts with ids that have no row.
LEMMA NoneRevived ==
    ASSUME LateInv, TypeOK', NEW r \in Requests, NEW q \in Requests,
           NEW c \in Sessions \cup Keys, request[q].cred = c,
           SessionStep(r) \/ KeyStep(r) \/ UserStep(r), ~PatchUser(r)
    PROVE  Unrevived(c)
  <1>1. /\ user \in [Users -> User] /\ session \in [Sessions -> Session] /\ key \in [Keys -> Key]
        /\ \A u \in Users : ~user[u].there => user[u].status = "active"
        /\ NoSession.owner = Nobody /\ NoKey.owner = Nobody /\ NoKey.state = "none" /\ Nobody \notin Users
    BY AccountsAssumption DEF LateInv, TypeOK, NoSession, NoKey
  <1>2. ASSUME \A u \in Users : user'[u].status = user[u].status, UNCHANGED key,
               \A s \in Sessions : \/ session'[s] = session[s] \/ session'[s] = NoSession
                                   \/ s # c
        PROVE  Unrevived(c)
    BY <1>2 DEF Unrevived
  <1>3. CASE (\E u \in Users : Login(r, u)) \/ (\E d \in Sessions \cup Keys : Arrive(r, d))
             \/ Resolve(r) \/ Answer(r) \/ Authenticate(r) \/ ReadOwner(r)
             \/ (\E k \in Keys : ReadKey(r, k, "revoking") \/ ReadKey(r, k, "deleting"))
             \/ StartChange(r) \/ CountAdmins(r)
             \/ (\E u \in Users : \/ StartCreate(r, u) \/ StartReset(r, u) \/ StartRemove(r, u)
                                  \/ \E patch \in Patch : StartUpdate(r, u, patch))
    <2>1. UNCHANGED <<user, session, key>>
      BY <1>3 DEF Login, Arrive, Resolve, Answer, Authenticate, ReadOwner, ReadKey, StartChange,
                  CountAdmins, StartCreate, StartReset, StartRemove, StartUpdate
    <2>2. QED
      BY <1>2, <2>1
  <1>4. CASE OpenSession(r)
    <2>1. UNCHANGED <<user, key>>
      BY <1>4 DEF OpenSession
    <2>2. session' = session \/ \E s \in Sessions : s # c /\ session' = [session EXCEPT ![s].owner = request[r].on]
      BY <1>4 DEF OpenSession
    <2>3. \A s \in Sessions : session'[s] = session[s] \/ s # c
      BY <1>1, <2>2
    <2>4. QED
      BY <1>2, <2>1, <2>3
  <1>5. CASE DeleteRefused(r) \/ Logout(r) \/ EndSessions(r)
    <2>1. UNCHANGED <<user, key>>
      BY <1>5 DEF DeleteRefused, Logout, EndSessions
    <2>2. \A s \in Sessions : session'[s] = session[s] \/ session'[s] = NoSession
      BY <1>1, <1>5 DEF DeleteRefused, Logout, EndSessions, Without
    <2>3. QED
      BY <1>2, <2>1, <2>2
  <1>6. CASE Fails(r)
    <2>1. UNCHANGED <<user, key>>
      BY <1>6 DEF Fails
    <2>2. \A s \in Sessions : \/ session'[s] = session[s]
                              \/ session'[s] = [session[s] EXCEPT !.condemned = FALSE]
      BY <1>6 DEF Fails
    <2>3. \A s \in Sessions :
             /\ [session[s] EXCEPT !.condemned = FALSE].owner = session[s].owner
             /\ [session[s] EXCEPT !.condemned = FALSE].expired = session[s].expired
             /\ session[s] = NoSession => [session[s] EXCEPT !.condemned = FALSE] = NoSession
      BY <1>1, NoSessionKept DEF Session, NoSession
    <2>4. \A s \in Sessions :
             \/ session'[s] = NoSession
             \/ /\ session[s] # NoSession /\ session'[s].owner = session[s].owner
                /\ session[s].expired => session'[s].expired
      BY <2>2, <2>3
    <2>5. QED
      BY <2>1, <2>4 DEF Unrevived
  <1>7. CASE CreateKey(r)
    <2>1. UNCHANGED <<user, session>>
      BY <1>7 DEF CreateKey
    <2>2. key' = key \/ \E k \in Keys : k # c /\ key' = [key EXCEPT ![k] = [state |-> "live", owner |-> request[r].actor]]
      BY <1>7 DEF CreateKey
    <2>3. c \in Keys => key'[c] = key[c]
      BY <1>1, <2>2
    <2>4. QED
      BY <2>1, <2>3 DEF Unrevived
  <1>8. CASE RevokeKey(r) \/ DeleteKey(r)
    <2>1. UNCHANGED <<user, session>>
      BY <1>8 DEF RevokeKey, DeleteKey
    <2>2. \A k \in Keys : key'[k] = key[k] \/ key'[k].state \in {"none", "dead"}
      BY <1>1, <1>8 DEF RevokeKey, DeleteKey, Key
    <2>3. QED
      BY <2>1, <2>2 DEF Unrevived
  <1>9. CASE CreateUser(r)
    <2>1. UNCHANGED <<session, key>>
      BY <1>9 DEF CreateUser
    <2>2. \A u \in Users : user'[u].status = user[u].status
      <3>1. PICK role \in Role : user' = user \/ (/\ user' = [user EXCEPT ![request[r].on] = Account(role)]
                                                  /\ ~\E v \in Users : user[v].there /\ NameOf[v] = NameOf[request[r].on])
        BY <1>9 DEF CreateUser
      <3>2. Account(role).status = "active"
        BY DEF Account, NoRow
      <3>3. ASSUME NEW u \in Users PROVE user'[u].status = user[u].status
        <4>1. CASE user' = user \/ u # request[r].on
          BY <1>1, <3>1, <4>1
        <4>2. CASE user' # user /\ u = request[r].on
          <5>1. user'[u] = Account(role) /\ ~user[u].there
            BY <1>1, <3>1, <4>2
          <5>2. QED
            BY <1>1, <3>2, <5>1
        <4>3. QED
          BY <4>1, <4>2
      <3>4. QED
        BY <3>3
    <2>3. QED
      BY <1>2, <2>1, <2>2
  <1>10. CASE ResetPassword(r)
    <2>1. UNCHANGED key /\ \A u \in Users : user'[u].status = user[u].status
      BY <1>1, <1>10 DEF ResetPassword, User
    <2>2. \A s \in Sessions : session'[s] = session[s]
             \/ (session[s] # NoSession /\ session'[s] = [session[s] EXCEPT !.condemned = TRUE])
      <3>1. request[r].on \in Users
        BY <1>10 DEF ResetPassword, At, LateInv, TypeOK, Request
      <3>2. QED
        BY <1>1, <1>10, <3>1 DEF ResetPassword, Condemned
    <2>3. \A s \in Sessions :
             /\ [session[s] EXCEPT !.condemned = TRUE].owner = session[s].owner
             /\ [session[s] EXCEPT !.condemned = TRUE].expired = session[s].expired
      BY <1>1 DEF Session, NoSession
    <2>4. \A s \in Sessions :
             \/ session'[s] = NoSession
             \/ /\ session[s] # NoSession /\ session'[s].owner = session[s].owner
                /\ session[s].expired => session'[s].expired
      BY <2>2, <2>3
    <2>5. QED
      BY <2>1, <2>4 DEF Unrevived
  <1>11. CASE ChangeOwnPassword(r)
    <2>1. UNCHANGED <<session, key>> /\ \A u \in Users : user'[u].status = user[u].status
      BY <1>1, <1>11 DEF ChangeOwnPassword, User
    <2>2. QED
      BY <1>2, <2>1
  <1>12. CASE RemoveUser(r)
    <2> DEFINE v == request[r].on
    <2>1. /\ user' = [user EXCEPT ![v] = NoRow] /\ session' = Without(v)
          /\ key' = [k \in Keys |-> IF key[k].owner = v THEN NoKey ELSE key[k]]
      BY <1>12 DEF RemoveUser
    <2> HIDE DEF v
    <2>2. \A u \in Users : user'[u].status # user[u].status => u = v
      BY <1>1, <2>1
    <2>3. \A s \in Sessions : /\ session'[s] = session[s] \/ session'[s] = NoSession
                              /\ v \in Users => session'[s].owner # v
      BY <1>1, <2>1 DEF Without
    <2>4. \A k \in Keys : /\ key'[k] = key[k] \/ key'[k] = NoKey
                          /\ v \in Users => key'[k].owner # v
      BY <1>1, <2>1
    <2>5. QED
      BY <1>1, <2>2, <2>3, <2>4 DEF Unrevived
  <1>13. QED
    BY <1>3, <1>4, <1>5, <1>6, <1>7, <1>8, <1>9, <1>10, <1>11, <1>12
       DEF SessionStep, KeyStep, UserStep

\* A step gives a request that comes late nothing but a refusal.
LEMMA LateStep ==
    ASSUME LateInv, TypeOK', NEW r \in Requests,
           SessionStep(r) \/ KeyStep(r) \/ UserStep(r), ~PatchUser(r)
    PROVE  \E x : /\ request' = [request EXCEPT ![r] = x]
                  /\ x.late => /\ x.phase \in {"resolving", "authenticating"}
                               /\ \A c : c = x.cred => Dead(c, user)'
  <1>1. /\ request \in [Requests -> Request] /\ request[r] \in Request /\ ~Idle.late
        /\ \A u, phase : ~About(u, phase).late
    BY DEF LateInv, TypeOK, Idle, About
  <1>2. ASSUME NEW x, ~x.late, request' = [request EXCEPT ![r] = x]
        PROVE  \E y : /\ request' = [request EXCEPT ![r] = y]
                      /\ y.late => /\ y.phase \in {"resolving", "authenticating"}
                                   /\ \A c : c = y.cred => Dead(c, user)'
    BY <1>2
  <1>3. ASSUME Ends(r) \/ \E u, phase : request' = [request EXCEPT ![r] = About(u, phase)]
        PROVE  \E x : ~x.late /\ request' = [request EXCEPT ![r] = x]
    BY <1>1, <1>3 DEF Ends
  <1>4. request[r].phase \in {"resolving", "authenticating"} /\ ~Dead(request[r].cred, user) => ~request[r].late
    BY DEF LateInv
  <1>5. ASSUME NEW u \in Users, NEW phase, Admit(r, phase, u), ~request[r].late
        PROVE  \E x : ~x.late /\ request' = [request EXCEPT ![r] = x]
    <2> DEFINE x == [Idle EXCEPT !.phase = phase, !.actor = u, !.sawRole = user[u].role,
                                 !.late = request[r].late, !.cred = request[r].cred]
    <2>1. ~x.late
      BY <1>5 DEF Idle
    <2>2. request' = [request EXCEPT ![r] = x]
      BY <1>5 DEF Admit
    <2> HIDE DEF x
    <2>3. QED
      BY <2>1, <2>2
  <1>6. ASSUME NEW c \in Sessions \cup Keys, Arrive(r, c)
        PROVE  \E y : /\ request' = [request EXCEPT ![r] = y]
                      /\ y.late => /\ y.phase \in {"resolving", "authenticating"}
                                   /\ \A d : d = y.cred => Dead(d, user)'
    <2> DEFINE x == [Idle EXCEPT !.phase = IF c \in Sessions THEN "resolving" ELSE "authenticating",
                                 !.cred = c, !.late = Dead(c, user)]
    <2>1. request' = [request EXCEPT ![r] = x] /\ UNCHANGED <<user, session, key>>
      BY <1>6 DEF Arrive
    <2>2. x.phase \in {"resolving", "authenticating"} /\ x.cred = c /\ x.late = Dead(c, user)
      BY DEF Idle
    <2>3. Dead(c, user) => \A d : d = c => Dead(d, user)'
      BY <2>1 DEF Dead
    <2> HIDE DEF x
    <2>4. QED
      BY <2>1, <2>2, <2>3
  <1>7. CASE Resolve(r)
    <2> DEFINE s == request[r].cred
    <2>1. request[r].phase = "resolving" /\ s \in Sessions /\ session[s] \in Session
      BY <1>1, <1>7 DEF Resolve, At, Request, LateInv, TypeOK
    <2>2. CASE Ends(r)
      BY <1>2, <1>3, <2>2
    <2>3. CASE session[s] # NoSession /\ Resolved(r, s)
      <3> DEFINE x == [Idle EXCEPT !.phase = "expiring", !.cred = s]
      <3>1. ~x.late
        BY DEF Idle
      <3> HIDE DEF x
      <3>2. CASE request' = [request EXCEPT ![r] = x]
        BY <1>2, <3>1, <3>2
      <3>3. CASE request' = [request EXCEPT ![r] = About(session[s].owner, "expelling")]
        BY <1>1, <1>2, <3>3
      <3>4. CASE /\ ~session[s].expired /\ user[session[s].owner].status # "blocked"
                 /\ Admit(r, "admitted", session[s].owner)
        <4>1. session[s].owner \in Users
          BY <2>1, <2>3 DEF Session
        <4>2. ~Dead(s, user)
          BY <2>1, <2>3, <3>4, AccountsAssumption DEF Dead
        <4>3. QED
          BY <1>2, <1>4, <1>5, <2>1, <3>4, <4>1, <4>2
      <3>5. QED
        BY <2>3, <3>2, <3>3, <3>4 DEF Resolved, x
    <2>4. QED
      BY <1>7, <2>2, <2>3 DEF Resolve
  <1>8. CASE Authenticate(r)
    <2> DEFINE k == request[r].cred
               x == [request[r] EXCEPT !.phase = "owner", !.on = key[k].owner]
    <2>1. request[r].phase = "authenticating" /\ k \in Keys /\ k \notin Sessions /\ key[k] \in Key
      BY <1>1, <1>8, AccountsAssumption DEF Authenticate, At, Request, LateInv, TypeOK
    <2>2. CASE Ends(r)
      BY <1>2, <1>3, <2>2
    <2>3. CASE /\ Authenticated(k) /\ key[k].owner # Nobody
               /\ request' = [request EXCEPT ![r].phase = "owner", ![r].on = key[k].owner]
      <3>1. user[key[k].owner].status # "blocked" /\ key[k].state = "live"
        BY <2>3 DEF Authenticated
      <3>2. ~Dead(k, user)
        BY <2>1, <2>3, <3>1 DEF Dead
      <3>3. ~x.late /\ request' = [request EXCEPT ![r] = x]
        BY <1>1, <1>4, <2>1, <2>3, <3>2 DEF Request
      <3> HIDE DEF x
      <3>4. QED
        BY <1>2, <3>3
    <2>4. QED
      BY <1>8, <2>2, <2>3 DEF Authenticate
  <1>9. CASE ReadOwner(r)
    <2>1. request[r].on \in Users /\ ~request[r].late
      BY <1>1, <1>9 DEF ReadOwner, At, Request, LateInv
    <2>2. QED
      BY <1>2, <1>3, <1>5, <1>9, <2>1 DEF ReadOwner
  <1>10. CASE (\E u \in Users : Login(r, u)) \/ OpenSession(r) \/ DeleteRefused(r) \/ Logout(r)
              \/ Answer(r) \/ Fails(r) \/ CreateKey(r) \/ RevokeKey(r) \/ DeleteKey(r)
              \/ CreateUser(r) \/ EndSessions(r) \/ ResetPassword(r) \/ ChangeOwnPassword(r)
              \/ CountAdmins(r) \/ RemoveUser(r)
              \/ (\E u \in Users : StartCreate(r, u) \/ StartReset(r, u))
    <2>1. Ends(r) \/ \E u, phase : request' = [request EXCEPT ![r] = About(u, phase)]
      BY <1>10 DEF Login, OpenSession, DeleteRefused, Logout, Answer, Fails, CreateKey, RevokeKey,
                   DeleteKey, CreateUser, EndSessions, ResetPassword, ChangeOwnPassword, CountAdmins,
                   RemoveUser, StartCreate, StartReset
    <2>2. QED
      BY <1>2, <1>3, <2>1
  <1>11. ASSUME NEW k \in Keys, NEW phase, ReadKey(r, k, phase)
         PROVE  \E x : ~x.late /\ request' = [request EXCEPT ![r] = x]
    <2> DEFINE x == [Idle EXCEPT !.phase = phase, !.cred = k]
    <2>1. ~x.late /\ (Ends(r) \/ request' = [request EXCEPT ![r] = x])
      BY <1>11 DEF ReadKey, Idle
    <2> HIDE DEF x
    <2>2. QED
      BY <1>3, <2>1
  <1>12. CASE StartChange(r)
    <2> DEFINE x == [About(request[r].actor, "changing") EXCEPT !.sawForced = user[request[r].actor].forced]
    <2>1. ~x.late /\ (Ends(r) \/ request' = [request EXCEPT ![r] = x])
      BY <1>12 DEF StartChange, About, Idle
    <2> HIDE DEF x
    <2>2. QED
      BY <1>2, <1>3, <2>1
  <1>13. ASSUME NEW u \in Users, StartRemove(r, u) \/ \E patch \in Patch : StartUpdate(r, u, patch)
         PROVE  \E x : ~x.late /\ request' = [request EXCEPT ![r] = x]
    <2>1. CASE StartRemove(r, u)
      <3> DEFINE x == [About(u, "counting") EXCEPT !.sawRole = user[u].role]
      <3>1. ~x.late /\ (Ends(r) \/ request' = [request EXCEPT ![r] = x])
        BY <2>1 DEF StartRemove, About, Idle
      <3> HIDE DEF x
      <3>2. QED
        BY <1>3, <3>1
    <2>2. ASSUME NEW patch \in Patch, StartUpdate(r, u, patch)
          PROVE  \E x : ~x.late /\ request' = [request EXCEPT ![r] = x]
      <3> DEFINE x == [About(u, "patching") EXCEPT !.patch = patch]
      <3>1. ~x.late /\ (Ends(r) \/ request' = [request EXCEPT ![r] = x])
        BY <2>2 DEF StartUpdate, About, Idle
      <3> HIDE DEF x
      <3>2. QED
        BY <1>3, <3>1
    <2>3. QED
      BY <1>13, <2>1, <2>2
  <1>14. QED
    BY <1>2, <1>6, <1>7, <1>8, <1>9, <1>10, <1>11, <1>12, <1>13 DEF SessionStep, KeyStep, UserStep

\* An account that has no row has the status a new one gets.
LEMMA NoRowActive ==
    ASSUME LateInv, [Next]_vars
    PROVE  \A u \in Users : ~user'[u].there => user'[u].status = "active"
  <1>1. /\ user \in [Users -> User] /\ \A u \in Users : ~user[u].there => user[u].status = "active"
        /\ NoRow.status = "active" /\ \A role : Account(role).status = "active"
    BY DEF LateInv, TypeOK, NoRow, Account
  <1>2. CASE Boot
    <2>1. [Account("admin") EXCEPT !.boot = TRUE].status = "active"
      BY DEF Account, NoRow
    <2>2. \/ user' = user
          \/ user' = [user EXCEPT ![Root].boot = TRUE, ![Root].role = "admin"]
          \/ user' = [user EXCEPT ![Root] = [Account("admin") EXCEPT !.boot = TRUE]]
      BY <1>2 DEF Boot, Bootstrapped
    <2>3. CASE user' = [user EXCEPT ![Root].boot = TRUE, ![Root].role = "admin"]
      BY <1>1, <2>3 DEF User
    <2>4. QED
      BY <1>1, <2>1, <2>2, <2>3
  <1>3. ASSUME NEW r \in Requests, CreateUser(r)
        PROVE  \A u \in Users : ~user'[u].there => user'[u].status = "active"
    BY <1>1, <1>3 DEF CreateUser
  <1>4. ASSUME NEW r \in Requests, PatchUser(r)
        PROVE  \A u \in Users : ~user'[u].there => user'[u].status = "active"
    <2>1. \A u \in Users : user[u].there => Patched(user[u], request[r].patch).there
      BY <1>1 DEF Patched, User
    <2>2. QED
      BY <1>1, <1>4, <2>1 DEF PatchUser
  <1>5. ASSUME NEW r \in Requests, ResetPassword(r) \/ ChangeOwnPassword(r)
        PROVE  \A u \in Users : ~user'[u].there => user'[u].status = "active"
    BY <1>1, <1>5 DEF ResetPassword, ChangeOwnPassword, User
  <1>6. ASSUME NEW r \in Requests, RemoveUser(r)
        PROVE  \A u \in Users : ~user'[u].there => user'[u].status = "active"
    BY <1>1, <1>6 DEF RemoveUser
  <1>7. ASSUME NEW r \in Requests, SessionStep(r) \/ KeyStep(r)
        PROVE  UNCHANGED user
    BY <1>7 DEF SessionStep, KeyStep, Login, Arrive, OpenSession, Resolve, DeleteRefused, Logout, Answer,
                Fails, Authenticate, ReadOwner, CreateKey, RevokeKey, DeleteKey, ReadKey
  <1>8. ASSUME NEW r \in Requests, UserStep(r)
        PROVE  \/ UNCHANGED user
               \/ CreateUser(r) \/ PatchUser(r) \/ ResetPassword(r) \/ ChangeOwnPassword(r) \/ RemoveUser(r)
    BY <1>8 DEF UserStep, EndSessions, StartChange, CountAdmins, StartCreate, StartReset, StartRemove,
                StartUpdate
  <1>9. CASE Halt \/ (\E s \in Sessions : Expire(s)) \/ (\E k \in Keys : ExpireKey(k)) \/ UNCHANGED vars
    BY <1>1, <1>9 DEF Halt, Expire, ExpireKey, vars
  <1>10. QED
    BY <1>1, <1>2, <1>3, <1>4, <1>5, <1>6, <1>7, <1>8, <1>9 DEF Next

LEMMA LateNext == LateInv /\ [Next]_vars => LateInv'
  <1> SUFFICES ASSUME LateInv, [Next]_vars PROVE LateInv'
    OBVIOUS
  <1>1. TypeOK /\ TypeOK' /\ \A u \in Users : ~user'[u].there => user'[u].status = "active"
    BY TypeNext, NoRowActive DEF LateInv
  <1>2. request \in [Requests -> Request]
    BY <1>1 DEF TypeOK
  <1>3. ASSUME NEW r \in Requests, request[r].late
        PROVE  /\ request[r].phase \in {"resolving", "authenticating"} /\ Dead(request[r].cred, user)
               /\ request[r].cred \in Sessions \cup Keys
    BY <1>2, <1>3 DEF LateInv, Request
  <1>4. ASSUME request' = request,
               \A r \in Requests : request[r].late => Unrevived(request[r].cred)
        PROVE  LateInv'
    <2>1. \A q \in Requests : request[q].late => \A c : c = request[q].cred => Dead(c, user)'
      BY <1>1, <1>3, <1>4, DeadStays
    <2>2. QED
      BY <1>1, <1>3, <1>4, <2>1 DEF LateInv, Dead
  <1>5. CASE Boot
    <2>1. \A u \in Users : user'[u].status = user[u].status
      <3>1. /\ user \in [Users -> User] /\ Root \in Users
            /\ ~user[Root].there => user[Root].status = "active"
        BY <1>1, AccountsAssumption DEF TypeOK, LateInv
      <3>2. [Account("admin") EXCEPT !.boot = TRUE].status = "active"
        BY DEF Account, NoRow
      <3>3. CASE user' = [user EXCEPT ![Root].boot = TRUE, ![Root].role = "admin"]
        BY <3>1, <3>3 DEF User
      <3>4. CASE ~user[Root].there /\ user' = [user EXCEPT ![Root] = [Account("admin") EXCEPT !.boot = TRUE]]
        BY <3>1, <3>2, <3>4
      <3>5. QED
        BY <1>5, <3>3, <3>4 DEF Boot, Bootstrapped
    <2>2. UNCHANGED <<session, key, request>>
      BY <1>5 DEF Boot
    <2>3. \A c : Unrevived(c)
      BY <2>1, <2>2 DEF Unrevived
    <2>4. QED
      BY <1>4, <2>2, <2>3
  <1>6. CASE Halt
    BY <1>1, <1>6 DEF Halt, Idle, LateInv
  <1>7. ASSUME NEW s \in Sessions, Expire(s) PROVE LateInv'
    <2>1. session \in [Sessions -> Session] /\ session[s] \in Session
      BY <1>1 DEF TypeOK
    <2>2. /\ [session[s] EXCEPT !.expired = TRUE].owner = session[s].owner
          /\ [session[s] EXCEPT !.expired = TRUE].expired
      BY <2>1 DEF Session, NoSession
    <2>3. \A t \in Sessions : \/ session'[t] = session[t] \/ session'[t] = NoSession
                              \/ /\ session[t] # NoSession /\ session'[t].owner = session[t].owner
                                 /\ session'[t].expired
      BY <1>7, <2>1, <2>2 DEF Expire
    <2>4. UNCHANGED <<user, key, request>>
      BY <1>7 DEF Expire
    <2>5. \A c : Unrevived(c)
      BY <2>3, <2>4 DEF Unrevived
    <2>6. QED
      BY <1>4, <2>4, <2>5
  <1>8. ASSUME NEW k \in Keys, ExpireKey(k) PROVE LateInv'
    <2>1. key \in [Keys -> Key] /\ NoKey.state = "none"
      BY <1>1 DEF TypeOK, NoKey
    <2>2. [key[k] EXCEPT !.state = "dead"].state = "dead"
      BY <2>1 DEF Key
    <2>3. \A j \in Keys : key'[j] = key[j] \/ key'[j].state \in {"none", "dead"}
      BY <1>8, <2>1, <2>2 DEF ExpireKey
    <2>4. UNCHANGED <<user, session, request>>
      BY <1>8 DEF ExpireKey
    <2>5. \A c : Unrevived(c)
      BY <2>3, <2>4 DEF Unrevived
    <2>6. QED
      BY <1>4, <2>4, <2>5
  <1>9. ASSUME NEW r \in Requests, PatchUser(r) PROVE LateInv'
    <2>1. ~request'[r].late
      BY <1>9 DEF PatchUser, About, Idle
    <2>2. ASSUME NEW q \in Requests \ {r}, request'[q].late
          PROVE  /\ request'[q].phase \in {"resolving", "authenticating"}
                 /\ \A c : c = request'[q].cred => Dead(c, user)'
      <3>1. request'[q] = [request[q] EXCEPT !.late = request[q].late /\ Dead(request[q].cred, user')]
        BY <1>9 DEF PatchUser
      <3>2. /\ request'[q].phase = request[q].phase /\ request'[q].cred = request[q].cred
            /\ request[q].late /\ Dead(request[q].cred, user')
        BY <1>2, <2>2, <3>1 DEF Request
      <3>3. key' = key
        BY <1>9 DEF PatchUser
      <3>4. ASSUME NEW s \in Sessions
            PROVE  session'[s] = session[s]
                   \/ (session[s] # NoSession /\ session'[s] = [session[s] EXCEPT !.condemned = TRUE])
        <4>1. request[r].on \in Users
          BY <1>2, <1>9 DEF PatchUser, At, Request
        <4>2. session[s].owner = request[r].on => session[s] # NoSession
          BY <4>1, AccountsAssumption DEF NoSession
        <4>3. session' = session \/ session' = Condemned(request[r].on)
          BY <1>9 DEF PatchUser
        <4>4. QED
          BY <4>2, <4>3 DEF Condemned
      <3>5. \A s \in Sessions :
               /\ [session[s] EXCEPT !.condemned = TRUE].owner = session[s].owner
               /\ [session[s] EXCEPT !.condemned = TRUE].expired = session[s].expired
        BY <1>1 DEF TypeOK, Session, NoSession
      <3>6. \A s \in Sessions : /\ session'[s].owner = session[s].owner
                                /\ session'[s].expired = session[s].expired
                                /\ session[s] = NoSession => session'[s] = NoSession
        BY <3>4, <3>5
      <3>7. \A c : c = request[q].cred => Dead(c, user)'
        BY <3>2, <3>3, <3>6 DEF Dead
      <3>8. QED
        BY <1>3, <3>2, <3>7
    <2>3. QED
      BY <1>1, <2>1, <2>2 DEF LateInv, Dead
  <1>10. ASSUME NEW r \in Requests, SessionStep(r) \/ KeyStep(r) \/ UserStep(r), ~PatchUser(r)
         PROVE  LateInv'
    <2>1. PICK x : /\ request' = [request EXCEPT ![r] = x]
                   /\ x.late => /\ x.phase \in {"resolving", "authenticating"}
                                /\ \A c : c = x.cred => Dead(c, user)'
      BY <1>1, <1>10, LateStep
    <2>2. ASSUME NEW q \in Requests, request'[q].late
          PROVE  /\ request'[q].phase \in {"resolving", "authenticating"}
                 /\ \A c : c = request'[q].cred => Dead(c, user)'
      <3>1. CASE q = r
        BY <1>2, <2>1, <2>2, <3>1
      <3>2. CASE q # r
        <4>1. request'[q] = request[q]
          BY <1>2, <2>1, <3>2
        <4>2. Unrevived(request[q].cred)
          BY <1>1, <1>3, <1>10, <2>2, <4>1, NoneRevived
        <4>3. \A c : c = request[q].cred => Dead(c, user)'
          BY <1>1, <1>3, <2>2, <4>1, <4>2, DeadStays
        <4>4. QED
          BY <1>3, <2>2, <4>1, <4>3
      <3>3. QED
        BY <3>1, <3>2
    <2>3. QED
      BY <1>1, <2>2 DEF LateInv, Dead
  <1>11. CASE UNCHANGED vars
    <2>1. \A c : Unrevived(c)
      BY <1>11 DEF vars, Unrevived
    <2>2. QED
      BY <1>4, <1>11, <2>1 DEF vars
  <1>12. QED
    BY <1>5, <1>6, <1>7, <1>8, <1>9, <1>10, <1>11 DEF Next

\* Neither guard lets a request through whose session had ended or expired, whose key
\* was revoked or expired, or whose user was blocked or deleted, before it came; unless
\* the user is unblocked meanwhile (auth.ts: resolve, api-keys.ts: authenticate).
THEOREM DeadCredentialStaysOut == Spec => []DeadCredentialRefused
  <1>1. Init => LateInv
    <2>1. NoRow.status = "active" /\ Account("admin").status = "active" /\ ~Idle.late
      BY DEF NoRow, Account, Idle
    <2>2. QED
      BY <2>1, TypeInit DEF Init, LateInv
  <1>2. LateInv => DeadCredentialRefused
    BY DEF LateInv, DeadCredentialRefused
  <1>3. QED
    BY <1>1, <1>2, LateNext, PTL DEF Spec

==============================================================================
