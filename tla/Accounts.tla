------------------------------ MODULE Accounts -------------------------------
(***************************************************************************)
(* The user service (cmd/user) and the access tokens it signs (pkg/jwt,    *)
(* read by the gateway).  An account has a row in MySQL; its role and its  *)
(* school are copied into every access token, and the whole row into       *)
(* Redis.  Handlers read the row and act on what they have read later.     *)
(*                                                                         *)
(* A refresh token names its user and nothing else, and logging in is all  *)
(* it takes to get one: every user who has a row may hold it.  Only the    *)
(* Boss may do everything; how one becomes the Boss, and what becomes of   *)
(* the Boss's own row, is not told here.  Nicknames, avatars and what an   *)
(* entry of the audit log says beyond its action and target are left out.  *)
(***************************************************************************)
CONSTANTS
  User,     \* people with an openid
  Boss,     \* a super_admin, made so in the database, who always has a token
  School,
  Call,     \* goroutines of the service: bounds the RPCs under way
  NoSchool, \* school_id 0
  NoRow     \* no row, and no entry of the cache

Row == [status : {"normal", "banned"}, role : {"student", "admin"},
        school : School \cup {NoSchool}]

ASSUME AccountsAssumption ==
  /\ User # {} /\ Boss \notin User
  /\ NoSchool \notin School
  /\ NoRow \notin Row

VARIABLES
  row,      \* the users table
  cache,    \* user:id:<id> in Redis
  access,   \* access tokens that have not expired
  call,     \* how far an RPC has got
  logged    \* bans and promotions of a user that admin_audit_logs has an entry of, or had:
            \* an INSERT that fails and a process that dies count, too

vars == <<row, cache, access, call, logged>>

Claims == [user : User, role : {"student", "admin"}, school : School \cup {NoSchool}]
Action == {"ban_user", "unban_user", "set_admin", "set_student"}

\* What a call may be made with.
Token == access \cup {[user |-> Boss, role |-> "super_admin", school |-> NoSchool]}

\* After "set", "invalidate" and "audit" follow; "cache" is followed by "sign".
Step == {"idle", "register", "cache", "sign", "fill", "set", "invalidate", "audit"}

TypeOK ==
  /\ row      \in [User -> Row \cup {NoRow}]
  /\ cache    \in [User -> Row \cup {NoRow}]
  /\ access   \subseteq Claims
  /\ call     \in [Call -> [at : Step, user : User, copy : Row \cup {NoRow},
                            action : Action \cup {"none"}, stale : BOOLEAN]]
  /\ \A c \in Call : call[c].at \in {"cache", "sign", "fill"} => call[c].copy # NoRow
  /\ logged   \in [User -> SUBSET {"ban_user", "set_admin"}]

Idle == [at |-> "idle", user |-> CHOOSE u \in User : TRUE, copy |-> NoRow,
         action |-> "none", stale |-> FALSE]

Fresh == [status |-> "normal", role |-> "student", school |-> NoSchool]

Init ==
  /\ row = [u \in User |-> NoRow]
  /\ cache = [u \in User |-> NoRow]
  /\ access = {}
  /\ call = [c \in Call |-> Idle]
  /\ logged = [u \in User |-> {}]

-----------------------------------------------------------------------------
(* Calls *)

Started(s, u, copy, action) ==
  [at |-> s, user |-> u, copy |-> copy, action |-> action, stale |-> FALSE]

\* c is at step s, with the row of u if it needs it later.
Begin(c, s, u, copy, action) ==
  /\ call[c].at = "idle"
  /\ call' = [call EXCEPT ![c] = Started(s, u, copy, action)]

Goto(c, s) == call' = [call EXCEPT ![c].at = s]
Return(c)  == call' = [call EXCEPT ![c] = Idle]

\* d logs u in.
LogsIn(d, u) == call[d].at \in {"register", "cache", "sign"} /\ call[d].user = u

\* c changes the row of u to r: what other calls that log u in have read is stale.
Write(c, u, r, next) ==
  /\ row' = [row EXCEPT ![u] = r]
  /\ call' = [d \in Call |->
                CASE d = c                     -> next
                  [] d # c /\ LogsIn(d, u)     -> [call[d] EXCEPT !.stale = @ \/ row[u] # r]
                  [] OTHER                     -> call[d]]

-----------------------------------------------------------------------------
(* Logging in *)

\* WxLogin: a banned user is turned away.
LoginFinds(c, u) ==
  /\ row[u] # NoRow /\ row[u].status # "banned"
  /\ Begin(c, "cache", u, row[u], "none")
  /\ UNCHANGED <<row, cache, access, logged>>

LoginFindsNone(c, u) ==
  /\ row[u] = NoRow
  /\ Begin(c, "register", u, NoRow, "none")
  /\ UNCHANGED <<row, cache, access, logged>>

\* wx_openid is unique: the second of two first logins fails.
Register(c) ==
  /\ call[c].at = "register"
  /\ LET u == call[c].user IN
     IF row[u] = NoRow
     THEN Write(c, u, Fresh, Started("cache", u, Fresh, "none"))
     ELSE Return(c) /\ UNCHANGED row
  /\ UNCHANGED <<cache, access, logged>>

\* SetUserCache, whose error is dropped.
LoginCaches(c) ==
  /\ call[c].at = "cache"
  /\ cache' \in {cache, [cache EXCEPT ![call[c].user] = call[c].copy]}
  /\ Goto(c, "sign")
  /\ UNCHANGED <<row, access, logged>>

\* Mutant: the user is read through the cache.
RefreshCached(c, u) ==
  LET r == IF cache[u] # NoRow THEN cache[u] ELSE row[u] IN
  /\ row[u] # NoRow /\ r.status # "banned"
  /\ Begin(c, "sign", u, r, "none")
  /\ UNCHANGED <<row, cache, access, logged>>

\* Mutant: only a login looks at the status.
RefreshAnyone(c, u) ==
  /\ row[u] # NoRow
  /\ Begin(c, "sign", u, row[u], "none")
  /\ UNCHANGED <<row, cache, access, logged>>

\* RefreshToken reads the row again, for role and school may have changed.
RefreshToken(c, u) ==
  /\ row[u] # NoRow /\ row[u].status # "banned"
  /\ Begin(c, "sign", u, row[u], "none")
  /\ UNCHANGED <<row, cache, access, logged>>

Sign(c) ==
  /\ call[c].at = "sign"
  /\ access' = access \cup {[user |-> call[c].user, role |-> call[c].copy.role,
                             school |-> call[c].copy.school]}
  /\ Return(c)
  /\ UNCHANGED <<row, cache, logged>>

AccessExpires(t) ==
  /\ t \in access
  /\ access' = access \ {t}
  /\ UNCHANGED <<row, cache, call, logged>>

-----------------------------------------------------------------------------
(* Reading an account *)

\* Redis has no entry, or does not answer.
GetCurrentUser(c, u) ==
  /\ row[u] # NoRow
  /\ Begin(c, "fill", u, row[u], "none")
  /\ UNCHANGED <<row, cache, access, logged>>

Fill(c) ==
  /\ call[c].at = "fill"
  /\ cache' \in {cache, [cache EXCEPT ![call[c].user] = call[c].copy]}
  /\ Return(c)
  /\ UNCHANGED <<row, access, logged>>

CacheExpires(u) ==
  /\ cache[u] # NoRow
  /\ cache' = [cache EXCEPT ![u] = NoRow]
  /\ UNCHANGED <<row, access, call, logged>>

-----------------------------------------------------------------------------
(* Changing an account.  t is the token of the one who calls.              *)

\* One UPDATE by id, whatever the school was before.
BindCampus(c, t, s) ==
  /\ call[c].at = "idle"
  /\ t.user \in User
  /\ Write(c, t.user, [row[t.user] EXCEPT !.school = s],
           Started("invalidate", t.user, NoRow, "none"))
  /\ UNCHANGED <<cache, access, logged>>

\* Nickname and avatar change, and the entry is dropped.
UpdateUserInfo(c, t) ==
  /\ t.user \in User /\ t.school # NoSchool
  /\ Begin(c, "invalidate", t.user, NoRow, "none")
  /\ UNCHANGED <<row, cache, access, logged>>

\* An admin acts on the students of the school in the token.
MayActOn(t, r) ==
  \/ t.role = "super_admin"
  \/ t.role = "admin" /\ r.school = t.school /\ r.role = "student"

BanUser(c, t, u) ==
  /\ row[u] # NoRow /\ MayActOn(t, row[u])
  /\ Begin(c, "set", u, NoRow, "ban_user")
  /\ UNCHANGED <<row, cache, access, logged>>

UnbanUser(c, t, u) ==
  /\ row[u] # NoRow /\ MayActOn(t, row[u])
  /\ Begin(c, "set", u, NoRow, "unban_user")
  /\ UNCHANGED <<row, cache, access, logged>>

SetUserRole(c, t, u, action) ==
  /\ t.role = "super_admin" /\ t.user # u
  /\ row[u] # NoRow
  /\ Begin(c, "set", u, NoRow, action)
  /\ UNCHANGED <<row, cache, access, logged>>

Changed(r, action) ==
  CASE action = "ban_user"    -> [r EXCEPT !.status = "banned"]
    [] action = "unban_user"  -> [r EXCEPT !.status = "normal"]
    [] action = "set_admin"   -> [r EXCEPT !.role = "admin"]
    [] action = "set_student" -> [r EXCEPT !.role = "student"]

\* The UPDATE, by id and of one column.
Set(c) ==
  /\ call[c].at = "set"
  /\ LET u == call[c].user IN
     Write(c, u, Changed(row[u], call[c].action), [call[c] EXCEPT !.at = "invalidate"])
  /\ UNCHANGED <<cache, access, logged>>

\* An INSERT or an UPDATE fails, and the call with it.
StatementFails(c) ==
  /\ call[c].at \in {"register", "set"}
  /\ Return(c)
  /\ UNCHANGED <<row, cache, access, logged>>

\* Mutant: a DEL that fails ends the call.
InvalidateOrFail(c) ==
  /\ call[c].at = "invalidate"
  /\ \/ /\ cache' = [cache EXCEPT ![call[c].user] = NoRow]
        /\ IF call[c].action = "none" THEN Return(c) ELSE Goto(c, "audit")
     \/ UNCHANGED cache /\ Return(c)
  /\ UNCHANGED <<row, access, logged>>

\* DelUserCache, whose error is dropped.
Invalidate(c) ==
  /\ call[c].at = "invalidate"
  /\ cache' \in {cache, [cache EXCEPT ![call[c].user] = NoRow]}
  /\ IF call[c].action = "none" THEN Return(c) ELSE Goto(c, "audit")
  /\ UNCHANGED <<row, access, logged>>

\* c has changed its user's row and not yet said so in the log.
Owes(c, u, action) ==
  /\ call[c].at \in {"invalidate", "audit"}
  /\ call[c].user = u /\ call[c].action = action

CreateAuditLog(u, action) ==
  logged' = [logged EXCEPT ![u] = @ \cup ({action} \cap {"ban_user", "set_admin"})]

\* recordAuditLog, whose error is dropped.
Audit(c) ==
  /\ call[c].at = "audit"
  /\ CreateAuditLog(call[c].user, call[c].action)
  /\ Return(c)
  /\ UNCHANGED <<row, cache, access>>

\* The process dies with every call under way.
Crash ==
  /\ call' = [c \in Call |-> Idle]
  /\ logged' = [u \in User |-> logged[u] \cup 
                               {a \in {"ban_user", "set_admin"} : \E c \in Call : Owes(c, u, a)}]
  /\ UNCHANGED <<row, cache, access>>

-----------------------------------------------------------------------------
Operate(c, t, u) ==
  \/ BanUser(c, t, u)
  \/ UnbanUser(c, t, u)
  \/ \E action \in {"set_admin", "set_student"} : SetUserRole(c, t, u, action)

Proceed(c) ==
  \/ Register(c)
  \/ LoginCaches(c)
  \/ Sign(c)
  \/ Fill(c)
  \/ Set(c)
  \/ StatementFails(c)
  \/ Invalidate(c)
  \/ Audit(c)

Next ==
  \/ \E c \in Call :
       \/ \E u \in User : \/ LoginFinds(c, u)
                          \/ LoginFindsNone(c, u)
                          \/ RefreshToken(c, u)
                          \/ GetCurrentUser(c, u)
       \/ \E t \in Token : \/ \E s \in School : BindCampus(c, t, s)
                            \/ UpdateUserInfo(c, t)
                            \/ \E u \in User : Operate(c, t, u)
       \/ Proceed(c)
  \/ \E t \in access : AccessExpires(t)
  \/ \E u \in User : CacheExpires(u)
  \/ Crash

Spec == Init /\ [][Next]_vars

\* Goroutines run on, tokens and entries expire.
FairSpec ==
  /\ Spec
  /\ \A c \in Call : WF_vars(Proceed(c))
  /\ \A t \in Claims : WF_vars(AccessExpires(t))
  /\ \A u \in User : WF_vars(CacheExpires(u))

-----------------------------------------------------------------------------
(* Properties *)

\* Whoever is banned when a login or a refresh begins gets no token: what the call
\* goes by is the row, unless the row has changed since the call began.
LoginsRespectBans ==
  \A c \in Call : call[c].at \in {"cache", "sign"} /\ ~call[c].stale =>
    row[call[c].user].status = "normal"

\* A ban, or the role of an admin, has an entry in the audit log that explains it,
\* or one that is about to be written: nobody is banned by a write that meant another
\* column, and a failing Redis does not cost the entry.
AuditTrail ==
  \A u \in User : row[u] # NoRow =>
    /\ row[u].status = "banned" =>
         "ban_user" \in logged[u] \/ \E c \in Call : Owes(c, u, "ban_user")
    /\ row[u].role = "admin" =>
         "set_admin" \in logged[u] \/ \E c \in Call : Owes(c, u, "set_admin")

\* Tokens and entries of the cache show u as the database does.
Settled(u) ==
  /\ cache[u] \in {NoRow, row[u]}
  /\ \A t \in access : t.user = u =>
       /\ row[u].status = "normal"
       /\ t.role = row[u].role /\ t.school = row[u].school

\* A ban, a new role and a new school take effect: once the row stays as it is, the
\* tokens and the entry that show it otherwise, or were signed before the ban, run
\* out, and no call brings one back.
AccountSettles ==
  \A u \in User : <>[][row'[u] = row[u]]_row => <>[]Settled(u)
=============================================================================
