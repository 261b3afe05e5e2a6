--------------------------- MODULE AccountsProofs ----------------------------
(***************************************************************************)
(* Proofs about Accounts, for any number of users, schools and calls: who  *)
(* is banned when a login begins gets no token, and every ban and every    *)
(* promotion has its entry in the audit log.                               *)
(***************************************************************************)
EXTENDS Accounts, TLAPS

\* What a login has read is the row, and the row is not of a banned user, as long as
\* it has not changed.
LoginsFresh ==
  \A c \in Call : call[c].at \in {"cache", "sign"} /\ ~call[c].stale =>
    /\ row[call[c].user] \in Row
    /\ row[call[c].user].status = "normal"

\* Whoever has a token, or is being read or changed, has a row: rows are not deleted.
\* A handler about to write knows what.
RowsExist ==
  /\ \A t \in access : row[t.user] \in Row
  /\ \A c \in Call : call[c].at \in {"cache", "sign", "fill", "set"} =>
       row[call[c].user] \in Row
  /\ \A c \in Call : call[c].at = "set" => call[c].action \in Action

IInv == TypeOK /\ RowsExist /\ LoginsFresh /\ AuditTrail

-----------------------------------------------------------------------------
(* The records of calls *)

CallRecord ==
  [at : Step, user : User, copy : Row \cup {NoRow}, action : Action \cup {"none"}, stale : BOOLEAN]

LEMMA IdleType == Idle \in CallRecord
  <1>1. (CHOOSE v \in User : TRUE) \in User
    BY AccountsAssumption
  <1>. QED BY <1>1 DEF Idle, CallRecord, Step

LEMMA StartedType ==
  ASSUME NEW s \in Step, NEW u \in User, NEW r \in Row \cup {NoRow},
         NEW a \in Action \cup {"none"}
  PROVE  Started(s, u, r, a) \in CallRecord
  BY DEF Started, CallRecord

\* Every row that a handler writes is one.
LEMMA ChangedType ==
  ASSUME NEW r \in Row, NEW a \in Action
  PROVE  Changed(r, a) \in Row
  BY DEF Changed, Row, Action

-----------------------------------------------------------------------------
(* What a step of one call does to the others *)

\* The part of the type invariant that speaks of calls.
CallsOK ==
  /\ call \in [Call -> CallRecord]
  /\ \A c \in Call : call[c].at \in {"cache", "sign", "fill"} => call[c].copy # NoRow

LEMMA BeginOK ==
  ASSUME CallsOK, NEW c \in Call, NEW s \in Step, NEW u \in User,
         NEW r \in Row \cup {NoRow}, NEW a \in Action \cup {"none"},
         s \in {"cache", "sign", "fill"} => r # NoRow,
         Begin(c, s, u, r, a)
  PROVE  CallsOK'
  <1>1. Started(s, u, r, a) \in CallRecord
    BY StartedType
  <1>. QED BY <1>1 DEF CallsOK, Begin, Started

LEMMA GotoOK ==
  ASSUME CallsOK, NEW c \in Call, NEW s \in Step, Goto(c, s),
         s \in {"cache", "sign", "fill"} => call[c].copy # NoRow
  PROVE  CallsOK'
  BY DEF CallsOK, Goto, CallRecord

LEMMA ReturnOK ==
  ASSUME CallsOK, NEW c \in Call, Return(c)
  PROVE  CallsOK'
  <1>1. Idle \in CallRecord
    BY IdleType DEF CallsOK, CallRecord
  <1>. QED BY <1>1 DEF CallsOK, Return, Idle

LEMMA WriteOK ==
  ASSUME CallsOK, NEW c \in Call, NEW u \in User, NEW r \in Row,
         row \in [User -> Row \cup {NoRow}],
         NEW next \in CallRecord, next.at \in {"cache", "sign", "fill"} => next.copy # NoRow,
         Write(c, u, r, next)
  PROVE  CallsOK' /\ row' \in [User -> Row \cup {NoRow}]
  <1>1. row' \in [User -> Row \cup {NoRow}]
    BY DEF Write
  <1>2. ASSUME NEW d \in Call
        PROVE  /\ call'[d] \in CallRecord
               /\ call'[d].at \in {"cache", "sign", "fill"} => call'[d].copy # NoRow
    <2>1. CASE d = c
      BY <2>1 DEF Write
    <2>2. CASE d # c /\ LogsIn(d, u)
      <3>1. call'[d] = [call[d] EXCEPT !.stale = call[d].stale \/ row[u] # r]
        BY <2>2 DEF Write
      <3>2. (call[d].stale \/ row[u] # r) \in BOOLEAN
        BY DEF CallsOK, CallRecord
      <3>. QED BY <3>1, <3>2 DEF CallsOK, CallRecord
    <2>3. CASE d # c /\ ~LogsIn(d, u)
      BY <2>3 DEF Write, CallsOK
    <2>. QED BY <2>1, <2>2, <2>3
  <1>3. call' \in [Call -> CallRecord]
    BY <1>2 DEF Write
  <1>. QED BY <1>1, <1>2, <1>3 DEF CallsOK

LEMMA TypeParts ==
  TypeOK <=> /\ row \in [User -> Row \cup {NoRow}]
             /\ cache \in [User -> Row \cup {NoRow}]
             /\ access \subseteq Claims
             /\ CallsOK
             /\ logged \in [User -> SUBSET {"ban_user", "set_admin"}]
  BY DEF TypeOK, CallsOK, CallRecord

LEMMA TypeInit == Init => TypeOK
  <1>. SUFFICES ASSUME Init PROVE TypeOK
    OBVIOUS
  <1>1. CallsOK
    BY IdleType DEF Init, CallsOK, Idle
  <1>. QED BY <1>1, TypeParts DEF Init

-----------------------------------------------------------------------------
(* Every step is the beginning of a call, the next step of one, or the     *)
(* end of something that was there for a time.                             *)

Begins(c) ==
  \/ \E u \in User : \/ LoginFinds(c, u)
                      \/ LoginFindsNone(c, u)
                      \/ RefreshToken(c, u)
                      \/ GetCurrentUser(c, u)
  \/ \E t \in Token : \/ UpdateUserInfo(c, t)
                       \/ \E u \in User : Operate(c, t, u)

\* What a call that begins does not touch, and how it begins.
LEMMA BeginsHow ==
  ASSUME TypeOK, NEW c \in Call, Begins(c)
  PROVE  /\ UNCHANGED <<row, cache, access, logged>>
         /\ \E s \in Step, u \in User, r \in Row \cup {NoRow}, a \in Action \cup {"none"} :
              /\ Begin(c, s, u, r, a)
              /\ s \in {"cache", "sign", "fill"} => r # NoRow
              /\ s \in {"cache", "sign", "fill", "set"} => row[u] \in Row
              /\ s \in {"cache", "sign"} => row[u].status = "normal"
              /\ s = "set" => a \in Action
  <1>. DEFINE How(s, u, r, a) ==
         /\ Begin(c, s, u, r, a)
         /\ s \in {"cache", "sign", "fill"} => r # NoRow
         /\ s \in {"cache", "sign", "fill", "set"} => row[u] \in Row
         /\ s \in {"cache", "sign"} => row[u].status = "normal"
         /\ s = "set" => a \in Action
  <1>0. /\ \A u \in User : row[u] \in Row \cup {NoRow}
        /\ \A u \in User : row[u] # NoRow /\ row[u].status # "banned" => row[u].status = "normal"
    BY DEF TypeOK, Row
  <1>1. ASSUME NEW u \in User, LoginFinds(c, u) PROVE How("cache", u, row[u], "none")
    BY <1>0, <1>1 DEF LoginFinds
  <1>2. ASSUME NEW u \in User, LoginFindsNone(c, u) PROVE How("register", u, NoRow, "none")
    BY <1>2 DEF LoginFindsNone
  <1>3. ASSUME NEW u \in User, RefreshToken(c, u) PROVE How("sign", u, row[u], "none")
    BY <1>0, <1>3 DEF RefreshToken
  <1>4. ASSUME NEW u \in User, GetCurrentUser(c, u) PROVE How("fill", u, row[u], "none")
    BY <1>0, <1>4 DEF GetCurrentUser
  <1>5. ASSUME NEW t \in Token, UpdateUserInfo(c, t) PROVE How("invalidate", t.user, NoRow, "none")
    BY <1>5 DEF UpdateUserInfo
  <1>6. ASSUME NEW t \in Token, NEW u \in User, Operate(c, t, u)
        PROVE  \E a \in Action : How("set", u, NoRow, a)
    BY <1>0, <1>6 DEF Operate, BanUser, UnbanUser, SetUserRole, Action
  <1>7. UNCHANGED <<row, cache, access, logged>>
    BY DEF Begins, LoginFinds, LoginFindsNone, RefreshToken, GetCurrentUser, UpdateUserInfo,
           Operate, BanUser, UnbanUser, SetUserRole
  <1>8. \E s \in Step, u \in User, r \in Row \cup {NoRow}, a \in Action \cup {"none"} : How(s, u, r, a)
    <2>1. CASE \E u \in User : \/ LoginFinds(c, u) \/ LoginFindsNone(c, u)
                               \/ RefreshToken(c, u) \/ GetCurrentUser(c, u)
      <3>. HIDE DEF How
      <3>1. \A u \in User : row[u] \in Row \cup {NoRow}
        BY <1>0
      <3>. QED BY <1>1, <1>2, <1>3, <1>4, <2>1, <3>1 DEF Step
    <2>2. CASE \E t \in Token : UpdateUserInfo(c, t)
      <3>1. PICK t \in Token : UpdateUserInfo(c, t)
        BY <2>2
      <3>2. t.user \in User
        BY <3>1 DEF UpdateUserInfo
      <3>. HIDE DEF How
      <3>. QED BY <1>5, <3>1, <3>2 DEF Step
    <2>3. CASE \E t \in Token, u \in User : Operate(c, t, u)
      <3>. HIDE DEF How
      <3>. QED BY <1>6, <2>3 DEF Step
    <2>. QED BY <2>1, <2>2, <2>3 DEF Begins
  <1>. QED BY <1>7, <1>8

\* The steps that write the row.
Writes(c) ==
  \/ Register(c) /\ row[call[c].user] = NoRow
  \/ Set(c)
  \/ \E t \in Token, s \in School : BindCampus(c, t, s)

LEMMA WritesHow ==
  ASSUME TypeOK, RowsExist, NEW c \in Call, Writes(c)
  PROVE  /\ UNCHANGED <<cache, access, logged>>
         /\ \E u \in User, r \in Row, next \in CallRecord :
              /\ Write(c, u, r, next)
              /\ next.user = u
              /\ next.at \in {"cache", "invalidate"}
              /\ next.at = "cache" => next.copy # NoRow /\ r.status = "normal"
              /\ row[u] = NoRow => r = Fresh
              /\ row[u] # NoRow /\ r.status # row[u].status /\ r.status = "banned" =>
                   next.at = "invalidate" /\ next.action = "ban_user"
              /\ row[u] # NoRow /\ r.role # row[u].role /\ r.role = "admin" =>
                   next.at = "invalidate" /\ next.action = "set_admin"
              /\ \A v \in User, a \in {"ban_user", "set_admin"} : ~Owes(c, v, a)
  <1>. DEFINE How(u, r, next) ==
              /\ Write(c, u, r, next)
              /\ next.user = u
              /\ next.at \in {"cache", "invalidate"}
              /\ next.at = "cache" => next.copy # NoRow /\ r.status = "normal"
              /\ row[u] = NoRow => r = Fresh
              /\ row[u] # NoRow /\ r.status # row[u].status /\ r.status = "banned" =>
                   next.at = "invalidate" /\ next.action = "ban_user"
              /\ row[u] # NoRow /\ r.role # row[u].role /\ r.role = "admin" =>
                   next.at = "invalidate" /\ next.action = "set_admin"
              /\ \A v \in User, a \in {"ban_user", "set_admin"} : ~Owes(c, v, a)
  <1>. SUFFICES /\ UNCHANGED <<cache, access, logged>>
                /\ \E u \in User, r \in Row, next \in CallRecord : How(u, r, next)
    OBVIOUS
  <1>0. call[c] \in CallRecord /\ NoRow \notin Row
    BY AccountsAssumption DEF TypeOK, CallRecord
  <1>1. CASE Register(c) /\ row[call[c].user] = NoRow
    <2>1. Fresh \in Row /\ Fresh # NoRow
      BY <1>0 DEF Fresh, Row
    <2>2. Started("cache", call[c].user, Fresh, "none") \in CallRecord /\ call[c].user \in User
      BY <1>0, <2>1, StartedType DEF CallRecord, Step
    <2>3. How(call[c].user, Fresh, Started("cache", call[c].user, Fresh, "none"))
      BY <1>1, <2>1 DEF Register, Started, Fresh, Owes
    <2>. QED BY <1>1, <2>1, <2>2, <2>3 DEF Register
  <1>2. CASE Set(c)
    <2>. DEFINE u == call[c].user
                a == call[c].action
                r == Changed(row[u], a)
                next == [call[c] EXCEPT !.at = "invalidate"]
    <2>1. u \in User /\ row[u] \in Row
      BY <1>0, <1>2 DEF RowsExist, Set, CallRecord
    <2>2. a \in Action
      BY <1>2 DEF RowsExist, Set
    <2>3. r \in Row
      BY <2>1, <2>2, ChangedType
    <2>4. next \in CallRecord /\ next.user = u /\ next.at = "invalidate" /\ next.action = a
      BY <1>0 DEF CallRecord, Step
    <2>5. Write(c, u, r, next) /\ UNCHANGED <<cache, access, logged>>
      BY <1>2 DEF Set
    <2>6. r.status # row[u].status /\ r.status = "banned" => a = "ban_user"
      BY <2>1, <2>2 DEF Changed, Action, Row
    <2>7. r.role # row[u].role /\ r.role = "admin" => a = "set_admin"
      BY <2>1, <2>2 DEF Changed, Action, Row
    <2>8. \A v \in User, b \in {"ban_user", "set_admin"} : ~Owes(c, v, b)
      BY <1>2 DEF Set, Owes
    <2>9. row[u] # NoRow
      BY <1>0, <2>1
    <2>. HIDE DEF u, a, r, next
    <2>10. How(u, r, next)
      BY <2>4, <2>5, <2>6, <2>7, <2>8, <2>9
    <2>. HIDE DEF How
    <2>. QED BY <2>1, <2>3, <2>4, <2>5, <2>10
  <1>3. CASE \E t \in Token, s \in School : BindCampus(c, t, s)
    <2>1. PICK t \in Token, s \in School : BindCampus(c, t, s)
      BY <1>3
    <2>. DEFINE r == [row[t.user] EXCEPT !.school = s]
                next == Started("invalidate", t.user, NoRow, "none")
    <2>2. t.user \in User /\ t \in access
      BY <2>1, AccountsAssumption DEF BindCampus, Token
    <2>3. row[t.user] \in Row /\ row[t.user] # NoRow
      BY <1>0, <2>2 DEF RowsExist
    <2>4. r \in Row /\ r.status = row[t.user].status /\ r.role = row[t.user].role
      BY <2>3 DEF Row
    <2>5. next \in CallRecord
      BY <2>2, StartedType DEF Step
    <2>6. next.user = t.user /\ next.at = "invalidate"
      BY DEF Started
    <2>7. Write(c, t.user, r, next) /\ UNCHANGED <<cache, access, logged>>
      BY <2>1 DEF BindCampus
    <2>8. \A v \in User, b \in {"ban_user", "set_admin"} : ~Owes(c, v, b)
      BY <2>1 DEF BindCampus, Owes
    <2>. HIDE DEF r, next
    <2>9. How(t.user, r, next)
      BY <2>3, <2>4, <2>6, <2>7, <2>8
    <2>. HIDE DEF How
    <2>. QED BY <2>2, <2>4, <2>5, <2>7, <2>9
  <1>. QED BY <1>1, <1>2, <1>3 DEF Writes

\* Every step is the beginning of a call, one that writes the row, another step of a
\* call, or the end of something that was there for a time.
LEMMA StepKinds ==
  ASSUME Next
  PROVE  \/ \E c \in Call : \/ Begins(c)
                            \/ Writes(c)
                            \/ Register(c) /\ row[call[c].user] # NoRow
                            \/ LoginCaches(c)
                            \/ Sign(c)
                            \/ Fill(c)
                            \/ StatementFails(c)
                            \/ Invalidate(c)
                            \/ Audit(c)
         \/ \E t \in access : AccessExpires(t)
         \/ \E u \in User : CacheExpires(u)
         \/ Crash
  BY DEF Next, Begins, Writes, Proceed

-----------------------------------------------------------------------------
(* Types *)

LEMMA TypeStep ==
  ASSUME TypeOK, RowsExist, Next
  PROVE  TypeOK'
  <1>1. /\ row \in [User -> Row \cup {NoRow}]
        /\ cache \in [User -> Row \cup {NoRow}]
        /\ access \subseteq Claims
        /\ CallsOK
        /\ logged \in [User -> SUBSET {"ban_user", "set_admin"}]
    BY TypeParts
  <1>2. \A c \in Call : call[c] \in CallRecord
    BY <1>1 DEF CallsOK
  <1>. DEFINE Typed ==
         /\ row' \in [User -> Row \cup {NoRow}]
         /\ cache' \in [User -> Row \cup {NoRow}]
         /\ access' \subseteq Claims
         /\ CallsOK'
         /\ logged' \in [User -> SUBSET {"ban_user", "set_admin"}]
  <1>3. ASSUME NEW c \in Call, Begins(c) PROVE Typed
    <2>1. CallsOK'
      BY <1>1, <1>3, BeginsHow, BeginOK
    <2>. QED BY <1>1, <1>3, <2>1, BeginsHow
  <1>4. ASSUME NEW c \in Call, Writes(c) PROVE Typed
    <2>1. PICK u \in User, r \in Row, next \in CallRecord :
            /\ Write(c, u, r, next)
            /\ next.at \in {"cache", "invalidate"}
            /\ next.at = "cache" => next.copy # NoRow
      BY <1>4, WritesHow
    <2>2. CallsOK' /\ row' \in [User -> Row \cup {NoRow}]
      BY <1>1, <2>1, WriteOK
    <2>. QED BY <1>1, <1>4, <2>2, WritesHow
  <1>5. ASSUME NEW c \in Call, Register(c), row[call[c].user] # NoRow PROVE Typed
    BY <1>1, <1>5, ReturnOK DEF Register
  <1>6. ASSUME NEW c \in Call, LoginCaches(c) PROVE Typed
    <2>1. call[c].copy \in Row
      BY <1>1, <1>2, <1>6 DEF LoginCaches, CallsOK, CallRecord
    <2>2. CallsOK'
      BY <1>1, <1>6, GotoOK DEF LoginCaches, CallsOK, Step
    <2>. QED BY <1>1, <1>6, <2>1, <2>2 DEF LoginCaches
  <1>7. ASSUME NEW c \in Call, Sign(c) PROVE Typed
    <2>1. call[c].copy \in Row /\ call[c].user \in User
      BY <1>1, <1>2, <1>7 DEF Sign, CallsOK, CallRecord
    <2>2. [user |-> call[c].user, role |-> call[c].copy.role, school |-> call[c].copy.school] \in Claims
      BY <2>1 DEF Row, Claims
    <2>3. CallsOK'
      BY <1>1, <1>7, ReturnOK DEF Sign
    <2>. QED BY <1>1, <1>7, <2>2, <2>3 DEF Sign
  <1>8. ASSUME NEW c \in Call, Fill(c) PROVE Typed
    <2>1. call[c].copy \in Row
      BY <1>1, <1>2, <1>8 DEF Fill, CallsOK, CallRecord
    <2>2. CallsOK'
      BY <1>1, <1>8, ReturnOK DEF Fill
    <2>. QED BY <1>1, <1>8, <2>1, <2>2 DEF Fill
  <1>9. ASSUME NEW c \in Call, Invalidate(c) PROVE Typed
    <2>1. CallsOK'
      BY <1>1, <1>9, ReturnOK, GotoOK DEF Invalidate, Step
    <2>. QED BY <1>1, <1>9, <2>1 DEF Invalidate
  <1>10. ASSUME NEW c \in Call, Audit(c) PROVE Typed
    <2>1. CallsOK'
      BY <1>1, <1>10, ReturnOK DEF Audit, CreateAuditLog
    <2>2. logged' \in [User -> SUBSET {"ban_user", "set_admin"}]
      BY <1>1, <1>10 DEF Audit, CreateAuditLog
    <2>. QED BY <1>1, <1>10, <2>1, <2>2 DEF Audit, CreateAuditLog
  <1>11. ASSUME NEW t \in access, AccessExpires(t) PROVE Typed
    BY <1>1, <1>11 DEF AccessExpires, CallsOK
  <1>12. ASSUME NEW u \in User, CacheExpires(u) PROVE Typed
    BY <1>1, <1>12 DEF CacheExpires, CallsOK
  <1>13. ASSUME Crash PROVE Typed
    <2>1. CallsOK'
      BY <1>13, IdleType DEF Crash, CallsOK, Idle
    <2>2. logged' \in [User -> SUBSET {"ban_user", "set_admin"}]
      BY <1>1, <1>13 DEF Crash
    <2>. QED BY <1>1, <1>13, <2>1, <2>2 DEF Crash
  <1>14. ASSUME NEW c \in Call, StatementFails(c) PROVE Typed
    BY <1>1, <1>14, ReturnOK DEF StatementFails
  <1>15. Typed
    <2>. HIDE DEF Typed
    <2>. QED BY <1>3, <1>4, <1>5, <1>6, <1>7, <1>8, <1>9, <1>10, <1>11, <1>12, <1>13, <1>14,
                StepKinds
  <1>. QED BY <1>15 DEF TypeOK, CallsOK, CallRecord

-----------------------------------------------------------------------------
(* The safety properties *)

\* What c may become in a step that does not write the row.
Moves(c) ==
  \/ call'[c] = call[c]
  \/ call'[c] = Idle
  \/ call[c].at = "cache" /\ call'[c] = [call[c] EXCEPT !.at = "sign"]
  \/ call[c].at = "invalidate" /\ call'[c] = [call[c] EXCEPT !.at = "audit"]
  \/ \E s \in Step, u \in User, r \in Row \cup {NoRow}, a \in Action \cup {"none"} :
       /\ call'[c] = Started(s, u, r, a)
       /\ s \in {"cache", "sign", "fill", "set"} => row[u] \in Row
       /\ s \in {"cache", "sign"} => row[u].status = "normal"
       /\ s = "set" => a \in Action

LEMMA QuietMoves ==
  ASSUME TypeOK, Next, \A c \in Call : ~Writes(c)
  PROVE  row' = row /\ \A c \in Call : Moves(c)
  <1>0. call \in [Call -> CallRecord]
    BY DEF TypeOK, CallRecord
  <1>1. ASSUME NEW d \in Call, Begins(d) PROVE row' = row /\ \A c \in Call : Moves(c)
    <2>1. PICK s \in Step, u \in User, r \in Row \cup {NoRow}, a \in Action \cup {"none"} :
            /\ Begin(d, s, u, r, a)
            /\ s \in {"cache", "sign", "fill", "set"} => row[u] \in Row
            /\ s \in {"cache", "sign"} => row[u].status = "normal"
            /\ s = "set" => a \in Action
      BY <1>1, BeginsHow
    <2>2. \A c \in Call : c # d => call'[c] = call[c]
      BY <1>0, <2>1 DEF Begin
    <2>3. call'[d] = Started(s, u, r, a)
      BY <1>0, <2>1 DEF Begin
    <2>4. Moves(d)
      BY <2>1, <2>3 DEF Moves
    <2>. QED BY <1>1, <2>2, <2>4, BeginsHow DEF Moves
  <1>2. ASSUME NEW d \in Call,
               \/ Register(d) /\ row[call[d].user] # NoRow
               \/ Sign(d) \/ Fill(d) \/ StatementFails(d) \/ Audit(d)
        PROVE  row' = row /\ \A c \in Call : Moves(c)
    <2>1. Return(d) /\ row' = row
      BY <1>2 DEF Register, Sign, Fill, StatementFails, Audit, CreateAuditLog
    <2>. QED BY <1>0, <2>1 DEF Return, Moves
  <1>3. ASSUME NEW d \in Call, LoginCaches(d) \/ Invalidate(d)
        PROVE  row' = row /\ \A c \in Call : Moves(c)
    BY <1>0, <1>3 DEF LoginCaches, Invalidate, Goto, Return, Moves
  <1>4. CASE (\E t \in access : AccessExpires(t)) \/ \E u \in User : CacheExpires(u)
    BY <1>4 DEF AccessExpires, CacheExpires, Moves
  <1>5. CASE Crash
    BY <1>5 DEF Crash, Moves
  <1>. QED BY <1>1, <1>2, <1>3, <1>4, <1>5, StepKinds

Busy == {"cache", "sign", "fill", "set"}

\* A busy call was as busy before, or has just begun.
LEMMA MovesHow ==
  ASSUME call \in [Call -> CallRecord], NEW c \in Call, Moves(c), call'[c].at \in Busy
  PROVE  \/ /\ call[c].at \in Busy
            /\ \/ call'[c].at = call[c].at
               \/ call'[c].at = "sign" /\ call[c].at = "cache"
            /\ call'[c].user = call[c].user
            /\ call'[c].action = call[c].action
            /\ call'[c].stale = call[c].stale
         \/ /\ row[call'[c].user] \in Row
            /\ call'[c].at \in {"cache", "sign"} => row[call'[c].user].status = "normal"
            /\ call'[c].at = "set" => call'[c].action \in Action
  <1>1. CASE call'[c] = call[c]
    BY <1>1
  <1>2. CASE call'[c] = Idle
    BY <1>2 DEF Idle, Busy
  <1>3. CASE call[c].at = "cache" /\ call'[c] = [call[c] EXCEPT !.at = "sign"]
    BY <1>3 DEF Busy, CallRecord
  <1>4. CASE call'[c] = [call[c] EXCEPT !.at = "audit"]
    BY <1>4 DEF Busy, CallRecord
  <1>5. ASSUME NEW s \in Step, NEW u \in User, NEW r \in Row \cup {NoRow},
               NEW a \in Action \cup {"none"},
               call'[c] = Started(s, u, r, a),
               s \in {"cache", "sign", "fill", "set"} => row[u] \in Row,
               s \in {"cache", "sign"} => row[u].status = "normal",
               s = "set" => a \in Action
        PROVE  /\ row[call'[c].user] \in Row
               /\ call'[c].at \in {"cache", "sign"} => row[call'[c].user].status = "normal"
               /\ call'[c].at = "set" => call'[c].action \in Action
    BY <1>5 DEF Started, Busy
  <1>. QED BY <1>1, <1>2, <1>3, <1>4, <1>5 DEF Moves

LEMMA RowsStep ==
  ASSUME TypeOK, RowsExist, Next
  PROVE  RowsExist'
  <1>0. /\ call \in [Call -> CallRecord] /\ row \in [User -> Row \cup {NoRow}]
        /\ access \subseteq Claims
    BY DEF TypeOK, CallRecord
  <1>1. CASE \A c \in Call : ~Writes(c)
    <2>1. row' = row /\ \A c \in Call : Moves(c)
      BY <1>1, QuietMoves
    <2>2. \A t \in access' : row[t.user] \in Row
      <3>1. access' \subseteq access \/ \E c \in Call : Sign(c)
        BY <1>1, StepKinds, BeginsHow
        DEF Register, LoginCaches, Fill, StatementFails, Invalidate, Audit, AccessExpires,
            CacheExpires, Crash
      <3>2. ASSUME NEW c \in Call, Sign(c), NEW t \in access' PROVE row[t.user] \in Row
        BY <3>2 DEF Sign, RowsExist
      <3>. QED BY <3>1, <3>2 DEF RowsExist
    <2>3. ASSUME NEW c \in Call
          PROVE  /\ call'[c].at \in {"cache", "sign", "fill", "set"} => row[call'[c].user] \in Row
                 /\ call'[c].at = "set" => call'[c].action \in Action
      BY <1>0, <2>1, MovesHow DEF RowsExist, Busy
    <2>. QED BY <2>1, <2>2, <2>3 DEF RowsExist
  <1>2. ASSUME NEW c \in Call, Writes(c) PROVE RowsExist'
    <2>1. PICK u \in User, r \in Row, next \in CallRecord :
            Write(c, u, r, next) /\ next.user = u /\ next.at \in {"cache", "invalidate"}
      BY <1>2, WritesHow
    <2>2. \A v \in User : row[v] \in Row => row'[v] \in Row
      BY <1>0, <2>1 DEF Write
    <2>3. \A t \in access' : row'[t.user] \in Row
      BY <1>0, <1>2, <2>2, WritesHow DEF RowsExist, Claims
    <2>4. ASSUME NEW d \in Call
          PROVE  /\ call'[d].at \in {"cache", "sign", "fill", "set"} => row'[call'[d].user] \in Row
                 /\ call'[d].at = "set" => call'[d].action \in Action
      <3>1. CASE d = c
        <4>1. call'[d] = next
          BY <2>1, <3>1 DEF Write
        <4>2. row'[u] \in Row
          BY <1>0, <2>1 DEF Write
        <4>. QED BY <2>1, <4>1, <4>2
      <3>2. CASE d # c
        <4>1. /\ call'[d].at = call[d].at
              /\ call'[d].user = call[d].user
              /\ call'[d].action = call[d].action
          BY <1>0, <2>1, <3>2 DEF Write, CallRecord
        <4>2. call[d].user \in User
          BY <1>0 DEF CallRecord
        <4>. QED BY <2>2, <4>1, <4>2 DEF RowsExist
      <3>. QED BY <3>1, <3>2
    <2>. QED BY <2>3, <2>4 DEF RowsExist
  <1>. QED BY <1>1, <1>2

LEMMA LoginsStep ==
  ASSUME TypeOK, RowsExist, LoginsFresh, Next
  PROVE  LoginsFresh'
  <1>0. call \in [Call -> CallRecord] /\ row \in [User -> Row \cup {NoRow}]
    BY DEF TypeOK, CallRecord
  <1>1. CASE \A c \in Call : ~Writes(c)
    <2>1. row' = row /\ \A c \in Call : Moves(c)
      BY <1>1, QuietMoves
    <2>2. ASSUME NEW c \in Call, call'[c].at \in {"cache", "sign"}, ~call'[c].stale
          PROVE  row[call'[c].user] \in Row /\ row[call'[c].user].status = "normal"
      BY <1>0, <2>1, <2>2, MovesHow DEF LoginsFresh, Busy
    <2>. QED BY <2>1, <2>2 DEF LoginsFresh
  <1>2. ASSUME NEW c \in Call, Writes(c) PROVE LoginsFresh'
    <2>1. PICK u \in User, r \in Row, next \in CallRecord :
            /\ Write(c, u, r, next) /\ next.user = u /\ next.at \in {"cache", "invalidate"}
            /\ next.at = "cache" => r.status = "normal"
      BY <1>2, WritesHow
    <2>2. row' = [row EXCEPT ![u] = r]
      BY <2>1 DEF Write
    <2>3. ASSUME NEW d \in Call, call'[d].at \in {"cache", "sign"}, ~call'[d].stale
          PROVE  row'[call'[d].user] \in Row /\ row'[call'[d].user].status = "normal"
      <3>1. CASE d = c
        <4>1. call'[d] = next
          BY <2>1, <3>1 DEF Write
        <4>. QED BY <1>0, <2>1, <2>2, <2>3, <4>1
      <3>2. CASE d # c /\ LogsIn(d, u)
        <4>1. call'[d] = [call[d] EXCEPT !.stale = call[d].stale \/ row[u] # r]
          BY <2>1, <3>2 DEF Write
        <4>2. /\ call'[d].at = call[d].at /\ call'[d].user = u
              /\ call[d].user = u /\ ~call[d].stale /\ row[u] = r
          BY <1>0, <2>3, <3>2, <4>1 DEF LogsIn, CallRecord
        <4>. QED BY <1>0, <2>2, <2>3, <4>2 DEF LoginsFresh
      <3>3. CASE d # c /\ ~LogsIn(d, u)
        <4>1. call'[d] = call[d] /\ call[d].user # u /\ call[d].user \in User
          BY <1>0, <2>1, <2>3, <3>3 DEF Write, LogsIn, CallRecord
        <4>. QED BY <1>0, <2>2, <2>3, <4>1 DEF LoginsFresh
      <3>. QED BY <3>1, <3>2, <3>3
    <2>. QED BY <2>3 DEF LoginsFresh
  <1>. QED BY <1>1, <1>2

\* Entries stay.
LEMMA LoggedKept ==
  ASSUME TypeOK, RowsExist, Next, NEW u \in User
  PROVE  logged[u] \subseteq logged'[u]
  <1>0. logged \in [User -> SUBSET {"ban_user", "set_admin"}]
    BY DEF TypeOK
  <1>1. ASSUME NEW c \in Call, Audit(c) PROVE logged[u] \subseteq logged'[u]
    BY <1>0, <1>1 DEF Audit, CreateAuditLog
  <1>2. CASE Crash
    BY <1>0, <1>2 DEF Crash
  <1>3. logged' = logged \/ Crash \/ \E c \in Call : Audit(c)
    BY StepKinds, BeginsHow, WritesHow
    DEF Register, LoginCaches, Sign, Fill, StatementFails, Invalidate, AccessExpires,
        CacheExpires
  <1>. QED BY <1>1, <1>2, <1>3

\* Whoever owes an entry still does, or it is written, or excused.
LEMMA OwesKept ==
  ASSUME TypeOK, RowsExist, Next, NEW c \in Call, NEW u \in User,
         NEW a \in {"ban_user", "set_admin"}, Owes(c, u, a)
  PROVE  Owes(c, u, a)' \/ a \in logged'[u]
  <1>0. /\ call \in [Call -> CallRecord]
        /\ logged \in [User -> SUBSET {"ban_user", "set_admin"}]
    BY DEF TypeOK, CallRecord
  <1>2. ASSUME NEW d \in Call, Begins(d) PROVE Owes(c, u, a)'
    <2>1. PICK s \in Step, v \in User, r \in Row \cup {NoRow}, b \in Action \cup {"none"} :
            Begin(d, s, v, r, b)
      BY <1>2, BeginsHow
    <2>2. d # c
      BY <2>1 DEF Begin, Owes
    <2>. QED BY <1>0, <2>1, <2>2 DEF Begin, Owes
  <1>3. ASSUME NEW d \in Call, Writes(d) PROVE Owes(c, u, a)'
    <2>1. PICK v \in User, r \in Row, next \in CallRecord :
            Write(d, v, r, next) /\ \A w \in User, b \in {"ban_user", "set_admin"} : ~Owes(d, w, b)
      BY <1>3, WritesHow
    <2>2. d # c /\ ~LogsIn(c, v)
      BY <2>1 DEF Owes, LogsIn
    <2>3. call'[c] = call[c]
      BY <2>1, <2>2 DEF Write
    <2>. QED BY <2>3 DEF Owes
  <1>4. ASSUME NEW d \in Call,
               \/ Register(d) /\ row[call[d].user] # NoRow
               \/ LoginCaches(d) \/ Sign(d) \/ Fill(d) \/ StatementFails(d)
        PROVE  Owes(c, u, a)'
    <2>1. d # c
      BY <1>4 DEF Register, LoginCaches, Sign, Fill, StatementFails, Owes
    <2>2. call'[c] = call[c]
      BY <1>0, <1>4, <2>1
      DEF Register, LoginCaches, Sign, Fill, StatementFails, Return, Goto
    <2>. QED BY <2>2 DEF Owes
  <1>5. ASSUME NEW d \in Call, Invalidate(d) PROVE Owes(c, u, a)'
    <2>1. CASE d # c
      <3>1. call'[c] = call[c]
        BY <1>0, <1>5, <2>1 DEF Invalidate, Return, Goto
      <3>. QED BY <3>1 DEF Owes
    <2>2. CASE d = c
      <3>1. Goto(c, "audit")
        BY <1>5, <2>2 DEF Invalidate, Owes
      <3>2. /\ call'[c].at = "audit"
            /\ call'[c].user = call[c].user
            /\ call'[c].action = call[c].action
        BY <1>0, <3>1 DEF Goto, CallRecord
      <3>. QED BY <3>2 DEF Owes
    <2>. QED BY <2>1, <2>2
  <1>6. ASSUME NEW d \in Call, Audit(d) PROVE Owes(c, u, a)' \/ a \in logged'[u]
    <2>1. CASE d # c
      <3>1. call'[c] = call[c]
        BY <1>0, <1>6, <2>1 DEF Audit, CreateAuditLog, Return
      <3>. QED BY <3>1 DEF Owes
    <2>2. CASE d = c
      <3>1. logged' = [logged EXCEPT ![u] = @ \cup ({a} \cap {"ban_user", "set_admin"})]
        BY <1>6, <2>2 DEF Audit, CreateAuditLog, Owes
      <3>. QED BY <1>0, <3>1
    <2>. QED BY <2>1, <2>2
  <1>7. CASE Crash
    BY <1>7 DEF Crash
  <1>8. CASE (\E t \in access : AccessExpires(t)) \/ \E v \in User : CacheExpires(v)
    BY <1>8 DEF AccessExpires, CacheExpires, Owes
  <1>. QED BY <1>2, <1>3, <1>4, <1>5, <1>6, <1>7, <1>8, StepKinds

\* u's action a is explained.
Explained(u, a) == a \in logged[u] \/ \E c \in Call : Owes(c, u, a)

LEMMA ExplainedKept ==
  ASSUME TypeOK, RowsExist, Next, NEW u \in User, NEW a \in {"ban_user", "set_admin"},
         Explained(u, a)
  PROVE  Explained(u, a)'
  <1>1. CASE a \in logged[u]
    BY <1>1, LoggedKept DEF Explained
  <1>2. ASSUME NEW c \in Call, Owes(c, u, a) PROVE Explained(u, a)'
    BY <1>2, OwesKept DEF Explained
  <1>. QED BY <1>1, <1>2 DEF Explained

LEMMA AuditStep ==
  ASSUME TypeOK, RowsExist, AuditTrail, Next
  PROVE  AuditTrail'
  <1>. SUFFICES ASSUME NEW v \in User, row'[v] # NoRow
                PROVE  /\ row'[v].status = "banned" => Explained(v, "ban_user")'
                       /\ row'[v].role = "admin" => Explained(v, "set_admin")'
    BY DEF AuditTrail, Explained
  <1>0. row \in [User -> Row \cup {NoRow}] /\ call \in [Call -> CallRecord]
    BY DEF TypeOK, CallRecord
  <1>1. /\ row[v] # NoRow /\ row[v].status = "banned" => Explained(v, "ban_user")'
        /\ row[v] # NoRow /\ row[v].role = "admin" => Explained(v, "set_admin")'
    BY ExplainedKept DEF AuditTrail, Explained
  <1>2. CASE row'[v] = row[v]
    BY <1>1, <1>2
  <1>3. ASSUME NEW c \in Call, Writes(c), row'[v] # row[v]
        PROVE  /\ row'[v].status = "banned" => Explained(v, "ban_user")'
               /\ row'[v].role = "admin" => Explained(v, "set_admin")'
    <2>1. PICK u \in User, r \in Row, next \in CallRecord :
            /\ Write(c, u, r, next)
            /\ next.user = u
            /\ row[u] = NoRow => r = Fresh
            /\ row[u] # NoRow /\ r.status # row[u].status /\ r.status = "banned" =>
                 next.at = "invalidate" /\ next.action = "ban_user"
            /\ row[u] # NoRow /\ r.role # row[u].role /\ r.role = "admin" =>
                 next.at = "invalidate" /\ next.action = "set_admin"
      BY <1>3, WritesHow
    <2>2. u = v /\ row'[v] = r /\ call'[c] = next
      BY <1>0, <1>3, <2>1 DEF Write
    <2>3. r.status = "banned" => Explained(v, "ban_user")'
      <3>1. CASE row[u] # NoRow /\ r.status # row[u].status /\ r.status = "banned"
        BY <2>1, <2>2, <3>1 DEF Explained, Owes
      <3>2. CASE row[u] # NoRow /\ r.status = row[u].status
        BY <1>1, <2>2, <3>2
      <3>3. CASE row[u] = NoRow
        BY <2>1, <3>3 DEF Fresh
      <3>. QED BY <3>1, <3>2, <3>3
    <2>4. r.role = "admin" => Explained(v, "set_admin")'
      <3>1. CASE row[u] # NoRow /\ r.role # row[u].role /\ r.role = "admin"
        BY <2>1, <2>2, <3>1 DEF Explained, Owes
      <3>2. CASE row[u] # NoRow /\ r.role = row[u].role
        BY <1>1, <2>2, <3>2
      <3>3. CASE row[u] = NoRow
        BY <2>1, <3>3 DEF Fresh
      <3>. QED BY <3>1, <3>2, <3>3
    <2>. QED BY <2>2, <2>3, <2>4
  <1>4. CASE \A c \in Call : ~Writes(c)
    BY <1>1, <1>4, QuietMoves
  <1>. QED BY <1>2, <1>3, <1>4

-----------------------------------------------------------------------------
LEMMA IInvStep ==
  ASSUME IInv, [Next]_vars
  PROVE  IInv'
  <1>1. CASE Next
    BY <1>1, TypeStep, RowsStep, LoginsStep, AuditStep DEF IInv
  <1>2. CASE UNCHANGED vars
    BY <1>2 DEF vars, IInv, TypeOK, RowsExist, LoginsFresh, AuditTrail, Owes
  <1>. QED BY <1>1, <1>2

\* The inductive invariant holds in every reachable state.
THEOREM Invariance == Spec => []IInv
  <1>1. Init => IInv
    <2>. SUFFICES ASSUME Init PROVE IInv
      OBVIOUS
    <2>1. RowsExist /\ LoginsFresh /\ AuditTrail
      BY DEF Init, Idle, RowsExist, LoginsFresh, AuditTrail
    <2>. QED BY <2>1, TypeInit DEF IInv
  <1>2. IInv /\ [Next]_vars => IInv'
    BY IInvStep
  <1>. QED BY <1>1, <1>2, PTL DEF Spec

\* The variables of Accounts keep their types.
THEOREM TypeCorrect == Spec => []TypeOK
  <1>1. IInv => TypeOK
    BY DEF IInv
  <1>. QED BY <1>1, Invariance, PTL

\* Whoever is banned when WxLogin or RefreshToken begins gets no token.
THEOREM BannedGetNoToken == Spec => []LoginsRespectBans
  <1>1. IInv => LoginsRespectBans
    BY DEF IInv, LoginsFresh, LoginsRespectBans
  <1>. QED BY <1>1, Invariance, PTL

\* Every ban and every promotion has its entry in admin_audit_logs.
THEOREM ChangesAreAudited == Spec => []AuditTrail
  <1>1. IInv => AuditTrail
    BY DEF IInv
  <1>. QED BY <1>1, Invariance, PTL
=============================================================================
