---------------------------- MODULE GatewayProofs ----------------------------
(***************************************************************************)
(* Proofs about Gateway, for any addresses, burst and number of requests,  *)
(* every operation of the router and every token.                          *)
(*                                                                         *)
(* BurstIsKept is not inductive: it says nothing of the bucket the next    *)
(* request will get.  Balanced says that, unless a bucket was taken from   *)
(* under a request, what an address may still do and what it has done add  *)
(* up to no more than the burst, all its requests share the one bucket of  *)
(* the map, and a bucket the sweep is after has nothing to remember.       *)
(*                                                                         *)
(* And about Discovery, for any number of processes at an address.         *)
(***************************************************************************)
EXTENDS Gateway, Discovery, TLAPS

\* A bucket counts for one address, and a request that has none in hand is not inside.
Separate ==
  /\ \A i, j \in Ip : table[i] = table[j] /\ table[i] # NoBucket => i = j
  /\ \A r \in Req, i \in Ip : hand[r] = table[i] /\ hand[r] # NoBucket => client[r] = i
  /\ \A r, q \in Req : hand[r] = hand[q] /\ hand[r] # NoBucket => client[r] = client[q]

HandsEmpty == \A r \in Req : req[r].at \in {"gone", "answered"} => hand[r] = NoBucket
HandsFull  == \A r \in Req : req[r].at \in {"inside", "calling"} => hand[r] # NoBucket

\* The sweep goes for buckets of the map, with bucketsMu.
SweepOK ==
  /\ ~sweeping => todo = {} /\ doomed = {}
  /\ todo \cap doomed = {}
  /\ \A i \in todo \cup doomed : table[i] # NoBucket

Shared(i) == \A r \in Req : client[r] = i /\ hand[r] # NoBucket => hand[r] = table[i]

Balance(i) ==
  /\ table[i] = NoBucket => meter[i] = 0
  /\ table[i] # NoBucket => tokens[table[i]] + meter[i] <= Burst
  /\ table[i] # NoBucket /\ table[i] \in idle => meter[i] = 0

Forgotten(i) ==
  i \in doomed => meter[i] = 0 /\ \A r \in Req : client[r] = i => hand[r] = NoBucket

Balanced == \A i \in Ip \ overtaken : Shared(i) /\ Balance(i) /\ Forgotten(i)

IInv ==
  /\ TypeOK
  /\ Separate /\ HandsEmpty /\ HandsFull /\ SweepOK
  /\ Balanced
  /\ CallersAreEntitled
  /\ AnswersAreTrue

-----------------------------------------------------------------------------
(* Routes *)

LEMMA StatusOfCode ==
  ASSUME NEW code \in Nat
  PROVE  HTTPStatus(code) \in Nat /\ (HTTPStatus(code) = 200 <=> code = 0)
BY DEF HTTPStatus, Within

LEMMA CodeOfGrpc ==
  ASSUME NEW c \in GrpcCode
  PROVE  FromGRPC(c) \in Nat /\ (FromGRPC(c) = 0 <=> c = "OK")
BY DEF GrpcCode, FromGRPC

LEMMA CodesOfServices ==
  ASSUME NEW op \in Op, NEW n \in CodeOf(op)
  PROVE  n \in Nat /\ (~ReadsCode(op) => n = 0)
<1>1. n \in Nat
  BY DEF CodeOf, MessageCode, ProfileCode
<1>2. ASSUME ~ReadsCode(op) PROVE CodeOf(op) = {0}
  BY <1>2 DEF CodeOf, ReadsCode
<1> QED BY <1>1, <1>2

\* What Respond makes of what a service may say.
LEMMA ResponsesAreTrue ==
  ASSUME NEW op \in Op, NEW c \in GrpcCode, NEW n \in Nat,
         c = "OK" => n \in CodeOf(op), c # "OK" => n = 0
  PROVE  LET s == Respond(op, [grpc |-> c, code |-> n])
         IN s \in Nat /\ (s = 200 <=> c = "OK" /\ n = 0)
<1>1. CASE c # "OK"
  BY <1>1, CodeOfGrpc, StatusOfCode DEF Respond
<1>2. CASE c = "OK" /\ ReadsCode(op)
  BY <1>2, StatusOfCode DEF Respond
<1>3. CASE c = "OK" /\ ~ReadsCode(op)
  BY <1>3, CodesOfServices DEF Respond
<1> QED BY <1>1, <1>2, <1>3

LEMMA CodesOfMiddleware ==
  ASSUME NEW op, NEW t \in Token
  PROVE  Turnstile(op, t) \in Nat /\ AuthCtxWithIDs(op, Caller(op, t)) \in Nat
BY DEF Turnstile, JWTAuth, RequireRole, RequireSchoolBound, AuthCtxWithIDs

LEMMA CallersHaveIdentity ==
  ASSUME NEW op, NEW t \in Token
  PROVE  Caller(op, t) \in Identity
BY DEF Caller, Token, Identity, Guest, OptionalJWTAuth

\* Who gets past the middleware and the handler is entitled to the call.
LEMMA Entitlement ==
  ASSUME NEW op \in Op, NEW t \in Token,
         t.kind = "valid" => t.who.user # 0,
         Turnstile(op, t) = 0
  PROVE  Entitled(op, Caller(op, t))
<1> DEFINE who == Caller(op, t)
<1>1. who.user \in Nat /\ who.school \in Nat /\ who.role \in 0..3
  BY CallersHaveIdentity DEF Identity
<1>2. ASSUME op \in ForUsers, op \notin ForGuests
      PROVE  /\ who = t.who /\ who.user # 0
             /\ who.role >= MinRole(op)
             /\ op \in ForBound => who.school # 0
  <2>1. t.kind = "valid"
    BY <1>2 DEF Turnstile, JWTAuth, Token
  <2>2. who = t.who
    BY <1>2 DEF Caller
  <2>3. RequireRole(op, who) = 0
    BY <1>2, <2>1 DEF Turnstile, JWTAuth
  <2>4. RequireSchoolBound(op, who) = 0
    BY <1>2, <2>1, <2>3 DEF Turnstile, JWTAuth
  <2>5. MinRole(op) \in Nat
    BY DEF MinRole
  <2> HIDE DEF who
  <2>6. who.role >= MinRole(op)
    BY <2>3, <2>5, <1>1 DEF RequireRole
  <2>7. op \in ForBound => who.school # 0
    BY <2>4 DEF RequireSchoolBound
  <2> QED BY <2>1, <2>2, <2>6, <2>7
<1>3. ASSUME op \in SchoolWrites
      PROVE  op \in ForUsers /\ op \in ForBound /\ op \notin ForGuests
  BY <1>3 DEF SchoolWrites, PostCreation, PostEdits, Likes, TaskCreation, TaskEdits, TaskMoves,
     FileDeletions, ForUsers, ForBound, ForGuests, UserAuth, UserWrite, Notifications,
     TasksWrite, FilesUpload, FilesDelete, Admin, SuperAdmin, ContentWrite, Schools, TasksRead,
     FilesRead, ContentRead
<1>4. ASSUME op \in ProfileHandlers \cup FileUploads \cup NotificationHandlers
      PROVE  op \in ForUsers /\ op \notin ForGuests
  BY <1>4 DEF ProfileHandlers, FileUploads, NotificationHandlers, ForUsers, ForGuests, UserAuth,
     UserWrite, Notifications, FilesUpload, Schools, TasksRead, FilesRead, ContentRead
<1>5. ASSUME op \in Bans \cup AdminReads \cup Audits
      PROVE  op \in ForUsers /\ op \notin ForGuests /\ MinRole(op) = 2
  BY <1>5 DEF Bans, AdminReads, Audits, ForUsers, ForGuests, Admin, SuperAdmin, MinRole,
     Schools, TasksRead, FilesRead, ContentRead
<1>6. ASSUME op \in RoleChanges
      PROVE  op \in ForUsers /\ op \notin ForGuests /\ MinRole(op) = 3
  BY <1>6 DEF RoleChanges, ForUsers, ForGuests, SuperAdmin, MinRole, Schools, TasksRead,
     FilesRead, ContentRead
<1> HIDE DEF who
<1>7. Entitled(op, who)
  BY <1>1, <1>2, <1>3, <1>4, <1>5, <1>6 DEF Entitled
<1> QED BY <1>7 DEF who

-----------------------------------------------------------------------------
(* Types *)

Record == [at : At, op : Op \cup {Nothing}, who : Identity, said : Said, status : Nat]

LEMMA StageIsRecord ==
  ASSUME NEW s \in At
  PROVE  Stage(s) \in Record
BY DEF Record, Stage, Said, Unsaid, Guest, Identity

LEMMA AnswerIsRecord ==
  ASSUME NEW said \in Said, NEW status \in Nat
  PROVE  Answered(said, status) \in Record
BY DEF Record, Answered, At, Guest, Identity

LEMMA CallIsRecord ==
  ASSUME NEW op \in Op, NEW who \in Identity
  PROVE  Calling(op, who) \in Record
BY DEF Record, Calling, At, Unsaid, Said

LEMMA UnsaidIsSaid == Unsaid \in Said
BY DEF Unsaid, Said

\* What a call comes back with.
LEMMA ReturnedAnswer ==
  ASSUME NEW op \in Op, NEW c \in Says, NEW n \in IF c = "OK" THEN CodeOf(op) ELSE {0}
  PROVE  /\ [grpc |-> c, code |-> n] \in Said
         /\ Respond(op, [grpc |-> c, code |-> n]) \in Nat
         /\ Respond(op, [grpc |-> c, code |-> n]) = 200 <=> c = "OK" /\ n = 0
<1>1. c \in GrpcCode
  BY GatewayAssumption
<1>2. n \in Nat /\ (c = "OK" => n \in CodeOf(op)) /\ (c # "OK" => n = 0)
  BY CodesOfServices
<1>3. [grpc |-> c, code |-> n] \in Said
  BY <1>2 DEF Said
<1> QED BY <1>1, <1>2, <1>3, ResponsesAreTrue

\* A code that is not 0 gives a status that is not 200.
LEMMA RejectedStatus ==
  ASSUME NEW op, NEW t \in Token,
         NEW code \in {Turnstile(op, t), AuthCtxWithIDs(op, Caller(op, t)),
                       IF HasInput(op) THEN 40001 ELSE 0},
         code # 0
  PROVE  HTTPStatus(code) \in Nat /\ HTTPStatus(code) # 200
<1>1. code \in Nat
  BY CodesOfMiddleware
<1> QED BY <1>1, StatusOfCode

LEMMA RequestTypes ==
  ASSUME TypeOK, Next
  PROVE  req' \in [Req -> Record]
<1>1. req \in [Req -> Record]
  BY DEF TypeOK, Record
<1>2. ASSUME NEW r \in Req, NEW s \in At, Becomes(r, Stage(s)) PROVE req' \in [Req -> Record]
  BY <1>1, <1>2, StageIsRecord DEF Becomes
<1>3. ASSUME NEW r \in Req, NEW said \in Said, NEW status \in Nat, Answer(r, said, status)
      PROVE  req' \in [Req -> Record]
  BY <1>1, <1>3, AnswerIsRecord DEF Answer, Becomes
<1>4. ASSUME NEW r \in Req, NEW i \in Ip, Arrive(r, i) PROVE req' \in [Req -> Record]
  BY <1>2, <1>4 DEF Arrive, At
<1>5. ASSUME NEW r \in Req, Enter(r) PROVE req' \in [Req -> Record]
  BY <1>1, <1>5 DEF Enter
<1>6. ASSUME NEW r \in Req, Pass(r) PROVE req' \in [Req -> Record]
  BY <1>2, <1>6 DEF Pass, At
<1>7. ASSUME NEW r \in Req, TurnAway(r) PROVE req' \in [Req -> Record]
  BY <1>3, <1>7, StatusOfCode, UnsaidIsSaid DEF TurnAway
<1>8. ASSUME NEW r \in Req, NEW op \in Asked, NEW t \in Shown, Reject(r, op, t)
      PROVE  req' \in [Req -> Record]
  BY <1>3, <1>8, RejectedStatus, UnsaidIsSaid, GatewayAssumption DEF Reject
<1>9. ASSUME NEW r \in Req, NEW op \in Asked, NEW t \in Shown, Call(r, op, t)
      PROVE  req' \in [Req -> Record]
  <2>1. op \in Op /\ Caller(op, t) \in Identity
    BY CallersHaveIdentity, GatewayAssumption
  <2> QED BY <1>1, <1>9, <2>1, CallIsRecord DEF Call, Becomes
<1>10. ASSUME NEW r \in Req, Return(r) PROVE req' \in [Req -> Record]
  <2>1. req[r].op \in Op
    BY <1>10 DEF Return, TypeOK
  <2> QED BY <1>3, <1>10, <2>1, ReturnedAnswer DEF Return
<1>11. ASSUME NEW r \in Req, Leave(r) PROVE req' \in [Req -> Record]
  BY <1>2, <1>11 DEF Leave, At
<1>12. ASSUME UNCHANGED req PROVE req' \in [Req -> Record]
  BY <1>1, <1>12
<1> QED
  BY <1>4, <1>5, <1>6, <1>7, <1>8, <1>9, <1>10, <1>11, <1>12 DEF Next, Count, Dispatch

LEMMA NothingIsNoOp == Nothing \notin Op
BY DEF Nothing, Op, UserPublic, ForGuests, ForUsers, UserAuth, UserWrite, Notifications,
   TasksRead, TasksWrite, FilesRead, FilesUpload, FilesDelete, Admin, SuperAdmin, ContentRead,
   ContentWrite, Schools

LEMMA LimitTypes ==
  ASSUME TypeOK, Next
  PROVE  RateLimitOK'
<1> USE RateLimitAssumption DEF RateLimitOK
<1>1. RateLimitOK
  BY DEF TypeOK
<1>2. ASSUME NEW r \in Req, NEW i \in Ip, Arrive(r, i) PROVE RateLimitOK'
  BY <1>1, <1>2 DEF Arrive
<1>3. ASSUME NEW r \in Req, Enter(r) PROVE RateLimitOK'
  <2>1. table' \in [Ip -> Bucket \cup {NoBucket}] /\ hand' \in [Req -> Bucket \cup {NoBucket}]
    BY <1>1, <1>3 DEF Enter, GetBucket, FindBucket, MakeBucket
  <2>2. tokens' \in [Bucket -> 0..Burst] /\ idle' \subseteq Bucket
    BY <1>1, <1>3 DEF Enter, GetBucket, FindBucket, MakeBucket
  <2> QED BY <1>1, <1>3, <2>1, <2>2 DEF Enter, GetBucket
<1>4. ASSUME NEW r \in Req, Pass(r) PROVE RateLimitOK'
  <2>1. hand[r] \in Bucket
    BY <1>1, <1>4 DEF Pass, Admit, Locks
  <2>2. tokens' \in [Bucket -> 0..Burst] /\ meter' \in [Ip -> Nat]
    BY <1>1, <1>4, <2>1 DEF Pass, Admit, Locks
  <2>3. holder' \in [Bucket -> Req \cup {Nobody}] /\ idle' \subseteq Bucket
    BY <1>1, <1>4, <2>1 DEF Pass, Admit, Locks
  <2> QED BY <1>1, <1>4, <2>2, <2>3 DEF Pass, Admit
<1>5. ASSUME NEW r \in Req, TurnAway(r) PROVE RateLimitOK'
  BY <1>1, <1>5 DEF TurnAway, Refuse, Locks
<1>6. ASSUME NEW r \in Req, Release(r) PROVE RateLimitOK'
  BY <1>1, <1>6 DEF Release
<1>7. ASSUME UNCHANGED limits PROVE RateLimitOK'
  BY <1>1, <1>7 DEF limits
<1>8. ASSUME Wake PROVE RateLimitOK'
  BY <1>1, <1>8 DEF Wake
<1>9. ASSUME Sleep PROVE RateLimitOK'
  BY <1>1, <1>9 DEF Sleep
<1>10. ASSUME NEW i \in Ip, Look(i) PROVE RateLimitOK'
  <2>1. doomed' \subseteq Ip /\ overtaken' \subseteq Ip
    BY <1>1, <1>10 DEF Look
  <2> QED BY <1>1, <1>10, <2>1 DEF Look
<1>11. ASSUME NEW i \in Ip, Remove(i) PROVE RateLimitOK'
  BY <1>1, <1>11 DEF Remove
<1>12. ASSUME NEW i \in Ip, Refill(i) PROVE RateLimitOK'
  <2>1. tokens' \in [Bucket -> 0..Burst] /\ meter' \in [Ip -> Nat]
    BY <1>1, <1>12 DEF Refill
  <2> QED BY <1>1, <1>12, <2>1 DEF Refill
<1>13. ASSUME NEW i \in Ip, FallsIdle(i) PROVE RateLimitOK'
  <2>1. tokens' \in [Bucket -> 0..Burst] /\ meter' \in [Ip -> Nat]
    BY <1>1, <1>13 DEF FallsIdle
  <2>2. idle' \subseteq Bucket /\ overtaken' \subseteq Ip
    BY <1>1, <1>13 DEF FallsIdle
  <2> QED BY <1>1, <1>13, <2>1, <2>2 DEF FallsIdle
<1> HIDE DEF RateLimitOK
<1> QED
  BY <1>2, <1>3, <1>4, <1>5, <1>6, <1>7, <1>8, <1>9, <1>10, <1>11, <1>12, <1>13
  DEF Next, Count, Dispatch, Reject, Call, Return, Leave, Sweep, TimePasses

\* Three ways to end.
LEMMA EndsWithAnswer ==
  ASSUME NEW r,
         \/ TurnAway(r) \/ Return(r)
         \/ \E op \in Asked, t \in Shown : Reject(r, op, t)
  PROVE  \E said, status : Answer(r, said, status)
<1>0. ASSUME NEW said, NEW status, Answer(r, said, status)
      PROVE  \E d, s : Answer(r, d, s)
  BY <1>0, Zenon
<1>1. CASE TurnAway(r)
  <2>1. Answer(r, Unsaid, HTTPStatus(30001))
    BY <1>1 DEF TurnAway
  <2> QED BY <1>0, <2>1
<1>2. CASE Return(r)
  <2>1. PICK c \in Says : \E n \in IF c = "OK" THEN CodeOf(req[r].op) ELSE {0} :
          LET said == [grpc |-> c, code |-> n] IN Answer(r, said, Respond(req[r].op, said))
    BY <1>2 DEF Return
  <2>2. PICK n \in IF c = "OK" THEN CodeOf(req[r].op) ELSE {0} :
          LET said == [grpc |-> c, code |-> n] IN Answer(r, said, Respond(req[r].op, said))
    BY <2>1
  <2>3. Answer(r, [grpc |-> c, code |-> n], Respond(req[r].op, [grpc |-> c, code |-> n]))
    BY <2>2
  <2> QED BY <2>3, Zenon
<1>3. CASE \E op \in Asked, t \in Shown : Reject(r, op, t)
  <2>1. PICK op \in Asked, t \in Shown : Reject(r, op, t)
    BY <1>3
  <2>2. \E code : Answer(r, Unsaid, HTTPStatus(code))
    BY <2>1 DEF Reject
  <2>3. PICK code : Answer(r, Unsaid, HTTPStatus(code))
    BY <2>2
  <2> QED BY <2>3, Zenon
<1> QED BY <1>1, <1>2, <1>3

\* An operation goes with every call.
LEMMA CallsHaveOps ==
  ASSUME TypeOK, Next
  PROVE  \A r \in Req : req'[r].at = "calling" => req'[r].op # Nothing
<1>1. req \in [Req -> Record] /\ \A r \in Req : req[r].at = "calling" => req[r].op # Nothing
  BY DEF TypeOK, Record
<1>2. ASSUME NEW r \in Req, NEW stage, Becomes(r, stage), stage.at = "calling" => stage.op # Nothing
      PROVE  \A q \in Req : req'[q].at = "calling" => req'[q].op # Nothing
  BY <1>1, <1>2 DEF Becomes
<1>3. \A s, said, status : /\ Stage(s).at = s
                           /\ Answered(said, status).at = "answered"
  BY DEF Stage, Answered
<1>4. \A op \in Op : \A who : Calling(op, who).op # Nothing
  BY NothingIsNoOp DEF Calling
<1>5. ASSUME UNCHANGED req
      PROVE  \A q \in Req : req'[q].at = "calling" => req'[q].op # Nothing
  BY <1>1, <1>5
<1>6. CASE \E r \in Req : Enter(r)
  BY <1>5, <1>6 DEF Enter
<1>7. CASE \E r \in Req : \/ \E i \in Ip : Arrive(r, i)
                         \/ Pass(r) \/ Leave(r)
  BY <1>2, <1>3, <1>7 DEF Arrive, Pass, Leave
<1>8. CASE \E r \in Req : \/ TurnAway(r) \/ Return(r)
                         \/ \E op \in Asked, t \in Shown : Reject(r, op, t)
  <2>1. PICK r \in Req : \E said, status : Answer(r, said, status)
    BY <1>8, EndsWithAnswer
  <2> QED BY <1>2, <1>3, <2>1 DEF Answer
<1>9. CASE \E r \in Req, op \in Asked, t \in Shown : Call(r, op, t)
  BY <1>2, <1>4, <1>9, GatewayAssumption DEF Call
<1>10. CASE (Wake \/ Sweep \/ TimePasses) /\ UNCHANGED req
  BY <1>5, <1>10
<1> QED BY <1>6, <1>7, <1>8, <1>9, <1>10 DEF Next, Count, Dispatch

LEMMA TypeStep ==
  ASSUME TypeOK, Next
  PROVE  TypeOK'
BY RequestTypes, LimitTypes, CallsHaveOps DEF TypeOK, Record

-----------------------------------------------------------------------------
(* Requests *)

\* What r does to its own record and its hand; nothing changes for the others.
LEMMA RequestMoves ==
  ASSUME TypeOK, NEW r \in Req, NEW stage, Becomes(r, stage)
  PROVE  /\ req'[r] = stage
         /\ \A q \in Req : q # r => req'[q] = req[q]
BY DEF TypeOK, Becomes

LEMMA HandsStep ==
  ASSUME TypeOK, HandsEmpty, HandsFull, Next
  PROVE  HandsEmpty' /\ HandsFull'
<1> USE DEF HandsEmpty, HandsFull
<1>1. hand \in [Req -> Bucket \cup {NoBucket}] /\ req \in [Req -> Record]
      /\ table \in [Ip -> Bucket \cup {NoBucket}] /\ client \in [Req -> Ip]
  BY DEF TypeOK, RateLimitOK, Record
<1>2. \A s, said, status : Stage(s).at = s /\ Answered(said, status).at = "answered"
  BY DEF Stage, Answered
<1>3. ASSUME NEW r \in Req, NEW said, NEW status, Answer(r, said, status),
             hand' = [hand EXCEPT ![r] = NoBucket]
      PROVE  HandsEmpty' /\ HandsFull'
  BY <1>1, <1>2, <1>3, RequestMoves DEF Answer
<1>4. ASSUME NEW r \in Req, NEW i \in Ip, Arrive(r, i) PROVE HandsEmpty' /\ HandsFull'
  BY <1>1, <1>2, <1>4, RequestMoves DEF Arrive
<1>5. ASSUME NEW r \in Req, Enter(r) PROVE HandsEmpty' /\ HandsFull'
  <2>1. \E b \in Bucket : hand' = [hand EXCEPT ![r] = b]
    BY <1>1, <1>5 DEF Enter, GetBucket, FindBucket, MakeBucket
  <2>2. req[r].at = "arrived" /\ req' = req
    BY <1>5 DEF Enter
  <2>3. NoBucket \notin Bucket
    BY RateLimitAssumption
  <2> QED BY <1>1, <2>1, <2>2, <2>3
<1>6. ASSUME NEW r \in Req, Pass(r) PROVE HandsEmpty' /\ HandsFull'
  <2>1. hand[r] # NoBucket /\ hand' = hand
    BY <1>6 DEF Pass, Admit, Locks
  <2>2. Becomes(r, Stage("inside"))
    BY <1>6 DEF Pass
  <2> QED BY <1>2, <2>1, <2>2, RequestMoves
<1>7. ASSUME NEW r \in Req, TurnAway(r) PROVE HandsEmpty' /\ HandsFull'
  <2>1. \E said, status : Answer(r, said, status)
    BY <1>7, EndsWithAnswer
  <2>2. hand' = [hand EXCEPT ![r] = NoBucket]
    BY <1>7 DEF TurnAway, Refuse
  <2> QED BY <1>3, <2>1, <2>2
<1>8. ASSUME NEW r \in Req, NEW op \in Asked, NEW t \in Shown, Reject(r, op, t)
      PROVE  HandsEmpty' /\ HandsFull'
  <2>1. \E said, status : Answer(r, said, status)
    <3>1. \E o \in Asked, s \in Shown : Reject(r, o, s)
      BY <1>8, Zenon
    <3> QED BY <3>1, EndsWithAnswer
  <2>2. hand' = [hand EXCEPT ![r] = NoBucket]
    BY <1>8 DEF Reject, Release
  <2> QED BY <1>3, <2>1, <2>2
<1>9. ASSUME NEW r \in Req, NEW op, NEW t, Call(r, op, t) PROVE HandsEmpty' /\ HandsFull'
  <2>1. req[r].at = "inside" /\ hand' = hand /\ Becomes(r, Calling(op, Caller(op, t)))
    BY <1>9 DEF Call, limits
  <2>2. Calling(op, Caller(op, t)).at = "calling"
    BY DEF Calling
  <2> QED BY <2>1, <2>2, RequestMoves
<1>10. ASSUME NEW r \in Req, Return(r) PROVE HandsEmpty' /\ HandsFull'
  <2>1. \E said, status : Answer(r, said, status)
    BY <1>10, EndsWithAnswer
  <2>2. hand' = [hand EXCEPT ![r] = NoBucket]
    BY <1>10 DEF Return, Release
  <2> QED BY <1>3, <2>1, <2>2
<1>11. ASSUME NEW r \in Req, Leave(r) PROVE HandsEmpty' /\ HandsFull'
  <2>1. req[r].at = "answered" /\ hand' = hand /\ Becomes(r, Stage("gone"))
    BY <1>11 DEF Leave, limits
  <2> QED BY <1>2, <2>1, RequestMoves
<1>12. ASSUME Wake \/ Sweep \/ TimePasses, UNCHANGED req PROVE HandsEmpty' /\ HandsFull'
  <2>1. hand' = hand
    BY <1>12 DEF Wake, Sweep, Sleep, Look, Remove, TimePasses, Refill, FallsIdle
  <2> QED BY <1>12, <2>1
<1> QED
  BY <1>4, <1>5, <1>6, <1>7, <1>8, <1>9, <1>10, <1>11, <1>12 DEF Next, Count, Dispatch

LEMMA CallersStep ==
  ASSUME TypeOK, CallersAreEntitled, Next
  PROVE  CallersAreEntitled'
<1> USE DEF CallersAreEntitled
<1>1. ASSUME NEW r \in Req, NEW stage, Becomes(r, stage),
             stage.at = "calling" => Entitled(stage.op, stage.who)
      PROVE  CallersAreEntitled'
  BY <1>1, RequestMoves
<1>2. \A s, said, status : Stage(s).at = s /\ Answered(said, status).at = "answered"
  BY DEF Stage, Answered
<1>3. CASE \E r \in Req : \/ \E i \in Ip : Arrive(r, i)
                         \/ Pass(r) \/ Leave(r)
  BY <1>1, <1>2, <1>3 DEF Arrive, Pass, Leave
<1>4. CASE \E r \in Req : \/ TurnAway(r) \/ Return(r)
                         \/ \E op \in Asked, t \in Shown : Reject(r, op, t)
  <2>1. PICK r \in Req : \E said, status : Answer(r, said, status)
    BY <1>4, EndsWithAnswer
  <2> QED BY <1>1, <1>2, <2>1 DEF Answer
<1>5. ASSUME NEW r \in Req, NEW op \in Asked, NEW t \in Shown, Call(r, op, t)
      PROVE  CallersAreEntitled'
  <2>1. Entitled(op, Caller(op, t))
    BY <1>5, Entitlement, GatewayAssumption DEF Call
  <2>2. Calling(op, Caller(op, t)).op = op /\ Calling(op, Caller(op, t)).who = Caller(op, t)
    BY DEF Calling
  <2> QED BY <1>1, <1>5, <2>1, <2>2 DEF Call
<1>6. CASE UNCHANGED req
  BY <1>6
<1> QED BY <1>3, <1>4, <1>5, <1>6 DEF Next, Count, Dispatch, Enter

LEMMA AnswersStep ==
  ASSUME TypeOK, AnswersAreTrue, Next
  PROVE  AnswersAreTrue'
<1> DEFINE True(stage) == stage.at = "answered" =>
             (stage.status = 200 <=> stage.said.grpc = "OK" /\ stage.said.code = 0)
<1>1. ASSUME NEW r \in Req, NEW stage, Becomes(r, stage), True(stage)
      PROVE  AnswersAreTrue'
  BY <1>1, RequestMoves DEF AnswersAreTrue
<1>2. ASSUME NEW r \in Req, NEW said, NEW status, Answer(r, said, status),
             status = 200 <=> said.grpc = "OK" /\ said.code = 0
      PROVE  AnswersAreTrue'
  <2>1. True(Answered(said, status))
    BY <1>2 DEF Answered
  <2> HIDE DEF True
  <2> QED BY <1>1, <1>2, <2>1 DEF Answer
<1>3. \A s : s # "answered" => True(Stage(s))
  BY DEF Stage
<1>4. \A op, who : True(Calling(op, who))
  BY DEF Calling
<1> HIDE DEF True
<1>5. CASE \E r \in Req : \/ \E i \in Ip : Arrive(r, i)
                         \/ Pass(r) \/ Leave(r)
                         \/ \E op \in Asked, t \in Shown : Call(r, op, t)
  BY <1>1, <1>3, <1>4, <1>5 DEF Arrive, Pass, Leave, Call
<1>6. ASSUME NEW r \in Req, NEW status, Answer(r, Unsaid, status), status # 200
      PROVE  AnswersAreTrue'
  BY <1>2, <1>6 DEF Unsaid, Nothing
<1>7. ASSUME NEW r \in Req, TurnAway(r) PROVE AnswersAreTrue'
  BY <1>6, <1>7, StatusOfCode DEF TurnAway
<1>8. ASSUME NEW r \in Req, NEW op \in Asked, NEW t \in Shown, Reject(r, op, t)
      PROVE  AnswersAreTrue'
  BY <1>6, <1>8, RejectedStatus, GatewayAssumption DEF Reject
<1>9. ASSUME NEW r \in Req, Return(r) PROVE AnswersAreTrue'
  <2>1. req[r].op \in Op
    BY <1>9 DEF Return, TypeOK
  <2>2. PICK c \in Says : \E n \in IF c = "OK" THEN CodeOf(req[r].op) ELSE {0} :
          LET said == [grpc |-> c, code |-> n] IN Answer(r, said, Respond(req[r].op, said))
    BY <1>9 DEF Return
  <2>3. PICK n \in IF c = "OK" THEN CodeOf(req[r].op) ELSE {0} :
          LET said == [grpc |-> c, code |-> n] IN Answer(r, said, Respond(req[r].op, said))
    BY <2>2
  <2> QED BY <1>2, <2>1, <2>3, ReturnedAnswer
<1>10. CASE UNCHANGED req
  BY <1>10 DEF AnswersAreTrue
<1> QED BY <1>5, <1>7, <1>8, <1>9, <1>10 DEF Next, Count, Dispatch, Enter

-----------------------------------------------------------------------------
(* Buckets *)

\* How the buckets and hands may change: by nothing, by a bucket that is found, by one
\* that is made of an unused one, by an empty hand, or by a removal.
LEMMA SeparateStep ==
  ASSUME TypeOK, Separate, HandsEmpty, Next
  PROVE  Separate'
<1> USE RateLimitAssumption DEF Separate
<1>1. /\ hand \in [Req -> Bucket \cup {NoBucket}] /\ req \in [Req -> Record]
      /\ table \in [Ip -> Bucket \cup {NoBucket}] /\ client \in [Req -> Ip]
  BY DEF TypeOK, RateLimitOK, Record
<1>2. ASSUME UNCHANGED <<table, hand, client>> PROVE Separate'
  BY <1>2
<1>3. ASSUME NEW r \in Req, hand' = [hand EXCEPT ![r] = NoBucket], UNCHANGED <<table, client>>
      PROVE  Separate'
  BY <1>1, <1>3
<1>4. ASSUME NEW r \in Req, NEW i \in Ip, Arrive(r, i) PROVE Separate'
  <2>1. hand[r] = NoBucket
    BY <1>4 DEF Arrive, HandsEmpty
  <2>2. client' = [client EXCEPT ![r] = i] /\ UNCHANGED <<table, hand>>
    BY <1>4 DEF Arrive
  <2> QED BY <1>1, <2>1, <2>2
<1>5. ASSUME NEW r \in Req, Enter(r), FindBucket(r) PROVE Separate'
  <2>1. /\ hand' = [hand EXCEPT ![r] = table[client[r]]] /\ UNCHANGED <<table, client>>
        /\ table[client[r]] # NoBucket
    BY <1>5 DEF Enter, GetBucket, FindBucket
  <2> QED BY <1>1, <2>1
<1>6. ASSUME NEW r \in Req, Enter(r), MakeBucket(r) PROVE Separate'
  <2>1. PICK b \in Bucket : /\ Unused(b)
                            /\ hand' = [hand EXCEPT ![r] = b]
                            /\ table' = [table EXCEPT ![client[r]] = b]
    BY <1>6 DEF MakeBucket
  <2>2. client' = client
    BY <1>6 DEF Enter, GetBucket
  <2> QED BY <1>1, <2>1, <2>2 DEF Unused
<1>7. ASSUME NEW r \in Req, Release(r) PROVE Separate'
  BY <1>3, <1>7 DEF Release
<1>8. ASSUME NEW r \in Req, Count(r) PROVE Separate'
  BY <1>2, <1>3, <1>8 DEF Count, Pass, TurnAway, Admit, Refuse
<1>9. ASSUME NEW i \in Ip, Remove(i) PROVE Separate'
  BY <1>1, <1>9 DEF Remove
<1>10. ASSUME UNCHANGED limits PROVE Separate'
  BY <1>2, <1>10 DEF limits
<1>11. ASSUME Wake \/ Sleep \/ TimePasses \/ \E i \in Ip : Look(i) PROVE Separate'
  BY <1>2, <1>11 DEF Wake, Sleep, Look, TimePasses, Refill, FallsIdle
<1> HIDE DEF Separate
<1> QED
  BY <1>4, <1>5, <1>6, <1>7, <1>8, <1>9, <1>10, <1>11
  DEF Next, Dispatch, Reject, Call, Return, Leave, Sweep, Enter, GetBucket

LEMMA SweepStep ==
  ASSUME TypeOK, SweepOK, Next
  PROVE  SweepOK'
<1> USE DEF SweepOK
<1>1. table \in [Ip -> Bucket \cup {NoBucket}] /\ NoBucket \notin Bucket
      /\ client \in [Req -> Ip]
  BY RateLimitAssumption DEF TypeOK, RateLimitOK
<1>2. ASSUME UNCHANGED <<table, sweeping, todo, doomed>> PROVE SweepOK'
  BY <1>2
<1>3. ASSUME NEW r \in Req, GetBucket(r) PROVE SweepOK'
  <2>1. todo = {} /\ doomed = {} /\ UNCHANGED <<sweeping, todo, doomed>>
    BY <1>3 DEF GetBucket
  <2> QED BY <2>1
<1>4. ASSUME Wake PROVE SweepOK'
  <2>1. doomed = {}
    BY <1>4 DEF Wake
  <2> QED BY <1>4, <2>1 DEF Wake
<1>5. ASSUME NEW i \in Ip, Look(i) PROVE SweepOK'
  <2>1. sweeping
    BY <1>5 DEF Look
  <2>2. doomed' = {} \/ doomed' = {i}
    BY <1>5 DEF Look
  <2> QED BY <1>5, <2>1, <2>2 DEF Look
<1>6. ASSUME NEW i \in Ip, Remove(i) PROVE SweepOK'
  BY <1>1, <1>6 DEF Remove
<1>7. ASSUME Sleep PROVE SweepOK'
  BY <1>7 DEF Sleep
<1>8. ASSUME NEW r \in Req, Release(r) PROVE SweepOK'
  BY <1>2, <1>8 DEF Release
<1>9. ASSUME NEW r \in Req, Count(r) PROVE SweepOK'
  BY <1>2, <1>9 DEF Count, Pass, TurnAway, Admit, Refuse
<1>10. ASSUME TimePasses PROVE SweepOK'
  BY <1>2, <1>10 DEF TimePasses, Refill, FallsIdle
<1>11. ASSUME UNCHANGED limits PROVE SweepOK'
  BY <1>2, <1>11 DEF limits
<1>12. ASSUME NEW r \in Req, NEW i \in Ip, Arrive(r, i) PROVE SweepOK'
  BY <1>2, <1>12 DEF Arrive
<1> HIDE DEF SweepOK
<1> QED
  BY <1>3, <1>4, <1>5, <1>6, <1>7, <1>8, <1>9, <1>10, <1>11, <1>12
  DEF Next, Dispatch, Reject, Call, Return, Leave, Sweep, Enter

\* What Balanced asks of an address.
Even(i) == Shared(i) /\ Balance(i) /\ Forgotten(i)

LEMMA BalancedStep ==
  ASSUME TypeOK, Separate, HandsEmpty, SweepOK, Balanced, Next
  PROVE  Balanced'
<1> USE RateLimitAssumption
<1>1. /\ hand \in [Req -> Bucket \cup {NoBucket}] /\ req \in [Req -> Record]
      /\ table \in [Ip -> Bucket \cup {NoBucket}] /\ client \in [Req -> Ip]
      /\ tokens \in [Bucket -> 0..Burst] /\ meter \in [Ip -> Nat]
      /\ idle \subseteq Bucket /\ doomed \subseteq Ip
  BY DEF TypeOK, RateLimitOK, Record
<1>2. \A i \in Ip \ overtaken : Even(i)
  BY DEF Balanced, Even
<1>3. ASSUME \A i \in Ip \ overtaken' : Even(i)' PROVE Balanced'
  BY <1>3 DEF Balanced, Even
<1> DEFINE kept == <<table, tokens, idle, doomed, meter, overtaken>>
<1>4. ASSUME UNCHANGED <<kept, hand, client>> PROVE Balanced'
  BY <1>4 DEF Balanced, Shared, Balance, Forgotten
<1>5. ASSUME NEW r \in Req, hand' = [hand EXCEPT ![r] = NoBucket],
             idle' \subseteq idle, UNCHANGED <<table, tokens, doomed, meter, overtaken, client>>
      PROVE  Balanced'
  <2> SUFFICES ASSUME NEW i \in Ip \ overtaken' PROVE Even(i)'
    BY <1>3
  <2>1. Even(i)
    BY <1>2, <1>5
  <2>2. Shared(i)'
    BY <1>1, <1>5, <2>1 DEF Even, Shared
  <2>3. Balance(i)'
    BY <1>5, <2>1 DEF Even, Balance
  <2>4. Forgotten(i)'
    BY <1>1, <1>5, <2>1 DEF Even, Forgotten
  <2> QED BY <2>2, <2>3, <2>4 DEF Even
<1>6. ASSUME NEW r \in Req, NEW a \in Ip, Arrive(r, a) PROVE Balanced'
  <2> SUFFICES ASSUME NEW i \in Ip \ overtaken' PROVE Even(i)'
    BY <1>3
  <2>1. /\ client' = [client EXCEPT ![r] = a] /\ UNCHANGED <<kept, hand>>
        /\ hand[r] = NoBucket
    BY <1>6 DEF Arrive, HandsEmpty
  <2>2. Even(i)
    BY <1>2, <2>1
  <2>3. Shared(i)' /\ Forgotten(i)'
    BY <1>1, <2>1, <2>2 DEF Even, Shared, Forgotten
  <2>4. Balance(i)'
    BY <2>1, <2>2 DEF Even, Balance
  <2> QED BY <2>3, <2>4 DEF Even
<1>7. ASSUME NEW r \in Req, Enter(r), FindBucket(r) PROVE Balanced'
  <2> SUFFICES ASSUME NEW i \in Ip \ overtaken' PROVE Even(i)'
    BY <1>3
  <2>1. /\ hand' = [hand EXCEPT ![r] = table[client[r]]] /\ UNCHANGED <<kept, client>>
    BY <1>7 DEF Enter, GetBucket, FindBucket
  <2>2. ~sweeping
    BY <1>7 DEF Enter, GetBucket
  <2>3. doomed = {}
    BY <2>2 DEF SweepOK
  <2>4. Even(i)
    BY <1>2, <2>1
  <2>5. Shared(i)' /\ Forgotten(i)'
    BY <1>1, <2>1, <2>3, <2>4 DEF Even, Shared, Forgotten
  <2>6. Balance(i)'
    BY <2>1, <2>4 DEF Even, Balance
  <2> QED BY <2>5, <2>6 DEF Even
<1>8. ASSUME NEW r \in Req, Enter(r), MakeBucket(r) PROVE Balanced'
  <2> SUFFICES ASSUME NEW i \in Ip \ overtaken' PROVE Even(i)'
    BY <1>3
  <2>1. PICK b \in Bucket : /\ Unused(b)
                            /\ hand' = [hand EXCEPT ![r] = b]
                            /\ table' = [table EXCEPT ![client[r]] = b]
                            /\ tokens' = [tokens EXCEPT ![b] = Burst]
                            /\ idle' = idle \ {b}
    BY <1>8 DEF MakeBucket
  <2>2. /\ table[client[r]] = NoBucket
        /\ UNCHANGED <<client, doomed, meter, overtaken>>
    BY <1>8 DEF Enter, GetBucket, MakeBucket
  <2>3. ~sweeping
    BY <1>8 DEF Enter, GetBucket
  <2>4. doomed = {}
    BY <2>3 DEF SweepOK
  <2>5. Even(i)
    BY <1>2, <2>2
  <2>6. Shared(i)'
    BY <1>1, <2>1, <2>2, <2>5 DEF Even, Shared
  <2>7. Balance(i)'
    <3>1. CASE i = client[r]
      BY <1>1, <2>1, <2>2, <2>5, <3>1 DEF Even, Balance
    <3>2. CASE i # client[r]
      BY <1>1, <2>1, <2>2, <2>5, <3>2 DEF Even, Balance, Unused
    <3> QED BY <3>1, <3>2
  <2>8. Forgotten(i)'
    BY <2>2, <2>4 DEF Forgotten
  <2> QED BY <2>6, <2>7, <2>8 DEF Even
<1>9. ASSUME NEW r \in Req, Pass(r) PROVE Balanced'
  <2> SUFFICES ASSUME NEW i \in Ip \ overtaken' PROVE Even(i)'
    BY <1>3
  <2> DEFINE b == hand[r]
             a == client[r]
  <2>1. /\ b \in Bucket /\ tokens[b] >= 1
        /\ idle' = idle \ {b}
        /\ tokens' = [tokens EXCEPT ![b] = @ - 1]
        /\ meter' = [meter EXCEPT ![a] = @ + 1]
        /\ UNCHANGED <<table, doomed, hand, client, overtaken>>
    BY <1>1, <1>9 DEF Pass, Admit, Locks
  <2>2. Even(i) /\ a \in Ip
    BY <1>1, <1>2, <2>1
  <2>3. Shared(i)'
    BY <2>1, <2>2 DEF Even, Shared
  <2>4. CASE i = a
    <3>1. table[i] = b
      BY <1>1, <2>1, <2>2, <2>4 DEF Even, Shared
    <3>2. i \notin doomed
      BY <2>1, <2>2, <2>4 DEF Even, Forgotten
    <3>3. Balance(i)'
      BY <1>1, <2>1, <2>2, <2>4, <3>1 DEF Even, Balance
    <3> QED BY <2>1, <2>3, <3>2, <3>3 DEF Even, Forgotten
  <2>5. CASE i # a
    <3>1. table[i] # b
      BY <2>1, <2>5 DEF Separate
    <3>2. Balance(i)'
      BY <1>1, <2>1, <2>2, <2>5, <3>1 DEF Even, Balance
    <3>3. Forgotten(i)'
      BY <1>1, <2>1, <2>2, <2>5 DEF Even, Forgotten
    <3> QED BY <2>3, <3>2, <3>3 DEF Even
  <2> QED BY <2>4, <2>5
<1>10. ASSUME NEW r \in Req, TurnAway(r) PROVE Balanced'
  <2>1. hand' = [hand EXCEPT ![r] = NoBucket]
        /\ UNCHANGED <<table, tokens, doomed, meter, overtaken, client>>
    BY <1>10 DEF TurnAway, Refuse
  <2>2. idle' \subseteq idle
    BY <1>10 DEF TurnAway, Refuse, Locks
  <2> QED BY <1>5, <2>1, <2>2
<1>11. ASSUME NEW r \in Req, Release(r) PROVE Balanced'
  BY <1>5, <1>11 DEF Release
<1>12. ASSUME UNCHANGED limits PROVE Balanced'
  BY <1>4, <1>12 DEF limits
<1>13. ASSUME Wake \/ Sleep PROVE Balanced'
  BY <1>4, <1>13 DEF Wake, Sleep
<1>14. ASSUME NEW a \in Ip, Look(a) PROVE Balanced'
  <2>0. CASE table[a] \notin idle
    BY <1>4, <1>14, <2>0 DEF Look
  <2> SUFFICES ASSUME NEW i \in Ip \ overtaken', table[a] \in idle PROVE Even(i)'
    BY <1>3, <2>0
  <2>1. /\ doomed' = {a}
        /\ overtaken' = overtaken \cup {j \in {a} : \E r \in Req : hand[r] = table[a]}
        /\ UNCHANGED <<table, tokens, idle, meter, hand, client>>
        /\ table[a] # NoBucket
    BY <1>14 DEF Look, SweepOK
  <2>2. Even(i)
    BY <1>2, <2>1
  <2>3. Shared(i)' /\ Balance(i)'
    BY <2>1, <2>2 DEF Even, Shared, Balance
  <2>4. ASSUME i = a PROVE meter[i] = 0 /\ \A r \in Req : client[r] = i => hand[r] = NoBucket
    <3>1. \A r \in Req : hand[r] # table[i]
      BY <2>1, <2>4
    <3>2. meter[i] = 0
      BY <2>1, <2>2, <2>4 DEF Even, Balance
    <3> QED BY <2>2, <3>1, <3>2 DEF Even, Shared
  <2>5. Forgotten(i)'
    BY <2>1, <2>4 DEF Forgotten
  <2> QED BY <2>3, <2>5 DEF Even
<1>15. ASSUME NEW a \in Ip, Remove(a) PROVE Balanced'
  <2> SUFFICES ASSUME NEW i \in Ip \ overtaken' PROVE Even(i)'
    BY <1>3
  <2>1. /\ a \in doomed /\ doomed' = {}
        /\ table' = [table EXCEPT ![a] = NoBucket]
        /\ UNCHANGED <<tokens, idle, meter, hand, client, overtaken>>
    BY <1>15 DEF Remove
  <2>2. Even(i)
    BY <1>2, <2>1
  <2>3. Shared(i)'
    BY <1>1, <2>1, <2>2 DEF Even, Shared, Forgotten
  <2>4. Balance(i)'
    BY <1>1, <2>1, <2>2 DEF Even, Balance, Forgotten
  <2>5. Forgotten(i)'
    BY <2>1 DEF Forgotten
  <2> QED BY <2>3, <2>4, <2>5 DEF Even
<1>16. ASSUME NEW a \in Ip, Refill(a) PROVE Balanced'
  <2> SUFFICES ASSUME NEW i \in Ip \ overtaken' PROVE Even(i)'
    BY <1>3
  <2>1. /\ meter[a] > 0
        /\ meter' = [meter EXCEPT ![a] = @ - 1]
        /\ UNCHANGED <<table, idle, doomed, hand, client, overtaken>>
    BY <1>16 DEF Refill
  <2>2. tokens' = [b \in Bucket |-> IF b \in BucketsOf(a) /\ tokens[b] < Burst
                                    THEN tokens[b] + 1 ELSE tokens[b]]
    BY <1>16 DEF Refill
  <2>3. Even(i)
    BY <1>2, <2>1
  <2>4. Shared(i)'
    BY <2>1, <2>3 DEF Even, Shared
  <2>5. CASE i = a
    <3>1. Balance(i)'
      BY <1>1, <2>1, <2>2, <2>3, <2>5 DEF Even, Balance
    <3>2. i \notin doomed
      BY <2>1, <2>3, <2>5 DEF Even, Forgotten
    <3> QED BY <2>1, <2>4, <3>1, <3>2 DEF Even, Forgotten
  <2>6. CASE i # a
    <3>1. table[i] # NoBucket => table[i] \notin BucketsOf(a)
      BY <2>6 DEF Separate, BucketsOf
    <3>2. table[i] # NoBucket => tokens'[table[i]] = tokens[table[i]]
      BY <1>1, <2>2, <3>1
    <3>3. meter'[i] = meter[i]
      BY <1>1, <2>1, <2>6
    <3>4. Balance(i)'
      BY <2>1, <2>3, <3>2, <3>3 DEF Even, Balance
    <3>5. Forgotten(i)'
      BY <2>1, <2>3, <3>3 DEF Even, Forgotten
    <3> QED BY <2>4, <3>4, <3>5 DEF Even
  <2> QED BY <2>5, <2>6
<1>17. ASSUME NEW a \in Ip, FallsIdle(a) PROVE Balanced'
  <2> SUFFICES ASSUME NEW i \in Ip \ overtaken' PROVE Even(i)'
    BY <1>3
  <2>1. /\ table[a] # NoBucket
        /\ \A r \in Req : client[r] = a => hand[r] = NoBucket
        /\ tokens' = [tokens EXCEPT ![table[a]] = Burst]
        /\ idle' = idle \cup {table[a]}
        /\ meter' = [meter EXCEPT ![a] = 0]
        /\ overtaken' = overtaken \ {a}
        /\ UNCHANGED <<table, doomed, hand, client>>
    BY <1>17 DEF FallsIdle
  <2>2. ~sweeping
    BY <1>17 DEF FallsIdle
  <2>3. doomed' = {}
    BY <2>1, <2>2 DEF SweepOK
  <2>4. Forgotten(i)'
    BY <2>3 DEF Forgotten
  <2>5. CASE i = a
    <3>1. Shared(i)' /\ Balance(i)'
      BY <1>1, <2>1, <2>5 DEF Shared, Balance
    <3> QED BY <2>4, <3>1 DEF Even
  <2>6. CASE i # a
    <3>1. Even(i)
      BY <1>2, <2>1, <2>6
    <3>2. table[i] # NoBucket => table[i] # table[a]
      BY <2>6 DEF Separate
    <3>3. Shared(i)'
      BY <2>1, <3>1 DEF Even, Shared
    <3>4. Balance(i)'
      BY <1>1, <2>1, <2>6, <3>1, <3>2 DEF Even, Balance
    <3> QED BY <2>4, <3>3, <3>4 DEF Even
  <2> QED BY <2>5, <2>6
<1> QED
  BY <1>6, <1>7, <1>8, <1>9, <1>10, <1>11, <1>12, <1>13, <1>14, <1>15, <1>16, <1>17
  DEF Next, Count, Dispatch, Reject, Call, Return, Leave, Sweep, TimePasses, Enter, GetBucket

-----------------------------------------------------------------------------
(* The inductive invariant *)

LEMMA Initially ==
  ASSUME Init
  PROVE  IInv
<1> USE RateLimitAssumption DEF Init, InitRateLimit
<1>1. RateLimitOK
  <2>1. sweeping \in BOOLEAN
    OBVIOUS
  <2>2. /\ tokens \in [Bucket -> 0..Burst] /\ meter \in [Ip -> Nat]
        /\ idle \subseteq Bucket /\ todo \subseteq Ip /\ doomed \subseteq Ip
        /\ overtaken \subseteq Ip
    OBVIOUS
  <2>3. /\ table \in [Ip -> Bucket \cup {NoBucket}]
        /\ hand \in [Req -> Bucket \cup {NoBucket}]
        /\ holder \in [Bucket -> Req \cup {Nobody}]
        /\ client \in [Req -> Ip]
    OBVIOUS
  <2> QED BY <2>1, <2>2, <2>3 DEF RateLimitOK
<1>2. \A r \in Req : req[r] = Stage("gone") /\ req[r].at = "gone"
  BY DEF Stage
<1>3. req \in [Req -> Record]
  BY StageIsRecord DEF At
<1>4. TypeOK
  BY <1>1, <1>2, <1>3 DEF TypeOK, Record
<1>5. Separate /\ HandsEmpty /\ SweepOK
  BY DEF Separate, HandsEmpty, SweepOK
<1>6. HandsFull /\ CallersAreEntitled /\ AnswersAreTrue
  BY <1>2 DEF HandsFull, CallersAreEntitled, AnswersAreTrue
<1>7. Balanced
  BY DEF Balanced, Shared, Balance, Forgotten
<1> QED BY <1>4, <1>5, <1>6, <1>7 DEF IInv

LEMMA Stuttering ==
  ASSUME IInv, UNCHANGED vars
  PROVE  IInv'
BY DEF IInv, vars, limits, TypeOK, RateLimitOK, Separate, HandsEmpty, HandsFull, SweepOK,
   Balanced, Shared, Balance, Forgotten, CallersAreEntitled, AnswersAreTrue

\* The inductive invariant of the gateway: nothing in it depends on how many requests
\* and addresses there are, or on which operations are asked for.
THEOREM Invariance == Spec => []IInv
<1>1. Init => IInv
  BY Initially
<1>2. IInv /\ [Next]_vars => IInv'
  BY Stuttering, TypeStep, SeparateStep, HandsStep, SweepStep, BalancedStep, CallersStep,
     AnswersStep DEF IInv
<1> QED BY <1>1, <1>2, PTL DEF Spec

\* Every variable has its type, a status is a number whatever a service says, and a
\* call always carries its operation.
THEOREM TypeCorrect == Spec => []TypeOK
<1>1. IInv => TypeOK
  BY DEF IInv
<1> QED BY <1>1, Invariance, PTL

\* The burst is kept by RateLimit's buckets in the face of cleanupStaleBuckets, but
\* for a request the sweep overtook between getBucket and Lock.
THEOREM BurstIsAlwaysKept == Spec => []BurstIsKept
<1>1. IInv => BurstIsKept
  <2> SUFFICES ASSUME IInv, NEW i \in Ip, i \notin overtaken PROVE ~(meter[i] > Burst)
    BY DEF BurstIsKept
  <2>1. /\ meter[i] \in Nat /\ Burst \in Nat
        /\ table[i] \in Bucket \cup {NoBucket}
        /\ tokens \in [Bucket -> 0..Burst]
    BY RateLimitAssumption DEF IInv, TypeOK, RateLimitOK
  <2>2. Balance(i)
    BY DEF IInv, Balanced
  <2> QED BY <2>1, <2>2 DEF Balance
<1> QED BY <1>1, Invariance, PTL

\* Whatever the token, the middleware and authCtxWithIDs of the handlers let through
\* only calls their callers are entitled to.
THEOREM CallersAreAlwaysEntitled == Spec => []CallersAreEntitled
<1>1. IInv => CallersAreEntitled
  BY DEF IInv
<1> QED BY <1>1, Invariance, PTL

\* Whatever a service says, in an error or inside an answer, FromGRPC, HTTPStatus and
\* the handlers answer 200 exactly when it said that it succeeded.
THEOREM AnswersAreAlwaysTrue == Spec => []AnswersAreTrue
<1>1. IInv => AnswersAreTrue
  BY DEF IInv
<1> QED BY <1>1, Invariance, PTL

-----------------------------------------------------------------------------
(* Discovery: where the calls of the gateway go                            *)

\* A process keeps its port from Listen to its end, unless it is one of
\* ai-moderation, whose server stops first: between the signal and the last step of
\* its cleanup nobody else has registered at the address.
PortIsHeld ==
  main # "ai-moderation" => \A p \in Proc : at[p] # "down" => port = p

DiscoveryIInv == DiscoveryTypeOK /\ PortIsHeld

LEMMA DiscoveryInitial == DiscoveryInit => DiscoveryIInv
  BY DEF DiscoveryInit, DiscoveryIInv, DiscoveryTypeOK, Phase, PortIsHeld

\* A process comes to its end, and its port and its lease with it.
LEMMA EndsKeeps ==
  ASSUME DiscoveryIInv, NEW p \in Proc, Ends(p), main' = main
  PROVE  /\ PortIsHeld'
         /\ at' \in [Proc -> Phase]
         /\ port' \in Proc \cup {NoProc}
         /\ lease' \in [Proc -> Lease \cup {NoLease}]
  BY DEF DiscoveryIInv, DiscoveryTypeOK, Phase, PortIsHeld, Ends, Goes

\* A process goes on to another phase and holds on to its port.
LEMMA GoesKeeps ==
  ASSUME DiscoveryIInv, NEW p \in Proc, NEW phase \in Phase, Goes(p, phase),
         at[p] # "down", UNCHANGED <<main, port>>
  PROVE  /\ PortIsHeld'
         /\ at' \in [Proc -> Phase]
  BY DEF DiscoveryIInv, DiscoveryTypeOK, PortIsHeld, Goes

LEMMA StartingKeeps ==
  ASSUME DiscoveryIInv, NEW p \in Proc,
         Listen(p) \/ Grant(p) \/ AddEndpoint(p) \/ RegisterFails(p)
  PROVE  DiscoveryIInv'
  <1>. USE DEF DiscoveryIInv, DiscoveryTypeOK
  <1>. {"bound", "granted", "serving", "unlisted"} \subseteq Phase
    BY DEF Phase
  <1>1. CASE Listen(p)
    BY <1>1, DiscoveryAssumption DEF Listen, Goes, PortIsHeld
  <1>2. CASE Grant(p)
    BY <1>2, GoesKeeps DEF Grant
  <1>3. CASE AddEndpoint(p)
    BY <1>3, GoesKeeps DEF AddEndpoint
  <1>4. CASE RegisterFails(p)
    <2>1. key' \in alive \cup {NoLease}
      BY <1>4 DEF RegisterFails
    <2>2. CASE Ends(p)
      BY <1>4, <2>1, <2>2, EndsKeeps DEF RegisterFails
    <2>3. CASE Goes(p, "unlisted") /\ UNCHANGED <<port, lease>>
      BY <1>4, <2>1, <2>3, GoesKeeps DEF RegisterFails
    <2>. QED BY <1>4, <2>2, <2>3 DEF RegisterFails
  <1>. QED BY <1>1, <1>2, <1>3, <1>4

LEMMA StoppingKeeps ==
  ASSUME DiscoveryIInv, NEW p \in Proc,
         \/ Stop(p) \/ StopUnlisted(p) \/ DeleteEndpoint(p) \/ Revoke(p)
         \/ Exit(p) \/ Crash(p)
  PROVE  DiscoveryIInv'
  <1>. USE DEF DiscoveryIInv, DiscoveryTypeOK
  <1>. {"leaving", "deleted", "revoked"} \subseteq Phase
    BY DEF Phase
  <1>1. CASE Stop(p)
    BY <1>1 DEF Stop, Goes, PortIsHeld
  <1>2. CASE StopUnlisted(p) \/ Exit(p) \/ Crash(p)
    BY <1>2, EndsKeeps DEF StopUnlisted, Exit, Crash
  <1>3. CASE DeleteEndpoint(p)
    BY <1>3, GoesKeeps DEF DeleteEndpoint
  <1>4. CASE Revoke(p)
    BY <1>4, GoesKeeps DEF Revoke
  <1>. QED BY <1>1, <1>2, <1>3, <1>4

LEMMA EtcdKeeps ==
  ASSUME DiscoveryIInv,
         LateDelete \/ Watch \/ (\E l \in Lease : Expire(l)) \/ UNCHANGED discoveryVars
  PROVE  DiscoveryIInv'
  BY DEF DiscoveryIInv, DiscoveryTypeOK, PortIsHeld, LateDelete, Watch, Resolved, Expire,
         discoveryVars

LEMMA DiscoveryStep == DiscoveryIInv /\ [DiscoveryNext]_discoveryVars => DiscoveryIInv'
  BY StartingKeeps, StoppingKeeps, EtcdKeeps DEF DiscoveryNext

\* No step takes the key of a serving process away but those that may.
LEMMA ListedStep ==
  ASSUME DiscoveryIInv, [DiscoveryNext]_discoveryVars,
         NEW p \in Proc, at[p] = "serving", at'[p] = "serving",
         key = lease[p], lease[p] \in alive',
         main # "ai-moderation", ~(late /\ ~late')
  PROVE  key' = key
  <1>1. port = p /\ \A q \in Proc : at[q] # "down" => q = p
    BY DEF DiscoveryIInv, PortIsHeld
  <1>2. ASSUME NEW q \in Proc,
               \/ AddEndpoint(q) \/ RegisterFails(q) \/ DeleteEndpoint(q) \/ Revoke(q)
        PROVE  FALSE
    BY <1>1, <1>2 DEF AddEndpoint, RegisterFails, DeleteEndpoint, Revoke
  <1>3. ASSUME NEW q \in Proc,
               \/ Listen(q) \/ Grant(q) \/ Stop(q) \/ StopUnlisted(q) \/ Exit(q) \/ Crash(q)
        PROVE  key' = key
    BY <1>3 DEF Listen, Grant, Stop, StopUnlisted, Exit, Crash
  <1>4. ASSUME NEW l \in Lease, Expire(l)
        PROVE  key' = key
    BY <1>4 DEF Expire
  <1>5. CASE LateDelete \/ Watch \/ UNCHANGED discoveryVars
    BY <1>5 DEF LateDelete, Watch, discoveryVars
  <1>. QED BY <1>2, <1>3, <1>4, <1>5 DEF DiscoveryNext

THEOREM DiscoveryInvariance == DiscoverySpec => []DiscoveryIInv
  BY DiscoveryInitial, DiscoveryStep, PTL DEF DiscoverySpec

\* Leases, keys, ports and processes keep their types: the endpoint in etcd is never
\* attached to a lease that is over.
THEOREM DiscoveryTypeCorrect == DiscoverySpec => []DiscoveryTypeOK
  <1>1. DiscoveryIInv => DiscoveryTypeOK
    BY DEF DiscoveryIInv
  <1>. QED BY <1>1, DiscoveryInvariance, PTL

\* However many processes come and go at an address, the cleanup of none of them takes
\* the key of one that serves there away, although DeleteEndpoint deletes by address
\* (register.go): a server stops after its cleanup, and only then is the port free.
THEOREM ServersStayListed == DiscoverySpec => StaysListed
  <1>. DEFINE A == \A p \in Proc :
                     /\ at[p] = "serving" /\ at'[p] = "serving"
                     /\ key = lease[p] /\ lease[p] \in alive'
                     => key' = key \/ main = "ai-moderation" \/ (late /\ ~late')
  <1>1. DiscoveryIInv /\ [DiscoveryNext]_discoveryVars => [A]_discoveryVars
    BY ListedStep
  <1>. QED BY <1>1, DiscoveryInvariance, PTL DEF DiscoverySpec, StaysListed
=============================================================================
