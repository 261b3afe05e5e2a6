---------------------------- MODULE FilesProofs -----------------------------
(***************************************************************************)
(* Proofs about Files, for any number of contents, students, categories    *)
(* and concurrent uploads, and any clock.                                  *)
(***************************************************************************)
EXTENDS Files, TLAPS

\* Whoever may still be answered with a key finds its object there: the row that an
\* upload deduplicates to, and the upload that is about to write its row.
KeysHaveObjects ==
  /\ \A x \in Content : row[x] # NoRow => row[x].key \in objects
  /\ \A c \in Call : call[c].stage = "create" => call[c].key \in objects

IInv == TypeOK /\ KeysHaveObjects /\ AnsweredUrlServes

-----------------------------------------------------------------------------

LEMMA Initial == Init => IInv
  <1>. SUFFICES ASSUME Init PROVE IInv
    OBVIOUS
  <1>1. minio \in BOOLEAN /\ month \in 0..MaxMonth
    BY FilesAssumption DEF Init, FilesAssumption
  <1>2. TypeOK
    BY <1>1 DEF Init, TypeOK
  <1>3. KeysHaveObjects /\ AnsweredUrlServes
    BY DEF Init, KeysHaveObjects, AnsweredUrlServes, NoRow, Idle
  <1>. QED BY <1>2, <1>3 DEF IInv

\* A call in a stage is a record of that stage.
LEMMA StageOfCall ==
  ASSUME TypeOK, NEW c \in Call
  PROVE  /\ call[c].stage = "put" => call[c] \in Uploading
         /\ call[c].stage = "create" => call[c] \in Creating
  <1>1. call[c] \in Uploading \cup Creating \cup {Idle}
    BY DEF TypeOK
  <1>. QED BY <1>1 DEF Uploading, Creating, Idle

LEMMA LiveRow ==
  ASSUME TypeOK, NEW x \in Content, Live(x)
  PROVE  row[x] # NoRow /\ row[x] \in Row
  BY DEF TypeOK, Live, NoRow, Row

\* A student is answered with a key that has its object.
LEMMA AnswerKeeps ==
  ASSUME AnsweredUrlServes, promised \subseteq Promise,
         NEW u \in User, NEW x \in Content, NEW key \in Key, key \in objects,
         Answer(u, x, key), objects' = objects
  PROVE  AnsweredUrlServes' /\ promised' \subseteq Promise
  <1>. DEFINE p == [user |-> u, content |-> x, key |-> key]
  <1>1. p \in Promise /\ p.key = key
    BY DEF Promise
  <1>2. promised' = promised \cup {p}
    BY DEF Answer
  <1>. HIDE DEF p
  <1>. QED BY <1>1, <1>2 DEF AnsweredUrlServes

LEMMA DeduplicatedKeeps ==
  ASSUME IInv, NEW u \in User, NEW x \in Content, UploadDeduplicated(u, x)
  PROVE  IInv'
  <1>1. row[x] # NoRow /\ row[x] \in Row
    BY LiveRow DEF IInv, UploadDeduplicated
  <1>2. row[x].key \in Key /\ row[x].key \in objects
    BY <1>1 DEF IInv, KeysHaveObjects, Row
  <1>3. AnsweredUrlServes' /\ promised' \subseteq Promise
    BY <1>2, AnswerKeeps DEF IInv, TypeOK, UploadDeduplicated
  <1>4. TypeOK' /\ KeysHaveObjects'
    BY <1>3 DEF IInv, TypeOK, KeysHaveObjects, UploadDeduplicated
  <1>. QED BY <1>3, <1>4 DEF IInv

LEMMA GetKeeps ==
  ASSUME IInv, NEW u \in User, NEW x \in Content, GetFile(u, x)
  PROVE  IInv'
  <1>1. row[x] # NoRow /\ row[x] \in Row
    BY LiveRow DEF IInv, GetFile
  <1>2. row[x].key \in Key /\ row[x].key \in objects
    BY <1>1 DEF IInv, KeysHaveObjects, Row
  <1>3. AnsweredUrlServes' /\ promised' \subseteq Promise
    BY <1>2, AnswerKeeps DEF IInv, TypeOK, GetFile
  <1>4. TypeOK' /\ KeysHaveObjects'
    BY <1>3 DEF IInv, TypeOK, KeysHaveObjects, GetFile
  <1>. QED BY <1>3, <1>4 DEF IInv

LEMMA BeginsKeeps ==
  ASSUME IInv, NEW c \in Call, NEW u \in User, NEW x \in Content, NEW k \in Category,
         UploadBegins(c, u, x, k)
  PROVE  IInv'
  <1>. DEFINE r == [stage |-> "put", user |-> u, content |-> x, category |-> k]
  <1>1. r \in Uploading /\ r.stage # "create"
    BY DEF Uploading
  <1>2. call' = [call EXCEPT ![c] = r]
    BY DEF UploadBegins
  <1>. HIDE DEF r
  <1>3. TypeOK' /\ KeysHaveObjects'
    BY <1>1, <1>2 DEF IInv, TypeOK, KeysHaveObjects, UploadBegins
  <1>. QED BY <1>3 DEF IInv, AnsweredUrlServes, UploadBegins

LEMMA UploadKeeps ==
  ASSUME IInv, NEW c \in Call, UploadObject(c)
  PROVE  IInv'
  <1>. DEFINE key == StorageKey(call[c])
              r   == [stage |-> "create", user |-> call[c].user,
                      content |-> call[c].content, key |-> key]
  <1>1. call[c] \in Uploading
    BY StageOfCall DEF IInv, UploadObject
  <1>2. key \in Key
    BY <1>1 DEF IInv, TypeOK, Uploading, StorageKey, Key
  <1>3. r \in Creating /\ r.key = key
    BY <1>1, <1>2 DEF Uploading, Creating
  <1>4. call' = [call EXCEPT ![c] = r] /\ objects' = objects \cup {key}
    BY DEF UploadObject
  <1>. HIDE DEF key, r
  <1>5. TypeOK' /\ KeysHaveObjects'
    BY <1>2, <1>3, <1>4 DEF IInv, TypeOK, KeysHaveObjects, UploadObject
  <1>. QED BY <1>4, <1>5 DEF IInv, AnsweredUrlServes, UploadObject

\* An upload ends without a row: UploadObjectFails, CreateFails.
LEMMA EndKeeps ==
  ASSUME IInv, NEW c \in Call, call' = [call EXCEPT ![c] = Idle],
         UNCHANGED <<month, row, objects, minio, promised>>
  PROVE  IInv'
  <1>1. TypeOK' /\ KeysHaveObjects'
    BY DEF IInv, TypeOK, KeysHaveObjects, Idle
  <1>. QED BY <1>1 DEF IInv, AnsweredUrlServes

LEMMA CreateKeeps ==
  ASSUME IInv, NEW c \in Call, Create(c)
  PROVE  IInv'
  <1>. DEFINE x == call[c].content
              r == Inserted(call[c])
  <1>1. call[c] \in Creating
    BY StageOfCall DEF IInv, Create
  <1>2. /\ x \in Content /\ call[c].user \in User /\ call[c].key \in Key
        /\ call[c].key \in objects
    BY <1>1 DEF IInv, KeysHaveObjects, Create, Creating
  <1>3. r \in Row /\ r.key = call[c].key
    BY <1>2 DEF IInv, TypeOK, Inserted, Row
  <1>4. row' = [row EXCEPT ![x] = r] /\ call' = [call EXCEPT ![c] = Idle]
    BY DEF Create
  <1>5. AnsweredUrlServes' /\ promised' \subseteq Promise
    <2>1. Answer(call[c].user, call[c].content, call[c].key) /\ objects' = objects
      BY DEF Create
    <2>2. AnsweredUrlServes /\ promised \subseteq Promise
      BY DEF IInv, TypeOK
    <2>3. call[c].content \in Content /\ call[c].key \in objects'
      BY <1>2, <2>1
    <2>. HIDE DEF x, r
    <2>. QED BY <1>2, <2>1, <2>2, <2>3, AnswerKeeps
  <1>. HIDE DEF x, r
  <1>6. /\ row' \in [Content -> Row \cup {NoRow}]
        /\ call' \in [Call -> Uploading \cup Creating \cup {Idle}]
    BY <1>2, <1>3, <1>4 DEF IInv, TypeOK
  <1>7. TypeOK'
    BY <1>5, <1>6 DEF IInv, TypeOK, Create
  <1>8. \A y \in Content : row'[y] # NoRow => row'[y].key \in objects
    BY <1>2, <1>3, <1>4 DEF IInv, TypeOK, KeysHaveObjects
  <1>9. \A d \in Call : call'[d].stage = "create" => call'[d].key \in objects
    BY <1>4 DEF IInv, TypeOK, KeysHaveObjects, Idle
  <1>10. KeysHaveObjects'
    BY <1>8, <1>9 DEF KeysHaveObjects, Create
  <1>. QED BY <1>5, <1>7, <1>10 DEF IInv

LEMMA DeleteKeeps ==
  ASSUME IInv, NEW u \in User, NEW x \in Content, DeleteFile(u, x)
  PROVE  IInv'
  <1>. DEFINE r == [row[x] EXCEPT !.state = "deleted"]
  <1>1. row[x] # NoRow /\ row[x] \in Row
    BY LiveRow DEF IInv, DeleteFile
  <1>2. r \in Row /\ r.key = row[x].key
    BY <1>1 DEF Row
  <1>3. row' = [row EXCEPT ![x] = r] /\ promised' \subseteq promised
    BY DEF DeleteFile
  <1>. HIDE DEF r
  <1>4. TypeOK' /\ KeysHaveObjects'
    BY <1>1, <1>2, <1>3 DEF IInv, TypeOK, KeysHaveObjects, DeleteFile
  <1>. QED BY <1>3, <1>4 DEF IInv, AnsweredUrlServes, DeleteFile

LEMMA CleanupKeeps ==
  ASSUME IInv, CleanupBefore
  PROVE  IInv'
  <1>1. TypeOK' /\ KeysHaveObjects'
    BY DEF IInv, TypeOK, KeysHaveObjects, CleanupBefore
  <1>. QED BY <1>1 DEF IInv, AnsweredUrlServes, CleanupBefore

LEMMA TickKeeps ==
  ASSUME IInv, Tick
  PROVE  IInv'
  <1>1. month' \in 0..MaxMonth
    BY FilesAssumption DEF IInv, TypeOK, Tick, FilesAssumption
  <1>2. TypeOK' /\ KeysHaveObjects'
    BY <1>1 DEF IInv, TypeOK, KeysHaveObjects, Tick
  <1>. QED BY <1>2 DEF IInv, AnsweredUrlServes, Tick

LEMMA RestartKeeps ==
  ASSUME IInv, Restart
  PROVE  IInv'
  <1>1. TypeOK' /\ KeysHaveObjects'
    BY DEF IInv, TypeOK, KeysHaveObjects, Restart, Idle
  <1>. QED BY <1>1 DEF IInv, AnsweredUrlServes, Restart

LEMMA StutterKeeps == ASSUME IInv, UNCHANGED vars PROVE IInv'
  BY DEF IInv, TypeOK, KeysHaveObjects, AnsweredUrlServes, vars

LEMMA Step == IInv /\ [Next]_vars => IInv'
  <1>. SUFFICES ASSUME IInv, [Next]_vars PROVE IInv'
    OBVIOUS
  <1>1. ASSUME NEW c \in Call, UploadObject(c) PROVE IInv'
    BY <1>1, UploadKeeps
  <1>2. ASSUME NEW c \in Call, UploadObjectFails(c) \/ CreateFails(c) PROVE IInv'
    BY <1>2, EndKeeps DEF UploadObjectFails, CreateFails
  <1>3. ASSUME NEW c \in Call, Create(c) PROVE IInv'
    BY <1>3, CreateKeeps
  <1>4. ASSUME NEW u \in User, NEW x \in Content, UploadDeduplicated(u, x) PROVE IInv'
    BY <1>4, DeduplicatedKeeps
  <1>7. ASSUME NEW u \in User, NEW x \in Content, GetFile(u, x) PROVE IInv'
    BY <1>7, GetKeeps
  <1>5. ASSUME NEW u \in User, NEW x \in Content, DeleteFile(u, x) PROVE IInv'
    BY <1>5, DeleteKeeps
  <1>6. ASSUME NEW u \in User, NEW x \in Content, NEW c \in Call, NEW k \in Category,
               UploadBegins(c, u, x, k)
        PROVE  IInv'
    BY <1>6, BeginsKeeps
  <1>. QED
    BY <1>1, <1>2, <1>3, <1>4, <1>5, <1>6, <1>7, CleanupKeeps, TickKeeps, RestartKeeps,
       StutterKeeps DEF Next

\* The inductive invariant holds of every state of the file service.
THEOREM Invariance == Spec => []IInv
  <1>. QED BY Initial, Step, PTL DEF Spec

\* Type correctness of rows, objects and uploads.
THEOREM TypeCorrect == Spec => []TypeOK
  <1>1. IInv => TypeOK
    BY DEF IInv
  <1>. QED BY <1>1, Invariance, PTL

\* Whoever was answered with a URL and has not deleted the content can fetch it.
THEOREM AnsweredUrlsServe == Spec => []AnsweredUrlServes
  <1>1. IInv => AnsweredUrlServes
    BY DEF IInv
  <1>. QED BY <1>1, Invariance, PTL

-----------------------------------------------------------------------------
(* No step takes a live row away                                           *)

LEMMA LiveRowStep ==
  ASSUME IInv, [Next]_vars, NEW x \in Content, Live(x)
  PROVE  row'[x] \in {row[x], [row[x] EXCEPT !.state = "deleted"]}
  <1>1. row \in [Content -> Row \cup {NoRow}] /\ row[x] # NoRow
    BY LiveRow DEF IInv, TypeOK
  <1>2. ASSUME NEW c \in Call, Create(c) PROVE row'[x] = row[x]
    <2>1. call[c].content # x
      BY <1>1, <1>2 DEF Create
    <2>. QED BY <1>1, <1>2, <2>1 DEF Create
  <1>3. ASSUME NEW u \in User, NEW y \in Content, DeleteFile(u, y)
        PROVE  row'[x] \in {row[x], [row[x] EXCEPT !.state = "deleted"]}
    BY <1>1, <1>3 DEF DeleteFile
  <1>4. CASE CleanupBefore
    BY <1>1, <1>4 DEF CleanupBefore, Due, Live
  <1>5. ASSUME NEW c \in Call, UploadObject(c) \/ UploadObjectFails(c) \/ CreateFails(c)
        PROVE  row' = row
    BY <1>5 DEF UploadObject, UploadObjectFails, CreateFails
  <1>6. ASSUME NEW u \in User, NEW y \in Content,
               \/ UploadDeduplicated(u, y)
               \/ GetFile(u, y)
               \/ \E c \in Call, k \in Category : UploadBegins(c, u, y, k)
        PROVE  row' = row
    BY <1>6 DEF UploadDeduplicated, GetFile, UploadBegins
  <1>7. CASE Tick \/ Restart \/ UNCHANGED vars
    BY <1>7 DEF Tick, Restart, vars
  <1>. QED BY <1>2, <1>3, <1>4, <1>5, <1>6, <1>7 DEF Next

\* A row goes only after its uploader has deleted it, whatever else is in flight.
THEOREM LiveRowsAreKept == Spec => LiveRowIsKept
  <1>1. IInv /\ [Next]_vars
          => [\A x \in Content : Live(x) =>
                row'[x] \in {row[x], [row[x] EXCEPT !.state = "deleted"]}]_vars
    BY LiveRowStep
  <1>. QED BY <1>1, Invariance, PTL DEF Spec, LiveRowIsKept
=============================================================================
