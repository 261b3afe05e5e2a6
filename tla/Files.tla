------------------------------- MODULE Files --------------------------------
(***************************************************************************)
(* The file service (cmd/file): rows of the files table and objects in     *)
(* MinIO, which no transaction spans.                                      *)
(*                                                                         *)
(* An upload looks for a row of the same content, puts the object and then *)
(* inserts the row; another RPC, or the death of the process, may come in  *)
(* between.  The row's sha256 is unique in the table, deleted rows         *)
(* included, while the look-up and every other read leave these out.  So a *)
(* student may be answered with the row, and the object, of another.       *)
(* Objects are never removed: DeleteObject has no caller.                  *)
(***************************************************************************)
EXTENDS Integers

CONSTANTS
  Content,    \* contents that pass the checks of size and type
  User,       \* uploaders
  Category,   \* what normalizeCategory leaves
  Call,       \* concurrent RPCs the server may be running
  Retention,  \* 30 days, in months
  MaxMonth    \* bound: the month at which the clock stops

ASSUME FilesAssumption == Retention \in Nat /\ MaxMonth \in Nat

VARIABLES
  month,     \* time.Now(), as the month that buildStorageKey writes
  row,       \* the row of a content, which sha256 identifies; NoRow without one
  objects,   \* keys of the objects in MinIO
  minio,     \* InitMinIO has succeeded in this process
  call,      \* how far each in-flight upload has got
  promised   \* URLs a student was answered with and has not given up (history)

vars == <<month, row, objects, minio, call, promised>>

Key == [category : Category, month : 0..MaxMonth, content : Content]

NoRow == [state |-> "none"]

Row == [state : {"live", "deleted"}, owner : User, key : Key, created : 0..MaxMonth]

Idle == [stage |-> "idle"]

Uploading ==
  [stage : {"put"}, user : User, content : Content, category : Category]
Creating == [stage : {"create"}, user : User, content : Content, key : Key]

Promise == [user : User, content : Content, key : Key]

TypeOK ==
  /\ month    \in 0..MaxMonth
  /\ row      \in [Content -> Row \cup {NoRow}]
  /\ objects  \subseteq Key
  /\ minio    \in BOOLEAN
  /\ call     \in [Call -> Uploading \cup Creating \cup {Idle}]
  /\ promised \subseteq Promise

Init ==
  /\ month = 0
  /\ row = [x \in Content |-> NoRow]
  /\ objects = {}
  /\ minio \in BOOLEAN
  /\ call = [c \in Call |-> Idle]
  /\ promised = {}

Live(x) == row[x].state = "live"

\* The client is told the URL of the key.
Answer(u, x, key) ==
  promised' = promised \cup {[user |-> u, content |-> x, key |-> key]}

-----------------------------------------------------------------------------
(* Upload                                                                  *)

\* FindBySHA256 finds a row, of whomever: its file is the answer.
UploadDeduplicated(u, x) ==
  /\ Live(x)
  /\ Answer(u, x, row[x].key)
  /\ UNCHANGED <<month, row, objects, minio, call>>

\* FindBySHA256 finds none.  An error of the database counts as none.
UploadBegins(c, u, x, k) ==
  /\ call[c] = Idle
  /\ call' = [call EXCEPT ![c] =
       [stage |-> "put", user |-> u, content |-> x, category |-> k]]
  /\ UNCHANGED <<month, row, objects, minio, promised>>

\* buildStorageKey: the month is that of this moment.
StorageKey(r) == [category |-> r.category, month |-> month, content |-> r.content]

UploadObject(c) ==
  /\ call[c].stage = "put"
  /\ minio
  /\ objects' = objects \cup {StorageKey(call[c])}
  /\ call' = [call EXCEPT ![c] =
       [stage |-> "create", user |-> @.user, content |-> @.content,
        key |-> StorageKey(@)]]
  /\ UNCHANGED <<month, row, minio, promised>>

\* MinIO refuses, or InitMinIO failed when the process started.
UploadObjectFails(c) ==
  /\ call[c].stage = "put"
  /\ call' = [call EXCEPT ![c] = Idle]
  /\ UNCHANGED <<month, row, objects, minio, promised>>

Inserted(r) == [state |-> "live", owner |-> r.user, key |-> r.key, created |-> month]

\* Mutant: the INSERT updates the row of a duplicate key.
CreateOrUpdate(c) ==
  /\ call[c].stage = "create"
  /\ row' = [row EXCEPT ![call[c].content] = Inserted(call[c])]
  /\ Answer(call[c].user, call[c].content, call[c].key)
  /\ call' = [call EXCEPT ![c] = Idle]
  /\ UNCHANGED <<month, objects, minio>>

Create(c) ==
  /\ call[c].stage = "create"
  /\ row[call[c].content] = NoRow
  /\ row' = [row EXCEPT ![call[c].content] = Inserted(call[c])]
  /\ Answer(call[c].user, call[c].content, call[c].key)
  /\ call' = [call EXCEPT ![c] = Idle]
  /\ UNCHANGED <<month, objects, minio>>

\* A duplicate sha256, of a live row or a deleted one, or no answer.  The object
\* stays where it is.
CreateFails(c) ==
  /\ call[c].stage = "create"
  /\ call' = [call EXCEPT ![c] = Idle]
  /\ UNCHANGED <<month, row, objects, minio, promised>>

-----------------------------------------------------------------------------
(* Deletion and cleanup                                                    *)

\* The uploader only.
GetFile(u, x) ==
  /\ Live(x)
  /\ row[x].owner = u
  /\ Answer(u, x, row[x].key)
  /\ UNCHANGED <<month, row, objects, minio, call>>

\* SoftDelete, by the uploader only.
DeleteFile(u, x) ==
  /\ Live(x)
  /\ row[x].owner = u
  /\ row' = [row EXCEPT ![x].state = "deleted"]
  /\ promised' = {p \in promised : ~(p.user = u /\ p.content = x)}
  /\ UNCHANGED <<month, objects, minio, call>>

\* The WHERE counts from created_at.
Due(x) == row[x].state = "deleted" /\ row[x].created < month - Retention

\* Mutant: without Unscoped, gorm adds deleted_at IS NULL to the WHERE.
CleanupScoped ==
  /\ row' = [x \in Content |-> IF Due(x) /\ Live(x) THEN NoRow ELSE row[x]]
  /\ UNCHANGED <<month, objects, minio, call, promised>>

\* Mutant: the objects go with their rows (DeleteObject).
CleanupWithObjects ==
  /\ row' = [x \in Content |-> IF Due(x) THEN NoRow ELSE row[x]]
  /\ objects' = objects \ {row[x].key : x \in {y \in Content : Due(y)}}
  /\ UNCHANGED <<month, minio, call, promised>>

CleanupBefore ==
  /\ row' = [x \in Content |-> IF Due(x) THEN NoRow ELSE row[x]]
  /\ UNCHANGED <<month, objects, minio, call, promised>>

Tick ==
  /\ month < MaxMonth
  /\ month' = month + 1
  /\ UNCHANGED <<row, objects, minio, call, promised>>

\* The process stops, or dies of its clock in GenerateID, and starts again.
Restart ==
  /\ call' = [c \in Call |-> Idle]
  /\ minio' \in BOOLEAN
  /\ UNCHANGED <<month, row, objects, promised>>

Next ==
  \/ \E c \in Call :
       \/ UploadObject(c) \/ UploadObjectFails(c)
       \/ Create(c) \/ CreateFails(c)
  \/ \E u \in User, x \in Content :
       \/ UploadDeduplicated(u, x)
       \/ GetFile(u, x)
       \/ DeleteFile(u, x)
       \/ \E c \in Call, k \in Category : UploadBegins(c, u, x, k)
  \/ CleanupBefore
  \/ Tick
  \/ Restart

Spec == Init /\ [][Next]_vars

\* The cleanup runs at start and every 24 hours.
Fairness == WF_vars(CleanupBefore) /\ WF_vars(Tick)

FairSpec == Spec /\ Fairness

-----------------------------------------------------------------------------
(* Properties *)

\* The URL that a student has, perhaps of a file someone else uploaded and has
\* deleted, leads to an object, whatever was cut short or cleaned up since
\* (Upload, file_service.go:84-122).
AnsweredUrlServes == \A p \in promised : p.key \in objects

\* A row is its uploader's until the uploader deletes it: neither the upload of
\* another that began before it was there nor the cleanup takes it away.
LiveRowIsKept ==
  [][\A x \in Content : Live(x) =>
       row'[x] \in {row[x], [row[x] EXCEPT !.state = "deleted"]}]_vars

\* The content of a deleted file can be uploaded again in the end: its row stands in
\* the way of the unique index until the cleanup has removed it.
ContentIsFreed ==
  \A x \in Content :
    row[x].state = "deleted" /\ row[x].created + Retention < MaxMonth
      ~> row[x] = NoRow
=============================================================================
