---------------------------- MODULE TaskService -----------------------------
(***************************************************************************)
(* The task service (cmd/task): the rows of the tasks table, the RPC       *)
(* handlers that read and write them, the expiry loop and the Redis copy   *)
(* that GetTask serves.                                                    *)
(*                                                                         *)
(* Every RPC runs on its own goroutine, and MySQL runs one statement at a  *)
(* time on a row, so a handler is split exactly where the code issues a    *)
(* new statement or a Redis command: between these, any other handler may  *)
(* run.  The transaction around a read and an update does not join them:   *)
(* the read takes no lock (no FOR UPDATE), and the update sees what is     *)
(* committed by then.                                                      *)
(***************************************************************************)
CONSTANTS
  Task,    \* task ids
  User,    \* students
  Call,    \* concurrent RPCs the server may be running
  Nobody   \* claimant_id = 0

ASSUME NobodyAssumption == Nobody \notin User

VARIABLES
  status,    \* tasks.status, "none" before the INSERT
  owner,     \* tasks.user_id
  claimant,  \* tasks.claimant_id
  deleted,   \* tasks.deleted_at is set
  due,       \* expired_at < NOW()
  cache,     \* Redis entry of task:school:_:id:_
  load,      \* the singleflight call that loads a row into Redis
  call       \* what each in-flight RPC has done so far

rows == <<status, owner, claimant, deleted, due>>
vars == <<status, owner, claimant, deleted, due, cache, load, call>>

Status == {"none", "open", "in_progress", "completed", "cancelled", "expired"}

\* model.AllowedTransitions
AllowedTransitions ==
  {<<"open", "in_progress">>, <<"open", "cancelled">>, <<"open", "expired">>,
   <<"in_progress", "completed">>, <<"in_progress", "cancelled">>}

\* The part of a row that GetTask's answer depends on.
Snapshot == [status : Status, claimant : User \cup {Nobody}]

Miss == [status |-> "none", claimant |-> Nobody]

Idle == [op |-> "idle"]

\* What each RPC still has to do once its first read has let it pass.
Stages ==
  ({"claim", "cancel", "update", "delete"} \X {"write", "invalidate"})
    \cup {<<"complete", "invalidate">>, <<"update", "reread">>}

\* An RPC in flight: `stage` is the next thing it will do.
InFlight ==
  {r \in [op : {"claim", "complete", "cancel", "update", "delete"},
          stage : {"write", "invalidate", "reread"}, task : Task, user : User] :
     <<r.op, r.stage>> \in Stages}

\* A load is not running, about to query the row, or about to store what it
\* has seen.
Load == [stage : {"none", "query", "fill"}, seen : Snapshot]

NoLoad == [stage |-> "none", seen |-> Miss]

TypeOK ==
  /\ status   \in [Task -> Status]
  /\ owner    \in [Task -> User \cup {Nobody}]
  /\ claimant \in [Task -> User \cup {Nobody}]
  /\ deleted  \in [Task -> BOOLEAN]
  /\ due      \in [Task -> BOOLEAN]
  /\ cache    \in [Task -> Snapshot]
  /\ load     \in [Task -> Load]
  /\ call     \in [Call -> InFlight \cup {Idle}]

\* What `Where("school_id = ? AND id = ?")` finds: gorm adds deleted_at IS NULL.
Visible(t) == status[t] # "none" /\ ~deleted[t]

RowOf(t) == [status |-> status[t], claimant |-> claimant[t]]

At(c, op, stage) == call[c] # Idle /\ call[c].op = op /\ call[c].stage = stage

Begin(c, op, stage, t, u) ==
  /\ call[c] = Idle
  /\ call' = [call EXCEPT ![c] =
       [op |-> op, stage |-> stage, task |-> t, user |-> u]]

Goto(c, stage) == call' = [call EXCEPT ![c].stage = stage]

Return(c) == call' = [call EXCEPT ![c] = Idle]

\* The process ends: what its goroutines were doing is gone.
Die ==
  /\ call' = [c \in Call |-> Idle]
  /\ load' = [t \in Task |-> NoLoad]

Init ==
  /\ status   = [t \in Task |-> "none"]
  /\ owner    = [t \in Task |-> Nobody]
  /\ claimant = [t \in Task |-> Nobody]
  /\ deleted  = [t \in Task |-> FALSE]
  /\ due      = [t \in Task |-> FALSE]
  /\ cache    = [t \in Task |-> Miss]
  /\ load     = [t \in Task |-> NoLoad]
  /\ call     = [c \in Call |-> Idle]

-----------------------------------------------------------------------------
(* CreateTask: one INSERT.  The client may pass an expired_at of the past. *)

CreateTask(t, u, past) ==
  /\ status[t] = "none"
  /\ status' = [status EXCEPT ![t] = "open"]
  /\ owner'  = [owner EXCEPT ![t] = u]
  /\ due'    = [due EXCEPT ![t] = past]
  /\ UNCHANGED <<claimant, deleted, cache, load, call>>

\* The clock passes expired_at.
Elapse(t) ==
  /\ status[t] # "none"
  /\ ~due[t]
  /\ due' = [due EXCEPT ![t] = TRUE]
  /\ UNCHANGED <<status, owner, claimant, deleted, cache, load, call>>

-----------------------------------------------------------------------------
(* ClaimTask: read and check, then UPDATE .. WHERE claimant_id = 0 AND     *)
(* status = open.                                                          *)

ClaimRead(c, t, u) ==
  /\ Visible(t)
  /\ owner[t] # u
  /\ status[t] = "open"
  /\ Begin(c, "claim", "write", t, u)
  /\ UNCHANGED <<rows, cache, load>>

\* Mutant: the UPDATE names the id only, as CancelTask's does.
ClaimCASById(t) == Visible(t)

ClaimCAS(t) == Visible(t) /\ claimant[t] = Nobody /\ status[t] = "open"

ClaimWrite(c) ==
  LET t == call[c].task IN
  /\ At(c, "claim", "write")
  /\ IF ClaimCAS(t)
     THEN /\ status'   = [status EXCEPT ![t] = "in_progress"]
          /\ claimant' = [claimant EXCEPT ![t] = call[c].user]
          /\ Goto(c, "invalidate")
     ELSE /\ Return(c)
          /\ UNCHANGED <<status, claimant>>
  /\ UNCHANGED <<owner, deleted, due, cache, load>>

-----------------------------------------------------------------------------
(* CompleteTask: one conditional UPDATE (transitionStatus).                *)

CompleteWrite(c, t, u) ==
  /\ Visible(t)
  /\ claimant[t] = u
  /\ status[t] = "in_progress"
  /\ Begin(c, "complete", "invalidate", t, u)
  /\ status' = [status EXCEPT ![t] = "completed"]
  /\ UNCHANGED <<owner, claimant, deleted, due, cache, load>>

-----------------------------------------------------------------------------
(* CancelTask: the status is checked by the read only; the UPDATE names    *)
(* the id and nothing else, and does not look at RowsAffected.             *)

MayCancel(t, u) ==
  \/ owner[t] = u /\ status[t] \in {"open", "in_progress"}
  \/ owner[t] # u /\ claimant[t] = u /\ status[t] = "in_progress"

CancelRead(c, t, u) ==
  /\ Visible(t)
  /\ MayCancel(t, u)
  /\ Begin(c, "cancel", "write", t, u)
  /\ UNCHANGED <<rows, cache, load>>

CancelWrite(c) ==
  LET t == call[c].task IN
  /\ At(c, "cancel", "write")
  /\ status' = IF Visible(t) THEN [status EXCEPT ![t] = "cancelled"] ELSE status
  /\ Goto(c, "invalidate")
  /\ UNCHANGED <<owner, claimant, deleted, due, cache, load>>

-----------------------------------------------------------------------------
(* UpdateTask and DeleteTask: publisher and status are checked by a read,  *)
(* then an UPDATE that repeats the publisher but not the status.  What     *)
(* UpdateTask writes (title, contact, ...) is not part of the model.       *)

OwnerReadsOpen(c, op, t, u) ==
  /\ Visible(t)
  /\ owner[t] = u
  /\ status[t] = "open"
  /\ Begin(c, op, "write", t, u)
  /\ UNCHANGED <<rows, cache, load>>

UpdateRead(c, t, u) == OwnerReadsOpen(c, "update", t, u)

UpdateWrite(c) ==
  /\ At(c, "update", "write")
  /\ IF Visible(call[c].task) THEN Goto(c, "invalidate") ELSE Return(c)
  /\ UNCHANGED <<rows, cache, load>>

\* UpdateTask reads the row once more for its answer and drops the error: when
\* the row is gone, toPbTask(nil) panics, and no interceptor recovers, so the
\* process dies with every call it was running.
UpdateReread(c) ==
  /\ At(c, "update", "reread")
  /\ IF Visible(call[c].task) THEN Return(c) /\ UNCHANGED load ELSE Die
  /\ UNCHANGED <<rows, cache>>

DeleteRead(c, t, u) == OwnerReadsOpen(c, "delete", t, u)

DeleteWrite(c) ==
  LET t == call[c].task IN
  /\ At(c, "delete", "write")
  /\ IF Visible(t)
     THEN /\ deleted' = [deleted EXCEPT ![t] = TRUE]
          /\ Goto(c, "invalidate")
     ELSE /\ Return(c)
          /\ UNCHANGED deleted
  /\ UNCHANGED <<status, owner, claimant, due, cache, load>>

-----------------------------------------------------------------------------
(* InvalidateTaskCache after a write: the error of the DEL is dropped.     *)

\* Mutant: every handler, not UpdateTask alone, goes on to read its row again.
InvalidateThenReread(c) ==
  /\ call[c] # Idle
  /\ call[c].stage = "invalidate"
  /\ Goto(c, "reread")
  /\ UNCHANGED <<rows, cache, load>>

Invalidate(c) ==
  LET t == call[c].task IN
  /\ call[c] # Idle
  /\ call[c].stage = "invalidate"
  /\ cache' \in {cache, [cache EXCEPT ![t] = Miss]}
  /\ IF call[c].op = "update" THEN Goto(c, "reread") ELSE Return(c)
  /\ UNCHANGED <<rows, load>>

-----------------------------------------------------------------------------
(* GetTask: a hit changes nothing.  After a miss one call per key queries   *)
(* the row (singleflight) and stores it; the others wait for its result.    *)
(* The miss may be long past when the call becomes the one that queries.    *)

GetMiss(t) ==
  /\ load[t] = NoLoad
  /\ load' = [load EXCEPT ![t] = [stage |-> "query", seen |-> Miss]]
  /\ UNCHANGED <<rows, cache, call>>

GetQuery(t) ==
  /\ load[t].stage = "query"
  /\ load' = [load EXCEPT ![t] =
       IF Visible(t) THEN [stage |-> "fill", seen |-> RowOf(t)] ELSE NoLoad]
  /\ UNCHANGED <<rows, cache, call>>

GetFill(t) ==
  /\ load[t].stage = "fill"
  /\ cache' \in {cache, [cache EXCEPT ![t] = load[t].seen]}
  /\ load' = [load EXCEPT ![t] = NoLoad]
  /\ UNCHANGED <<rows, call>>

\* The entry's TTL (ten minutes) runs out.
CacheExpire(t) ==
  /\ cache[t] # Miss
  /\ cache' = [cache EXCEPT ![t] = Miss]
  /\ UNCHANGED <<rows, load, call>>

-----------------------------------------------------------------------------
(* The expiry loop: one UPDATE over all rows; no cache entry is dropped.   *)

\* Mutant: the scan does not look at the status.
ExpirableAnyStatus(t) == Visible(t) /\ status[t] # "expired" /\ due[t]

\* Mutant: the comparison with NOW() is reversed.
ExpirableNotDue(t) == Visible(t) /\ status[t] = "open" /\ ~due[t]

Expirable(t) == Visible(t) /\ status[t] = "open" /\ due[t]

ExpireOpenTasks ==
  /\ \E t \in Task : Expirable(t)
  /\ status' = [t \in Task |-> IF Expirable(t) THEN "expired" ELSE status[t]]
  /\ UNCHANGED <<owner, claimant, deleted, due, cache, load, call>>

\* The process stops between two statements; the database and Redis remain.
Restart ==
  /\ \E c \in Call : call[c] # Idle
  /\ Die
  /\ UNCHANGED <<rows, cache>>

-----------------------------------------------------------------------------
Next ==
  \/ \E t \in Task, u \in User, past \in BOOLEAN : CreateTask(t, u, past)
  \/ \E c \in Call, t \in Task, u \in User :
       \/ ClaimRead(c, t, u)
       \/ CompleteWrite(c, t, u)
       \/ CancelRead(c, t, u)
       \/ UpdateRead(c, t, u)
       \/ DeleteRead(c, t, u)
  \/ \E c \in Call :
       \/ ClaimWrite(c)
       \/ CancelWrite(c)
       \/ UpdateWrite(c)
       \/ UpdateReread(c)
       \/ DeleteWrite(c)
       \/ Invalidate(c)
  \/ \E t \in Task :
       \/ Elapse(t)
       \/ GetMiss(t)
       \/ GetQuery(t)
       \/ GetFill(t)
       \/ CacheExpire(t)
  \/ ExpireOpenTasks
  \/ Restart

Spec == Init /\ [][Next]_vars

-----------------------------------------------------------------------------
(* Properties *)

\* A task in progress or done has a claimant, and it is not its publisher; an
\* open or expired one has none.  Claim's conditional UPDATE keeps this when
\* claims race each other, a cancellation or the expiry scan.
ClaimConsistent ==
  \A t \in Task :
    /\ status[t] \in {"in_progress", "completed"} =>
         claimant[t] \in User \ {owner[t]}
    /\ status[t] \in {"none", "open", "expired"} => claimant[t] = Nobody

\* CancelTask checks who is calling against a row it reads first and then
\* updates by id alone.  The check still holds when the update runs, however
\* late: the caller is the publisher, or the claimant of a task that has been
\* claimed since.
PendingCancelAuthorised ==
  \A c \in Call : At(c, "cancel", "write") =>
    LET t == call[c].task IN
    \/ call[c].user = owner[t]
    \/ /\ call[c].user = claimant[t]
       /\ status[t] \in {"in_progress", "completed", "cancelled"}

\* toPbTask shows the publisher's contact to the claimant of the row it is
\* given, which may be an old copy.  A copy that names a claimant names the one
\* the database has, so no copy can show it to somebody else.
CachedClaimantGenuine ==
  \A t \in Task :
    /\ cache[t].claimant \in {Nobody, claimant[t]}
    /\ load[t].seen.claimant \in {Nobody, claimant[t]}

\* The contract with cancellation allowed in every status: what the handlers
\* implement, since CancelTask's UPDATE does not repeat its check.
Contract ==
  INSTANCE TaskContract WITH withdrawn <- deleted, CancelFrom <- Status \ {"none"}

ContractSpec == Contract!Spec

\* The state machine model.AllowedTransitions documents, as a property of every
\* step.  Not so: CancelWrite overwrites what has become of the task since CancelRead.
FollowsAllowedTransitions ==
  [][\A t \in Task : status[t] # "none" /\ status'[t] # status[t]
       => <<status[t], status'[t]>> \in AllowedTransitions]_vars

\* A task whose time is up does not stay open: the scan closes it unless a
\* student or the publisher is faster.
DueTaskLeavesOpen ==
  \A t \in Task :
    Visible(t) /\ status[t] = "open" /\ due[t] ~> deleted[t] \/ status[t] # "open"

\* startExpiryLoop runs the scan at start and at every tick, forever.
FairSpec == Spec /\ WF_vars(ExpireOpenTasks)
=============================================================================
