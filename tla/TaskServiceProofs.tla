------------------------- MODULE TaskServiceProofs --------------------------
(***************************************************************************)
(* Proofs about TaskService, for any number of tasks, students and         *)
(* concurrent calls.  The invariants the runs check are proved from one    *)
(* inductive invariant, IInv, which adds what an RPC in flight may still   *)
(* rely on from its first read; the contract of TaskContract follows from  *)
(* it step by step.                                                        *)
(***************************************************************************)
EXTENDS TaskService, TLAPS

\* What no other step takes away from an RPC between its read and its write: the
\* task exists, and whoever claims it is not its publisher.
InFlightConsistent ==
  \A c \in Call : call[c] # Idle =>
    /\ status[call[c].task] # "none"
    /\ call[c].op = "claim" => call[c].user # owner[call[c].task]

IInv ==
  /\ TypeOK
  /\ ClaimConsistent
  /\ PendingCancelAuthorised
  /\ CachedClaimantGenuine
  /\ InFlightConsistent

-----------------------------------------------------------------------------
(* Type correctness                                                        *)

LEMMA TypeInit == Init => TypeOK
  BY DEF Init, TypeOK, Status, Snapshot, Miss, Load, NoLoad, Idle

\* Starting an RPC, or moving it to a stage it has, keeps its record well formed.
LEMMA BeginType ==
  ASSUME NEW c \in Call, NEW op, NEW stage, NEW t \in Task, NEW u \in User,
         call \in [Call -> InFlight \cup {Idle}],
         <<op, stage>> \in Stages,
         Begin(c, op, stage, t, u)
  PROVE  call' \in [Call -> InFlight \cup {Idle}]
  <1>1. /\ op \in {"claim", "complete", "cancel", "update", "delete"}
        /\ stage \in {"write", "invalidate", "reread"}
    BY DEF Stages
  <1>2. [op |-> op, stage |-> stage, task |-> t, user |-> u] \in InFlight
    BY <1>1 DEF InFlight
  <1>. QED BY <1>2 DEF Begin

LEMMA GotoType ==
  ASSUME NEW c \in Call, NEW stage,
         call \in [Call -> InFlight \cup {Idle}],
         call[c] # Idle,
         <<call[c].op, stage>> \in Stages,
         Goto(c, stage)
  PROVE  call' \in [Call -> InFlight \cup {Idle}]
  <1>1. stage \in {"write", "invalidate", "reread"}
    BY DEF Stages
  <1>2. call[c] \in InFlight
    OBVIOUS
  <1>3. [call[c] EXCEPT !.stage = stage] \in InFlight
    BY <1>1, <1>2 DEF InFlight
  <1>. QED BY <1>3 DEF Goto

LEMMA TypeStep == TypeOK /\ [Next]_vars => TypeOK'
  <1>. SUFFICES ASSUME TypeOK, [Next]_vars PROVE TypeOK'
    OBVIOUS
  <1>. USE DEF TypeOK, rows, Status
  <1>1. CASE UNCHANGED vars
    BY <1>1 DEF vars
  <1>2. ASSUME NEW t \in Task, NEW u \in User, NEW past \in BOOLEAN, CreateTask(t, u, past)
        PROVE  TypeOK'
    BY <1>2 DEF CreateTask
  <1>3. ASSUME NEW c \in Call, NEW t \in Task, NEW u \in User,
               \/ ClaimRead(c, t, u)
               \/ CancelRead(c, t, u)
               \/ UpdateRead(c, t, u)
               \/ DeleteRead(c, t, u)
        PROVE  TypeOK'
    <2>1. \E op \in {"claim", "cancel", "update", "delete"} : Begin(c, op, "write", t, u)
      BY <1>3 DEF ClaimRead, CancelRead, UpdateRead, DeleteRead, OwnerReadsOpen
    <2>2. PICK op \in {"claim", "cancel", "update", "delete"} : Begin(c, op, "write", t, u)
      BY <2>1
    <2>3. <<op, "write">> \in Stages
      BY DEF Stages
    <2>4. call' \in [Call -> InFlight \cup {Idle}]
      BY <2>2, <2>3, BeginType
    <2>. QED BY <1>3, <2>4 DEF ClaimRead, CancelRead, UpdateRead, DeleteRead, OwnerReadsOpen
  <1>4. ASSUME NEW c \in Call, NEW t \in Task, NEW u \in User, CompleteWrite(c, t, u)
        PROVE  TypeOK'
    <2>1. <<"complete", "invalidate">> \in Stages
      BY DEF Stages
    <2>2. call' \in [Call -> InFlight \cup {Idle}]
      BY <1>4, <2>1, BeginType DEF CompleteWrite
    <2>. QED BY <1>4, <2>2 DEF CompleteWrite
  <1>5. ASSUME NEW c \in Call,
               \/ ClaimWrite(c)
               \/ CancelWrite(c)
               \/ UpdateWrite(c)
               \/ DeleteWrite(c)
        PROVE  TypeOK'
    <2>1. /\ call[c] # Idle
          /\ call[c].op \in {"claim", "cancel", "update", "delete"}
      BY <1>5 DEF ClaimWrite, CancelWrite, UpdateWrite, DeleteWrite, At
    <2>2. <<call[c].op, "invalidate">> \in Stages
      BY <2>1 DEF Stages
    <2>3. call[c].user \in User
      BY <2>1 DEF InFlight
    <2>4. Goto(c, "invalidate") \/ Return(c)
      BY <1>5 DEF ClaimWrite, CancelWrite, UpdateWrite, DeleteWrite
    <2>5. call' \in [Call -> InFlight \cup {Idle}]
      BY <2>1, <2>2, <2>4, GotoType DEF Return
    <2>. QED BY <1>5, <2>3, <2>5 DEF ClaimWrite, CancelWrite, UpdateWrite, DeleteWrite
  <1>6. ASSUME Restart \/ \E c \in Call : UpdateReread(c)
        PROVE  TypeOK'
    BY <1>6 DEF UpdateReread, Restart, Die, Return, Load, NoLoad, Miss, Snapshot
  <1>7. ASSUME NEW c \in Call, Invalidate(c)
        PROVE  TypeOK'
    <2>1. call[c] \in InFlight
      BY <1>7 DEF Invalidate
    <2>2. call[c].op = "update" => <<call[c].op, "reread">> \in Stages
      BY DEF Stages
    <2>3. call' \in [Call -> InFlight \cup {Idle}]
      BY <1>7, <2>1, <2>2, GotoType DEF Invalidate, Return
    <2>4. cache' \in [Task -> Snapshot]
      BY <1>7, <2>1 DEF Invalidate, InFlight, Snapshot, Miss
    <2>. QED BY <1>7, <2>3, <2>4 DEF Invalidate
  <1>8. ASSUME NEW t \in Task, GetMiss(t) \/ GetQuery(t) \/ GetFill(t)
        PROVE  TypeOK'
    <2>1. /\ Miss \in Snapshot
          /\ RowOf(t) \in Snapshot
          /\ load[t].seen \in Snapshot
      BY DEF Miss, RowOf, Snapshot, Load
    <2>2. /\ NoLoad \in Load
          /\ [stage |-> "query", seen |-> Miss] \in Load
          /\ [stage |-> "fill", seen |-> RowOf(t)] \in Load
      BY <2>1 DEF NoLoad, Load
    <2>. QED BY <1>8, <2>1, <2>2 DEF GetMiss, GetQuery, GetFill
  <1>9. ASSUME NEW t \in Task, Elapse(t) \/ CacheExpire(t)
        PROVE  TypeOK'
    <2>1. Miss \in Snapshot
      BY DEF Miss, Snapshot
    <2>. QED BY <1>9, <2>1 DEF Elapse, CacheExpire
  <1>10. CASE ExpireOpenTasks
    BY <1>10 DEF ExpireOpenTasks
  <1>. HIDE DEF TypeOK, rows, Status
  <1>. QED
    BY <1>1, <1>2, <1>3, <1>4, <1>5, <1>6, <1>7, <1>8, <1>9, <1>10 DEF Next

-----------------------------------------------------------------------------
(* Every step of the service is a step of the contract, or none            *)

LEMMA Simulation ==
  TypeOK /\ InFlightConsistent /\ [Next]_vars => [Contract!Next]_(Contract!vars)
  <1>. SUFFICES ASSUME TypeOK, InFlightConsistent, [Next]_vars
                PROVE  [Contract!Next]_(Contract!vars)
    OBVIOUS
  <1>. DEFINE Same == UNCHANGED <<status, owner, claimant, deleted>>
  <1>0. Same => [Contract!Next]_(Contract!vars)
    BY DEF Contract!vars
  <1>1. CASE UNCHANGED vars
    BY <1>0, <1>1 DEF vars, rows
  <1>2. ASSUME NEW t \in Task, NEW u \in User, NEW past \in BOOLEAN, CreateTask(t, u, past)
        PROVE  Contract!Next
    <2>1. Contract!Post(t, u)
      BY <1>2 DEF CreateTask, Contract!Post
    <2>. QED BY <2>1 DEF Contract!Next
  <1>3. ASSUME NEW c \in Call, NEW t \in Task, NEW u \in User,
               \/ ClaimRead(c, t, u)
               \/ CancelRead(c, t, u)
               \/ UpdateRead(c, t, u)
               \/ DeleteRead(c, t, u)
        PROVE  Same
    BY <1>3 DEF ClaimRead, CancelRead, UpdateRead, DeleteRead, OwnerReadsOpen, rows
  <1>4. ASSUME NEW c \in Call, NEW t \in Task, NEW u \in User, CompleteWrite(c, t, u)
        PROVE  Contract!Next
    <2>1. Contract!Complete(t)
      BY <1>4 DEF CompleteWrite, Contract!Complete
    <2>. QED BY <2>1 DEF Contract!Next
  <1>5. ASSUME NEW c \in Call, ClaimWrite(c)
        PROVE  Contract!Next \/ Same
    <2>. DEFINE t == call[c].task
                u == call[c].user
    <2>1. t \in Task /\ u \in User /\ u # owner[t]
      BY <1>5 DEF ClaimWrite, At, TypeOK, InFlight, InFlightConsistent
    <2>2. CASE ClaimCAS(t)
      <3>1. Contract!Claim(t, u)
        BY <1>5, <2>1, <2>2 DEF ClaimWrite, ClaimCAS, Contract!Claim
      <3>. QED BY <2>1, <3>1 DEF Contract!Next
    <2>3. CASE ~ClaimCAS(t)
      BY <1>5, <2>3 DEF ClaimWrite
    <2>. QED BY <2>2, <2>3
  <1>6. ASSUME NEW c \in Call, CancelWrite(c)
        PROVE  Contract!Next \/ Same
    <2>. DEFINE t == call[c].task
    <2>1. t \in Task
      BY <1>6 DEF CancelWrite, At, TypeOK, InFlight
    <2>2. CASE Visible(t)
      <3>1. status[t] \in Status \ {"none"}
        BY <2>1, <2>2 DEF Visible, TypeOK
      <3>2. Contract!Cancel(t)
        BY <1>6, <2>2, <3>1 DEF CancelWrite, Contract!Cancel
      <3>. QED BY <2>1, <3>2 DEF Contract!Next
    <2>3. CASE ~Visible(t)
      BY <1>6, <2>3 DEF CancelWrite
    <2>. QED BY <2>2, <2>3
  <1>7. ASSUME NEW c \in Call, DeleteWrite(c)
        PROVE  Contract!Next \/ Same
    <2>. DEFINE t == call[c].task
    <2>1. t \in Task
      BY <1>7 DEF DeleteWrite, At, TypeOK, InFlight
    <2>2. CASE Visible(t)
      <3>1. Contract!Withdraw(t)
        BY <1>7, <2>2 DEF DeleteWrite, Visible, Contract!Withdraw
      <3>. QED BY <2>1, <3>1 DEF Contract!Next
    <2>3. CASE ~Visible(t)
      BY <1>7, <2>3 DEF DeleteWrite
    <2>. QED BY <2>2, <2>3
  <1>8. ASSUME NEW c \in Call, UpdateWrite(c) \/ UpdateReread(c) \/ Invalidate(c)
        PROVE  Same
    BY <1>8 DEF UpdateWrite, UpdateReread, Invalidate, rows
  <1>9. ASSUME NEW t \in Task,
               \/ Elapse(t)
               \/ GetMiss(t)
               \/ GetQuery(t)
               \/ GetFill(t)
               \/ CacheExpire(t)
        PROVE  Same
    BY <1>9 DEF Elapse, GetMiss, GetQuery, GetFill, CacheExpire, rows
  <1>10. CASE ExpireOpenTasks
    <2>. DEFINE S == {t \in Task : Expirable(t)}
    <2>1. Contract!Expire(S)
      BY <1>10 DEF ExpireOpenTasks, Expirable, Contract!Expire
    <2>2. S \in SUBSET Task
      OBVIOUS
    <2>. QED BY <2>1, <2>2 DEF Contract!Next
  <1>11. CASE Restart
    BY <1>0, <1>11 DEF Restart, rows
  <1>. QED
    BY <1>0, <1>1, <1>2, <1>3, <1>4, <1>5, <1>6, <1>7, <1>8, <1>9, <1>10, <1>11 DEF Next

\* What a step of the contract leaves true of a task.
LEMMA RowsKept ==
  ASSUME TypeOK, ClaimConsistent, [Contract!Next]_(Contract!vars), NEW t \in Task
  PROVE  /\ status[t] # "none" => status'[t] # "none" /\ owner'[t] = owner[t]
         /\ claimant[t] # Nobody => claimant'[t] = claimant[t]
         /\ status[t] \in {"in_progress", "completed", "cancelled"}
              => status'[t] \in {"in_progress", "completed", "cancelled"}
  BY DEF TypeOK, ClaimConsistent, Contract!Next, Contract!vars, Contract!Post, Contract!Claim,
         Contract!Complete, Contract!Cancel, Contract!Expire, Contract!Withdraw

LEMMA ClaimStep ==
  TypeOK /\ ClaimConsistent /\ [Contract!Next]_(Contract!vars) => ClaimConsistent'
  BY DEF TypeOK, ClaimConsistent, Contract!Next, Contract!vars, Contract!Post, Contract!Claim,
         Contract!Complete, Contract!Cancel, Contract!Expire, Contract!Withdraw

-----------------------------------------------------------------------------
(* What a step does to an RPC in flight                                    *)

\* The RPC goes on: it is for the same student and task, and it does not come
\* back to its write.
GoesOn(c) ==
  /\ call[c] # Idle
  /\ call'[c].op = call[c].op
  /\ call'[c].task = call[c].task
  /\ call'[c].user = call[c].user
  /\ call'[c].stage = "write" => call[c].stage = "write"

\* The RPC has just passed its first read.
Starts(c) ==
  LET r == call'[c] IN
  /\ r.task \in Task
  /\ status[r.task] # "none"
  /\ r.op = "claim" => r.user # owner[r.task]
  /\ r.op = "cancel" => MayCancel(r.task, r.user) /\ UNCHANGED rows

LEMMA CallMoves ==
  ASSUME TypeOK, [Next]_vars, NEW c \in Call, call'[c] # Idle
  PROVE  GoesOn(c) \/ Starts(c)
  <1>. DEFINE Same == call'[c] = call[c]
  <1>0. Same => GoesOn(c)
    BY DEF GoesOn
  <1>1. ASSUME NEW d \in Call, NEW op, NEW stage, NEW t \in Task, NEW u \in User,
               Begin(d, op, stage, t, u)
        PROVE  Same \/ /\ call'[c].op = op
                       /\ call'[c].task = t
                       /\ call'[c].user = u
    BY <1>1 DEF Begin, TypeOK
  <1>2. ASSUME NEW d \in Call, NEW stage, call[d] # Idle, stage # "write",
               Goto(d, stage) \/ Return(d)
        PROVE  GoesOn(c)
    <2>1. CASE d # c
      BY <1>0, <1>2, <2>1 DEF Goto, Return, TypeOK
    <2>2. CASE d = c
      <3>1. call'[c] = [call[c] EXCEPT !.stage = stage]
        BY <1>2, <2>2 DEF Goto, Return, TypeOK
      <3>2. call[c] \in InFlight
        BY <1>2, <2>2 DEF TypeOK
      <3>. QED BY <1>2, <2>2, <3>1, <3>2 DEF GoesOn, InFlight
    <2>. QED BY <2>1, <2>2
  <1>3. CASE UNCHANGED vars
    BY <1>0, <1>3 DEF vars
  <1>4. ASSUME NEW d \in Call, NEW t \in Task, NEW u \in User, ClaimRead(d, t, u)
        PROVE  GoesOn(c) \/ Starts(c)
    BY <1>0, <1>1, <1>4 DEF ClaimRead, Visible, Starts
  <1>5. ASSUME NEW d \in Call, NEW t \in Task, NEW u \in User, CompleteWrite(d, t, u)
        PROVE  GoesOn(c) \/ Starts(c)
    BY <1>0, <1>1, <1>5 DEF CompleteWrite, Visible, Starts
  <1>6. ASSUME NEW d \in Call, NEW t \in Task, NEW u \in User, CancelRead(d, t, u)
        PROVE  GoesOn(c) \/ Starts(c)
    BY <1>0, <1>1, <1>6 DEF CancelRead, Visible, Starts
  <1>7. ASSUME NEW d \in Call, NEW t \in Task, NEW u \in User,
               UpdateRead(d, t, u) \/ DeleteRead(d, t, u)
        PROVE  GoesOn(c) \/ Starts(c)
    BY <1>0, <1>1, <1>7 DEF UpdateRead, DeleteRead, OwnerReadsOpen, Visible, Starts
  <1>8. ASSUME NEW d \in Call,
               \/ ClaimWrite(d)
               \/ CancelWrite(d)
               \/ UpdateWrite(d)
               \/ DeleteWrite(d)
               \/ Invalidate(d)
        PROVE  GoesOn(c)
    <2>1. /\ call[d] # Idle
          /\ Goto(d, "invalidate") \/ Goto(d, "reread") \/ Return(d)
      BY <1>8 DEF ClaimWrite, CancelWrite, UpdateWrite, DeleteWrite, Invalidate, At
    <2>. QED BY <1>2, <2>1
  <1>9. ASSUME NEW d \in Call, UpdateReread(d)
        PROVE  GoesOn(c)
    <2>1. call[d] # Idle /\ (Return(d) \/ Die)
      BY <1>9 DEF UpdateReread, At
    <2>2. ~Die
      BY DEF Die
    <2>3. Return(d)
      BY <2>1, <2>2
    <2>. QED BY <1>2, <2>1, <2>3
  <1>10. CASE Restart
    BY <1>10 DEF Restart, Die
  <1>11. ASSUME NEW t \in Task, NEW u \in User, NEW past \in BOOLEAN, CreateTask(t, u, past)
         PROVE  Same
    BY <1>11 DEF CreateTask
  <1>12. ASSUME NEW t \in Task,
                \/ Elapse(t)
                \/ GetMiss(t)
                \/ GetQuery(t)
                \/ GetFill(t)
                \/ CacheExpire(t)
         PROVE  Same
    BY <1>12 DEF Elapse, GetMiss, GetQuery, GetFill, CacheExpire
  <1>13. CASE ExpireOpenTasks
    <2>1. Same
      BY <1>13 DEF ExpireOpenTasks
    <2>. QED BY <1>0, <2>1
  <1>. HIDE DEF Same
  <1>. QED
    BY <1>0, <1>3, <1>4, <1>5, <1>6, <1>7, <1>8, <1>9, <1>10, <1>11, <1>12, <1>13 DEF Next

-----------------------------------------------------------------------------
(* The inductive invariant                                                 *)

LEMMA InFlightStep ==
  ASSUME TypeOK, ClaimConsistent, InFlightConsistent, [Next]_vars
  PROVE  InFlightConsistent'
  <1>. SUFFICES ASSUME NEW c \in Call, call'[c] # Idle
                PROVE  /\ status'[call'[c].task] # "none"
                       /\ call'[c].op = "claim" => call'[c].user # owner'[call'[c].task]
    BY DEF InFlightConsistent
  <1>1. [Contract!Next]_(Contract!vars)
    BY Simulation
  <1>2. /\ call'[c].task \in Task
        /\ status[call'[c].task] # "none"
        /\ call'[c].op = "claim" => call'[c].user # owner[call'[c].task]
    <2>1. CASE GoesOn(c)
      <3>1. call[c] # Idle /\ call[c].task \in Task
        BY <2>1 DEF GoesOn, TypeOK, InFlight
      <3>. QED BY <2>1, <3>1 DEF GoesOn, InFlightConsistent
    <2>2. CASE Starts(c)
      BY <2>2 DEF Starts
    <2>. QED BY <2>1, <2>2, CallMoves
  <1>. QED BY <1>1, <1>2, RowsKept

LEMMA CancelStep ==
  ASSUME TypeOK, ClaimConsistent, InFlightConsistent, PendingCancelAuthorised, [Next]_vars
  PROVE  PendingCancelAuthorised'
  <1>. SUFFICES ASSUME NEW c \in Call, At(c, "cancel", "write")'
                PROVE  LET t == call'[c].task IN
                       \/ call'[c].user = owner'[t]
                       \/ /\ call'[c].user = claimant'[t]
                          /\ status'[t] \in {"in_progress", "completed", "cancelled"}
    BY DEF PendingCancelAuthorised
  <1>1. /\ call'[c] # Idle
        /\ call'[c].op = "cancel"
        /\ call'[c].stage = "write"
    BY DEF At
  <1>2. CASE GoesOn(c)
    <2>. DEFINE t == call[c].task
                u == call[c].user
    <2>1. /\ At(c, "cancel", "write")
          /\ call'[c].task = t
          /\ call'[c].user = u
      BY <1>1, <1>2 DEF GoesOn, At
    <2>2. /\ t \in Task
          /\ u \in User
          /\ status[t] # "none"
      BY <2>1 DEF At, TypeOK, InFlight, InFlightConsistent
    <2>3. /\ owner'[t] = owner[t]
          /\ claimant[t] # Nobody => claimant'[t] = claimant[t]
          /\ status[t] \in {"in_progress", "completed", "cancelled"}
               => status'[t] \in {"in_progress", "completed", "cancelled"}
      BY <2>2, Simulation, RowsKept
    <2>. QED BY <2>1, <2>2, <2>3, NobodyAssumption DEF PendingCancelAuthorised
  <1>3. CASE Starts(c)
    <2>1. MayCancel(call'[c].task, call'[c].user) /\ UNCHANGED rows
      BY <1>1, <1>3 DEF Starts
    <2>. QED BY <2>1 DEF MayCancel, rows
  <1>. QED BY <1>1, <1>2, <1>3, CallMoves

\* A copy only ever comes from the row itself, or from a copy.
Copied(t) ==
  /\ cache'[t] \in {cache[t], Miss, load[t].seen}
  /\ load'[t].seen \in {load[t].seen, Miss, RowOf(t)}

LEMMA CopyMoves ==
  ASSUME TypeOK, [Next]_vars, NEW t \in Task
  PROVE  Copied(t)
  <1>. USE DEF Copied
  <1>1. UNCHANGED <<cache, load>> => Copied(t)
    OBVIOUS
  <1>2. ASSUME NEW u \in Task, GetMiss(u) \/ GetQuery(u) \/ GetFill(u) \/ CacheExpire(u)
        PROVE  Copied(t)
    BY <1>2 DEF GetMiss, GetQuery, GetFill, CacheExpire, TypeOK, NoLoad
  <1>3. ASSUME NEW c \in Call, Invalidate(c)
        PROVE  Copied(t)
    BY <1>3 DEF Invalidate, TypeOK
  <1>4. UNCHANGED cache /\ (UNCHANGED load \/ Die) => Copied(t)
    BY DEF Die, NoLoad
  <1>5. ASSUME NEW c \in Call, UpdateReread(c)
        PROVE  Copied(t)
    BY <1>4, <1>5 DEF UpdateReread
  <1>6. CASE Restart
    BY <1>4, <1>6 DEF Restart
  <1>. HIDE DEF Copied
  <1>7. CASE UNCHANGED vars
    BY <1>1, <1>7 DEF vars
  <1>8. ASSUME NEW d \in Task, NEW u \in User, NEW past \in BOOLEAN, CreateTask(d, u, past)
        PROVE  Copied(t)
    BY <1>1, <1>8 DEF CreateTask
  <1>9. ASSUME NEW c \in Call, NEW d \in Task, NEW u \in User,
               \/ ClaimRead(c, d, u)
               \/ CompleteWrite(c, d, u)
               \/ CancelRead(c, d, u)
               \/ UpdateRead(c, d, u)
               \/ DeleteRead(c, d, u)
        PROVE  Copied(t)
    BY <1>1, <1>9 DEF ClaimRead, CompleteWrite, CancelRead, UpdateRead, DeleteRead, OwnerReadsOpen
  <1>10. ASSUME NEW c \in Call,
                ClaimWrite(c) \/ CancelWrite(c) \/ UpdateWrite(c) \/ DeleteWrite(c)
         PROVE  Copied(t)
    BY <1>1, <1>10 DEF ClaimWrite, CancelWrite, UpdateWrite, DeleteWrite
  <1>11. ASSUME NEW d \in Task, Elapse(d)
         PROVE  Copied(t)
    BY <1>1, <1>11 DEF Elapse
  <1>12. CASE ExpireOpenTasks
    BY <1>1, <1>12 DEF ExpireOpenTasks
  <1>. QED
    BY <1>2, <1>3, <1>5, <1>6, <1>7, <1>8, <1>9, <1>10, <1>11, <1>12 DEF Next

LEMMA CopyStep ==
  ASSUME TypeOK, ClaimConsistent, InFlightConsistent, CachedClaimantGenuine, [Next]_vars
  PROVE  CachedClaimantGenuine'
  <1>. SUFFICES ASSUME NEW t \in Task
                PROVE  /\ cache'[t].claimant \in {Nobody, claimant'[t]}
                       /\ load'[t].seen.claimant \in {Nobody, claimant'[t]}
    BY DEF CachedClaimantGenuine
  <1>1. claimant[t] \in {Nobody, claimant'[t]}
    BY Simulation, RowsKept
  <1>2. /\ cache'[t].claimant \in {Nobody, claimant[t]}
        /\ load'[t].seen.claimant \in {Nobody, claimant[t]}
    BY CopyMoves DEF Copied, CachedClaimantGenuine, Miss, RowOf
  <1>. QED BY <1>1, <1>2

LEMMA IInvInit == Init => IInv
  <1>1. Init => TypeOK
    BY TypeInit
  <1>2. Init => ClaimConsistent
    BY DEF Init, ClaimConsistent
  <1>3. Init => PendingCancelAuthorised
    BY DEF Init, PendingCancelAuthorised, At
  <1>4. Init => CachedClaimantGenuine
    <2>1. Miss.claimant = Nobody /\ NoLoad.seen = Miss
      BY DEF NoLoad, Miss
    <2>. QED BY <2>1 DEF Init, CachedClaimantGenuine
  <1>5. Init => InFlightConsistent
    BY DEF Init, InFlightConsistent
  <1>. QED BY <1>1, <1>2, <1>3, <1>4, <1>5 DEF IInv

LEMMA IInvStep == IInv /\ [Next]_vars => IInv'
  BY TypeStep, Simulation, ClaimStep, CancelStep, CopyStep, InFlightStep DEF IInv

-----------------------------------------------------------------------------
(* Theorems                                                                *)

THEOREM Invariance == Spec => []IInv
  BY IInvInit, IInvStep, PTL DEF Spec

\* Every variable of the service keeps its type, whatever the handlers, the
\* cache loads, the expiry loop and a dying process do between each other's
\* statements.
THEOREM TypeCorrect == Spec => []TypeOK
  <1>1. IInv => TypeOK
    BY DEF IInv
  <1>. QED BY <1>1, Invariance, PTL

\* Claim's conditional UPDATE is enough: a task never has its publisher as its
\* claimant, is never in progress without one, and never open with one.
THEOREM ClaimsAreConsistent == Spec => []ClaimConsistent
  <1>1. IInv => ClaimConsistent
    BY DEF IInv
  <1>. QED BY <1>1, Invariance, PTL

\* CancelTask's unconditional UPDATE never runs for a student who is neither the
\* publisher nor the claimant of the task.
THEOREM CancelsAreAuthorised == Spec => []PendingCancelAuthorised
  <1>1. IInv => PendingCancelAuthorised
    BY DEF IInv
  <1>. QED BY <1>1, Invariance, PTL

\* GetTask never shows the publisher's contact to a student because of a stale
\* copy in Redis or in a load that has not finished.
THEOREM CachedClaimantsAreGenuine == Spec => []CachedClaimantGenuine
  <1>1. IInv => CachedClaimantGenuine
    BY DEF IInv
  <1>. QED BY <1>1, Invariance, PTL

\* The handlers implement the contract of TaskContract, with cancellation
\* possible in every status: each of their statements is one step of it, or none.
THEOREM ImplementsContract == Spec => ContractSpec
  <1>1. Init => Contract!Init
    BY DEF Init, Contract!Init
  <1>2. IInv /\ [Next]_vars => [Contract!Next]_(Contract!vars)
    BY Simulation DEF IInv
  <1>. QED BY <1>1, <1>2, Invariance, PTL DEF Spec, ContractSpec, Contract!Spec
=============================================================================
