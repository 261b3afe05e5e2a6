---------------------------- MODULE TaskContract ----------------------------
(***************************************************************************)
(* What the task service promises to the students who post and claim       *)
(* tasks, without databases, caches or concurrent handlers.  A task is     *)
(* posted open, at most one student ever becomes its claimant, and its     *)
(* status only moves forward.                                              *)
(*                                                                         *)
(* CancelFrom is the set of statuses from which a cancellation may take    *)
(* effect.  The state machine in cmd/task/model/task.go allows it from     *)
(* open and in_progress only; TaskService.tla says which instance the      *)
(* code implements.                                                        *)
(***************************************************************************)
CONSTANTS Task, User, Nobody, CancelFrom

VARIABLES
  status,    \* status of every task, "none" before it is posted
  owner,     \* publisher
  claimant,  \* who took the task on, Nobody before
  withdrawn  \* tasks their publisher deleted

vars == <<status, owner, claimant, withdrawn>>

Init ==
  /\ status    = [t \in Task |-> "none"]
  /\ owner     = [t \in Task |-> Nobody]
  /\ claimant  = [t \in Task |-> Nobody]
  /\ withdrawn = [t \in Task |-> FALSE]

Post(t, u) ==
  /\ status[t] = "none"
  /\ status' = [status EXCEPT ![t] = "open"]
  /\ owner'  = [owner EXCEPT ![t] = u]
  /\ UNCHANGED <<claimant, withdrawn>>

Claim(t, u) ==
  /\ status[t] = "open"
  /\ claimant[t] = Nobody
  /\ u # owner[t]
  /\ status'   = [status EXCEPT ![t] = "in_progress"]
  /\ claimant' = [claimant EXCEPT ![t] = u]
  /\ UNCHANGED <<owner, withdrawn>>

Complete(t) ==
  /\ status[t] = "in_progress"
  /\ status' = [status EXCEPT ![t] = "completed"]
  /\ UNCHANGED <<owner, claimant, withdrawn>>

Cancel(t) ==
  /\ status[t] \in CancelFrom
  /\ status' = [status EXCEPT ![t] = "cancelled"]
  /\ UNCHANGED <<owner, claimant, withdrawn>>

\* One scan may expire several tasks together.
Expire(S) ==
  /\ \A t \in S : status[t] = "open"
  /\ status' = [t \in Task |-> IF t \in S THEN "expired" ELSE status[t]]
  /\ UNCHANGED <<owner, claimant, withdrawn>>

Withdraw(t) ==
  /\ status[t] # "none"
  /\ withdrawn' = [withdrawn EXCEPT ![t] = TRUE]
  /\ UNCHANGED <<status, owner, claimant>>

Next ==
  \/ \E t \in Task, u \in User : Post(t, u) \/ Claim(t, u)
  \/ \E t \in Task : Complete(t) \/ Cancel(t) \/ Withdraw(t)
  \/ \E S \in SUBSET Task : Expire(S)

Spec == Init /\ [][Next]_vars
=============================================================================
