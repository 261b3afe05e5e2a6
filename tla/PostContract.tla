---------------------------- MODULE PostContract ----------------------------
(***************************************************************************)
(* What students may rely on when they post and search, without databases, *)
(* queues or concurrent handlers: a post only moves along the state        *)
(* machine of cmd/content/model/post.go, and the search index shows a post *)
(* in no status but one it has had since it was published.                 *)
(***************************************************************************)
CONSTANT Post

VARIABLES
  status,     \* status of every post, "none" before it is written
  withdrawn,  \* posts their author deleted
  doc         \* the status the search index shows, "none" without a document

vars == <<status, withdrawn, doc>>

\* model.allowedTransitions
AllowedTransitions ==
  ({"pending"} \X {"published", "rejected"})
    \cup ({"published"} \X {"closed", "expired", "retrieved", "sold", "taken_down_pending"})
    \cup ({"taken_down_pending"} \X {"closed", "published"})

\* The statuses a post can have once it has been published.
Published ==
  {"published", "closed", "expired", "retrieved", "sold", "taken_down_pending"}

\* A published post can have passed through s on its way to r.
Behind(s, r) ==
  \/ s = r
  \/ s \in {"published", "taken_down_pending"}

Init ==
  /\ status    = [p \in Post |-> "none"]
  /\ withdrawn = [p \in Post |-> FALSE]
  /\ doc       = [p \in Post |-> "none"]

\* The automatic moderation decides the first status.
Submit(p) ==
  /\ status[p] = "none"
  /\ \E s \in {"published", "pending", "rejected"} : status' = [status EXCEPT ![p] = s]
  /\ UNCHANGED <<withdrawn, doc>>

Move(p) ==
  /\ ~withdrawn[p]
  /\ \E s \in Published \cup {"rejected"} :
       /\ <<status[p], s>> \in AllowedTransitions
       /\ status' = [status EXCEPT ![p] = s]
  /\ UNCHANGED <<withdrawn, doc>>

Withdraw(p) ==
  /\ status[p] # "none"
  /\ withdrawn' = [withdrawn EXCEPT ![p] = TRUE]
  /\ UNCHANGED <<status, doc>>

\* The index may lag behind the post.
Index(p) ==
  /\ status[p] \in Published
  /\ \E s \in Published :
       /\ Behind(s, status[p])
       /\ doc' = [doc EXCEPT ![p] = s]
  /\ UNCHANGED <<status, withdrawn>>

Unindex(p) ==
  /\ status[p] = "closed"
  /\ doc' = [doc EXCEPT ![p] = "none"]
  /\ UNCHANGED <<status, withdrawn>>

Next ==
  \E p \in Post :
    \/ Submit(p)
    \/ Move(p)
    \/ Withdraw(p)
    \/ Index(p)
    \/ Unindex(p)

Spec == Init /\ [][Next]_vars
=============================================================================
