---------------------------- MODULE ContentPosts ----------------------------
(***************************************************************************)
(* The content service (cmd/content): the rows of the posts table, the     *)
(* handlers that write them, and what a handler still has to do once its   *)
(* statement has committed: publish to the two queues and drop the Redis   *)
(* entry.  Each of these is a step of its own, other handlers run between  *)
(* them, and each may fail without the caller being told, so that the row  *)
(* and what is derived from it drift apart.  SearchIndex and PostCache     *)
(* compose this module with what an effect reaches.                        *)
(*                                                                         *)
(* A review handler reads the row, checks its status and then updates      *)
(* WHERE id = ? AND status = <from>, which checks it again; the author id  *)
(* it puts into the event never changes.  So the UPDATE decides alone, and *)
(* a handler is one step up to its UPDATE.                                 *)
(***************************************************************************)
EXTENDS Naturals, Sequences

CONSTANTS
  Post,  \* post ids
  Call   \* concurrent RPCs the server may be running

VARIABLES
  status,   \* posts.status, "none" before the INSERT
  deleted,  \* posts.deleted_at is set
  call,     \* the effects each in-flight RPC still has to bring about
  lost      \* posts an effect of which was dropped

rows  == <<status, deleted>>
posts == <<rows, call, lost>>

Status ==
  {"none", "pending", "published", "expired", "closed", "rejected",
   "retrieved", "sold", "taken_down_pending"}

EventType == {"published", "review_result", "taken_down"}

Effect == [to : {"content", "notification", "cache"}, type : EventType, post : Post]

AIResult == {"PASS", "REVIEW", "BLOCK", "unknown"}

Visible(p) == status[p] # "none" /\ ~deleted[p]

Init ==
  /\ status  = [p \in Post |-> "none"]
  /\ deleted = [p \in Post |-> FALSE]
  /\ call    = [c \in Call |-> <<>>]
  /\ lost    = {}

-----------------------------------------------------------------------------
(* Effects of a committed write                                            *)

\* publishEvent: both queues for a type isNotificationEvent knows.
PublishEvent(type, p) ==
  <<[to |-> "content", type |-> type, post |-> p],
    [to |-> "notification", type |-> type, post |-> p]>>

\* publishEventRaw: content.events only.
PublishEventRaw(type, p) == <<[to |-> "content", type |-> type, post |-> p]>>

\* InvalidatePostCache; the type is of no use here.
InvalidatePostCache(p) == <<[to |-> "cache", type |-> "published", post |-> p]>>

\* decidePostStatus; callAIModeration answers PASS for a call that failed.
DecidePostStatus(r) ==
  CASE r = "PASS"  -> "published"
    [] r = "BLOCK" -> "rejected"
    [] OTHER       -> "pending"

-----------------------------------------------------------------------------
(* Handlers                                                                *)

CreatePost(c, p) ==
  /\ call[c] = <<>>
  /\ status[p] = "none"
  /\ \E r \in AIResult :
       LET s == DecidePostStatus(r) IN
       /\ status' = [status EXCEPT ![p] = s]
       /\ call' = [call EXCEPT ![c] =
            CASE s = "published" -> PublishEvent("published", p)
              [] s = "rejected"  -> PublishEventRaw("review_result", p)
              [] OTHER           -> <<>>]
  /\ UNCHANGED <<deleted, lost>>

\* Mutant: the UPDATE names the id only.
UpdateReviewById(c, p, from, to, effects) ==
  /\ call[c] = <<>>
  /\ Visible(p)
  /\ status' = [status EXCEPT ![p] = to]
  /\ call' = [call EXCEPT ![c] = effects]
  /\ UNCHANGED <<deleted, lost>>

UpdateReview(c, p, from, to, effects) ==
  /\ call[c] = <<>>
  /\ Visible(p)
  /\ status[p] = from
  /\ status' = [status EXCEPT ![p] = to]
  /\ call' = [call EXCEPT ![c] = effects]
  /\ UNCHANGED <<deleted, lost>>

ApprovePost(c, p) ==
  UpdateReview(c, p, "pending", "published", PublishEvent("published", p))

RejectPost(c, p) ==
  UpdateReview(c, p, "pending", "rejected", PublishEventRaw("review_result", p))

TakedownPost(c, p) ==
  UpdateReview(c, p, "published", "closed", PublishEventRaw("taken_down", p))

MarkRetrieved(c, p) ==
  UpdateReview(c, p, "published", "retrieved", InvalidatePostCache(p))

MarkSold(c, p) == UpdateReview(c, p, "published", "sold", InvalidatePostCache(p))

\* The UPDATE finds a row of the author; the columns it sets are not modelled.
UpdateOwned(c, p) ==
  /\ call[c] = <<>>
  /\ Visible(p)
  /\ call' = [call EXCEPT ![c] = InvalidatePostCache(p)]
  /\ UNCHANGED <<rows, lost>>

UpdatePost(c, p) == UpdateOwned(c, p)

\* DeletePost: no event, so no consumer learns of it.
DeletePost(c, p) ==
  /\ call[c] = <<>>
  /\ Visible(p)
  /\ deleted' = [deleted EXCEPT ![p] = TRUE]
  /\ call' = [call EXCEPT ![c] = InvalidatePostCache(p)]
  /\ UNCHANGED <<status, lost>>

-----------------------------------------------------------------------------
(* A handler goes on with its next effect                                  *)

NextEffect(c) == Head(call[c])

BringAbout(c, to) ==
  /\ call[c] # <<>>
  /\ NextEffect(c).to = to
  /\ call' = [call EXCEPT ![c] = Tail(@)]
  /\ UNCHANGED <<rows, lost>>

\* Publish answers nil whatever happens, and the error of the DEL is dropped.
EffectFails(c) ==
  /\ call[c] # <<>>
  /\ call' = [call EXCEPT ![c] = Tail(@)]
  /\ lost' = lost \cup {NextEffect(c).post}
  /\ UNCHANGED rows

\* Some handler still has an effect on the post to bring about.
Owed(p) == \E c \in Call : \E i \in 1..Len(call[c]) : call[c][i].post = p

\* The process ends, and with it the effects its handlers still owed.
Die ==
  /\ call' = [c \in Call |-> <<>>]
  /\ lost' = lost \cup {p \in Post : Owed(p)}
  /\ UNCHANGED rows

Handler(c, p) ==
  \/ CreatePost(c, p)
  \/ ApprovePost(c, p)
  \/ RejectPost(c, p)
  \/ TakedownPost(c, p)
  \/ MarkRetrieved(c, p)
  \/ MarkSold(c, p)
  \/ UpdatePost(c, p)
  \/ DeletePost(c, p)
=============================================================================
