---------------------------- MODULE SearchIndex -----------------------------
(***************************************************************************)
(* The content service composed with queue content.events and the ES-Sync  *)
(* consumer (cmd/content/service/es_sync.go), which keeps the documents of *)
(* the search index.                                                       *)
(*                                                                         *)
(* The consumer handles one message at a time and acknowledges it when its *)
(* handler returns.  A handler that fails puts its message back, behind    *)
(* those already delivered.  When its connection breaks, the handler goes  *)
(* on, its acknowledgement is lost and the message stays in the queue; the *)
(* consumer does not subscribe again before the process is restarted       *)
(* (MessageQueue.tla models the loop that is responsible).  An HTTP error  *)
(* of Elasticsearch is a line in the log: the message is acknowledged all  *)
(* the same.                                                               *)
(***************************************************************************)
EXTENDS ContentPosts

VARIABLES
  contentEvents,  \* queue content.events
  reading,        \* the status handlePublished has read and not indexed yet, or "idle"
  subscribed,     \* the consumer still gets deliveries
  doc             \* status in the Elasticsearch document of a post, "none" without one

vars == <<posts, contentEvents, reading, subscribed, doc>>

Event == [type : EventType, post : Post]

TypeOK ==
  /\ status        \in [Post -> Status]
  /\ deleted       \in [Post -> BOOLEAN]
  /\ call          \in [Call -> Seq(Effect)]
  /\ lost          \subseteq Post
  /\ contentEvents \in Seq(Event)
  /\ reading       \in Status \cup {"idle"}
  /\ subscribed    \in BOOLEAN
  /\ doc           \in [Post -> Status]

IndexInit ==
  /\ Init
  /\ contentEvents = <<>>
  /\ reading = "idle"
  /\ subscribed = TRUE
  /\ doc = [p \in Post |-> "none"]

-----------------------------------------------------------------------------
(* Steps of the content service; the notification queue and Redis are      *)
(* outside this module.                                                    *)

Publish(c) ==
  /\ BringAbout(c, "content")
  /\ contentEvents' = Append(contentEvents,
       [type |-> NextEffect(c).type, post |-> NextEffect(c).post])
  /\ UNCHANGED <<reading, subscribed, doc>>

OtherEffect(c) ==
  /\ BringAbout(c, "notification") \/ BringAbout(c, "cache") \/ EffectFails(c)
  /\ UNCHANGED <<contentEvents, reading, subscribed, doc>>

Handle(c, p) ==
  /\ Handler(c, p)
  /\ UNCHANGED <<contentEvents, reading, subscribed, doc>>

\* The process stops and starts again.  It runs the consumer too: the message
\* that one was handling is delivered again.
Restart ==
  /\ Die
  /\ reading' = "idle"
  /\ subscribed' = TRUE
  /\ UNCHANGED <<contentEvents, doc>>

-----------------------------------------------------------------------------
(* ES-Sync                                                                 *)

Subject == Head(contentEvents).post

\* Without a connection the answer to a delivery is lost.
Answer(q) == contentEvents' = IF subscribed THEN q ELSE contentEvents

Ack == Answer(Tail(contentEvents))

\* Nack with requeue.
Requeue == Answer(Append(Tail(contentEvents), Head(contentEvents)))

ConnectionBreaks ==
  /\ subscribed
  /\ subscribed' = FALSE
  /\ UNCHANGED <<posts, contentEvents, reading, doc>>

Handling(type) ==
  /\ subscribed
  /\ reading = "idle"
  /\ contentEvents # <<>>
  /\ Head(contentEvents).type = type

\* Mutant: the document's status is the one the event speaks of.
HandlePublishedFromEvent ==
  /\ Handling("published")
  /\ reading' = "published"
  /\ UNCHANGED <<posts, contentEvents, subscribed, doc>>

\* handlePublished reads the row.  A row that is gone is an error like any
\* other: the message is tried again, for ever.
HandlePublished ==
  /\ Handling("published")
  /\ IF Visible(Subject)
     THEN reading' = status[Subject] /\ UNCHANGED contentEvents
     ELSE Requeue /\ UNCHANGED reading
  /\ UNCHANGED <<posts, subscribed, doc>>

\* The database does not answer.
PublishedReadFails ==
  /\ Handling("published")
  /\ Requeue
  /\ UNCHANGED <<posts, reading, subscribed, doc>>

IndexPost ==
  /\ reading # "idle"
  /\ reading' = "idle"
  /\ doc' = [doc EXCEPT ![Subject] = reading]
  /\ Ack
  /\ UNCHANGED <<posts, subscribed>>

\* The event is lost with the message that carried it.
Refused == lost' = IF subscribed THEN lost \cup {Subject} ELSE lost

\* Mutant: a failed handler acknowledges its message.
IndexPostFailsAcked ==
  /\ reading # "idle"
  /\ reading' = "idle"
  /\ Ack
  /\ UNCHANGED <<posts, subscribed, doc>>

IndexPostFails ==
  /\ reading # "idle"
  /\ reading' = "idle"
  /\ \/ Requeue /\ UNCHANGED lost   \* no answer
     \/ Ack /\ Refused              \* an HTTP error
  /\ UNCHANGED <<rows, call, subscribed, doc>>

\* The connection may break between the DELETE and the acknowledgement.
HandleTakenDown ==
  /\ Handling("taken_down")
  /\ doc' = [doc EXCEPT ![Subject] = "none"]
  /\ \/ Ack /\ UNCHANGED subscribed
     \/ subscribed' = FALSE /\ UNCHANGED contentEvents
  /\ UNCHANGED <<posts, reading>>

DeletePostFails ==
  /\ Handling("taken_down")
  /\ \/ Requeue /\ UNCHANGED lost
     \/ Ack /\ Refused
  /\ UNCHANGED <<rows, call, reading, subscribed, doc>>

\* No handler is registered for the type: acknowledged and dropped.
HandleOther ==
  /\ Handling("review_result")
  /\ Ack
  /\ UNCHANGED <<posts, reading, subscribed, doc>>

Step ==
  \/ \E c \in Call, p \in Post : Handle(c, p)
  \/ \E c \in Call : Publish(c) \/ OtherEffect(c)
  \/ HandlePublished
  \/ PublishedReadFails
  \/ IndexPost
  \/ IndexPostFails
  \/ HandleTakenDown
  \/ DeletePostFails
  \/ HandleOther
  \/ ConnectionBreaks

Next == Step \/ Restart

Spec == IndexInit /\ [][Next]_vars

\* Handlers go on until they return.  While the connection lasts, RabbitMQ
\* delivers a message until it is acknowledged: one that can be handled is handled
\* in the end, if MySQL and Elasticsearch do not refuse it every time.
Fairness ==
  /\ \A c \in Call : WF_vars(Publish(c) \/ OtherEffect(c))
  /\ \A p \in Post :
       /\ SF_vars(HandlePublished /\ Subject = p)
       /\ SF_vars(IndexPost /\ Subject = p)
       /\ SF_vars(HandleTakenDown /\ subscribed' /\ Subject = p)
  /\ WF_vars(HandleOther)

-----------------------------------------------------------------------------
(* Searching *)

\* What the search asks of a document's status; keyword, school and the other filters
\* let every post through.
BuildSearchQuery(wanted) ==
  {s \in Status : s # "none" /\ wanted \in {"unspecified", s}}

Search(query) == {p \in Post : doc[p] \in query}

\* The posts come from the documents; no row is read.
SearchContent(wanted) == Search(BuildSearchQuery(wanted))

-----------------------------------------------------------------------------
(* Properties *)

\* The contract of PostContract: the rows follow the state machine although
\* every handler reads before it writes, and a document shows a status the post
\* has had since it was published, however late the consumer is.
Contract == INSTANCE PostContract WITH withdrawn <- deleted

ContractSpec == Contract!Spec

\* A content.taken_down event of the post is queued, or owed by a handler.
TakedownUnderWay(p) ==
  \/ \E i \in 1..Len(contentEvents) :
       contentEvents[i] = [type |-> "taken_down", post |-> p]
  \/ \E c \in Call : \E i \in 1..Len(call[c]) :
       call[c][i] = [to |-> "content", type |-> "taken_down", post |-> p]

\* The search may show a taken-down post as a published one only while its
\* content.taken_down event is on its way, whatever the order of the events and
\* however often they are delivered, unless an event of it was dropped or
\* Elasticsearch refused a request.
TakedownReachesSearch ==
  \A p \in Post :
    status[p] = "closed" /\ p \in SearchContent("published") /\ p \notin lost
      => TakedownUnderWay(p)

\* content.taken_down is there to delete the document: a taken-down post that
\* has no event left has none.  Not so: content.published may be the later event, and
\* handlePublished indexes a closed post again.
TakedownLeavesNoDocument ==
  \A p \in Post :
    status[p] = "closed" /\ p \notin lost /\ contentEvents = <<>> /\ ~Owed(p)
      => doc[p] = "none"

\* As long as the consumer's connection lasts, a published post gets into the
\* index unless it is deleted, leaves the status or an event of it was dropped.
PublicationReachesSearch ==
  \A p \in Post :
    Visible(p) /\ status[p] = "published"
      ~> \/ p \in SearchContent("unspecified")
         \/ ~Visible(p) \/ status[p] # "published"
         \/ p \in lost
         \/ ~subscribed
=============================================================================
