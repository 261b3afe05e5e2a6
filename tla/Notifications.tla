--------------------------- MODULE Notifications ----------------------------
(***************************************************************************)
(* The message service (cmd/message): the handlers of notification.events, *)
(* which write the notifications table, the RPCs of the receivers, and the *)
(* cleanup loop.  Ids come from Snowflake.                                 *)
(*                                                                         *)
(* The consumer handles one message at a time.  A handler issues an id,    *)
(* executes one INSERT and returns; the consumer then acknowledges, or     *)
(* puts the message back if the handler failed.  An INSERT fails, too,     *)
(* when its row is there but the answer of the database is lost.           *)
(* GenerateID panics when the clock is behind, and since the handler runs  *)
(* on the goroutine of the consumer, the process dies of it.  Its          *)
(* successor has a generator with nothing in it, so that it may issue an   *)
(* id again that the table has: the primary key rejects that row, and the  *)
(* message is put back.                                                    *)
(***************************************************************************)
EXTENDS Snowflake, FiniteSets

CONSTANTS
  Event,       \* messages the content service has put into notification.events
  User,        \* students
  Nobody,      \* no receiver: a like, a reply without its parent's author
  School,
  Receiver,    \* [Event -> User or Nobody], whom the handler notifies
  SchoolOf,    \* [Event -> School], ContentEvent.SchoolID
  Retention,   \* 30 days in milliseconds
  MaxRows      \* bound: no INSERT succeeds while the table has so many rows

\* The consumer holds no event.
None == [event |-> "none"]

ASSUME NotificationsAssumption ==
  /\ Nobody \notin User
  /\ None \notin Event
  /\ Receiver \in [Event -> User \cup {Nobody}]
  /\ SchoolOf \in [Event -> School]
  /\ Retention \in Nat

VARIABLES
  queue,       \* messages in notification.events that nobody holds
  holding,     \* the event that is being handled, None
  written,     \* its handler has returned, the acknowledgement is next
  subscribed,  \* the consumer still gets deliveries
  table,       \* the notifications table
  told,        \* events a row of which was ever written (history)
  unanswered   \* events a row of which was written without the consumer's hearing of
               \* it from the database or the broker's hearing of it from the consumer
               \* (history)

consumer == <<queue, holding, written, subscribed>>
history  == <<told, unanswered>>
vars     == <<timing, generator, consumer, table, history>>

\* created_at is the time in the id: both are taken just before the INSERT.  Whether
\* a deleted row (deleted_at) has been read is of no consequence.
Notification == [id : Id, event : Event, state : {"unread", "read", "deleted"}]

TypeOK ==
  /\ GeneratorOK
  /\ queue      \subseteq Event
  /\ holding    \in Event \cup {None}
  /\ written    \in BOOLEAN
  /\ subscribed \in BOOLEAN
  /\ table      \subseteq Notification
  /\ told       \subseteq Event
  /\ unanswered \subseteq Event

Init ==
  /\ GeneratorInit
  /\ queue = Event
  /\ holding = None
  /\ written = FALSE
  /\ subscribed = TRUE
  /\ table = {}
  /\ told = {}
  /\ unanswered = {}

-----------------------------------------------------------------------------
(* The consumer and its handlers                                           *)

Deliver(e) ==
  /\ subscribed
  /\ holding = None
  /\ e \in queue
  /\ queue' = queue \ {e}
  /\ holding' = e
  /\ written' = FALSE
  /\ UNCHANGED <<timing, generator, subscribed, table, history>>

Handling(e) == holding = e /\ ~written

\* The broker gets the message back, if it does not have it already.
PutBack ==
  /\ queue' = queue \cup {holding}
  /\ holding' = None
  /\ written' = FALSE

\* HandleLiked logs; HandleReplied skips an event without the parent's author.
Skip(e) ==
  /\ Handling(e)
  /\ Receiver[e] = Nobody
  /\ written' = TRUE
  /\ UNCHANGED <<timing, generator, queue, holding, subscribed, table, history>>

Taken(id) == \E n \in table : n.id = id

Full == Cardinality(table) >= MaxRows

Insert(e) ==
  /\ ~Full
  /\ table' = table \cup
       {[id |-> latest', event |-> e, state |-> "unread"]}
  /\ told' = told \cup {e}

\* HandleReviewResult, HandleTakenDown, HandleReplied: the row is written.
Create(e) ==
  /\ Handling(e)
  /\ Receiver[e] # Nobody
  /\ Issue
  /\ ~Taken(latest')
  /\ Insert(e)
  /\ written' = TRUE
  /\ UNCHANGED <<queue, holding, subscribed, unanswered>>

\* Mutant: a duplicate key is taken for a row that is there already.
CreateFailsQuietly(e) ==
  /\ Handling(e)
  /\ Receiver[e] # Nobody
  /\ Issue
  /\ IF Taken(latest')
     THEN written' = TRUE /\ UNCHANGED <<queue, holding>>
     ELSE PutBack
  /\ UNCHANGED <<subscribed, table, history>>

\* The row is written, but the answer of the database is lost: Nack with requeue, as
\* for any error.  The next attempt draws another id.
CreateUnanswered(e) ==
  /\ Handling(e)
  /\ Receiver[e] # Nobody
  /\ Issue
  /\ ~Taken(latest')
  /\ Insert(e)
  /\ PutBack
  /\ unanswered' = unanswered \cup {e}
  /\ UNCHANGED subscribed

\* No row is written, for whatever reason, or there is one with this id: Nack with
\* requeue.
CreateFails(e) ==
  /\ Handling(e)
  /\ Receiver[e] # Nobody
  /\ Issue
  /\ PutBack
  /\ UNCHANGED <<subscribed, table, history>>

Wait(e) ==
  /\ Handling(e)
  /\ Receiver[e] # Nobody
  /\ Overflow
  /\ UNCHANGED <<consumer, table, history>>

\* Mutant: what was handled is put back like what failed.
AcknowledgeAsNack ==
  /\ holding # None
  /\ written
  /\ PutBack
  /\ UNCHANGED <<timing, generator, subscribed, table, history>>

\* The acknowledgement removes the message, unless the connection is gone.
Acknowledge ==
  /\ holding # None
  /\ written
  /\ holding' = None
  /\ written' = FALSE
  /\ unanswered' = IF subscribed THEN unanswered ELSE unanswered \cup ({holding} \cap told)
  /\ UNCHANGED <<timing, generator, queue, subscribed, table, told>>

\* The broker keeps what was not acknowledged; the handler runs on.  The consumer
\* does not subscribe again (MessageQueue.tla).
ConnectionBreaks ==
  /\ subscribed
  /\ subscribed' = FALSE
  /\ queue' = IF holding = None THEN queue ELSE queue \cup {holding}
  /\ UNCHANGED <<timing, generator, holding, written, table, history>>

-----------------------------------------------------------------------------
(* A process dies, of anything or of its clock, and docker starts another. *)

Restart ==
  /\ Forget
  /\ holding' = None
  /\ written' = FALSE
  /\ subscribed' = TRUE
  /\ queue' = IF holding = None THEN queue ELSE queue \cup {holding}
  /\ unanswered' = IF written THEN unanswered \cup ({holding} \cap told) ELSE unanswered
  /\ UNCHANGED <<table, told>>

\* GenerateID panics.
Panic(e) ==
  /\ Handling(e)
  /\ Receiver[e] # Nobody
  /\ IsBackwards
  /\ Restart

-----------------------------------------------------------------------------
(* Receivers and the cleanup loop                                          *)

Put(S, state) == (table \ S) \cup {[n EXCEPT !.state = state] : n \in S}

MarkRead(n) ==
  /\ n.state # "deleted"
  /\ table' = Put({n}, "read")
  /\ UNCHANGED <<timing, generator, consumer, history>>

\* What UnreadCount counts, and MarkAllRead marks.  The school is the one in the
\* token of the caller, which may be older than the receiver's binding.
Unread(u, s) ==
  {n \in table :
     Receiver[n.event] = u /\ SchoolOf[n.event] = s /\ n.state = "unread"}

MarkAllRead(u, s) ==
  /\ table' = Put(Unread(u, s), "read")
  /\ UNCHANGED <<timing, generator, consumer, history>>

DeleteNotification(n) ==
  /\ n.state # "deleted"
  /\ table' = Put({n}, "deleted")
  /\ UNCHANGED <<timing, generator, consumer, history>>

CleanupBefore ==
  /\ table' = {n \in table : ~(n.state = "deleted" /\ n.id.time < clock - Retention)}
  /\ UNCHANGED <<timing, generator, consumer, history>>

Time ==
  /\ Tick \/ SetBack
  /\ UNCHANGED <<consumer, table, history>>

Handle(e) ==
  Skip(e) \/ Create(e) \/ CreateUnanswered(e) \/ CreateFails(e) \/ Wait(e) \/ Panic(e)

Next ==
  \/ \E e \in Event : Deliver(e) \/ Handle(e)
  \/ Acknowledge
  \/ ConnectionBreaks
  \/ Restart
  \/ \E n \in table : MarkRead(n) \/ DeleteNotification(n)
  \/ \E u \in User, s \in School : MarkAllRead(u, s)
  \/ CleanupBefore
  \/ Time

Spec == Init /\ [][Next]_vars

\* The next id waits for the clock, or may be one that the table has.
Late == Behind \/ Taken([time |-> clock, seq |-> 0])

\* The consumer runs on and RabbitMQ delivers what nobody holds; an INSERT that is
\* tried for ever succeeds in the end.  Of the clock, which is bounded, no more is
\* asked than that it leaves a time at which the next id is late.
Fairness ==
  /\ \A e \in {f \in Event : Receiver[f] # Nobody} :
       SF_vars(Deliver(e)) /\ SF_vars(Create(e))
  /\ WF_vars((\E e \in Event : Handle(e)) \/ Acknowledge)
  /\ WF_vars(Time /\ clock' > clock /\ Late)

FairSpec == Spec /\ Fairness

-----------------------------------------------------------------------------
(* Properties *)

\* Whoever is to be told of an event is told, or the event is still in the queue or
\* in the hands of a handler, although processes die, of the clock among others, and
\* forget which ids they have issued (event_handlers.go:71, snowflake.go:106).
NothingForgotten ==
  \A e \in Event :
    Receiver[e] # Nobody => e \in queue \cup told \/ holding = e

\* A receiver finds two notifications of one event only if the answer to the first one
\* was lost on its way, from the database to the handler or from the consumer to the
\* broker.  Restarts, repeated ids, a late clock and INSERTs that wrote nothing make no
\* second row.  Nothing in a row says which event it is of, and so nothing could stop
\* one (event_handlers.go:71, notification_repo.go:46).
DuplicatesAreUnanswered ==
  \A m, n \in table : m.event = n.event /\ m # n => m.event \in unanswered

\* While the subscription lasts, whoever is to be told is told in the end: repeated
\* ids, a clock that was set back and dying processes only delay it.
ReceiversAreTold ==
  \A e \in Event :
    e \in queue /\ Receiver[e] # Nobody
      ~> e \in told \/ ~subscribed \/ Full \/ (clock = MaxClock /\ Late)
=============================================================================
