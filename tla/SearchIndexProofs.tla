------------------------- MODULE SearchIndexProofs --------------------------
(***************************************************************************)
(* Proofs about SearchIndex, for any number of posts and concurrent        *)
(* handlers and a queue of any length: a taken-down post is not left in    *)
(* the index as a published one.                                           *)
(*                                                                         *)
(* TakedownReachesSearch is not inductive: a consumer that has read a      *)
(* published row may index it long after the takedown.  Settled adds that  *)
(* this, too, can only happen while content.taken_down is on its way: the  *)
(* consumer handles one message at a time, and the message in its hands is *)
(* not the one that deletes the document.                                  *)
(*                                                                         *)
(* The same service implements PostContract, and with its Redis copies     *)
(* (PostCache) it takes no other steps: what is proved of SearchIndex      *)
(* holds of PostCache, too.                                                *)
(***************************************************************************)
EXTENDS PostCache, TLAPS

\* The consumer has a content.published message in its hands while it has read a
\* row and not indexed it.
ReadingConsistent ==
  reading # "idle" =>
    /\ contentEvents # <<>>
    /\ Head(contentEvents).type = "published"

\* Nothing shows the post as published, and nothing is about to.
Settled(p) ==
  /\ doc[p] # "published"
  /\ ~(reading = "published" /\ contentEvents # <<>> /\ Subject = p)

TakedownSettles ==
  \A p \in Post :
    status[p] = "closed" /\ p \notin lost => TakedownUnderWay(p) \/ Settled(p)

IInv == TypeOK /\ ReadingConsistent /\ TakedownSettles

-----------------------------------------------------------------------------
(* Lemmas about queues                                                     *)

In(e, q) == \E i \in 1..Len(q) : q[i] = e

LEMMA InAppend ==
  ASSUME NEW S, NEW q \in Seq(S), NEW e \in S, NEW x
  PROVE  In(x, Append(q, e)) <=> In(x, q) \/ x = e
  BY DEF In

LEMMA InHeadTail ==
  ASSUME NEW S, NEW q \in Seq(S), q # <<>>, NEW x
  PROVE  In(x, q) <=> x = Head(q) \/ In(x, Tail(q))
  <1>1. ASSUME In(x, q), x # Head(q) PROVE In(x, Tail(q))
    <2>1. PICK i \in 1..Len(q) : q[i] = x
      BY <1>1 DEF In
    <2>2. i - 1 \in 1..Len(Tail(q)) /\ Tail(q)[i - 1] = x
      BY <1>1, <2>1
    <2>. QED BY <2>2 DEF In
  <1>2. ASSUME In(x, Tail(q)) PROVE In(x, q)
    <2>1. PICK i \in 1..Len(Tail(q)) : Tail(q)[i] = x
      BY <1>2 DEF In
    <2>2. i + 1 \in 1..Len(q) /\ q[i + 1] = x
      BY <2>1
    <2>. QED BY <2>2 DEF In
  <1>3. ASSUME x = Head(q) PROVE In(x, q)
    BY <1>3 DEF In
  <1>. QED BY <1>1, <1>2, <1>3

\* Putting a message back loses none.
LEMMA InRequeue ==
  ASSUME NEW S, NEW q \in Seq(S), q # <<>>, NEW x, In(x, q)
  PROVE  In(x, Append(Tail(q), Head(q)))
  <1>1. Tail(q) \in Seq(S) /\ Head(q) \in S
    OBVIOUS
  <1>. QED BY <1>1, InAppend, InHeadTail

-----------------------------------------------------------------------------
(* Type correctness                                                        *)

LEMMA EffectsType ==
  ASSUME NEW p \in Post, NEW type \in EventType
  PROVE  /\ PublishEvent(type, p) \in Seq(Effect)
         /\ PublishEventRaw(type, p) \in Seq(Effect)
         /\ InvalidatePostCache(p) \in Seq(Effect)
  <1>1. \A to \in {"content", "notification", "cache"}, t \in EventType :
          [to |-> to, type |-> t, post |-> p] \in Effect
    BY DEF Effect
  <1>2. "published" \in EventType
    BY DEF EventType
  <1>. QED BY <1>1, <1>2 DEF PublishEvent, PublishEventRaw, InvalidatePostCache

LEMMA TypeInit == IndexInit => TypeOK
  BY DEF IndexInit, Init, TypeOK, Status

\* A handler writes a status the posts table knows and owes well-formed effects.
LEMMA HandlerType ==
  ASSUME NEW c \in Call, NEW p \in Post, Handler(c, p),
         status \in [Post -> Status], deleted \in [Post -> BOOLEAN],
         call \in [Call -> Seq(Effect)]
  PROVE  /\ status' \in [Post -> Status]
         /\ deleted' \in [Post -> BOOLEAN]
         /\ call' \in [Call -> Seq(Effect)]
         /\ lost' = lost
  <1>. USE DEF Status, rows
  <1>1. /\ {"published", "review_result", "taken_down"} = EventType
        /\ <<>> \in Seq(Effect)
    BY DEF EventType
  <1>2. CASE CreatePost(c, p)
    <2>1. PICK s \in {"published", "rejected", "pending"} :
            /\ status' = [status EXCEPT ![p] = s]
            /\ call' = [call EXCEPT ![c] =
                 CASE s = "published" -> PublishEvent("published", p)
                   [] s = "rejected"  -> PublishEventRaw("review_result", p)
                   [] OTHER           -> <<>>]
      BY <1>2 DEF CreatePost, DecidePostStatus
    <2>. QED BY <1>1, <1>2, <2>1, EffectsType DEF CreatePost
  <1>3. CASE ApprovePost(c, p) \/ RejectPost(c, p) \/ TakedownPost(c, p)
    BY <1>1, <1>3, EffectsType DEF ApprovePost, RejectPost, TakedownPost, UpdateReview
  <1>4. CASE MarkRetrieved(c, p) \/ MarkSold(c, p)
    BY <1>1, <1>4, EffectsType DEF MarkRetrieved, MarkSold, UpdateReview
  <1>5. CASE UpdatePost(c, p) \/ DeletePost(c, p)
    BY <1>1, <1>5, EffectsType DEF UpdatePost, UpdateOwned, DeletePost
  <1>. QED BY <1>2, <1>3, <1>4, <1>5 DEF Handler

\* Taking the head of a queue, or putting it back, keeps a sequence of its kind.
LEMMA QueueType ==
  ASSUME NEW S, NEW q \in Seq(S), q # <<>>
  PROVE  /\ Head(q) \in S
         /\ Tail(q) \in Seq(S)
         /\ Append(Tail(q), Head(q)) \in Seq(S)
  OBVIOUS

LEMMA TypeStep == TypeOK /\ ReadingConsistent /\ [Next]_vars => TypeOK'
  <1>. SUFFICES ASSUME TypeOK, ReadingConsistent, [Next]_vars PROVE TypeOK'
    OBVIOUS
  <1>. USE DEF TypeOK
  <1>1. CASE UNCHANGED vars
    BY <1>1 DEF vars, posts, rows
  <1>2. ASSUME NEW c \in Call, NEW p \in Post, Handle(c, p)
        PROVE  TypeOK'
    BY <1>2, HandlerType DEF Handle
  <1>3. ASSUME NEW c \in Call, call[c] # <<>>
        PROVE  /\ NextEffect(c) \in Effect
               /\ NextEffect(c).type \in EventType
               /\ NextEffect(c).post \in Post
               /\ [call EXCEPT ![c] = Tail(@)] \in [Call -> Seq(Effect)]
    <2>1. NextEffect(c) \in Effect /\ Tail(call[c]) \in Seq(Effect)
      BY <1>3, QueueType DEF NextEffect
    <2>. QED BY <2>1 DEF Effect
  <1>4. ASSUME NEW c \in Call, Publish(c)
        PROVE  TypeOK'
    <2>1. call[c] # <<>>
      BY <1>4 DEF Publish, BringAbout
    <2>2. [type |-> NextEffect(c).type, post |-> NextEffect(c).post] \in Event
      BY <1>3, <2>1 DEF Event
    <2>3. contentEvents' \in Seq(Event)
      BY <1>4, <2>2 DEF Publish
    <2>. QED BY <1>3, <1>4, <2>1, <2>3 DEF Publish, BringAbout, rows
  <1>5. ASSUME NEW c \in Call, OtherEffect(c)
        PROVE  TypeOK'
    <2>1. call[c] # <<>>
      BY <1>5 DEF OtherEffect, BringAbout, EffectFails
    <2>. QED BY <1>3, <1>5, <2>1 DEF OtherEffect, BringAbout, EffectFails, rows
  <1>6. ASSUME contentEvents # <<>>
        PROVE  /\ Subject \in Post
               /\ Ack \/ Requeue => contentEvents' \in Seq(Event)
    <2>1. Head(contentEvents) \in Event
      BY <1>6, QueueType
    <2>2. Subject \in Post
      BY <2>1 DEF Subject, Event
    <2>. QED BY <1>6, <2>2, QueueType DEF Ack, Requeue, Answer
  <1>7. CASE HandlePublished \/ PublishedReadFails
    <2>1. contentEvents # <<>>
      BY <1>7 DEF HandlePublished, PublishedReadFails, Handling
    <2>2. reading' \in Status \cup {"idle"}
      BY <1>6, <1>7, <2>1 DEF HandlePublished, PublishedReadFails
    <2>3. contentEvents' \in Seq(Event)
      BY <1>6, <1>7, <2>1 DEF HandlePublished, PublishedReadFails
    <2>. QED BY <1>7, <2>2, <2>3 DEF HandlePublished, PublishedReadFails, posts, rows
  <1>8. CASE IndexPost
    <2>1. contentEvents # <<>> /\ reading \in Status
      BY <1>8 DEF IndexPost, ReadingConsistent
    <2>. QED BY <1>6, <1>8, <2>1 DEF IndexPost, posts, rows
  <1>9. CASE IndexPostFails
    <2>1. contentEvents # <<>>
      BY <1>9 DEF IndexPostFails, ReadingConsistent
    <2>. QED BY <1>6, <1>9, <2>1 DEF IndexPostFails, Refused, rows
  <1>10. CASE HandleTakenDown
    <2>1. "none" \in Status
      BY DEF Status
    <2>. QED BY <1>6, <1>10, <2>1 DEF HandleTakenDown, Handling, posts, rows
  <1>11. CASE DeletePostFails
    BY <1>6, <1>11 DEF DeletePostFails, Handling, Refused, rows
  <1>12. CASE HandleOther
    BY <1>6, <1>12 DEF HandleOther, Handling, posts, rows
  <1>13. CASE Restart
    BY <1>13 DEF Restart, Die, rows
  <1>14. CASE ConnectionBreaks
    BY <1>14 DEF ConnectionBreaks, posts, rows
  <1>. HIDE DEF TypeOK
  <1>. QED
    BY <1>1, <1>2, <1>4, <1>5, <1>7, <1>8, <1>9, <1>10, <1>11, <1>12, <1>13, <1>14 DEF Next, Step

LEMMA ReadingStep ==
  ASSUME TypeOK, ReadingConsistent, [Next]_vars
  PROVE  ReadingConsistent'
  <1>. USE DEF ReadingConsistent
  <1>1. CASE UNCHANGED vars
    BY <1>1 DEF vars
  <1>2. ASSUME NEW c \in Call, Publish(c)
        PROVE  ReadingConsistent'
    <2>1. PICK e : contentEvents' = Append(contentEvents, e)
      BY <1>2 DEF Publish
    <2>2. contentEvents \in Seq(Event) /\ reading' = reading
      BY <1>2 DEF Publish, TypeOK
    <2>3. contentEvents # <<>> =>
            contentEvents' # <<>> /\ Head(contentEvents') = Head(contentEvents)
      BY <2>1, <2>2
    <2>. QED BY <2>2, <2>3
  <1>3. ASSUME UNCHANGED <<contentEvents, reading>> \/ reading' = "idle"
        PROVE  ReadingConsistent'
    BY <1>3
  <1>4. CASE HandlePublished
    BY <1>4 DEF HandlePublished, Handling
  <1>5. CASE PublishedReadFails \/ HandleTakenDown \/ DeletePostFails \/ HandleOther
    BY <1>3, <1>5 DEF PublishedReadFails, HandleTakenDown, DeletePostFails, HandleOther, Handling
  <1>6. CASE IndexPost \/ IndexPostFails \/ Restart
    BY <1>3, <1>6 DEF IndexPost, IndexPostFails, Restart
  <1>7. ASSUME NEW c \in Call, NEW p \in Post, Handle(c, p)
        PROVE  ReadingConsistent'
    BY <1>3, <1>7 DEF Handle
  <1>8. ASSUME NEW c \in Call, OtherEffect(c)
        PROVE  ReadingConsistent'
    BY <1>3, <1>8 DEF OtherEffect
  <1>9. CASE ConnectionBreaks
    BY <1>3, <1>9 DEF ConnectionBreaks
  <1>. HIDE DEF ReadingConsistent
  <1>. QED BY <1>1, <1>2, <1>4, <1>5, <1>6, <1>7, <1>8, <1>9 DEF Next, Step

-----------------------------------------------------------------------------
(* A takedown under way settles                                            *)

Gone(p) == [type |-> "taken_down", post |-> p]

OwesGone(p) == [to |-> "content", type |-> "taken_down", post |-> p]

LEMMA UnderWay ==
  ASSUME NEW p
  PROVE  TakedownUnderWay(p) <=>
           \/ In(Gone(p), contentEvents)
           \/ \E c \in Call : In(OwesGone(p), call[c])
  BY DEF TakedownUnderWay, In, Gone, OwesGone

LEMMA UnderWayAfter ==
  ASSUME NEW p
  PROVE  TakedownUnderWay(p)' <=>
           \/ In(Gone(p), contentEvents')
           \/ \E c \in Call : In(OwesGone(p), call'[c])
  BY DEF TakedownUnderWay, In, Gone, OwesGone

\* A handler closes a post by owing the event that deletes its document; it does
\* nothing to an event that is owed or queued.
LEMMA HandleSettles ==
  ASSUME TypeOK, TakedownSettles, NEW c \in Call, NEW q \in Post, Handle(c, q)
  PROVE  TakedownSettles'
  <1>. SUFFICES ASSUME NEW p \in Post, status'[p] = "closed", p \notin lost'
                PROVE  TakedownUnderWay(p)' \/ Settled(p)'
    BY DEF TakedownSettles
  <1>0. /\ UNCHANGED <<contentEvents, reading, doc>>
        /\ Handler(c, q)
    BY DEF Handle
  <1>1. /\ call[c] = <<>>
        /\ \A d \in Call : d # c => call'[d] = call[d]
        /\ lost' = lost
    BY <1>0 DEF Handler, CreatePost, ApprovePost, RejectPost, TakedownPost, MarkRetrieved,
               MarkSold, UpdateReview, UpdatePost, UpdateOwned, DeletePost, TypeOK
  <1>2. CASE status[p] = "closed"
    <2>1. ASSUME TakedownUnderWay(p) PROVE TakedownUnderWay(p)'
      <3>1. ~In(OwesGone(p), call[c])
        BY <1>1 DEF In
      <3>. QED BY <1>0, <1>1, <2>1, <3>1, UnderWay, UnderWayAfter
    <2>2. Settled(p) => Settled(p)'
      BY <1>0 DEF Settled, Subject
    <2>. QED BY <1>1, <1>2, <2>1, <2>2 DEF TakedownSettles
  <1>3. CASE status[p] # "closed"
    <2>1. TakedownPost(c, q) /\ p = q
      BY <1>0, <1>3 DEF Handler, CreatePost, DecidePostStatus, ApprovePost, RejectPost, TakedownPost,
                        MarkRetrieved, MarkSold, UpdateReview, UpdatePost, UpdateOwned, DeletePost,
                        TypeOK, rows
    <2>2. call'[c] = <<OwesGone(p)>>
      BY <2>1 DEF TakedownPost, UpdateReview, PublishEventRaw, OwesGone, TypeOK
    <2>3. In(OwesGone(p), call'[c])
      BY <2>2 DEF In
    <2>. QED BY <2>3, UnderWayAfter
  <1>. QED BY <1>2, <1>3

\* An effect leaves its handler for the queue, or the post is one of those that
\* lost an event.
LEMMA EffectSettles ==
  ASSUME TypeOK, ReadingConsistent, TakedownSettles, NEW c \in Call,
         Publish(c) \/ OtherEffect(c)
  PROVE  TakedownSettles'
  <1>. SUFFICES ASSUME NEW p \in Post, status[p] = "closed", p \notin lost, p \notin lost'
                PROVE  TakedownUnderWay(p)' \/ Settled(p)'
    BY DEF TakedownSettles, Publish, OtherEffect, BringAbout, EffectFails, rows
  <1>1. /\ call[c] # <<>>
        /\ call' = [call EXCEPT ![c] = Tail(call[c])]
        /\ call[c] \in Seq(Effect)
        /\ contentEvents \in Seq(Event)
    BY DEF Publish, OtherEffect, BringAbout, EffectFails, TypeOK
  <1>2. /\ call'[c] = Tail(call[c])
        /\ \A d \in Call : d # c => call'[d] = call[d]
    BY <1>1 DEF TypeOK
  <1>3. \A x : In(x, call[c]) <=> x = NextEffect(c) \/ In(x, call'[c])
    BY <1>1, <1>2, InHeadTail DEF NextEffect
  <1>4. UNCHANGED <<reading, doc>>
    BY DEF Publish, OtherEffect
  <1>5. CASE Publish(c)
    <2>. DEFINE e == [type |-> NextEffect(c).type, post |-> NextEffect(c).post]
    <2>1. contentEvents' = Append(contentEvents, e)
      BY <1>5 DEF Publish
    <2>2. NextEffect(c) \in Effect
      BY <1>1, QueueType DEF NextEffect
    <2>3. e \in Event
      BY <2>2 DEF Effect, Event
    <2>4. \A x : In(x, contentEvents') <=> In(x, contentEvents) \/ x = e
      BY <1>1, <2>1, <2>3, InAppend
    <2>5. NextEffect(c) = OwesGone(p) => e = Gone(p)
      BY DEF OwesGone, Gone
    <2>6. TakedownUnderWay(p) => TakedownUnderWay(p)'
      BY <1>2, <1>3, <2>4, <2>5, UnderWay, UnderWayAfter
    <2>7. contentEvents # <<>> => Head(contentEvents') = Head(contentEvents)
      BY <1>1, <2>1, <2>3
    <2>8. Settled(p) => Settled(p)'
      BY <1>4, <2>7 DEF Settled, Subject, ReadingConsistent
    <2>. QED BY <2>6, <2>8 DEF TakedownSettles
  <1>6. CASE OtherEffect(c)
    <2>1. UNCHANGED contentEvents
      BY <1>6 DEF OtherEffect
    <2>2. NextEffect(c) # OwesGone(p)
      BY <1>6 DEF OtherEffect, BringAbout, EffectFails, OwesGone
    <2>3. TakedownUnderWay(p) => TakedownUnderWay(p)'
      BY <1>2, <1>3, <2>1, <2>2, UnderWay, UnderWayAfter
    <2>4. Settled(p) => Settled(p)'
      BY <1>4, <2>1 DEF Settled, Subject
    <2>. QED BY <2>3, <2>4 DEF TakedownSettles
  <1>. QED BY <1>5, <1>6

\* The consumer, whatever it does with a message: one it acknowledges is either
\* not the event that deletes the document, or has deleted it.
LEMMA ConsumerSettles ==
  ASSUME TypeOK, ReadingConsistent, TakedownSettles,
         \/ HandlePublished
         \/ PublishedReadFails
         \/ IndexPost
         \/ IndexPostFails
         \/ HandleTakenDown
         \/ DeletePostFails
         \/ HandleOther
  PROVE  TakedownSettles'
  <1>. DEFINE e == Head(contentEvents)
  <1>1. contentEvents # <<>> /\ contentEvents \in Seq(Event)
    BY DEF HandlePublished, PublishedReadFails, IndexPost, IndexPostFails, HandleTakenDown,
           DeletePostFails, HandleOther, Handling, ReadingConsistent, TypeOK
  <1>2. UNCHANGED rows /\ UNCHANGED call /\ lost \subseteq lost'
    BY DEF HandlePublished, PublishedReadFails, IndexPost, IndexPostFails, HandleTakenDown,
           DeletePostFails, HandleOther, Refused, posts
  <1>. SUFFICES ASSUME NEW p \in Post, status[p] = "closed", p \notin lost, p \notin lost'
                PROVE  TakedownUnderWay(p)' \/ Settled(p)'
    BY <1>2 DEF TakedownSettles, rows
  <1>3. TakedownUnderWay(p) \/ Settled(p)
    BY DEF TakedownSettles
  <1>4. e = Gone(p) <=> e.type = "taken_down" /\ e.post = p
    <2>1. e \in Event
      BY <1>1, QueueType
    <2>. HIDE DEF e
    <2>. QED BY <2>1 DEF Event, Gone
  \* A message that stays in the queue.
  <1>5. Requeue \/ UNCHANGED contentEvents => (TakedownUnderWay(p) => TakedownUnderWay(p)')
    <2>1. CASE UNCHANGED contentEvents
      BY <1>2, <2>1, UnderWay, UnderWayAfter
    <2>2. CASE Requeue
      <3>1. In(Gone(p), contentEvents) => In(Gone(p), contentEvents')
        BY <1>1, <2>2, InRequeue DEF Requeue, Answer
      <3>. QED BY <1>2, <3>1, UnderWay, UnderWayAfter
    <2>. QED BY <2>1, <2>2
  \* A message that leaves it.
  <1>6. Ack /\ (subscribed => e # Gone(p)) => (TakedownUnderWay(p) => TakedownUnderWay(p)')
    <2>. SUFFICES ASSUME Ack, subscribed => e # Gone(p)
                  PROVE  TakedownUnderWay(p) => TakedownUnderWay(p)'
      OBVIOUS
    <2>1. In(Gone(p), contentEvents) => In(Gone(p), contentEvents')
      BY <1>1, InHeadTail DEF Ack, Answer
    <2>. QED BY <1>2, <2>1, UnderWay, UnderWayAfter
  \* With nothing read, the post is settled when its document is.
  <1>7. reading' # "published" /\ doc'[p] # "published" => Settled(p)'
    BY DEF Settled
  <1>8. CASE HandlePublished
    <2>1. CASE Visible(Subject)
      <3>1. Settled(p) => Settled(p)'
        BY <1>8, <2>1 DEF HandlePublished, Settled, Subject
      <3>. QED BY <1>3, <1>5, <1>8, <2>1, <3>1 DEF HandlePublished
    <2>2. CASE ~Visible(Subject)
      <3>1. reading' = "idle" /\ doc' = doc
        BY <1>8, <2>2 DEF HandlePublished, Handling
      <3>2. Settled(p) => Settled(p)'
        BY <3>1 DEF Settled
      <3>. QED BY <1>3, <1>5, <1>8, <2>2, <3>2 DEF HandlePublished
    <2>. QED BY <2>1, <2>2
  <1>9. CASE PublishedReadFails
    <2>1. reading' = "idle" /\ doc' = doc
      BY <1>9 DEF PublishedReadFails, Handling
    <2>2. Settled(p) => Settled(p)'
      BY <2>1 DEF Settled
    <2>. QED BY <1>3, <1>5, <1>9, <2>2 DEF PublishedReadFails
  <1>10. CASE IndexPost
    <2>1. e # Gone(p)
      BY <1>4, <1>10 DEF IndexPost, ReadingConsistent
    <2>2. reading' = "idle" /\ doc' = [doc EXCEPT ![Subject] = reading]
      BY <1>10 DEF IndexPost
    <2>3. Settled(p) => doc'[p] # "published"
      BY <1>1, <2>2 DEF Settled, TypeOK
    <2>4. Settled(p) => Settled(p)'
      BY <1>7, <2>2, <2>3
    <2>. QED BY <1>3, <1>5, <1>6, <1>10, <2>1, <2>4 DEF IndexPost
  <1>11. CASE IndexPostFails
    <2>1. e # Gone(p)
      BY <1>4, <1>11 DEF IndexPostFails, ReadingConsistent
    <2>2. reading' = "idle" /\ doc' = doc
      BY <1>11 DEF IndexPostFails
    <2>3. Settled(p) => Settled(p)'
      BY <2>2 DEF Settled
    <2>. QED BY <1>3, <1>5, <1>6, <1>11, <2>1, <2>3 DEF IndexPostFails
  <1>12. CASE HandleTakenDown
    <2>1. reading' = "idle" /\ doc' = [doc EXCEPT ![Subject] = "none"]
      BY <1>12 DEF HandleTakenDown, Handling
    <2>2. CASE e = Gone(p)
      <3>1. doc'[p] # "published"
        BY <1>4, <2>1, <2>2 DEF Subject, TypeOK
      <3>. QED BY <1>7, <2>1, <3>1
    <2>3. CASE e # Gone(p)
      <3>1. Settled(p) => Settled(p)'
        BY <1>7, <2>1 DEF Settled, TypeOK
      <3>. QED BY <1>3, <1>5, <1>6, <1>12, <2>3, <3>1 DEF HandleTakenDown
    <2>. QED BY <2>2, <2>3
  <1>13. CASE DeletePostFails
    <2>1. reading' = "idle" /\ doc' = doc
      BY <1>13 DEF DeletePostFails, Handling
    <2>2. Settled(p) => Settled(p)'
      BY <2>1 DEF Settled
    <2>3. Ack /\ Refused /\ subscribed => e # Gone(p)
      BY DEF Refused, Subject, Gone
    <2>. QED BY <1>1, <1>3, <1>5, <1>6, <1>13, <2>2, <2>3 DEF DeletePostFails, Handling
  <1>14. CASE HandleOther
    <2>1. reading' = "idle" /\ doc' = doc /\ Ack
      BY <1>14 DEF HandleOther, Handling
    <2>2. e # Gone(p)
      BY <1>4, <1>14 DEF HandleOther, Handling
    <2>3. Settled(p) => Settled(p)'
      BY <2>1 DEF Settled
    <2>. QED BY <1>3, <1>6, <2>1, <2>2, <2>3
  <1>. QED BY <1>8, <1>9, <1>10, <1>11, <1>12, <1>13, <1>14

\* A process that dies takes the events its handlers owe with it, and the posts
\* they are about count among those that lost one.
LEMMA RestartSettles ==
  ASSUME TypeOK, TakedownSettles, Restart
  PROVE  TakedownSettles'
  <1>. SUFFICES ASSUME NEW p \in Post, status[p] = "closed", p \notin lost, ~Owed(p)
                PROVE  TakedownUnderWay(p)' \/ Settled(p)'
    BY DEF TakedownSettles, Restart, Die, rows
  <1>1. TakedownUnderWay(p) \/ Settled(p)
    BY DEF TakedownSettles
  <1>2. \A c \in Call : ~In(OwesGone(p), call[c])
    BY DEF Owed, In, OwesGone
  <1>3. UNCHANGED <<contentEvents, doc>> /\ reading' = "idle"
    BY DEF Restart
  <1>4. TakedownUnderWay(p) => TakedownUnderWay(p)'
    BY <1>2, <1>3, UnderWay, UnderWayAfter
  <1>5. Settled(p) => Settled(p)'
    BY <1>3 DEF Settled
  <1>. QED BY <1>1, <1>4, <1>5

LEMMA SettlesStep ==
  ASSUME TypeOK, ReadingConsistent, TakedownSettles, [Next]_vars
  PROVE  TakedownSettles'
  <1>1. CASE UNCHANGED vars \/ ConnectionBreaks
    <2>1. UNCHANGED <<status, lost, call, contentEvents, reading, doc>>
      BY <1>1 DEF ConnectionBreaks, vars, posts, rows
    <2>. QED BY <2>1 DEF TakedownSettles, TakedownUnderWay, Settled, Subject
  <1>. QED
    BY <1>1, HandleSettles, EffectSettles, ConsumerSettles, RestartSettles DEF Next, Step

-----------------------------------------------------------------------------
(* Theorems                                                                *)

LEMMA IInvInit == IndexInit => IInv
  <1>1. IndexInit => TypeOK
    BY TypeInit
  <1>2. IndexInit => ReadingConsistent /\ TakedownSettles
    BY DEF IndexInit, Init, ReadingConsistent, TakedownSettles
  <1>. QED BY <1>1, <1>2 DEF IInv

LEMMA IInvStep == IInv /\ [Next]_vars => IInv'
  BY TypeStep, ReadingStep, SettlesStep DEF IInv

THEOREM Invariance == Spec => []IInv
  BY IInvInit, IInvStep, PTL DEF Spec

\* The rows, the queue, the effects handlers owe and the documents keep their
\* types, whatever the handlers, the consumer and a restart do between each
\* other's steps.
THEOREM TypeCorrect == Spec => []TypeOK
  <1>1. IInv => TypeOK
    BY DEF IInv
  <1>. QED BY <1>1, Invariance, PTL

\* However late, often or out of order the consumer handles the events, the
\* index shows a taken-down post as a published one only while the event that
\* deletes its document is on its way.
THEOREM TakedownsReachSearch == Spec => []TakedownReachesSearch
  <1>1. IInv => TakedownReachesSearch
    BY DEF IInv, TakedownSettles, TakedownReachesSearch, Settled, SearchContent, Search,
           BuildSearchQuery
  <1>. QED BY <1>1, Invariance, PTL

-----------------------------------------------------------------------------
(* The contract of a post                                                  *)

\* A post that has been published may still be shown in the status s.
Shows(s, p) ==
  /\ s \in Contract!Published
  /\ status[p] \in Contract!Published
  /\ Contract!Behind(s, status[p])

\* What an event of content.events says of its post stays true of the row.
Warranted(e) ==
  /\ e.type = "published" => status[e.post] \in Contract!Published
  /\ e.type = "taken_down" => status[e.post] = "closed"

EventsWarranted ==
  /\ \A e \in Event : In(e, contentEvents) => Warranted(e)
  /\ \A c \in Call : \A e \in Effect : In(e, call[c]) /\ e.to = "content" => Warranted(e)

DocumentsBehind == \A p \in Post : doc[p] # "none" => Shows(doc[p], p)

ReadingBehind == reading # "idle" => Shows(reading, Subject)

ContractInv == EventsWarranted /\ DocumentsBehind /\ ReadingBehind

\* The row of a post moves along the state machine, whichever handler writes it.
LEMMA RowStep ==
  ASSUME TypeOK, NEW c \in Call, NEW q \in Post, Handler(c, q), NEW p \in Post
  PROVE  \/ status'[p] = status[p]
         \/ status[p] = "none" /\ status'[p] \in {"published", "pending", "rejected"}
         \/ status[p] = "pending" /\ status'[p] \in {"published", "rejected"}
         \/ status[p] = "published" /\ status'[p] \in {"closed", "retrieved", "sold"}
  BY DEF Handler, CreatePost, DecidePostStatus, ApprovePost, RejectPost, TakedownPost,
         MarkRetrieved, MarkSold, UpdateReview, UpdatePost, UpdateOwned, DeletePost, TypeOK, rows

\* What could be shown of a post may still be shown.
LEMMA ShowsKept ==
  ASSUME TypeOK, NEW c \in Call, NEW q \in Post, Handler(c, q), NEW p \in Post, NEW s, Shows(s, p)
  PROVE  Shows(s, p)'
  BY RowStep DEF Shows, Contract!Published, Contract!Behind

LEMMA WarrantedKept ==
  ASSUME TypeOK, NEW c \in Call, NEW q \in Post, Handler(c, q), NEW e, e.post \in Post, Warranted(e)
  PROVE  Warranted(e)'
  <1>1. status[e.post] \in Contract!Published => status'[e.post] \in Contract!Published
    BY RowStep DEF Contract!Published
  <1>2. status[e.post] = "closed" => status'[e.post] = "closed"
    BY RowStep
  <1>. QED BY <1>1, <1>2 DEF Warranted

\* The events a handler owes say what its UPDATE has just made of the row.
LEMMA OwesWarranted ==
  ASSUME TypeOK, NEW c \in Call, NEW q \in Post, Handler(c, q),
         NEW e, In(e, call'[c]), e.to = "content"
  PROVE  Warranted(e)'
  <1>. USE DEF In, Warranted, PublishEvent, PublishEventRaw, InvalidatePostCache, TypeOK,
               Contract!Published
  <1>1. CASE CreatePost(c, q)
    <2>1. PICK s \in {"published", "rejected", "pending"} :
            /\ status' = [status EXCEPT ![q] = s]
            /\ call' = [call EXCEPT ![c] =
                 CASE s = "published" -> PublishEvent("published", q)
                   [] s = "rejected"  -> PublishEventRaw("review_result", q)
                   [] OTHER           -> <<>>]
      BY <1>1 DEF CreatePost, DecidePostStatus
    <2>. QED BY <2>1
  <1>2. CASE ApprovePost(c, q)
    BY <1>2 DEF ApprovePost, UpdateReview
  <1>3. CASE RejectPost(c, q)
    BY <1>3 DEF RejectPost, UpdateReview
  <1>4. CASE TakedownPost(c, q)
    BY <1>4 DEF TakedownPost, UpdateReview
  <1>5. CASE MarkRetrieved(c, q) \/ MarkSold(c, q)
    BY <1>5 DEF MarkRetrieved, MarkSold, UpdateReview
  <1>6. CASE UpdatePost(c, q) \/ DeletePost(c, q)
    BY <1>6 DEF UpdatePost, UpdateOwned, DeletePost
  <1>. QED BY <1>1, <1>2, <1>3, <1>4, <1>5, <1>6 DEF Handler

LEMMA HandleContract ==
  ASSUME TypeOK, ReadingConsistent, ContractInv, NEW c \in Call, NEW q \in Post, Handle(c, q)
  PROVE  ContractInv'
  <1>1. Handler(c, q) /\ UNCHANGED <<contentEvents, reading, doc>>
    BY DEF Handle
  <1>2. EventsWarranted'
    <2>1. \A e \in Event : In(e, contentEvents') => Warranted(e)'
      <3>1. \A e \in Event : e.post \in Post
        BY DEF Event
      <3>. QED BY <1>1, <3>1, WarrantedKept DEF ContractInv, EventsWarranted
    <2>2. \A d \in Call : d # c => call'[d] = call[d]
      BY <1>1 DEF Handler, CreatePost, ApprovePost, RejectPost, TakedownPost, MarkRetrieved,
                 MarkSold, UpdateReview, UpdatePost, UpdateOwned, DeletePost, TypeOK
    <2>3. ASSUME NEW d \in Call, NEW e \in Effect, In(e, call'[d]), e.to = "content"
          PROVE  Warranted(e)'
      <3>1. CASE d = c
        BY <1>1, <2>3, <3>1, OwesWarranted
      <3>2. CASE d # c
        <4>1. e.post \in Post /\ Warranted(e)
          BY <2>2, <2>3, <3>2 DEF Effect, ContractInv, EventsWarranted
        <4>. QED BY <1>1, <4>1, WarrantedKept
      <3>. QED BY <3>1, <3>2
    <2>. QED BY <2>1, <2>3 DEF EventsWarranted
  <1>3. DocumentsBehind'
    BY <1>1, ShowsKept DEF ContractInv, DocumentsBehind
  <1>4. ReadingBehind'
    <2>1. SUFFICES ASSUME reading # "idle" PROVE Shows(reading, Subject)'
      BY <1>1 DEF ReadingBehind
    <2>2. Subject \in Post
      <3>1. Head(contentEvents) \in Event
        BY <2>1, QueueType DEF ReadingConsistent, TypeOK
      <3>. QED BY <3>1 DEF Subject, Event
    <2>3. Shows(reading, Subject)
      BY <2>1 DEF ContractInv, ReadingBehind
    <2>4. Subject' = Subject /\ reading' = reading
      BY <1>1 DEF Subject
    <2>5. ASSUME NEW s, NEW p, s = reading, p = Subject
          PROVE  Shows(s, p)'
      BY <1>1, <2>2, <2>3, <2>5, ShowsKept
    <2>. QED BY <2>4, <2>5 DEF Shows
  <1>. QED BY <1>2, <1>3, <1>4 DEF ContractInv

\* Without a write to the rows only the new events, documents and readings matter.
LEMMA EffectContract ==
  ASSUME TypeOK, ReadingConsistent, ContractInv, NEW c \in Call, Publish(c) \/ OtherEffect(c)
  PROVE  ContractInv'
  <1>1. /\ call[c] # <<>>
        /\ call' = [call EXCEPT ![c] = Tail(call[c])]
        /\ call[c] \in Seq(Effect)
        /\ contentEvents \in Seq(Event)
        /\ UNCHANGED <<status, reading, doc>>
    BY DEF Publish, OtherEffect, BringAbout, EffectFails, TypeOK, rows
  <1>2. \A x : In(x, call[c]) <=> x = NextEffect(c) \/ In(x, Tail(call[c]))
    BY <1>1, InHeadTail DEF NextEffect
  <1>3. \A d \in Call : \A e \in Effect : In(e, call'[d]) /\ e.to = "content" => Warranted(e)
    <2>1. \A d \in Call : \A e : In(e, call'[d]) => In(e, call[d])
      BY <1>1, <1>2 DEF TypeOK
    <2>. QED BY <2>1 DEF ContractInv, EventsWarranted
  <1>4. NextEffect(c) \in Effect
    BY <1>1, QueueType DEF NextEffect
  <1>. DEFINE e == [type |-> NextEffect(c).type, post |-> NextEffect(c).post]
  <1>5. \/ UNCHANGED contentEvents
        \/ contentEvents' = Append(contentEvents, e) /\ NextEffect(c).to = "content"
    BY DEF Publish, OtherEffect, BringAbout
  <1>6. e \in Event
    BY <1>4 DEF Effect, Event
  <1>7. NextEffect(c).to = "content" => Warranted(e)
    <2>1. In(NextEffect(c), call[c])
      BY <1>2
    <2>2. NextEffect(c).to = "content" => Warranted(NextEffect(c))
      BY <1>4, <2>1 DEF ContractInv, EventsWarranted
    <2>. QED BY <2>2 DEF Warranted
  <1>. HIDE DEF e
  <1>8. \A x \in Event : In(x, contentEvents') => Warranted(x)
    <2>1. CASE UNCHANGED contentEvents
      BY <2>1 DEF ContractInv, EventsWarranted
    <2>2. CASE contentEvents' = Append(contentEvents, e) /\ NextEffect(c).to = "content"
      <3>1. \A x : In(x, contentEvents') <=> In(x, contentEvents) \/ x = e
        BY <1>1, <1>6, <2>2, InAppend
      <3>. QED BY <1>7, <2>2, <3>1 DEF ContractInv, EventsWarranted
    <2>. QED BY <1>5, <2>1, <2>2
  <1>9. EventsWarranted'
    <2>1. \A x : Warranted(x)' <=> Warranted(x)
      BY <1>1 DEF Warranted
    <2>. QED BY <1>3, <1>8, <2>1 DEF EventsWarranted
  <1>10. ReadingBehind'
    <2>1. contentEvents # <<>> => Head(contentEvents') = Head(contentEvents)
      BY <1>1, <1>5, <1>6
    <2>2. reading # "idle" => Subject' = Subject
      BY <2>1 DEF ReadingConsistent, Subject
    <2>. QED BY <1>1, <2>2 DEF ContractInv, ReadingBehind, Shows
  <1>11. DocumentsBehind'
    BY <1>1 DEF ContractInv, DocumentsBehind, Shows
  <1>. QED BY <1>9, <1>10, <1>11 DEF ContractInv

LEMMA ConsumerContract ==
  ASSUME TypeOK, ReadingConsistent, ContractInv,
         \/ HandlePublished
         \/ PublishedReadFails
         \/ IndexPost
         \/ IndexPostFails
         \/ HandleTakenDown
         \/ DeletePostFails
         \/ HandleOther
  PROVE  ContractInv'
  <1>1. contentEvents # <<>> /\ contentEvents \in Seq(Event)
    BY DEF HandlePublished, PublishedReadFails, IndexPost, IndexPostFails, HandleTakenDown,
           DeletePostFails, HandleOther, Handling, ReadingConsistent, TypeOK
  <1>2. UNCHANGED <<status, call>>
    BY DEF HandlePublished, PublishedReadFails, IndexPost, IndexPostFails, HandleTakenDown,
           DeletePostFails, HandleOther, posts, rows
  <1>3. Head(contentEvents) \in Event /\ Tail(contentEvents) \in Seq(Event)
    BY <1>1, QueueType
  <1>4. Subject \in Post
    BY <1>3 DEF Subject, Event
  <1>5. Warranted(Head(contentEvents))
    BY <1>1, <1>3, InHeadTail DEF ContractInv, EventsWarranted
  <1>6. UNCHANGED contentEvents \/ Ack \/ Requeue
    BY DEF HandlePublished, PublishedReadFails, IndexPost, IndexPostFails, HandleTakenDown,
           DeletePostFails, HandleOther
  <1>7. EventsWarranted'
    <2>1. \A x \in Event : In(x, contentEvents') => In(x, contentEvents)
      <3>1. \A x : In(x, contentEvents) <=> x = Head(contentEvents) \/ In(x, Tail(contentEvents))
        BY <1>1, InHeadTail
      <3>2. \A x : In(x, Append(Tail(contentEvents), Head(contentEvents)))
                     <=> In(x, Tail(contentEvents)) \/ x = Head(contentEvents)
        BY <1>3, InAppend
      <3>. QED BY <1>6, <3>1, <3>2 DEF Ack, Requeue, Answer
    <2>2. \A x : Warranted(x)' <=> Warranted(x)
      BY <1>2 DEF Warranted
    <2>. QED BY <1>2, <2>1, <2>2 DEF ContractInv, EventsWarranted
  <1>8. DocumentsBehind'
    <2>1. \/ UNCHANGED doc
          \/ doc' = [doc EXCEPT ![Subject] = "none"]
          \/ reading # "idle" /\ doc' = [doc EXCEPT ![Subject] = reading]
      BY DEF HandlePublished, PublishedReadFails, IndexPost, IndexPostFails, HandleTakenDown,
             DeletePostFails, HandleOther
    <2>2. \A s, p : Shows(s, p)' <=> Shows(s, p)
      BY <1>2 DEF Shows
    <2>3. reading # "idle" => Shows(reading, Subject)
      BY DEF ContractInv, ReadingBehind
    <2>4. \A p \in Post : doc'[p] # "none" => Shows(doc'[p], p)
      BY <2>1, <2>3 DEF ContractInv, DocumentsBehind, TypeOK
    <2>. QED BY <1>2, <2>4 DEF DocumentsBehind, Shows
  <1>9. ReadingBehind'
    <2>1. CASE reading' = "idle"
      BY <2>1 DEF ReadingBehind
    <2>2. CASE reading' # "idle"
      <3>1. HandlePublished /\ Visible(Subject)
        BY <2>2 DEF HandlePublished, PublishedReadFails, IndexPost, IndexPostFails,
                    HandleTakenDown, DeletePostFails, HandleOther, Handling
      <3>2. reading' = status[Subject] /\ UNCHANGED contentEvents
        BY <3>1 DEF HandlePublished
      <3>3. status[Subject] \in Contract!Published
        BY <1>5, <3>1 DEF HandlePublished, Handling, Warranted, Subject
      <3>4. Shows(status[Subject], Subject)
        BY <3>3 DEF Shows, Contract!Behind
      <3>5. Subject' = Subject
        BY <3>2 DEF Subject
      <3>. QED BY <1>2, <3>2, <3>4, <3>5 DEF ReadingBehind, Shows
    <2>. QED BY <2>1, <2>2
  <1>. QED BY <1>7, <1>8, <1>9 DEF ContractInv

LEMMA ContractStep ==
  ASSUME TypeOK, ReadingConsistent, ContractInv, [Next]_vars
  PROVE  ContractInv'
  <1>1. CASE UNCHANGED vars \/ ConnectionBreaks
    <2>1. UNCHANGED <<status, call, contentEvents, reading, doc>>
      BY <1>1 DEF ConnectionBreaks, vars, posts, rows
    <2>. QED BY <2>1 DEF ContractInv, EventsWarranted, DocumentsBehind, ReadingBehind, Shows,
                         Warranted, Subject
  <1>2. CASE Restart
    <2>1. /\ UNCHANGED <<status, contentEvents, doc>>
          /\ reading' = "idle"
          /\ \A c \in Call : call'[c] = <<>>
      BY <1>2 DEF Restart, Die, rows
    <2>2. \A c \in Call : \A e : ~In(e, call'[c])
      BY <2>1 DEF In
    <2>. QED BY <2>1, <2>2 DEF ContractInv, EventsWarranted, DocumentsBehind, ReadingBehind,
                               Shows, Warranted
  <1>. QED
    BY <1>1, <1>2, HandleContract, EffectContract, ConsumerContract DEF Next, Step

LEMMA ContractInitially == IndexInit => ContractInv
  <1>. SUFFICES ASSUME IndexInit PROVE ContractInv
    OBVIOUS
  <1>1. \A e : ~In(e, <<>>)
    BY DEF In
  <1>2. EventsWarranted
    BY <1>1 DEF EventsWarranted, IndexInit, Init
  <1>3. DocumentsBehind /\ ReadingBehind
    BY DEF DocumentsBehind, ReadingBehind, IndexInit
  <1>. QED BY <1>2, <1>3 DEF ContractInv

\* A step of a handler, of the consumer or of a restart is a step of the contract or
\* changes nothing it speaks of.
LEMMA RefinesStep ==
  ASSUME TypeOK, ReadingConsistent, ContractInv, [Next]_vars
  PROVE  [Contract!Next]_(Contract!vars)
  <1>. SUFFICES ASSUME ~UNCHANGED <<status, deleted, doc>>
                PROVE  Contract!Next
    BY DEF Contract!vars
  <1>1. ASSUME NEW c \in Call, NEW p \in Post, Handle(c, p)
        PROVE  Contract!Next
    <2>1. Handler(c, p) /\ UNCHANGED doc
      BY <1>1 DEF Handle
    <2>2. CASE CreatePost(c, p)
      <3>1. Contract!Submit(p)
        BY <2>1, <2>2 DEF CreatePost, DecidePostStatus, Contract!Submit
      <3>. QED BY <3>1 DEF Contract!Next
    <2>3. ASSUME NEW from, NEW to, NEW effects, UpdateReview(c, p, from, to, effects),
                 <<from, to>> \in Contract!AllowedTransitions,
                 to \in Contract!Published \cup {"rejected"}
          PROVE  Contract!Next
      <3>1. Contract!Move(p)
        BY <2>1, <2>3 DEF UpdateReview, Visible, Contract!Move
      <3>. QED BY <3>1 DEF Contract!Next
    <2>4. CASE \/ ApprovePost(c, p) \/ RejectPost(c, p) \/ TakedownPost(c, p)
               \/ MarkRetrieved(c, p) \/ MarkSold(c, p)
      <3>1. \A t \in {<<"pending", "published">>, <<"pending", "rejected">>,
                      <<"published", "closed">>, <<"published", "retrieved">>,
                      <<"published", "sold">>} : t \in Contract!AllowedTransitions
        BY DEF Contract!AllowedTransitions
      <3>2. {"published", "rejected", "closed", "retrieved", "sold"}
              \subseteq Contract!Published \cup {"rejected"}
        BY DEF Contract!Published
      <3>. QED BY <2>3, <2>4, <3>1, <3>2
               DEF ApprovePost, RejectPost, TakedownPost, MarkRetrieved, MarkSold
    <2>5. CASE UpdatePost(c, p)
      BY <2>1, <2>5 DEF UpdatePost, UpdateOwned, rows
    <2>6. CASE DeletePost(c, p)
      <3>1. Contract!Withdraw(p)
        BY <2>1, <2>6 DEF DeletePost, Visible, Contract!Withdraw
      <3>. QED BY <3>1 DEF Contract!Next
    <2>. QED BY <2>1, <2>2, <2>4, <2>5, <2>6 DEF Handler
  <1>2. CASE IndexPost
    <2>1. Shows(reading, Subject)
      BY <1>2 DEF IndexPost, ContractInv, ReadingBehind
    <2>2. Subject \in Post
      <3>1. Head(contentEvents) \in Event
        BY <1>2, QueueType DEF IndexPost, ReadingConsistent, TypeOK
      <3>. QED BY <3>1 DEF Subject, Event
    <2>3. Contract!Index(Subject)
      BY <1>2, <2>1 DEF IndexPost, Shows, Contract!Index, posts, rows
    <2>. QED BY <2>2, <2>3 DEF Contract!Next
  <1>3. CASE HandleTakenDown
    <2>1. Head(contentEvents) \in Event /\ Warranted(Head(contentEvents))
      <3>1. contentEvents # <<>> /\ contentEvents \in Seq(Event)
        BY <1>3 DEF HandleTakenDown, Handling, TypeOK
      <3>2. Head(contentEvents) \in Event
        BY <3>1, QueueType
      <3>. QED BY <3>1, <3>2, InHeadTail DEF ContractInv, EventsWarranted
    <2>2. Subject \in Post /\ status[Subject] = "closed"
      BY <1>3, <2>1 DEF HandleTakenDown, Handling, Subject, Event, Warranted
    <2>3. Contract!Unindex(Subject)
      BY <1>3, <2>2 DEF HandleTakenDown, Contract!Unindex, posts, rows
    <2>. QED BY <2>2, <2>3 DEF Contract!Next
  <1>4. ASSUME NEW c \in Call, Publish(c) \/ OtherEffect(c)
        PROVE  FALSE
    BY <1>4 DEF Publish, OtherEffect, BringAbout, EffectFails, rows
  <1>5. CASE \/ HandlePublished \/ PublishedReadFails \/ IndexPostFails \/ DeletePostFails
             \/ HandleOther \/ ConnectionBreaks \/ Restart \/ UNCHANGED vars
    BY <1>5 DEF HandlePublished, PublishedReadFails, IndexPostFails, DeletePostFails, HandleOther,
                ConnectionBreaks, Restart, Die, vars, posts, rows
  <1>. QED BY <1>1, <1>2, <1>3, <1>4, <1>5 DEF Next, Step

\* The content service with its consumer implements the contract of PostContract: the
\* row of a post follows the state machine, and its document shows a status it has had
\* since it was published.
THEOREM ImplementsContract == Spec => ContractSpec
  <1>1. IndexInit => Contract!Init
    BY DEF IndexInit, Init, Contract!Init
  <1>2. IInv /\ ContractInv /\ [Next]_vars => ContractInv'
    BY ContractStep DEF IInv
  <1>3. IInv /\ ContractInv /\ [Next]_vars => [Contract!Next]_(Contract!vars)
    BY RefinesStep DEF IInv
  <1>. QED BY <1>1, <1>2, <1>3, ContractInitially, Invariance, PTL
           DEF Spec, ContractSpec, Contract!Spec

-----------------------------------------------------------------------------
(* The Redis copies                                                        *)

\* The row GetPost has read was there, so that it had a status.
LoadsAreRows == \A p \in Post : load[p] # "none"

CacheInv == CacheTypeOK /\ LoadsAreRows /\ CacheBehindRow

\* What is behind the row of a post stays behind it.
LEMMA EarlierKept ==
  ASSUME TypeOK, NEW c \in Call, NEW q \in Post, Handler(c, q), NEW p \in Post,
         NEW s, s # "none", Earlier(s, status[p])
  PROVE  Earlier(s, status'[p])
  BY RowStep DEF Earlier

\* What the cache holds or is about to hold only matters with the rows: a step of
\* the service, its consumer or a restart either leaves them alone or moves one on.
LEMMA RowsMove ==
  ASSUME TypeOK, [Next]_vars, NEW p \in Post, NEW s, s # "none", Earlier(s, status[p])
  PROVE  Earlier(s, status'[p])
  <1>1. ASSUME NEW c \in Call, NEW q \in Post, Handle(c, q)
        PROVE  Earlier(s, status'[p])
    BY <1>1, EarlierKept DEF Handle
  <1>2. ASSUME NEW c \in Call, Publish(c) \/ OtherEffect(c)
        PROVE  UNCHANGED status
    BY <1>2 DEF Publish, OtherEffect, BringAbout, EffectFails, rows
  <1>3. CASE \/ HandlePublished \/ PublishedReadFails \/ IndexPost \/ IndexPostFails
             \/ HandleTakenDown \/ DeletePostFails \/ HandleOther \/ ConnectionBreaks
             \/ Restart \/ UNCHANGED vars
    <2>1. UNCHANGED status
      BY <1>3 DEF HandlePublished, PublishedReadFails, IndexPost, IndexPostFails,
                  HandleTakenDown, DeletePostFails, HandleOther, ConnectionBreaks,
                  Restart, Die, vars, posts, rows
    <2>. QED BY <2>1
  <1>. QED BY <1>1, <1>2, <1>3 DEF Next, Step

\* The cache adds no step to the service and its index.
LEMMA CacheStepIsStep == [CacheNext]_allVars => [Next]_vars
  <1>. SUFFICES ASSUME CacheNext PROVE [Next]_vars
    BY DEF allVars
  <1>1. ASSUME NEW c \in Call, DropEntry(c)
        PROVE  Next
    <2>1. OtherEffect(c)
      BY <1>1 DEF DropEntry, OtherEffect
    <2>. QED BY <2>1 DEF Next, Step
  <1>2. ASSUME NEW p \in Post, GetMiss(p) \/ GetQuery(p) \/ GetFill(p) \/ CacheExpire(p)
        PROVE  UNCHANGED vars
    BY <1>2 DEF GetMiss, GetQuery, GetFill, CacheExpire
  <1>3. CASE RestartAll
    BY <1>3 DEF RestartAll, Next
  <1>. QED BY <1>1, <1>2, <1>3 DEF CacheNext, Next

LEMMA CacheStepKeeps ==
  ASSUME TypeOK, CacheInv, [CacheNext]_allVars
  PROVE  CacheInv'
  <1>1. [Next]_vars
    BY CacheStepIsStep
  <1>2. \A p \in Post : \A s : s # "none" /\ Earlier(s, status[p]) => Earlier(s, status'[p])
    BY <1>1, RowsMove
  <1>. USE DEF CacheInv, CacheTypeOK, LoadsAreRows, CacheBehindRow
  <1>3. "none" \in Status /\ "idle" \notin Status /\ "query" \notin Status
    BY DEF Status
  <1>4. CASE UNCHANGED redis
    BY <1>2, <1>4 DEF redis
  <1>5. CASE RestartAll
    BY <1>2, <1>3, <1>5 DEF RestartAll
  <1>6. ASSUME NEW c \in Call, DropEntry(c)
        PROVE  CacheInv'
    <2>1. /\ \/ cache' = cache
             \/ \E p \in Post : cache' = [cache EXCEPT ![p] = "none"]
          /\ load' = load
      <3>1. NextEffect(c) \in Effect
        BY <1>6, QueueType DEF DropEntry, BringAbout, NextEffect, TypeOK
      <3>2. NextEffect(c).post \in Post
        BY <3>1 DEF Effect
      <3>. QED BY <1>6, <3>2 DEF DropEntry
    <2>. QED BY <1>2, <1>3, <2>1
  <1>7. ASSUME NEW p \in Post, GetMiss(p) \/ CacheExpire(p)
        PROVE  CacheInv'
    BY <1>2, <1>3, <1>7 DEF GetMiss, CacheExpire, Do
  <1>8. ASSUME NEW p \in Post, GetQuery(p)
        PROVE  CacheInv'
    <2>1. /\ load' = [load EXCEPT ![p] = IF Visible(p) THEN status[p] ELSE "idle"]
          /\ cache' = cache
          /\ status' = status
      BY <1>8 DEF GetQuery, vars, posts, rows
    <2>2. status[p] \in Status /\ Earlier(status[p], status[p])
      BY DEF TypeOK, Earlier
    <2>. QED BY <1>3, <2>1, <2>2 DEF Visible
  <1>9. ASSUME NEW p \in Post, GetFill(p)
        PROVE  CacheInv'
    <2>1. /\ cache' = cache \/ cache' = [cache EXCEPT ![p] = load[p]]
          /\ load' = [load EXCEPT ![p] = "idle"]
          /\ load[p] \in Status
          /\ status' = status
      BY <1>9 DEF GetFill, vars, posts, rows
    <2>. QED BY <1>3, <2>1
  <1>10. CASE UNCHANGED allVars
    BY <1>4, <1>10 DEF allVars
  <1>. QED BY <1>4, <1>5, <1>6, <1>7, <1>8, <1>9, <1>10 DEF CacheNext

\* The service with its cache takes only steps of the service with its index, so that
\* what is proved of SearchIndex holds in the runs, which check PostCache.
THEOREM CacheChangesNothing == CacheSpec => Spec
  <1>1. CacheInit => IndexInit
    BY DEF CacheInit
  <1>2. [CacheNext]_allVars => [Next]_vars
    BY CacheStepIsStep
  <1>. QED BY <1>1, <1>2, PTL DEF CacheSpec, Spec

THEOREM CacheInvariance == CacheSpec => []CacheInv
  <1>1. CacheInit => CacheInv
    BY DEF CacheInit, CacheInv, CacheTypeOK, LoadsAreRows, CacheBehindRow, Status
  <1>2. TypeOK /\ CacheInv /\ [CacheNext]_allVars => CacheInv'
    BY CacheStepKeeps
  <1>. QED BY <1>1, <1>2, CacheChangesNothing, TypeCorrect, PTL DEF CacheSpec

\* However many reads, writes, expiries and lost invalidations overlap, an entry of the
\* cache and a row on its way there show a status the post has had, never a later one.
THEOREM CacheNeverAhead == CacheSpec => []CacheBehindRow
  <1>1. CacheInv => CacheBehindRow
    BY DEF CacheInv
  <1>. QED BY <1>1, CacheInvariance, PTL
=============================================================================
