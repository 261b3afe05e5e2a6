------------------------ MODULE NotificationsProofs -------------------------
(***************************************************************************)
(* Proofs about Snowflake and Notifications, for any number of events,     *)
(* students, rows and restarts, any clock and any width of the sequence;   *)
(* and about MessageQueue, the publisher and the consumer beneath them,    *)
(* for any set of messages.                                                *)
(***************************************************************************)
EXTENDS Notifications, MessageQueue, TLAPS

\* The generator remembers the last id of its process; a call that spins has
\* wrapped the sequence, and the last id had the last number.
LatestIsRemembered ==
  /\ latest.time = lastTime
  /\ latest.seq = IF spinning THEN MaxSequence ELSE sequence

\* An event that is handled again although it has been told, or that is still in
\* the queue when it has, was not answered.
ToldAgain ==
  /\ \A n \in table : n.event \in told
  /\ written => holding # None /\ (Receiver[holding] # Nobody => holding \in told)
  /\ subscribed => holding \notin queue
  /\ \A e \in told :
       /\ Handling(e) => e \in unanswered
       /\ e \in queue => e \in unanswered \/ (holding = e /\ written)

IInv ==
  /\ TypeOK
  /\ LatestIsRemembered
  /\ ToldAgain
  /\ NothingForgotten
  /\ DuplicatesAreUnanswered

USE SnowflakeAssumption

-----------------------------------------------------------------------------
(* The generator                                                           *)

LEMMA GeneratorInitial ==
  GeneratorInit => GeneratorOK /\ LatestIsRemembered
  <1>. SUFFICES ASSUME GeneratorInit PROVE GeneratorOK /\ LatestIsRemembered
    OBVIOUS
  <1>1. spinning \in BOOLEAN /\ ~spinning
    BY DEF GeneratorInit
  <1>2. latest \in Id
    BY DEF GeneratorInit, NoId, Id
  <1>3. /\ clock \in 1..MaxClock /\ setBacks \in 0..MaxSetBacks
        /\ lastTime \in 0..MaxClock /\ sequence \in 0..MaxSequence
    BY DEF GeneratorInit
  <1>4. LatestIsRemembered
    BY <1>1 DEF GeneratorInit, NoId, LatestIsRemembered
  <1>. QED BY <1>1, <1>2, <1>3, <1>4 DEF GeneratorOK

\* NextID answers with an id later than the last one.
LEMMA IssueGrows ==
  ASSUME GeneratorOK, LatestIsRemembered, Issue
  PROVE  GeneratorOK' /\ LatestIsRemembered' /\ Precedes(latest, latest')
  <1>1. PICK seq \in 0..MaxSequence :
          /\ MayIssue(seq)
          /\ lastTime' = clock
          /\ sequence' = seq
          /\ spinning' = FALSE
          /\ latest' = [time |-> clock, seq |-> seq]
    BY DEF Issue
  <1>2. latest' \in Id
    BY <1>1 DEF GeneratorOK, Id
  <1>3. spinning' \in BOOLEAN /\ ~spinning'
    BY <1>1
  <1>4. /\ clock' \in 1..MaxClock /\ setBacks' \in 0..MaxSetBacks
        /\ lastTime' \in 0..MaxClock /\ sequence' \in 0..MaxSequence
    BY <1>1 DEF GeneratorOK, Issue, timing
  <1>5. GeneratorOK' /\ LatestIsRemembered'
    BY <1>1, <1>2, <1>3, <1>4 DEF GeneratorOK, LatestIsRemembered
  <1>6. Precedes(latest, latest')
    BY <1>1 DEF GeneratorOK, LatestIsRemembered, Issue, IsBackwards, MayIssue, Precedes
  <1>. QED BY <1>5, <1>6

LEMMA OverflowKeeps ==
  ASSUME GeneratorOK, LatestIsRemembered, Overflow
  PROVE  GeneratorOK' /\ LatestIsRemembered' /\ latest' = latest
  BY DEF GeneratorOK, LatestIsRemembered, Overflow, timing

LEMMA ForgetKeeps ==
  ASSUME GeneratorOK, Forget
  PROVE  GeneratorOK' /\ LatestIsRemembered' /\ latest' = NoId
  <1>1. spinning' \in BOOLEAN /\ ~spinning'
    BY DEF Forget
  <1>2. latest' \in Id
    BY DEF Forget, NoId, Id
  <1>3. /\ clock' \in 1..MaxClock /\ setBacks' \in 0..MaxSetBacks
        /\ lastTime' \in 0..MaxClock /\ sequence' \in 0..MaxSequence
    BY DEF GeneratorOK, Forget, timing
  <1>4. LatestIsRemembered'
    BY <1>1 DEF Forget, NoId, LatestIsRemembered
  <1>. QED BY <1>1, <1>2, <1>3, <1>4 DEF Forget, GeneratorOK

LEMMA ClockKeeps ==
  ASSUME GeneratorOK, LatestIsRemembered, Tick \/ SetBack
  PROVE  GeneratorOK' /\ LatestIsRemembered' /\ UNCHANGED generator
  BY DEF GeneratorOK, LatestIsRemembered, Tick, SetBack, generator

LEMMA StutterKeeps ==
  ASSUME GeneratorOK, LatestIsRemembered, UNCHANGED <<timing, generator>>
  PROVE  GeneratorOK' /\ LatestIsRemembered'
  BY DEF GeneratorOK, LatestIsRemembered, timing, generator

-----------------------------------------------------------------------------
(* What a step does to the generator                                       *)

LEMMA GeneratorStep ==
  ASSUME GeneratorOK, LatestIsRemembered, [Next]_vars
  PROVE  /\ GeneratorOK' /\ LatestIsRemembered'
         /\ latest' \in {latest, NoId} \/ Precedes(latest, latest')
  <1>1. CASE Issue
    BY <1>1, IssueGrows
  <1>2. CASE Overflow
    BY <1>2, OverflowKeeps
  <1>3. CASE Forget
    BY <1>3, ForgetKeeps
  <1>4. CASE Tick \/ SetBack
    BY <1>4, ClockKeeps DEF generator
  <1>5. CASE UNCHANGED <<timing, generator>>
    BY <1>5, StutterKeeps DEF generator
  <1>6. Issue \/ Overflow \/ Forget \/ Tick \/ SetBack \/ UNCHANGED <<timing, generator>>
    <2>1. ASSUME NEW e \in Event, Deliver(e) \/ Handle(e)
          PROVE  Issue \/ Overflow \/ Forget \/ UNCHANGED <<timing, generator>>
      BY <2>1 DEF Deliver, Handle, Skip, Create, CreateUnanswered, CreateFails, Wait, Panic, Restart
    <2>2. CASE Acknowledge \/ ConnectionBreaks \/ CleanupBefore
      BY <2>2 DEF Acknowledge, ConnectionBreaks, CleanupBefore
    <2>3. ASSUME NEW n \in table, MarkRead(n) \/ DeleteNotification(n)
          PROVE  UNCHANGED <<timing, generator>>
      BY <2>3 DEF MarkRead, DeleteNotification
    <2>4. ASSUME NEW u \in User, NEW s \in School, MarkAllRead(u, s)
          PROVE  UNCHANGED <<timing, generator>>
      BY <2>4 DEF MarkAllRead
    <2>. QED BY <2>1, <2>2, <2>3, <2>4 DEF Next, Restart, Time, vars
  <1>. QED BY <1>1, <1>2, <1>3, <1>4, <1>5, <1>6

-----------------------------------------------------------------------------
(* The table and the queue                                                 *)

LEMMA Initial == Init => IInv
  <1>. SUFFICES ASSUME Init PROVE IInv
    OBVIOUS
  <1>1. GeneratorOK /\ LatestIsRemembered
    BY GeneratorInitial DEF Init
  <1>2. None \notin Event
    BY NotificationsAssumption DEF NotificationsAssumption
  <1>3. TypeOK
    BY <1>1 DEF Init, TypeOK
  <1>4. ToldAgain
    BY <1>2 DEF Init, ToldAgain
  <1>. QED BY <1>1, <1>3, <1>4 DEF Init, IInv, NothingForgotten, DuplicatesAreUnanswered

LEMMA IsEvent == ASSUME TypeOK, holding # None PROVE holding \in Event
  BY DEF TypeOK

\* Rows change their state or go, and no event gets a row it did not have.
LEMMA ReadersKeep ==
  ASSUME IInv, GeneratorOK', LatestIsRemembered',
         UNCHANGED <<consumer, history>>,
         table' \subseteq Notification,
         \A x \in table' : \E m \in table : m.event = x.event,
         \A x, y \in table' : x # y /\ x.event = y.event =>
           \E m, n \in table : m # n /\ m.event = x.event /\ n.event = x.event
  PROVE  IInv'
  <1>1. TypeOK'
    BY DEF IInv, TypeOK, consumer, history
  <1>2. ToldAgain'
    BY DEF IInv, ToldAgain, Handling, consumer, history
  <1>3. NothingForgotten'
    BY DEF IInv, NothingForgotten, consumer, history
  <1>4. DuplicatesAreUnanswered'
    BY DEF IInv, DuplicatesAreUnanswered, consumer, history
  <1>. QED BY <1>1, <1>2, <1>3, <1>4 DEF IInv

\* A new state is put into some rows.
LEMMA PutKeeps ==
  ASSUME IInv, GeneratorOK', LatestIsRemembered',
         UNCHANGED <<consumer, history>>,
         NEW S \in SUBSET table, NEW state \in {"unread", "read", "deleted"},
         table' = Put(S, state)
  PROVE  IInv'
  <1>. DEFINE Renewed(n)   == [n EXCEPT !.state = state]
              Origin(x, n) == IF n \in S THEN x = Renewed(n) ELSE x = n
  <1>1. \A n \in table : Renewed(n) \in Notification /\ Renewed(n).event = n.event
    BY DEF IInv, TypeOK, Notification
  <1>2. table' \subseteq Notification
    BY <1>1 DEF Put, IInv, TypeOK
  <1>3. ASSUME NEW x \in table'
        PROVE  \E m \in table : m.event = x.event /\ Origin(x, m)
    BY <1>1, <1>3 DEF Put
  <1>4. ASSUME NEW x \in table', NEW y \in table', x # y, x.event = y.event
        PROVE  \E m, n \in table : m # n /\ m.event = x.event /\ n.event = x.event
    <2>1. PICK m \in table : m.event = x.event /\ Origin(x, m)
      BY <1>3
    <2>2. PICK n \in table : n.event = y.event /\ Origin(y, n)
      BY <1>3
    <2>3. m # n
      BY <2>1, <2>2, <1>4
    <2>. QED BY <1>4, <2>1, <2>2, <2>3
  <1>. HIDE DEF Renewed, Origin
  <1>. QED BY <1>2, <1>3, <1>4, ReadersKeep

\* The steps that touch neither the table nor what the clock has issued.
LEMMA DeliverKeeps ==
  ASSUME IInv, GeneratorOK', LatestIsRemembered', NEW e \in Event, Deliver(e)
  PROVE  IInv'
  <1>1. e # None /\ TypeOK'
    BY NotificationsAssumption DEF IInv, TypeOK, Deliver, history, NotificationsAssumption
  <1>2. ToldAgain'
    BY <1>1 DEF IInv, ToldAgain, Handling, Deliver, history
  <1>3. NothingForgotten'
    BY NotificationsAssumption
    DEF IInv, NothingForgotten, Deliver, history, NotificationsAssumption
  <1>4. DuplicatesAreUnanswered'
    BY DEF IInv, DuplicatesAreUnanswered, Deliver, history
  <1>. QED BY <1>1, <1>2, <1>3, <1>4 DEF IInv

LEMMA SkipKeeps ==
  ASSUME IInv, GeneratorOK', LatestIsRemembered', NEW e \in Event, Skip(e)
  PROVE  IInv'
  <1>1. TypeOK'
    BY DEF IInv, TypeOK, Skip, history
  <1>2. e # None /\ ToldAgain'
    BY NotificationsAssumption
    DEF IInv, ToldAgain, Handling, Skip, history, NotificationsAssumption
  <1>3. NothingForgotten'
    BY DEF IInv, NothingForgotten, Skip, history
  <1>4. DuplicatesAreUnanswered'
    BY DEF IInv, DuplicatesAreUnanswered, Skip, history
  <1>. QED BY <1>1, <1>2, <1>3, <1>4 DEF IInv

LEMMA CreateKeeps ==
  ASSUME IInv, GeneratorOK', LatestIsRemembered', NEW e \in Event, Create(e)
  PROVE  IInv'
  <1>. DEFINE row == [id |-> latest', event |-> e, state |-> "unread"]
  <1>1. row \in Notification /\ row.event = e
    BY DEF GeneratorOK, Notification
  <1>2. /\ table' = table \cup {row}
        /\ told' = told \cup {e}
        /\ holding = e /\ ~written /\ written'
        /\ UNCHANGED <<queue, holding, subscribed, unanswered>>
    BY DEF Create, Insert, Handling
  <1>. HIDE DEF row
  <1>3. e # None
    BY NotificationsAssumption DEF NotificationsAssumption
  <1>4. TypeOK'
    BY <1>1, <1>2 DEF IInv, TypeOK
  <1>5. ToldAgain'
    BY <1>1, <1>2, <1>3 DEF IInv, ToldAgain, Handling
  <1>6. NothingForgotten'
    BY <1>2 DEF IInv, NothingForgotten
  <1>7. DuplicatesAreUnanswered'
    BY <1>1, <1>2 DEF IInv, ToldAgain, DuplicatesAreUnanswered, Handling
  <1>. QED BY <1>4, <1>5, <1>6, <1>7 DEF IInv

\* The event is back in the queue although it has been told: it counts as unanswered.
LEMMA CreateUnansweredKeeps ==
  ASSUME IInv, GeneratorOK', LatestIsRemembered', NEW e \in Event, CreateUnanswered(e)
  PROVE  IInv'
  <1>. DEFINE row == [id |-> latest', event |-> e, state |-> "unread"]
  <1>1. row \in Notification /\ row.event = e
    BY DEF GeneratorOK, Notification
  <1>2. /\ table' = table \cup {row}
        /\ told' = told \cup {e}
        /\ unanswered' = unanswered \cup {e}
        /\ queue' = queue \cup {e}
        /\ holding = e /\ ~written /\ holding' = None /\ written' = FALSE
        /\ UNCHANGED subscribed
    BY DEF CreateUnanswered, Insert, Handling, PutBack
  <1>. HIDE DEF row
  <1>3. e # None
    BY NotificationsAssumption DEF NotificationsAssumption
  <1>4. TypeOK'
    BY <1>1, <1>2 DEF IInv, TypeOK
  <1>5. None \notin queue' \cup told'
    BY <1>4, NotificationsAssumption DEF TypeOK, NotificationsAssumption
  <1>6. ToldAgain'
    BY <1>1, <1>2, <1>3, <1>5 DEF IInv, ToldAgain, Handling
  <1>7. NothingForgotten'
    BY <1>2 DEF IInv, NothingForgotten
  <1>8. DuplicatesAreUnanswered'
    BY <1>1, <1>2 DEF IInv, ToldAgain, DuplicatesAreUnanswered, Handling
  <1>. QED BY <1>4, <1>6, <1>7, <1>8 DEF IInv

LEMMA CreateFailsKeeps ==
  ASSUME IInv, GeneratorOK', LatestIsRemembered', NEW e \in Event, CreateFails(e)
  PROVE  IInv'
  <1>1. e # None /\ holding = e
    BY NotificationsAssumption DEF CreateFails, Handling, NotificationsAssumption
  <1>2. TypeOK'
    BY <1>1 DEF IInv, TypeOK, CreateFails, PutBack, history
  <1>3. None \notin queue' \cup told'
    BY <1>2, NotificationsAssumption DEF TypeOK, NotificationsAssumption
  <1>4. ToldAgain'
    BY <1>1, <1>3 DEF IInv, ToldAgain, Handling, CreateFails, PutBack, history
  <1>5. NothingForgotten'
    BY <1>1 DEF IInv, NothingForgotten, CreateFails, PutBack, history
  <1>6. DuplicatesAreUnanswered'
    BY DEF IInv, DuplicatesAreUnanswered, CreateFails, PutBack, history
  <1>. QED BY <1>2, <1>4, <1>5, <1>6 DEF IInv

LEMMA AcknowledgeKeeps ==
  ASSUME IInv, GeneratorOK', LatestIsRemembered', Acknowledge
  PROVE  IInv'
  <1>1. holding \in Event
    BY IsEvent DEF IInv, Acknowledge
  <1>2. TypeOK'
    BY <1>1 DEF IInv, TypeOK, Acknowledge
  <1>3. None \notin queue' \cup told'
    BY <1>2, NotificationsAssumption DEF TypeOK, NotificationsAssumption
  <1>4. ToldAgain'
    BY <1>1, <1>3 DEF IInv, TypeOK, ToldAgain, Handling, Acknowledge
  <1>5. NothingForgotten'
    BY <1>1 DEF IInv, ToldAgain, NothingForgotten, Acknowledge
  <1>6. DuplicatesAreUnanswered'
    BY DEF IInv, TypeOK, DuplicatesAreUnanswered, Acknowledge
  <1>. QED BY <1>2, <1>4, <1>5, <1>6 DEF IInv

LEMMA BreakKeeps ==
  ASSUME IInv, GeneratorOK', LatestIsRemembered', ConnectionBreaks
  PROVE  IInv'
  <1>1. holding # None => holding \in Event
    BY IsEvent DEF IInv
  <1>2. TypeOK'
    BY <1>1 DEF IInv, TypeOK, ConnectionBreaks, history
  <1>3. ToldAgain'
    BY <1>1 DEF IInv, ToldAgain, Handling, ConnectionBreaks, history
  <1>4. NothingForgotten'
    BY DEF IInv, NothingForgotten, ConnectionBreaks, history
  <1>5. DuplicatesAreUnanswered'
    BY DEF IInv, DuplicatesAreUnanswered, ConnectionBreaks, history
  <1>. QED BY <1>2, <1>3, <1>4, <1>5 DEF IInv

LEMMA RestartKeeps ==
  ASSUME IInv, GeneratorOK', LatestIsRemembered', Restart
  PROVE  IInv'
  <1>1. holding # None => holding \in Event
    BY IsEvent DEF IInv
  <1>2. TypeOK'
    BY <1>1 DEF IInv, TypeOK, Restart
  <1>3. None \notin queue' \cup told'
    BY <1>2, NotificationsAssumption DEF TypeOK, NotificationsAssumption
  <1>4. ToldAgain'
    BY <1>1, <1>3 DEF IInv, TypeOK, ToldAgain, Handling, Restart
  <1>5. NothingForgotten'
    BY <1>1, NotificationsAssumption
    DEF IInv, NothingForgotten, Restart, NotificationsAssumption
  <1>6. DuplicatesAreUnanswered'
    BY DEF IInv, DuplicatesAreUnanswered, Restart
  <1>. QED BY <1>2, <1>4, <1>5, <1>6 DEF IInv

LEMMA StutterStep ==
  ASSUME IInv, GeneratorOK', LatestIsRemembered',
         UNCHANGED <<consumer, table, history>>
  PROVE  IInv'
  BY DEF IInv, TypeOK, ToldAgain, Handling, NothingForgotten,
         DuplicatesAreUnanswered, consumer, history

LEMMA Step == IInv /\ [Next]_vars => IInv'
  <1>. SUFFICES ASSUME IInv, [Next]_vars PROVE IInv'
    OBVIOUS
  <1>1. GeneratorOK' /\ LatestIsRemembered'
    BY GeneratorStep DEF IInv, TypeOK
  <1>2. ASSUME NEW e \in Event, Deliver(e) PROVE IInv'
    BY <1>1, <1>2, DeliverKeeps
  <1>3. ASSUME NEW e \in Event, Handle(e) PROVE IInv'
    <2>1. CASE Skip(e)
      BY <1>1, <2>1, SkipKeeps
    <2>2. CASE Create(e)
      BY <1>1, <2>2, CreateKeeps
    <2>3. CASE CreateFails(e)
      BY <1>1, <2>3, CreateFailsKeeps
    <2>4. CASE Wait(e)
      BY <1>1, <2>4, StutterStep DEF Wait
    <2>5. CASE Panic(e)
      BY <1>1, <2>5, RestartKeeps DEF Panic
    <2>6. CASE CreateUnanswered(e)
      BY <1>1, <2>6, CreateUnansweredKeeps
    <2>. QED BY <1>3, <2>1, <2>2, <2>3, <2>4, <2>5, <2>6 DEF Handle
  <1>4. CASE Acknowledge
    BY <1>1, <1>4, AcknowledgeKeeps
  <1>5. CASE ConnectionBreaks
    BY <1>1, <1>5, BreakKeeps
  <1>6. CASE Restart
    BY <1>1, <1>6, RestartKeeps
  <1>7. ASSUME NEW n \in table, MarkRead(n) \/ DeleteNotification(n) PROVE IInv'
    <2>1. PICK state \in {"unread", "read", "deleted"} : table' = Put({n}, state)
      BY <1>7 DEF MarkRead, DeleteNotification
    <2>2. {n} \in SUBSET table /\ UNCHANGED <<consumer, history>>
      BY <1>7 DEF MarkRead, DeleteNotification
    <2>. QED BY <1>1, <2>1, <2>2, PutKeeps
  <1>8. ASSUME NEW u \in User, NEW s \in School, MarkAllRead(u, s) PROVE IInv'
    <2>1. Unread(u, s) \in SUBSET table
      BY DEF Unread
    <2>. QED BY <1>1, <1>8, <2>1, PutKeeps DEF MarkAllRead
  <1>9. CASE CleanupBefore
    <2>1. table' \subseteq table
      BY <1>9 DEF CleanupBefore
    <2>2. table' \subseteq Notification
      BY <2>1 DEF IInv, TypeOK
    <2>. QED BY <1>1, <1>9, <2>1, <2>2, ReadersKeep DEF CleanupBefore
  <1>10. CASE Time
    BY <1>1, <1>10, StutterStep DEF Time
  <1>11. CASE UNCHANGED vars
    BY <1>1, <1>11, StutterStep DEF vars
  <1>. QED
    BY <1>2, <1>3, <1>4, <1>5, <1>6, <1>7, <1>8, <1>9, <1>10, <1>11 DEF Next

-----------------------------------------------------------------------------
(* Theorems                                                                *)

\* The inductive invariant holds of every state of the message service.
THEOREM Invariance == Spec => []IInv
  <1>. QED BY Initial, Step, PTL DEF Spec

\* Type correctness of notifications, consumer and generator.
THEOREM TypeCorrect == Spec => []TypeOK
  <1>1. IInv => TypeOK
    BY DEF IInv
  <1>. QED BY <1>1, Invariance, PTL

\* No event that is to be told of is dropped, although the ids of a new process may
\* be those of the old one and the clock may kill it.
THEOREM NoEventIsForgotten == Spec => []NothingForgotten
  <1>1. IInv => NothingForgotten
    BY DEF IInv
  <1>. QED BY <1>1, Invariance, PTL

\* A second notification of an event comes of a lost answer only, that of the database
\* to the INSERT or the acknowledgement to the broker: of no restart, no repeated id
\* and no late clock by itself.
THEOREM DuplicatesComeFromLostAnswers == Spec => []DuplicatesAreUnanswered
  <1>1. IInv => DuplicatesAreUnanswered
    BY DEF IInv
  <1>. QED BY <1>1, Invariance, PTL

\* Within the life of a process ids grow strictly.
THEOREM IdsGrowInALife == Spec => IdsGrow
  <1>1. IInv /\ [Next]_vars
          => [latest' \in {latest, NoId} \/ Precedes(latest, latest')]_generator
    BY GeneratorStep DEF IInv, TypeOK
  <1>. QED BY <1>1, Invariance, PTL DEF Spec, IdsGrow

-----------------------------------------------------------------------------
(* The queue                                                               *)

\* The consumer handles the message at the head of the queue, and so there is one:
\* only the consumer takes messages off.
HandlingHead == pc = "handle" => broker # <<>>

\* What is in the queue, or has been handled, was sent, and no message is in the
\* queue twice, however often it is put back.
QueueIntegrity ==
  /\ \A m \in ToSet(broker) \cup handled : publish[m] = "sent"
  /\ \A i, j \in 1..Len(broker) : broker[i] = broker[j] => i = j

QueueIInv == QueueTypeOK /\ HandlingHead /\ QueueIntegrity /\ AcceptedNotLost

LEMMA ToSetOfAppend ==
  ASSUME NEW S, NEW q \in Seq(S), NEW m \in S
  PROVE  ToSet(Append(q, m)) = ToSet(q) \cup {m}
  <1>1. Len(q) \in Nat /\ DOMAIN q = 1..Len(q)
    OBVIOUS
  <1>2. /\ DOMAIN Append(q, m) = 1..(Len(q) + 1)
        /\ Append(q, m)[Len(q) + 1] = m
        /\ \A i \in 1..Len(q) : Append(q, m)[i] = q[i]
    OBVIOUS
  <1>3. \A i \in 1..(Len(q) + 1) : i = Len(q) + 1 \/ i \in 1..Len(q)
    BY <1>1
  <1>4. Len(q) + 1 \in 1..(Len(q) + 1) /\ 1..Len(q) \subseteq 1..(Len(q) + 1)
    BY <1>1
  <1>. QED BY <1>1, <1>2, <1>3, <1>4 DEF ToSet

LEMMA ToSetOfTail ==
  ASSUME NEW S, NEW q \in Seq(S), q # <<>>
  PROVE  /\ ToSet(Tail(q)) \subseteq ToSet(q)
         /\ ToSet(q) = ToSet(Tail(q)) \cup {Head(q)}
  <1>1. ASSUME NEW i \in 1..Len(q) PROVE q[i] \in ToSet(Tail(q)) \cup {Head(q)}
    <2>1. CASE i # 1
      <3>1. i - 1 \in DOMAIN Tail(q) /\ Tail(q)[i - 1] = q[i]
        BY <2>1
      <3>. QED BY <3>1 DEF ToSet
    <2>. QED BY <2>1
  <1>2. ASSUME NEW i \in 1..Len(Tail(q)) PROVE Tail(q)[i] \in ToSet(q)
    <2>1. i + 1 \in 1..Len(q) /\ Tail(q)[i] = q[i + 1]
      OBVIOUS
    <2>. QED BY <2>1 DEF ToSet
  <1>3. Head(q) \in ToSet(q)
    BY DEF ToSet
  <1>. QED BY <1>1, <1>2, <1>3 DEF ToSet

LEMMA QueueInitial == QueueInit => QueueIInv
  BY DEF QueueInit, QueueIInv, QueueTypeOK, HandlingHead, QueueIntegrity, AcceptedNotLost, ToSet

\* The publisher puts messages at the end of the queue, each when it is sent.
LEMMA PublisherKeeps ==
  ASSUME QueueIInv, NEW e \in Message,
         Publish(e) \/ PublisherConnects(e) \/ Send(e)
  PROVE  QueueIInv'
  <1>. USE DEF QueueIInv
  <1>1. QueueTypeOK'
    BY DEF Publish, PublisherConnects, Send, QueueTypeOK, sub
  <1>2. UNCHANGED <<pc, handled>>
    BY DEF Publish, PublisherConnects, Send, sub
  <1>3. CASE UNCHANGED broker
    <2>1. \A m \in Message : publish'[m] = "sent" <=> publish[m] = "sent"
      BY <1>3 DEF Publish, PublisherConnects, Send, QueueTypeOK
    <2>2. ToSet(broker) \cup handled \subseteq Message
      BY DEF QueueTypeOK, ToSet
    <2>. QED BY <1>1, <1>2, <1>3, <2>1, <2>2 DEF HandlingHead, QueueIntegrity, AcceptedNotLost
  <1>4. CASE broker' # broker
    <2>1. /\ broker' = Append(broker, e)
          /\ publish[e] = "send"
          /\ publish' = [publish EXCEPT ![e] = "sent"]
      BY <1>4 DEF Publish, PublisherConnects, Send
    <2>2. broker \in Seq(Message) /\ ToSet(broker') = ToSet(broker) \cup {e}
      BY <2>1, ToSetOfAppend DEF QueueTypeOK
    <2>3. e \notin ToSet(broker)
      BY <2>1 DEF QueueIntegrity
    <2>4. HandlingHead'
      BY <1>2, <2>1, <2>2 DEF HandlingHead
    <2>5. QueueIntegrity'
      BY <1>2, <2>1, <2>2, <2>3 DEF QueueIntegrity, QueueTypeOK, ToSet
    <2>6. AcceptedNotLost'
      BY <1>2, <2>1, <2>2 DEF AcceptedNotLost, QueueTypeOK
    <2>. QED BY <1>1, <2>4, <2>5, <2>6
  <1>. QED BY <1>3, <1>4

\* A handler's answer takes its message off, puts it back or, the connection gone,
\* leaves it where it is; what leaves the queue was handled or is nobody's.
LEMMA AnswerKeeps ==
  ASSUME QueueIInv, Succeed \/ Fail \/ Drop
  PROVE  QueueIInv'
  <1>. USE DEF QueueIInv
  <1>1. /\ pc = "handle" /\ pc' = "loop"
        /\ UNCHANGED <<publisher, publish, channel, msgs, stop>>
    BY DEF Succeed, Fail, Drop, Answer, pub
  <1>2. broker \in Seq(Message) /\ broker # <<>>
    BY <1>1 DEF HandlingHead, QueueTypeOK
  <1>3. /\ Delivery \in Message
        /\ Tail(broker) \in Seq(Message)
        /\ Append(Tail(broker), Delivery) \in Seq(Message)
        /\ ToSet(broker) = ToSet(Tail(broker)) \cup {Delivery}
        /\ ToSet(Append(Tail(broker), Delivery)) = ToSet(broker)
    <2>1. Delivery \in Message /\ Tail(broker) \in Seq(Message)
      BY <1>2 DEF Delivery
    <2>2. ToSet(broker) = ToSet(Tail(broker)) \cup {Delivery}
      BY <1>2, ToSetOfTail DEF Delivery
    <2>3. \A q \in Seq(Message), m \in Message : ToSet(Append(q, m)) = ToSet(q) \cup {m}
      BY ToSetOfAppend
    <2>4. Append(Tail(broker), Delivery) \in Seq(Message)
      BY <2>1
    <2>. QED BY <2>1, <2>2, <2>3, <2>4
  <1>4. broker' \in {broker, Tail(broker), Append(Tail(broker), Delivery)}
    BY DEF Succeed, Fail, Drop, Answer
  <1>5. handled \subseteq handled' /\ handled' \subseteq handled \cup {Delivery}
    BY DEF Succeed, Fail, Drop
  <1>6. \A i, j \in 1..Len(broker') : broker'[i] = broker'[j] => i = j
    <2>1. \A i \in 1..Len(Tail(broker)) :
            /\ i + 1 \in 1..Len(broker)
            /\ Tail(broker)[i] = broker[i + 1]
            /\ Tail(broker)[i] # Delivery
      BY <1>2 DEF Delivery, QueueIntegrity
    <2>2. CASE broker' = Tail(broker)
      BY <1>2, <2>1, <2>2 DEF QueueIntegrity
    <2>3. CASE broker' = Append(Tail(broker), Delivery)
      <3>1. /\ Len(broker') = Len(Tail(broker)) + 1
            /\ broker'[Len(broker')] = Delivery
            /\ \A i \in 1..Len(Tail(broker)) : broker'[i] = Tail(broker)[i]
        BY <1>3, <2>3
      <3>2. Len(Tail(broker)) \in Nat
        BY <1>3
      <3>3. \A i, j \in 1..Len(Tail(broker)) : Tail(broker)[i] = Tail(broker)[j] => i = j
        <4>1. \A i, j \in 1..Len(broker) : broker[i] = broker[j] => i = j
          BY DEF QueueIntegrity
        <4>2. \A i \in 1..Len(Tail(broker)) :
                i \in Int /\ i + 1 \in 1..Len(broker) /\ Tail(broker)[i] = broker[i + 1]
          BY <2>1
        <4>. QED BY <4>1, <4>2
      <3>4. \A i \in 1..Len(broker') : i \in 1..Len(Tail(broker)) \/ i = Len(broker')
        BY <3>1, <3>2
      <3>5. \A i \in 1..Len(Tail(broker)) : broker'[i] # broker'[Len(broker')]
        BY <2>1, <3>1
      <3>. QED BY <3>1, <3>3, <3>4, <3>5
    <2>. QED BY <1>4, <2>2, <2>3 DEF QueueIntegrity
  <1>7. \A m \in Message \ Foreign :
          m \in ToSet(broker) => m \in handled' \/ m \in ToSet(broker')
    BY <1>3 DEF Succeed, Fail, Drop, Answer
  <1>8. QueueTypeOK'
    BY <1>1, <1>3, <1>4, <1>5 DEF QueueTypeOK
  <1>9. QueueIntegrity'
    BY <1>1, <1>3, <1>4, <1>5, <1>6 DEF QueueIntegrity
  <1>. QED BY <1>1, <1>5, <1>7, <1>8, <1>9 DEF HandlingHead, AcceptedNotLost

\* Connecting, subscribing, stopping and losing connections leave the queue alone.
LEMMA ConnectionKeeps ==
  ASSUME QueueIInv,
         \/ PublisherBreaks \/ Connect \/ GiveUp \/ Consume \/ Receive \/ DeliveriesEnd
         \/ StopSeen \/ ConsumerBreaks \/ StopSignal \/ StopCloses
         \/ UNCHANGED queueVars
  PROVE  QueueIInv'
  <1>. USE DEF QueueIInv
  <1>1. UNCHANGED <<publish, broker, handled>>
    BY DEF PublisherBreaks, Connect, GiveUp, Consume, Receive, DeliveriesEnd, StopSeen,
           ConsumerBreaks, StopSignal, StopCloses, queueVars, pub
  <1>2. QueueTypeOK'
    BY DEF QueueTypeOK, PublisherBreaks, Connect, GiveUp, Consume, Receive, DeliveriesEnd,
           StopSeen, ConsumerBreaks, StopSignal, StopCloses, Close, queueVars, pub, sub
  <1>3. HandlingHead'
    <2>1. pc' = "handle" => pc = "handle" \/ broker # <<>>
      BY DEF PublisherBreaks, Connect, GiveUp, Consume, Receive, DeliveriesEnd, StopSeen,
             ConsumerBreaks, StopSignal, StopCloses, queueVars, sub, QueueTypeOK
    <2>. QED BY <1>1, <2>1 DEF HandlingHead
  <1>. QED BY <1>1, <1>2, <1>3 DEF QueueIntegrity, AcceptedNotLost

LEMMA QueueStep == QueueIInv /\ [QueueNext]_queueVars => QueueIInv'
  BY PublisherKeeps, AnswerKeeps, ConnectionKeeps DEF QueueNext

\* The queue, the publisher and the consumer keep what they rely on of one another.
THEOREM QueueInvariance == QueueSpec => []QueueIInv
  BY QueueInitial, QueueStep, PTL DEF QueueSpec

\* A message the broker has accepted is handled or still in the queue, whatever
\* breaks, is put back or is stopped (consumer.go, publisher.go).
THEOREM AcceptedAreNotLost == QueueSpec => []AcceptedNotLost
  <1>1. QueueIInv => AcceptedNotLost
    BY DEF QueueIInv
  <1>. QED BY <1>1, QueueInvariance, PTL

\* Requeueing makes no second copy of a message, and nothing is handled that was
\* not sent: a handler sees a message twice only as the same message delivered again.
THEOREM QueueIsSound == QueueSpec => []QueueIntegrity
  <1>1. QueueIInv => QueueIntegrity
    BY DEF QueueIInv
  <1>. QED BY <1>1, QueueInvariance, PTL
=============================================================================
