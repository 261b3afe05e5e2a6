---------------------------- MODULE MessageQueue ----------------------------
(***************************************************************************)
(* pkg/mq: one Publisher, one durable queue of RabbitMQ and the one        *)
(* Consumer the services run on it.  The publisher connects on its first   *)
(* Publish and answers nil whatever happens.  The consumer's Start         *)
(* connects, subscribes and handles one delivery after the other; `pc` is  *)
(* where it stands.  A handler takes its message off the queue only by     *)
(* acknowledging it, and a message that has not been acknowledged when the *)
(* connection breaks stays where it was.                                   *)
(*                                                                         *)
(* Start waits in several places for its context, too; both services give  *)
(* it one that outlives the consumer, so only Stop is modelled.            *)
(***************************************************************************)
EXTENDS Sequences, SequencesExt

CONSTANTS
  Message,  \* messages, each published once
  Foreign,  \* those no handler is registered for, or that do not parse
  Poison    \* those whose handler always fails (the post is gone)

ASSUME QueueAssumption == Foreign \subseteq Message /\ Poison \subseteq Message

VARIABLES
  publisher,  \* Publisher.channel
  publish,    \* the Publish call of every message
  broker,     \* the queue, what the consumer is handling at its head
  pc,         \* where the consumer's Start is
  channel,    \* Consumer.channel
  msgs,       \* the deliveries Start ranges over
  stop,       \* Consumer.Stop
  handled     \* messages a handler has returned nil for

pub  == <<publisher, publish>>
sub  == <<pc, channel, msgs>>
queueVars == <<pub, broker, sub, stop, handled>>

QueueTypeOK ==
  /\ publisher \in {"nil", "open", "broken"}
  /\ publish   \in [Message -> {"idle", "connect", "send", "sent", "dropped"}]
  /\ broker    \in Seq(Message)
  /\ pc        \in {"connect", "consume", "retry", "loop", "handle", "reconnect",
                    "returned", "panicked"}
  /\ channel   \in {"nil", "open", "closed"}
  /\ msgs      \in {"none", "open", "closed"}
  /\ stop      \in {"no", "signalled", "done"}
  /\ handled   \subseteq Message

QueueInit ==
  /\ publisher = "nil"
  /\ publish = [e \in Message |-> "idle"]
  /\ broker = <<>>
  /\ pc = "connect"
  /\ channel = "nil"
  /\ msgs = "none"
  /\ stop = "no"
  /\ handled = {}

-----------------------------------------------------------------------------
(* Publisher                                                               *)

Publish(e) ==
  /\ publish[e] = "idle"
  /\ publish' = [publish EXCEPT ![e] = IF publisher = "nil" THEN "connect" ELSE "send"]
  /\ UNCHANGED <<publisher, broker, sub, stop, handled>>

\* The lock is not held from the check to Connect: two calls may both connect,
\* and the connection of the first is forgotten.
PublisherConnects(e) ==
  /\ publish[e] = "connect"
  /\ \/ publisher' = "open" /\ publish' = [publish EXCEPT ![e] = "send"]
     \/ publish' = [publish EXCEPT ![e] = "dropped"] /\ UNCHANGED publisher
  /\ UNCHANGED <<broker, sub, stop, handled>>

\* PublishWithContext waits for no confirmation of the broker: the message may
\* be lost although the channel is open.
Send(e) ==
  /\ publish[e] = "send"
  /\ \/ /\ publisher = "open"
        /\ publish' = [publish EXCEPT ![e] = "sent"]
        /\ broker' = Append(broker, e)
     \/ /\ publish' = [publish EXCEPT ![e] = "dropped"]
        /\ UNCHANGED broker
  /\ UNCHANGED <<publisher, sub, stop, handled>>

\* The channel stays in the struct, so that no later Publish connects again.
PublisherBreaks ==
  /\ publisher = "open"
  /\ publisher' = "broken"
  /\ UNCHANGED <<publish, broker, sub, stop, handled>>

-----------------------------------------------------------------------------
(* Consumer                                                                *)

\* What closing the channel, or losing it, does to the deliveries.
Close ==
  /\ channel' = IF channel = "open" THEN "closed" ELSE channel
  /\ msgs' = IF msgs = "open" THEN "closed" ELSE msgs

\* connectWithRetry and reconnect succeed in dialling; a failure is a stutter.
\* reconnect is called from two places and goes back to where it was called.
Connect ==
  /\ pc \in {"connect", "retry", "reconnect"}
  /\ channel' = "open"
  /\ pc' = IF pc = "reconnect" THEN "loop" ELSE "consume"
  /\ UNCHANGED <<pub, broker, msgs, stop, handled>>

\* Between two attempts both look at the stop signal, and answer nil for it: Start
\* goes on as if it were connected.
GiveUp ==
  /\ stop # "no"
  /\ pc \in {"connect", "retry", "reconnect"}
  /\ pc' = IF pc = "reconnect" THEN "loop" ELSE "consume"
  /\ UNCHANGED <<pub, broker, channel, msgs, stop, handled>>

\* channel.Consume: on a channel that was never opened it is a nil dereference.
Consume ==
  /\ pc = "consume"
  /\ CASE channel = "nil"    -> pc' = "panicked" /\ UNCHANGED <<channel, msgs>>
       [] channel = "closed" -> pc' = "retry" /\ UNCHANGED <<channel, msgs>>
       [] channel = "open"   -> pc' = "loop" /\ msgs' = "open" /\ UNCHANGED channel
  /\ UNCHANGED <<pub, broker, stop, handled>>

Receive ==
  /\ pc = "loop"
  /\ msgs = "open"
  /\ broker # <<>>
  /\ pc' = "handle"
  /\ UNCHANGED <<pub, broker, channel, msgs, stop, handled>>

\* The deliveries have ended: reconnect closes what is left of the connection.
DeliveriesEnd ==
  /\ pc = "loop"
  /\ msgs = "closed"
  /\ pc' = "reconnect"
  /\ Close
  /\ UNCHANGED <<pub, broker, stop, handled>>

StopSeen ==
  /\ pc = "loop"
  /\ stop # "no"
  /\ pc' = "returned"
  /\ UNCHANGED <<pub, broker, channel, msgs, stop, handled>>

-----------------------------------------------------------------------------
(* handleMessage                                                           *)

Delivery == Head(broker)

\* Nobody looks at the error of Ack and Nack.
Answer(q) ==
  /\ pc = "handle"
  /\ pc' = "loop"
  /\ broker' = IF msgs = "open" THEN q ELSE broker
  /\ UNCHANGED <<pub, channel, msgs, stop>>

Succeed ==
  /\ Answer(Tail(broker))
  /\ Delivery \notin Foreign \cup Poison
  /\ handled' = handled \cup {Delivery}

\* Mutant: a failed handler acknowledges.
FailAcked ==
  /\ Answer(Tail(broker))
  /\ Delivery \notin Foreign
  /\ UNCHANGED handled

\* Nack with requeue: back into the queue, behind what has been delivered.
Fail ==
  /\ Answer(Append(Tail(broker), Delivery))
  /\ Delivery \notin Foreign
  /\ UNCHANGED handled

\* Mutant: a message nobody handles is put back in front.
DropRequeued ==
  /\ Answer(broker)
  /\ Delivery \in Foreign
  /\ UNCHANGED handled

\* A message that does not parse or has no handler is taken off the queue.
Drop ==
  /\ Answer(Tail(broker))
  /\ Delivery \in Foreign
  /\ UNCHANGED handled

-----------------------------------------------------------------------------
ConsumerBreaks ==
  /\ channel = "open"
  /\ Close
  /\ UNCHANGED <<pub, broker, pc, stop, handled>>

\* Stop closes stopCh first and then the channel it finds, which a Connect under
\* way may replace.
StopSignal ==
  /\ stop = "no"
  /\ stop' = "signalled"
  /\ UNCHANGED <<pub, broker, sub, handled>>

StopCloses ==
  /\ stop = "signalled"
  /\ stop' = "done"
  /\ Close
  /\ UNCHANGED <<pub, broker, pc, handled>>

QueueNext ==
  \/ \E e \in Message : Publish(e) \/ PublisherConnects(e) \/ Send(e)
  \/ PublisherBreaks
  \/ Connect
  \/ GiveUp
  \/ Consume
  \/ Receive
  \/ DeliveriesEnd
  \/ StopSeen
  \/ Succeed
  \/ Fail
  \/ Drop
  \/ ConsumerBreaks
  \/ StopSignal
  \/ StopCloses

QueueSpec == QueueInit /\ [][QueueNext]_queueVars

\* Start goes on from wherever it stands; dialling and subscribing succeed if they
\* are tried for ever, and so does a handler that does not always fail.
QueueFairness ==
  /\ SF_queueVars(Connect)
  /\ SF_queueVars(Consume /\ channel = "open")
  /\ WF_queueVars(Consume)
  /\ WF_queueVars(Receive)
  /\ WF_queueVars(DeliveriesEnd)
  /\ WF_queueVars(Fail \/ Drop)
  /\ \A e \in Message : SF_queueVars(Succeed /\ Delivery = e)

FairQueueSpec == QueueSpec /\ QueueFairness

-----------------------------------------------------------------------------
(* Properties *)

\* A message the broker has accepted stays in the queue until a handler has
\* returned nil for it, through broken connections, lost acknowledgements,
\* failing handlers and Stop.
AcceptedNotLost ==
  \A e \in Message \ Foreign :
    publish[e] = "sent" => e \in handled \/ e \in ToSet(broker)

\* While the subscription lasts, a message with a handler is handled in the end;
\* the ones nobody handles and the ones whose handler always fails do not keep it
\* waiting for ever.
EventIsHandled ==
  \A e \in Message \ (Foreign \cup Poison) :
    publish[e] = "sent" ~> e \in handled \/ msgs = "closed" \/ stop # "no"

\* Start reconnects and subscribes again after the connection was lost.  Not so: its
\* break leaves the select and not the loop over the old deliveries (consumer.go:110).
Resubscribes ==
  msgs = "closed" ~> msgs = "open" \/ stop # "no"
=============================================================================
