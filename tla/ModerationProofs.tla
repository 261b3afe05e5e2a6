-------------------------- MODULE ModerationProofs --------------------------
(***************************************************************************)
(* Proofs about Moderation, for any posts, verdicts, number of concurrent  *)
(* calls and threshold of the breaker, and about Screening, for any lists  *)
(* of words, vocabularies and texts.                                       *)
(*                                                                         *)
(* ModelHasItsSay is not inductive: an answer may be on its way that does  *)
(* not belong to the post it is used for.  HonestCalls says it never does: *)
(* a call that is still served although its caller gave up keeps its slot, *)
(* so that its answer cannot reach the next caller.                        *)
(*                                                                         *)
(* What Screening computes follows from the loops of its operators.  The   *)
(* sets P of the proofs are what those loops keep, and UpTo goes from one  *)
(* turn of a loop to the next.                                             *)
(***************************************************************************)
EXTENDS Moderation, Screening, FiniteSetTheorems, SequenceTheorems, WellFoundedInduction, TLAPS

Honest(a, x) == a.fallback = FALSE => a.result = Verdict(x)

HonestCall(r, s) ==
  /\ r.stage = "decided" => Honest(r.answer, r.post)
  /\ s.stage = "replied" => r.stage = "waiting" /\ Honest(s.answer, r.post)
  /\ s.stage \in {"asked", "infer"} /\ r.stage = "waiting" => s.post = r.post

HonestCalls == \A c \in Call : HonestCall(client[c], server[c])

\* ModelHasItsSay of one post with that status and basis, moderated or not.
HasItsSay(x, s, b, m) ==
  s # "none" /\ b.fallback = FALSE =>
    /\ b.result = Verdict(x)
    /\ Verdict(x) = "block" => s = "rejected"
    /\ Verdict(x) = "review" => s = "pending" \/ m
    /\ Verdict(x) = "pass" => s \notin {"pending", "rejected"}

AllHaveTheirSay ==
  \A x \in Post : HasItsSay(x, status[x], basis[x], x \in moderated)

IInv ==
  /\ TypeOK
  /\ DegradedIsWatched
  /\ HonestCalls
  /\ AllHaveTheirSay

ClientState == {Idle} \cup Waiting \cup Decided
ServerState == {Idle} \cup Serving \cup Replied

-----------------------------------------------------------------------------
(* The parts, each under the operations on it                              *)

LEMMA VerdictIsResult == \A x : Verdict(x) \in Result
  BY DEF Verdict, DecideResult, Result

LEMMA PassesIsAnswer == Passes \in Answer /\ \A x : Honest(Passes, x)
  BY DEF Passes, Answer, Result, Honest

LEMMA LoaderKeeps ==
  ASSUME LoaderOK, DegradedIsWatched,
         RecordDegrade \/ Recover \/ ModelChanges \/ LoaderRestarts
  PROVE  LoaderOK' /\ DegradedIsWatched'
  <1>1. CASE RecordDegrade
    BY <1>1, Zenon DEF LoaderOK, DegradedIsWatched, RecordDegrade, loader
  <1>2. CASE Recover
    BY <1>2, Zenon DEF LoaderOK, DegradedIsWatched, Recover
  <1>3. CASE ModelChanges
    BY <1>3, Zenon DEF LoaderOK, DegradedIsWatched, ModelChanges
  <1>4. CASE LoaderRestarts
    BY <1>4, Zenon DEF LoaderOK, DegradedIsWatched, LoaderRestarts
  <1>. QED BY <1>1, <1>2, <1>3, <1>4

LEMMA LoaderRests ==
  ASSUME LoaderOK, DegradedIsWatched, UNCHANGED loader
  PROVE  LoaderOK' /\ DegradedIsWatched'
  BY Zenon DEF LoaderOK, DegradedIsWatched, loader

LEMMA AgedOK ==
  ASSUME BreakerOK
  PROVE  /\ Aged(flight) \in [Call -> {"none", "current", "stale"}]
         /\ 0 \in 0..(Trip - 1)
  BY BreakerAssumption DEF BreakerOK, Aged, BreakerAssumption

LEMMA BreakerKeeps ==
  ASSUME BreakerOK, NEW c \in Call,
         Admit(c) \/ Succeeds(c) \/ Fails(c) \/ NewInterval
  PROVE  BreakerOK'
  <1>. DEFINE F == [Call -> {"none", "current", "stale"}]
  <1>1. /\ Aged(flight) \in F /\ flight \in F /\ 0 \in 0..(Trip - 1)
        /\ breaker \in {"closed", "open", "half-open"}
        /\ failures \in 0..(Trip - 1)
    BY AgedOK DEF BreakerOK
  <1>2. \A f \in F : /\ Ends(c, f) \in F
                     /\ [f EXCEPT ![c] = "current"] \in F
    BY DEF Ends
  <1>3. CASE Admit(c)
    BY <1>1, <1>2, <1>3 DEF BreakerOK, Admit
  <1>4. CASE Succeeds(c)
    BY <1>1, <1>2, <1>4 DEF BreakerOK, Succeeds, Ignored, TurnsTo
  <1>5. CASE Fails(c)
    <2>1. failures + 1 < Trip => failures + 1 \in 0..(Trip - 1)
      BY <1>1, BreakerAssumption DEF BreakerAssumption
    <2>. QED BY <1>1, <1>2, <1>5, <2>1 DEF BreakerOK, Fails, Ignored, TurnsTo
  <1>6. CASE NewInterval
    BY <1>1, <1>6 DEF BreakerOK, NewInterval
  <1>. QED BY <1>3, <1>4, <1>5, <1>6

LEMMA BreakerRests == ASSUME BreakerOK, UNCHANGED circuit PROVE BreakerOK'
  BY DEF BreakerOK, circuit

\* One call moves to the states r and s of its client and its server.
LEMMA CallMoves ==
  ASSUME CallsOK, HonestCalls, NEW c \in Call,
         NEW r \in ClientState, NEW s \in ServerState, HonestCall(r, s),
         client' = [client EXCEPT ![c] = r],
         server' = [server EXCEPT ![c] = s]
  PROVE  CallsOK' /\ HonestCalls'
  <1>1. CallsOK'
    BY DEF CallsOK, ClientState, ServerState
  <1>2. \A d \in Call : client'[d] = (IF d = c THEN r ELSE client[d])
                     /\ server'[d] = (IF d = c THEN s ELSE server[d])
    BY DEF CallsOK
  <1>3. HonestCalls'
    BY <1>2 DEF HonestCalls
  <1>. QED BY <1>1, <1>3

LEMMA CallRests == ASSUME CallsOK, HonestCalls, UNCHANGED <<client, server>>
                   PROVE  CallsOK' /\ HonestCalls'
  BY DEF CallsOK, HonestCalls

\* The states of a call.
LEMMA States ==
  ASSUME CallsOK, NEW c \in Call
  PROVE  /\ client[c] \in ClientState /\ server[c] \in ServerState
         /\ client' = client => client' = [client EXCEPT ![c] = client[c]]
         /\ server' = server => server' = [server EXCEPT ![c] = server[c]]
         /\ client[c].stage = "waiting" => client[c] \in Waiting
         /\ client[c].stage = "decided" => client[c] \in Decided
         /\ server[c].stage = "replied" => server[c] \in Replied
         /\ server[c].stage \in {"asked", "infer"} => server[c] \in Serving
  <1>1. client[c] \in ClientState /\ server[c] \in ServerState
    BY DEF CallsOK, ClientState, ServerState
  <1>2. /\ client' = client => client' = [client EXCEPT ![c] = client[c]]
        /\ server' = server => server' = [server EXCEPT ![c] = server[c]]
    BY DEF CallsOK
  <1>. QED
    BY <1>1, <1>2 DEF ClientState, ServerState, Idle, Waiting, Decided, Serving, Replied

LEMMA RowsRest ==
  ASSUME RowsOK, AllHaveTheirSay, UNCHANGED <<rows, history>>, queue' \subseteq Post
  PROVE  RowsOK' /\ AllHaveTheirSay'
  BY DEF RowsOK, AllHaveTheirSay, rows, history

\* A status that may follow another.
LEMMA RowMoves ==
  ASSUME RowsOK, AllHaveTheirSay, NEW x \in Post, NEW from \in Status, NEW to \in Status,
         from \in {"pending", "published", "taken_down_pending"},
         from = "pending" => to \in {"published", "rejected"},
         from # "pending" => to \in {"closed", "taken_down_pending"},
         MoveTo(x, from, to), UNCHANGED <<deleted, basis>>, queue' \subseteq Post,
         moderated' = moderated \/ moderated' = moderated \cup {x},
         from = "pending" => x \in moderated'
  PROVE  RowsOK' /\ AllHaveTheirSay'
  <1>1. RowsOK'
    BY DEF RowsOK, MoveTo
  <1>2. HasItsSay(x, to, basis[x], x \in moderated')
    BY DEF AllHaveTheirSay, HasItsSay, MoveTo
  <1>3. \A y \in Post : y # x => (y \in moderated' <=> y \in moderated)
    OBVIOUS
  <1>4. \A y \in Post : status'[y] = IF y = x THEN to ELSE status[y]
    BY DEF RowsOK, MoveTo
  <1>5. \A y \in Post : y # x =>
          HasItsSay(y, status'[y], basis[y], y \in moderated')
    BY <1>3, <1>4 DEF AllHaveTheirSay, HasItsSay
  <1>6. AllHaveTheirSay'
    BY <1>2, <1>4, <1>5 DEF AllHaveTheirSay
  <1>. QED BY <1>1, <1>6

-----------------------------------------------------------------------------
(* The steps of a call                                                     *)

\* What a step of a call leaves alone.
Rest == UNCHANGED <<loader, rows, queue, history>>

LEMMA Assemble ==
  ASSUME IInv, Rest, BreakerOK', CallsOK' /\ HonestCalls'
  PROVE  IInv'
  <1>1. LoaderOK' /\ DegradedIsWatched'
    BY LoaderRests DEF IInv, TypeOK, Rest
  <1>2. RowsOK' /\ AllHaveTheirSay'
    BY RowsRest DEF IInv, TypeOK, Rest, RowsOK
  <1>. QED BY <1>1, <1>2 DEF IInv, TypeOK

LEMMA AskKeeps ==
  ASSUME IInv, NEW c \in Call, NEW x \in Post, NEW of \in {"create", "review"},
         Asks(c, of, x), Rest
  PROVE  IInv'
  <1>. DEFINE r == [stage |-> "waiting", of |-> of, post |-> x]
              s == [stage |-> "asked", post |-> x]
  <1>1. r \in ClientState /\ s \in ServerState /\ HonestCall(r, s)
    BY DEF ClientState, ServerState, Waiting, Serving, HonestCall
  <1>2. client' = [client EXCEPT ![c] = r] /\ server' = [server EXCEPT ![c] = s]
    BY DEF Asks
  <1>. HIDE DEF r, s
  <1>3. CallsOK' /\ HonestCalls'
    BY <1>1, <1>2, CallMoves DEF IInv, TypeOK
  <1>4. BreakerOK'
    BY BreakerKeeps DEF IInv, TypeOK, Asks
  <1>. QED BY <1>3, <1>4, Assemble

LEMMA BatchKeeps ==
  ASSUME IInv, NEW c \in Call, NEW x \in Post, ModerateBatch(c, x)
  PROVE  IInv'
  <1>. DEFINE s == [stage |-> "asked", post |-> x]
  <1>1. s \in ServerState /\ HonestCall(Idle, s) /\ Idle \in ClientState
    BY DEF ClientState, ServerState, Serving, HonestCall, Idle
  <1>2. client' = [client EXCEPT ![c] = Idle]
    BY States DEF IInv, TypeOK, ModerateBatch
  <1>3. server' = [server EXCEPT ![c] = s]
    BY DEF ModerateBatch
  <1>. HIDE DEF s
  <1>4. CallsOK' /\ HonestCalls'
    BY <1>1, <1>2, <1>3, CallMoves DEF IInv, TypeOK
  <1>5. BreakerOK' /\ Rest
    BY BreakerRests DEF IInv, TypeOK, ModerateBatch, Rest
  <1>. QED BY <1>4, <1>5, Assemble

LEMMA ReturnKeeps ==
  ASSUME IInv, NEW c \in Call, Return(c)
  PROVE  IInv'
  <1>. DEFINE r == [stage |-> "decided", of |-> client[c].of, post |-> client[c].post,
                    answer |-> server[c].answer]
  <1>1. client[c] \in Waiting /\ server[c] \in Replied
    BY States DEF IInv, TypeOK, Return
  <1>2. HonestCall(client[c], server[c])
    BY DEF IInv, HonestCalls
  <1>3. r \in ClientState /\ Idle \in ServerState
    BY <1>1 DEF ClientState, ServerState, Decided, Waiting, Replied
  <1>4. HonestCall(r, Idle)
    BY <1>1, <1>2 DEF HonestCall, Replied, Idle
  <1>5. client' = [client EXCEPT ![c] = r] /\ server' = [server EXCEPT ![c] = Idle]
    BY DEF Return, Decide
  <1>. HIDE DEF r
  <1>6. CallsOK' /\ HonestCalls'
    BY <1>3, <1>4, <1>5, CallMoves DEF IInv, TypeOK
  <1>7. BreakerOK' /\ Rest
    BY BreakerKeeps DEF IInv, TypeOK, Return, Rest
  <1>. QED BY <1>6, <1>7, Assemble

LEMMA TimeoutKeeps ==
  ASSUME IInv, NEW c \in Call, TimesOut(c)
  PROVE  IInv'
  <1>1. client[c] \in Waiting
    BY States DEF IInv, TypeOK, TimesOut
  <1>2. PICK r \in ClientState :
          /\ client' = [client EXCEPT ![c] = r]
          /\ r.stage # "waiting"
          /\ r.stage = "decided" => Honest(r.answer, r.post)
    <2>. DEFINE d == [stage |-> "decided", of |-> "create", post |-> client[c].post,
                      answer |-> Passes]
    <2>1. d \in ClientState /\ Idle \in ClientState
      BY <1>1, PassesIsAnswer DEF ClientState, Decided, Waiting
    <2>2. Honest(d.answer, d.post) /\ d.stage # "waiting"
      BY PassesIsAnswer
    <2>3. client' = [client EXCEPT ![c] = d] \/ client' = [client EXCEPT ![c] = Idle]
      BY DEF TimesOut, Decide
    <2>. HIDE DEF d
    <2>. QED BY <2>1, <2>2, <2>3 DEF Idle
  <1>3. PICK s \in ServerState :
          server' = [server EXCEPT ![c] = s] /\ s.stage # "replied"
    <2>1. CASE server[c].stage \in {"asked", "infer"} /\ UNCHANGED server
      BY <2>1, States DEF IInv, TypeOK
    <2>2. Idle \in ServerState /\ Idle.stage # "replied"
      BY DEF ServerState, Idle
    <2>3. CASE server' = [server EXCEPT ![c] = Idle]
      BY <2>2, <2>3
    <2>. QED BY <2>1, <2>3 DEF TimesOut
  <1>4. HonestCall(r, s)
    BY <1>2, <1>3 DEF HonestCall
  <1>5. CallsOK' /\ HonestCalls'
    BY <1>2, <1>3, <1>4, CallMoves DEF IInv, TypeOK
  <1>6. BreakerOK' /\ Rest
    BY BreakerKeeps DEF IInv, TypeOK, TimesOut, Rest
  <1>. QED BY <1>5, <1>6, Assemble

\* The service answers honestly, or has nobody to answer.
LEMMA ReplyKeeps ==
  ASSUME CallsOK, HonestCalls, NEW c \in Call, NEW a \in Answer,
         client[c].stage = "waiting" => Honest(a, client[c].post),
         Reply(c, a), UNCHANGED client
  PROVE  CallsOK' /\ HonestCalls'
  <1>. DEFINE s == IF client[c].stage = "waiting"
                   THEN [stage |-> "replied", answer |-> a] ELSE Idle
  <1>1. s \in ServerState /\ client[c] \in ClientState
    BY States DEF ServerState, Replied
  <1>3. HonestCall(client[c], s)
    BY DEF HonestCalls, HonestCall, Idle
  <1>4. client' = [client EXCEPT ![c] = client[c]] /\ server' = [server EXCEPT ![c] = s]
    BY States DEF Reply
  <1>. HIDE DEF s
  <1>. QED BY <1>1, <1>3, <1>4, CallMoves

LEMMA ServeKeeps ==
  ASSUME IInv, NEW c \in Call, Serve(c)
  PROVE  IInv'
  <1>1. BreakerOK' /\ Rest
    BY BreakerRests DEF IInv, TypeOK, Serve, Rest
  <1>2. CASE server' = [server EXCEPT ![c].stage = "infer"]
    <2>. DEFINE s == [server[c] EXCEPT !.stage = "infer"]
    <2>1. server[c] \in Serving /\ client[c] \in ClientState
      BY States DEF IInv, TypeOK, Serve
    <2>2. s \in ServerState /\ s.post = server[c].post /\ s.stage = "infer"
      BY <2>1 DEF Serving, ServerState
    <2>3. server' = [server EXCEPT ![c] = s]
      BY <1>2
    <2>. HIDE DEF s
    <2>4. HonestCall(client[c], s)
      BY <2>2 DEF IInv, HonestCalls, HonestCall, Serve
    <2>5. client' = [client EXCEPT ![c] = client[c]]
      BY States DEF IInv, TypeOK, Serve
    <2>6. CallsOK' /\ HonestCalls'
      BY <2>1, <2>2, <2>3, <2>4, <2>5, CallMoves DEF IInv, TypeOK
    <2>. QED BY <1>1, <2>6, Assemble
  <1>3. CASE Reply(c, Passes)
    <2>1. CallsOK' /\ HonestCalls'
      BY <1>3, ReplyKeeps, PassesIsAnswer DEF IInv, TypeOK, Serve
    <2>. QED BY <1>1, <2>1, Assemble
  <1>. QED BY <1>2, <1>3 DEF Serve

LEMMA InferKeeps ==
  ASSUME IInv, NEW c \in Call, InferSucceeds(c)
  PROVE  IInv'
  <1>. DEFINE a == [result |-> Verdict(server[c].post), fallback |-> FALSE]
  <1>1. a \in Answer
    BY VerdictIsResult DEF Answer
  <1>2. client[c].stage = "waiting" => server[c].post = client[c].post
    BY DEF IInv, HonestCalls, HonestCall, InferSucceeds
  <1>3. client[c].stage = "waiting" => Honest(a, client[c].post)
    BY <1>2 DEF Honest
  <1>4. Reply(c, a) /\ UNCHANGED client
    BY DEF InferSucceeds
  <1>. HIDE DEF a
  <1>5. CallsOK' /\ HonestCalls'
    BY <1>1, <1>3, <1>4, ReplyKeeps DEF IInv, TypeOK
  <1>6. BreakerOK' /\ Rest
    BY BreakerRests DEF IInv, TypeOK, InferSucceeds, Rest
  <1>. QED BY <1>5, <1>6, Assemble

LEMMA InferFailsKeeps ==
  ASSUME IInv, NEW c \in Call, InferFails(c)
  PROVE  IInv'
  <1>1. CallsOK' /\ HonestCalls'
    BY ReplyKeeps, PassesIsAnswer DEF IInv, TypeOK, InferFails
  <1>2. LoaderOK' /\ DegradedIsWatched'
    BY LoaderKeeps DEF IInv, TypeOK, InferFails
  <1>3. BreakerOK'
    BY BreakerRests DEF IInv, TypeOK, InferFails
  <1>4. RowsOK' /\ AllHaveTheirSay'
    BY RowsRest DEF IInv, TypeOK, InferFails, RowsOK
  <1>. QED BY <1>1, <1>2, <1>3, <1>4 DEF IInv, TypeOK

LEMMA UnaskedKeeps ==
  ASSUME IInv, NEW c \in Call, NEW x \in Post, SubmitUnasked(c, x)
  PROVE  IInv'
  <1>. DEFINE r == [stage |-> "decided", of |-> "create", post |-> x, answer |-> Passes]
  <1>1. r \in ClientState /\ server[c] \in ServerState
    BY PassesIsAnswer, States DEF IInv, TypeOK, ClientState, Decided
  <1>2. HonestCall(r, server[c])
    BY PassesIsAnswer DEF HonestCall, SubmitUnasked, Idle
  <1>3. client' = [client EXCEPT ![c] = r] /\ server' = [server EXCEPT ![c] = server[c]]
    BY States DEF IInv, TypeOK, SubmitUnasked, Decide
  <1>. HIDE DEF r
  <1>4. CallsOK' /\ HonestCalls'
    BY <1>1, <1>2, <1>3, CallMoves DEF IInv, TypeOK
  <1>5. BreakerOK' /\ Rest
    BY BreakerRests DEF IInv, TypeOK, SubmitUnasked, Rest
  <1>. QED BY <1>4, <1>5, Assemble

\* A caller is done with its answer.
LEMMA DoneKeeps ==
  ASSUME CallsOK, HonestCalls, NEW c \in Call, client[c].stage = "decided",
         client' = [client EXCEPT ![c] = Idle], UNCHANGED server
  PROVE  CallsOK' /\ HonestCalls'
  <1>1. Idle \in ClientState /\ server[c] \in ServerState
    BY States DEF ClientState
  <1>2. HonestCall(Idle, server[c])
    BY DEF HonestCalls, HonestCall, Idle
  <1>3. server' = [server EXCEPT ![c] = server[c]]
    BY States
  <1>. QED BY <1>1, <1>2, <1>3, CallMoves

LEMMA CreateKeeps ==
  ASSUME IInv, NEW c \in Call, Create(c)
  PROVE  IInv'
  <1>. DEFINE x == client[c].post
              a == client[c].answer
              s == DecidePostStatus(a.result)
  <1>1. client[c] \in Decided
    BY States DEF IInv, TypeOK, Create
  <1>2. x \in Post /\ a \in Answer /\ Honest(a, x)
    BY <1>1 DEF Decided, IInv, HonestCalls, HonestCall, Create
  <1>3. s \in Status /\ HasItsSay(x, s, a, x \in moderated)
    BY <1>2 DEF DecidePostStatus, Answer, Result, Status, HasItsSay, Honest
  <1>4. status' = [status EXCEPT ![x] = s] /\ basis' = [basis EXCEPT ![x] = a]
    BY DEF Create
  <1>. HIDE DEF x, a, s
  <1>5. RowsOK'
    <2>1. status \in [Post -> Status] /\ basis \in [Post -> Answer]
      BY DEF IInv, TypeOK, RowsOK
    <2>2. status' \in [Post -> Status] /\ basis' \in [Post -> Answer]
      BY <1>2, <1>3, <1>4, <2>1
    <2>3. deleted' \in [Post -> BOOLEAN] /\ queue' \subseteq Post /\ moderated' \subseteq Post
      BY DEF IInv, TypeOK, RowsOK, Create
    <2>. QED BY <2>2, <2>3 DEF RowsOK
  <1>6. AllHaveTheirSay'
    <2>1. moderated' = moderated
      BY DEF Create
    <2>. QED BY <1>3, <1>4, <2>1 DEF IInv, TypeOK, RowsOK, AllHaveTheirSay
  <1>7. CallsOK' /\ HonestCalls'
    BY DoneKeeps DEF IInv, TypeOK, Create
  <1>8. BreakerOK' /\ LoaderOK' /\ DegradedIsWatched'
    BY BreakerRests, LoaderRests DEF IInv, TypeOK, Create
  <1>. QED BY <1>5, <1>6, <1>7, <1>8 DEF IInv, TypeOK

LEMMA GiveUpKeeps ==
  ASSUME IInv, NEW c \in Call, CreateFails(c) \/ Requeue(c) \/ LetStand(c)
  PROVE  IInv'
  <1>1. CallsOK' /\ HonestCalls'
    BY DoneKeeps DEF IInv, TypeOK, CreateFails, Requeue, LetStand, Judged
  <1>2. RowsOK' /\ AllHaveTheirSay'
    <2>1. queue' \subseteq Post /\ UNCHANGED <<rows, history>>
      BY DEF IInv, TypeOK, RowsOK, CreateFails, Requeue, LetStand
    <2>. QED BY <2>1, RowsRest DEF IInv, TypeOK
  <1>3. BreakerOK' /\ LoaderOK' /\ DegradedIsWatched'
    BY BreakerRests, LoaderRests DEF IInv, TypeOK, CreateFails, Requeue, LetStand
  <1>. QED BY <1>1, <1>2, <1>3 DEF IInv, TypeOK

LEMMA TakeDownKeeps ==
  ASSUME IInv, NEW c \in Call, TakeDown(c)
  PROVE  IInv'
  <1>1. client[c] \in Decided
    BY States DEF IInv, TypeOK, TakeDown, Judged
  <1>2. client[c].post \in Post /\ queue' \subseteq Post
    BY <1>1 DEF Decided, IInv, TypeOK, RowsOK, TakeDown
  <1>3. RowsOK' /\ AllHaveTheirSay'
    BY <1>2, RowMoves DEF IInv, TypeOK, TakeDown, Status, history
  <1>4. CallsOK' /\ HonestCalls'
    BY DoneKeeps DEF IInv, TypeOK, TakeDown, Judged
  <1>5. BreakerOK' /\ LoaderOK' /\ DegradedIsWatched'
    BY BreakerRests, LoaderRests DEF IInv, TypeOK, TakeDown
  <1>. QED BY <1>3, <1>4, <1>5 DEF IInv, TypeOK

-----------------------------------------------------------------------------
(* Steps that no call takes                                                *)

LEMMA PostKeeps ==
  ASSUME IInv, NEW x \in Post,
         \/ Enqueue(x) \/ Drop(x) \/ FinalizeGrace(x)
         \/ ModeratorDecides(x) \/ OthersClose(x) \/ Withdraw(x)
  PROVE  IInv'
  <1>1. CallsOK' /\ HonestCalls'
    BY CallRests
    DEF IInv, TypeOK, Enqueue, Drop, FinalizeGrace, ModeratorDecides, OthersClose, Withdraw
  <1>2. BreakerOK' /\ LoaderOK' /\ DegradedIsWatched'
    BY BreakerRests, LoaderRests
    DEF IInv, TypeOK, Enqueue, Drop, FinalizeGrace, ModeratorDecides, OthersClose, Withdraw
  <1>3. queue' \subseteq Post
    BY DEF IInv, TypeOK, RowsOK, Enqueue, PublishAsyncReviewEvent, Drop, FinalizeGrace,
           ModeratorDecides, OthersClose, Withdraw
  <1>4. CASE Enqueue(x) \/ Drop(x)
    BY <1>1, <1>2, <1>3, <1>4, RowsRest DEF IInv, TypeOK, Enqueue, Drop
  <1>5. CASE FinalizeGrace(x)
    <2>1. RowsOK' /\ AllHaveTheirSay'
      BY <1>3, <1>5, RowMoves DEF IInv, TypeOK, FinalizeGrace, Status, history
    <2>. QED BY <1>1, <1>2, <2>1 DEF IInv, TypeOK
  <1>6. CASE ModeratorDecides(x)
    <2>1. /\ RowsOK /\ AllHaveTheirSay /\ UNCHANGED <<deleted, basis>>
          /\ moderated' = moderated \cup {x}
      BY <1>6 DEF IInv, TypeOK, ModeratorDecides
    <2>2. RowsOK' /\ AllHaveTheirSay'
      <3>1. CASE MoveTo(x, "pending", "published")
        BY <1>3, <2>1, <3>1, RowMoves DEF Status
      <3>2. CASE MoveTo(x, "pending", "rejected")
        BY <1>3, <2>1, <3>2, RowMoves DEF Status
      <3>. QED BY <1>6, <3>1, <3>2 DEF ModeratorDecides
    <2>. QED BY <1>1, <1>2, <2>2 DEF IInv, TypeOK
  <1>7. CASE OthersClose(x)
    <2>1. RowsOK' /\ AllHaveTheirSay'
      BY <1>3, <1>7, RowMoves DEF IInv, TypeOK, OthersClose, Status, history
    <2>. QED BY <1>1, <1>2, <2>1 DEF IInv, TypeOK
  <1>8. CASE Withdraw(x)
    <2>1. RowsOK' /\ AllHaveTheirSay'
      BY <1>8 DEF IInv, TypeOK, RowsOK, AllHaveTheirSay, Withdraw, history
    <2>. QED BY <1>1, <1>2, <2>1 DEF IInv, TypeOK
  <1>. QED BY <1>4, <1>5, <1>6, <1>7, <1>8

LEMMA ContentRestartKeeps ==
  ASSUME IInv, ContentRestarts
  PROVE  IInv'
  <1>1. BreakerOK'
    BY BreakerAssumption DEF BreakerOK, ContentRestarts, BreakerAssumption
  <1>2. \A c \in Call : server[c] \in ServerState
    BY States DEF IInv, TypeOK
  <1>3. CallsOK'
    BY <1>2 DEF CallsOK, ContentRestarts, ServerState
  <1>4. HonestCalls'
    BY DEF HonestCalls, HonestCall, ContentRestarts, Idle
  <1>. QED BY <1>1, <1>3, <1>4, Assemble DEF ContentRestarts, Rest

LEMMA ModerationRestartKeeps ==
  ASSUME IInv, ModerationRestarts
  PROVE  IInv'
  <1>1. LoaderOK' /\ DegradedIsWatched'
    BY LoaderKeeps DEF IInv, TypeOK, ModerationRestarts
  <1>2. CallsOK'
    BY DEF IInv, TypeOK, CallsOK, ModerationRestarts
  <1>3. HonestCalls'
    BY DEF IInv, HonestCalls, HonestCall, ModerationRestarts, Idle
  <1>4. BreakerOK' /\ RowsOK' /\ AllHaveTheirSay'
    BY BreakerRests, RowsRest DEF IInv, TypeOK, RowsOK, ModerationRestarts
  <1>. QED BY <1>1, <1>2, <1>3, <1>4 DEF IInv, TypeOK

LEMMA OtherKeeps ==
  ASSUME IInv, BreakerAges \/ LoaderMoves \/ UNCHANGED vars
  PROVE  IInv'
  <1>1. CallsOK' /\ HonestCalls'
    BY CallRests DEF IInv, TypeOK, BreakerAges, LoaderMoves, vars
  <1>2. RowsOK' /\ AllHaveTheirSay'
    BY RowsRest DEF IInv, TypeOK, RowsOK, BreakerAges, LoaderMoves, vars
  <1>3. LoaderOK' /\ DegradedIsWatched'
    BY LoaderKeeps, LoaderRests DEF IInv, TypeOK, BreakerAges, LoaderMoves, vars
  <1>4. BreakerOK'
    <2>1. CASE BreakerAges
      BY <2>1, BreakerAssumption, AgedOK
      DEF IInv, TypeOK, BreakerOK, BreakerAges, NewInterval
    <2>. QED BY <2>1, BreakerRests DEF IInv, TypeOK, LoaderMoves, vars
  <1>. QED BY <1>1, <1>2, <1>3, <1>4 DEF IInv, TypeOK

-----------------------------------------------------------------------------

LEMMA Initial == Init => IInv
  <1>. SUFFICES ASSUME Init PROVE IInv
    OBVIOUS
  <1>1. LoaderOK /\ DegradedIsWatched
    BY Zenon DEF Init, InitLoader, LoaderOK, DegradedIsWatched
  <1>2. BreakerOK
    BY BreakerAssumption DEF Init, InitBreaker, BreakerOK, BreakerAssumption
  <1>3. RowsOK /\ AllHaveTheirSay
    BY PassesIsAnswer DEF Init, RowsOK, Status, AllHaveTheirSay, HasItsSay
  <1>4. CallsOK /\ HonestCalls
    BY DEF Init, CallsOK, HonestCalls, HonestCall, Idle
  <1>. QED BY <1>1, <1>2, <1>3, <1>4 DEF IInv, TypeOK

LEMMA Step == IInv /\ [Next]_vars => IInv'
  <1>. SUFFICES ASSUME IInv, [Next]_vars PROVE IInv'
    OBVIOUS
  <1>1. ASSUME NEW c \in Call, Return(c) \/ TimesOut(c) \/ Serve(c) \/ InferSucceeds(c)
                                \/ InferFails(c)
        PROVE  IInv'
    BY <1>1, ReturnKeeps, TimeoutKeeps, ServeKeeps, InferKeeps, InferFailsKeeps
  <1>2. ASSUME NEW c \in Call, Create(c) \/ CreateFails(c) \/ TakeDown(c) \/ Requeue(c)
                                \/ LetStand(c)
        PROVE  IInv'
    BY <1>2, CreateKeeps, GiveUpKeeps, TakeDownKeeps
  <1>3. ASSUME NEW c \in Call, NEW x \in Post,
               \/ Submit(c, x) \/ SubmitUnasked(c, x) \/ Review(c, x)
               \/ ModerateBatch(c, x)
        PROVE  IInv'
    BY <1>3, AskKeeps, UnaskedKeeps, BatchKeeps DEF Submit, Review, Rest
  <1>4. ASSUME NEW x \in Post,
               \/ Enqueue(x) \/ Drop(x) \/ FinalizeGrace(x)
               \/ ModeratorDecides(x) \/ OthersClose(x) \/ Withdraw(x)
        PROVE  IInv'
    BY <1>4, PostKeeps
  <1>. QED
    BY <1>1, <1>2, <1>3, <1>4, ContentRestartKeeps, ModerationRestartKeeps, OtherKeeps
    DEF Next

\* The inductive invariant holds of every state of both services.
THEOREM Invariance == Spec => []IInv
  BY Initial, Step, PTL DEF Spec

\* The variables of both services keep their types.
THEOREM TypeCorrect == Spec => []TypeOK
  <1>1. IInv => TypeOK
    BY DEF IInv
  <1>. QED BY <1>1, Invariance, PTL

\* A degraded loader always has the goroutine that ends it, whatever the model does.
THEOREM DegradedIsAlwaysWatched == Spec => []DegradedIsWatched
  <1>1. IInv => DegradedIsWatched
    BY DEF IInv
  <1>. QED BY <1>1, Invariance, PTL

\* What the model says of a text decides how its post starts: a refusal is final, and
\* nothing but a moderator's decision ends the wait of a doubtful post, for any number
\* of calls under way and any threshold of the breaker (unless CreatePost went on
\* without an answer of the model, which its author is told).
THEOREM TheModelHasItsSay == Spec => []ModelHasItsSay
  <1>1. IInv => ModelHasItsSay
    <2>. SUFFICES ASSUME IInv, NEW x \in Post, status[x] # "none", ~basis[x].fallback
                  PROVE  /\ basis[x].result = Verdict(x)
                         /\ Verdict(x) = "block" => status[x] = "rejected"
                         /\ Verdict(x) = "review" => status[x] = "pending" \/ x \in moderated
                         /\ Verdict(x) = "pass" => status[x] \notin {"pending", "rejected"}
      BY DEF ModelHasItsSay
    <2>1. basis[x].fallback \in BOOLEAN
      BY DEF IInv, TypeOK, RowsOK, Answer
    <2>2. basis[x].fallback = FALSE
      BY <2>1, Zenon
    <2>. QED BY <2>2 DEF IInv, AllHaveTheirSay, HasItsSay
  <1>. QED BY <1>1, Invariance, PTL

-----------------------------------------------------------------------------
(* The contract of a post                                                  *)

Creates(c, x) == Works(c, "create", x)

\* A post is created by one call at most, and none that exists is created again: the
\* INSERT of a call, however late, is the first write to its row.
CreatesAreNew ==
  \A x \in Post : \A c \in Call : Creates(c, x) =>
    /\ status[x] = "none"
    /\ \A d \in Call : Creates(d, x) => d = c

\* A step that starts no creation and writes no row that is not there yet.
LEMMA NewKept ==
  ASSUME CreatesAreNew,
         \A c \in Call, x \in Post : Creates(c, x)' => Creates(c, x),
         \A x \in Post : status[x] = "none" => status'[x] = "none"
  PROVE  CreatesAreNew'
  BY DEF CreatesAreNew

\* Whatever happens to a call on its way, it stays the call of its post or ends.
LEMMA NoNewCreation ==
  ASSUME CallsOK, NEW c \in Call,
         \/ Return(c) \/ TimesOut(c) \/ CreateFails(c) \/ Create(c)
         \/ TakeDown(c) \/ Requeue(c) \/ LetStand(c)
         \/ \E x \in Post : Asks(c, "review", x)
  PROVE  \A d \in Call, y \in Post : Creates(d, y)' => Creates(d, y)
  <1>1. \A r : client' = [client EXCEPT ![c] = r] =>
          \A d \in Call : client'[d] = IF d = c THEN r ELSE client[d]
    BY DEF CallsOK
  <1>2. CASE client' = [client EXCEPT ![c] = Idle]
    BY <1>1, <1>2 DEF Creates, Works
  <1>3. CASE \E x \in Post : Asks(c, "review", x)
    <2>1. PICK x \in Post :
            client' = [client EXCEPT ![c] = [stage |-> "waiting", of |-> "review", post |-> x]]
      BY <1>3 DEF Asks
    <2>. QED BY <1>1, <2>1 DEF Creates, Works
  <1>4. ASSUME NEW a, client[c].stage = "waiting", Decide(c, client[c].of, client[c].post, a)
        PROVE  \A d \in Call, y \in Post : Creates(d, y)' => Creates(d, y)
    <2>1. client[c] # Idle
      BY <1>4 DEF Idle
    <2>. QED BY <1>1, <1>4, <2>1 DEF Decide, Creates, Works
  <1>5. CASE Return(c)
    BY <1>4, <1>5 DEF Return
  <1>6. CASE TimesOut(c)
    BY <1>2, <1>4, <1>6 DEF TimesOut
  <1>7. CASE \/ CreateFails(c) \/ Create(c) \/ TakeDown(c) \/ Requeue(c) \/ LetStand(c)
    BY <1>2, <1>7 DEF CreateFails, Create, TakeDown, Requeue, LetStand
  <1>. QED BY <1>3, <1>5, <1>6, <1>7

LEMMA SubmitIsNew ==
  ASSUME CallsOK, CreatesAreNew, NEW c \in Call, NEW x \in Post,
         Submit(c, x) \/ SubmitUnasked(c, x)
  PROVE  CreatesAreNew'
  <1>1. PICK r : client' = [client EXCEPT ![c] = r] /\ r.of = "create" /\ r.post = x
    <2>. DEFINE w == [stage |-> "waiting", of |-> "create", post |-> x]
                d == [stage |-> "decided", of |-> "create", post |-> x, answer |-> Passes]
    <2>1. client' = [client EXCEPT ![c] = w] \/ client' = [client EXCEPT ![c] = d]
      BY DEF Submit, Asks, SubmitUnasked, Decide
    <2>2. w.of = "create" /\ w.post = x /\ d.of = "create" /\ d.post = x
      OBVIOUS
    <2>. HIDE DEF w, d
    <2>. QED BY <2>1, <2>2
  <1>2. \A d \in Call : client'[d] = IF d = c THEN r ELSE client[d]
    BY <1>1 DEF CallsOK
  <1>3. \A d \in Call, y \in Post : Creates(d, y)' => Creates(d, y) \/ (d = c /\ y = x)
    BY <1>1, <1>2 DEF Creates, Works
  <1>4. /\ status[x] = "none" /\ \A d \in Call : ~Creates(d, x)
        /\ status' = status
    BY DEF Submit, SubmitUnasked, New, Begun, Creates, rows
  <1>. QED BY <1>3, <1>4 DEF CreatesAreNew

LEMMA CreateIsNew ==
  ASSUME CallsOK, RowsOK, CreatesAreNew, NEW c \in Call, Create(c)
  PROVE  CreatesAreNew' /\ Contract!Next
  <1>. DEFINE x == client[c].post
  <1>1. client[c] \in Decided /\ client[c] # Idle
    <2>1. client[c].stage = "decided"
      BY DEF Create
    <2>2. client[c] \in Decided
      BY <2>1, States
    <2>. QED BY <2>1, <2>2 DEF Idle
  <1>2. x \in Post /\ client[c].answer.result \in Result
    BY <1>1 DEF Decided, Answer
  <1>3. Creates(c, x)
    BY <1>1 DEF Creates, Works, Create
  <1>4. status[x] = "none" /\ \A d \in Call : Creates(d, x) => d = c
    BY <1>2, <1>3 DEF CreatesAreNew
  <1>5. \A d \in Call, y \in Post : Creates(d, y)' => Creates(d, y) /\ d # c
    <2>1. client'[c] = Idle
      BY DEF Create, CallsOK
    <2>. QED BY <2>1, NoNewCreation DEF Creates, Works
  <1>6. \A y \in Post : y # x => status'[y] = status[y]
    BY DEF Create, RowsOK
  <1>7. CreatesAreNew'
    <2>1. \A d \in Call, y \in Post : Creates(d, y)' => y # x
      BY <1>4, <1>5
    <2>. QED BY <1>5, <1>6, <2>1 DEF CreatesAreNew
  <1>8. Contract!Submit(x)
    <2>1. DecidePostStatus(client[c].answer.result) \in {"published", "pending", "rejected"}
      BY <1>2 DEF DecidePostStatus, Result
    <2>. QED BY <1>4, <2>1 DEF Create, Contract!Submit
  <1>. QED BY <1>2, <1>7, <1>8 DEF Contract!Next

\* A conditional UPDATE is a move of the contract, and no first write.
LEMMA MoveRefines ==
  ASSUME RowsOK, NEW x \in Post, NEW from, NEW to, MoveTo(x, from, to), UNCHANGED deleted,
         <<from, to>> \in {<<"pending", "published">>, <<"pending", "rejected">>,
                           <<"published", "closed">>, <<"published", "taken_down_pending">>,
                           <<"taken_down_pending", "closed">>}
  PROVE  /\ Contract!Next
         /\ \A y \in Post : status[y] = "none" => status'[y] = "none"
  <1>1. <<from, to>> \in Contract!AllowedTransitions
    BY DEF Contract!AllowedTransitions
  <1>2. to \in Contract!Published \cup {"rejected"}
    BY DEF Contract!Published
  <1>3. Contract!Move(x)
    BY <1>1, <1>2 DEF MoveTo, Contract!Move
  <1>4. from # "none"
    OBVIOUS
  <1>. QED BY <1>3, <1>4 DEF MoveTo, RowsOK, Contract!Next

LEMMA ContractStep ==
  ASSUME IInv, CreatesAreNew, [Next]_vars
  PROVE  CreatesAreNew' /\ [Contract!Next]_(Contract!vars)
  <1>0. CallsOK /\ RowsOK
    BY DEF IInv, TypeOK
  <1>1. UNCHANGED rows => [Contract!Next]_(Contract!vars)
    BY DEF rows, Contract!vars
  <1>2. UNCHANGED <<client, rows>> => CreatesAreNew'
    BY NewKept DEF Creates, Works, rows
  <1>3. ASSUME NEW c \in Call, Return(c) \/ TimesOut(c) \/ CreateFails(c) \/ Requeue(c) \/ LetStand(c)
        PROVE  CreatesAreNew' /\ UNCHANGED rows
    <2>1. UNCHANGED rows
      BY <1>3 DEF Return, TimesOut, CreateFails, Requeue, LetStand
    <2>. QED BY <1>0, <1>3, <2>1, NoNewCreation, NewKept DEF rows
  <1>4. ASSUME NEW c \in Call, Serve(c) \/ InferSucceeds(c) \/ InferFails(c)
        PROVE  UNCHANGED <<client, rows>>
    BY <1>4 DEF Serve, InferSucceeds, InferFails
  <1>5. ASSUME NEW c \in Call, Create(c)
        PROVE  CreatesAreNew' /\ Contract!Next
    BY <1>0, <1>5, CreateIsNew
  <1>6. ASSUME NEW c \in Call, TakeDown(c)
        PROVE  CreatesAreNew' /\ Contract!Next
    <2>1. client[c].post \in Post
      <3>1. client[c] \in Decided
        BY <1>0, <1>6, States DEF TakeDown, Judged
      <3>. QED BY <3>1 DEF Decided
    <2>2. /\ Contract!Next
          /\ \A y \in Post : status[y] = "none" => status'[y] = "none"
      BY <1>0, <1>6, <2>1, MoveRefines DEF TakeDown
    <2>. QED BY <1>0, <1>6, <2>2, NoNewCreation, NewKept
  <1>7. ASSUME NEW c \in Call, NEW x \in Post, Submit(c, x) \/ SubmitUnasked(c, x)
        PROVE  CreatesAreNew' /\ UNCHANGED rows
    BY <1>0, <1>7, SubmitIsNew DEF Submit, SubmitUnasked
  <1>8. ASSUME NEW c \in Call, NEW x \in Post, Review(c, x)
        PROVE  CreatesAreNew' /\ UNCHANGED rows
    BY <1>0, <1>8, NoNewCreation, NewKept DEF Review, rows
  <1>9. ASSUME NEW x \in Post, Enqueue(x) \/ Drop(x) \/ (\E c \in Call : ModerateBatch(c, x))
        PROVE  UNCHANGED <<client, rows>>
    BY <1>9 DEF Enqueue, Drop, ModerateBatch
  <1>10. ASSUME NEW x \in Post, FinalizeGrace(x) \/ ModeratorDecides(x) \/ OthersClose(x)
         PROVE  CreatesAreNew' /\ Contract!Next
    <2>1. UNCHANGED <<deleted, client>>
      BY <1>10 DEF FinalizeGrace, ModeratorDecides, OthersClose
    <2>2. \/ MoveTo(x, "taken_down_pending", "closed")
          \/ MoveTo(x, "pending", "published")
          \/ MoveTo(x, "pending", "rejected")
          \/ MoveTo(x, "published", "closed")
      BY <1>10 DEF FinalizeGrace, ModeratorDecides, OthersClose
    <2>3. /\ Contract!Next
          /\ \A y \in Post : status[y] = "none" => status'[y] = "none"
      BY <1>0, <2>1, <2>2, MoveRefines
    <2>. QED BY <2>1, <2>3, NewKept DEF Creates, Works
  <1>11. ASSUME NEW x \in Post, Withdraw(x)
         PROVE  CreatesAreNew' /\ Contract!Next
    <2>1. Contract!Withdraw(x)
      BY <1>11 DEF Withdraw, Contract!Withdraw
    <2>2. CreatesAreNew'
      BY <1>11, NewKept DEF Withdraw, Creates, Works
    <2>. QED BY <2>1, <2>2 DEF Contract!Next
  <1>12. CASE ContentRestarts
    <2>1. \A c \in Call, x \in Post : ~Creates(c, x)'
      BY <1>12 DEF ContentRestarts, Creates, Works
    <2>. QED BY <1>1, <1>12, <2>1 DEF ContentRestarts, CreatesAreNew
  <1>13. CASE ModerationRestarts \/ BreakerAges \/ LoaderMoves \/ UNCHANGED vars
    BY <1>1, <1>2, <1>13 DEF ModerationRestarts, BreakerAges, LoaderMoves, vars
  <1>. QED
    BY <1>1, <1>2, <1>3, <1>4, <1>5, <1>6, <1>7, <1>8, <1>9, <1>10, <1>11, <1>12, <1>13 DEF Next

\* However late a model answers and whatever moderators and the author do meanwhile, a
\* post only moves along the state machine of PostContract.
THEOREM ImplementsContract == Spec => ContractSpec
  <1>1. Init => Contract!Init
    BY DEF Init, Contract!Init
  <1>2. Init => CreatesAreNew
    BY DEF Init, CreatesAreNew, Creates, Works
  <1>3. IInv /\ CreatesAreNew /\ [Next]_vars => CreatesAreNew' /\ [Contract!Next]_(Contract!vars)
    BY ContractStep
  <1>. QED BY <1>1, <1>2, <1>3, Invariance, PTL DEF Spec, ContractSpec, Contract!Spec

-----------------------------------------------------------------------------
(* Screening: loops, texts and pieces                                      *)

\* What holds of 0 and of the next number up to n holds of all of them: induction over a
\* set, since one over a formula is beyond the provers.
LEMMA UpTo ==
  ASSUME NEW n \in Nat, NEW P,
         0 \in P,
         \A i \in 1..n : i - 1 \in P => i \in P
  PROVE  0..n \subseteq P
  <1>. SUFFICES ASSUME 0..n \ P # {} PROVE FALSE
    OBVIOUS
  <1>1. PICK x \in 0..n \ P : \A y \in 0..n \ P : <<y, x>> \notin OpToRel(<, Nat)
    <2>1. 0..n \ P \subseteq Nat
      OBVIOUS
    <2>. QED BY <2>1, NatLessThanWellFounded, WFMin
  <1>2. ASSUME NEW y \in 0..n \ P, y < x PROVE FALSE
    <2>1. <<y, x>> \in OpToRel(<, Nat)
      <3>1. <<y, x>> \in {ss \in Nat \X Nat : ss[1] < ss[2]}
        BY <1>2
      <3>. QED BY <3>1, Zenon DEF OpToRel
    <2>. QED BY <1>1, <2>1, Zenon
  <1>3. x \in 1..n /\ x - 1 \in 0..n /\ x - 1 < x
    OBVIOUS
  <1>4. x - 1 \in P
    BY <1>2, <1>3
  <1>. QED BY <1>3, <1>4

\* A function of the numbers up to n that starts with b and goes on by step.
Iterates(f, n, D, b, step) ==
  /\ f \in [0..n -> D]
  /\ f[0] = b
  /\ \A i \in 1..n : f[i] = step[<<i, f[i - 1]>>]

\* A loop over 1..n has a result: the recursive functions of the models are its steps.
LEMMA Iterated ==
  ASSUME NEW n \in Nat, NEW D, NEW b \in D, NEW step \in [(1..n) \X D -> D]
  PROVE  \E f : Iterates(f, n, D, b, step)
  <1>. DEFINE Good(m, f) == f[0] = b /\ \A i \in 1..m : f[i] = step[<<i, f[i - 1]>>]
              P == {m \in 0..n : \E f \in [0..m -> D] : Good(m, f)}
  <1>1. 0 \in P
    <2>. DEFINE f == [i \in 0..0 |-> b]
    <2>1. f \in [0..0 -> D] /\ Good(0, f)
      OBVIOUS
    <2>2. 0 \in 0..n
      OBVIOUS
    <2>. HIDE DEF f, Good
    <2>. QED BY <2>1, <2>2
  <1>2. ASSUME NEW m \in 1..n, m - 1 \in P PROVE m \in P
    <2>1. PICK f \in [0..(m - 1) -> D] : Good(m - 1, f)
      BY <1>2
    <2>. DEFINE g == [i \in 0..m |-> IF i = m THEN step[<<m, f[m - 1]>>] ELSE f[i]]
    <2>2. g \in [0..m -> D]
      <3>1. f[m - 1] \in D
        OBVIOUS
      <3>2. step[<<m, f[m - 1]>>] \in D
        BY <3>1
      <3>. QED BY <3>2
    <2>3. g[0] = b
      BY <2>1
    <2>4. ASSUME NEW i \in 1..m PROVE g[i] = step[<<i, g[i - 1]>>]
      <3>1. i \in 0..m /\ i - 1 \in 0..m /\ i - 1 # m
        OBVIOUS
      <3>2. g[i - 1] = f[i - 1]
        BY <3>1
      <3>3. CASE i = m
        BY <3>1, <3>2, <3>3
      <3>4. CASE i # m
        <4>1. i \in 1..(m - 1) /\ g[i] = f[i]
          BY <3>1, <3>4
        <4>. QED BY <2>1, <3>2, <4>1
      <3>. QED BY <3>3, <3>4
    <2>5. m \in 0..n
      OBVIOUS
    <2>. QED BY <2>2, <2>3, <2>4, <2>5
  <1>3. n \in P
    <2>. HIDE DEF P
    <2>. QED BY <1>1, <1>2, UpTo
  <1>. QED BY <1>3 DEF Iterates

\* One turn of the loop.
LEMMA Turn ==
  ASSUME NEW n \in Nat, NEW D, NEW b, NEW step, NEW f, Iterates(f, n, D, b, step),
         NEW i \in 1..n
  PROVE  i # 0 /\ f[i - 1] \in D /\ f[i] = step[<<i, f[i - 1]>>]
  <1>1. i # 0 /\ i - 1 \in 0..n
    OBVIOUS
  <1>2. f \in [0..n -> D] /\ \A j \in 1..n : f[j] = step[<<j, f[j - 1]>>]
    BY DEF Iterates
  <1>. QED BY <1>1, <1>2

\* The Min of the community modules is the least member of a set.
LEMMA MinIsThere ==
  ASSUME NEW S, S \subseteq Nat, S # {}
  PROVE  Min(S) \in S /\ \A x \in S : Min(S) <= x
  <1>1. PICK m \in S : \A x \in S : <<x, m>> \notin OpToRel(<, Nat)
    BY NatLessThanWellFounded, WFMin
  <1>2. ASSUME NEW x \in S, x < m PROVE FALSE
    <2>1. <<x, m>> \in {ss \in Nat \X Nat : ss[1] < ss[2]}
      BY <1>2
    <2>2. <<x, m>> \in OpToRel(<, Nat)
      BY <2>1, Zenon DEF OpToRel
    <2>. QED BY <1>1, <2>2, Zenon
  <1>3. \A x \in S : m <= x
    BY <1>2
  <1>. QED BY <1>3 DEF Min

\* Their Max is the greatest member of a set.
LEMMA MaxIsThere ==
  ASSUME NEW n \in Nat, NEW S, S \subseteq 0..n, S # {}
  PROVE  Max(S) \in S /\ \A x \in S : x <= Max(S)
  <1>. DEFINE T == {k \in 0..n : n - k \in S}
  <1>1. PICK x \in S : TRUE
    OBVIOUS
  <1>2. n - x \in T
    OBVIOUS
  <1>3. Min(T) \in T /\ \A k \in T : Min(T) <= k
    <2>1. T \subseteq Nat
      OBVIOUS
    <2>2. T # {}
      BY <1>2, Zenon
    <2>. HIDE DEF T
    <2>. QED BY <2>1, <2>2, MinIsThere
  <1>4. \A y \in S : n - y \in T
    OBVIOUS
  <1>5. n - Min(T) \in S /\ \A y \in S : n - Min(T) >= y
    BY <1>3, <1>4
  <1>. QED BY <1>5 DEF Max

\* The runes kept, rune by rune of the text.
Keeping(kept, text, set) ==
  /\ kept \in [0..Len(text) -> Seq(Rune)]
  /\ Only(text, set) = kept[Len(text)]
  /\ kept[0] = <<>>
  /\ \A i \in 1..Len(text) :
       kept[i] = IF text[i] \in set THEN Append(kept[i - 1], text[i]) ELSE kept[i - 1]

\* The loop of Only over the runes of a text.
LEMMA OnlyLoop ==
  ASSUME NEW text \in Seq(Rune), NEW set
  PROVE  \E kept : Keeping(kept, text, set)
  <1>. DEFINE n == Len(text)
              D == Seq(Rune)
              next(k, i) == IF text[i] \in set THEN Append(k, text[i]) ELSE k
              Equation(f) ==
                f = [i \in 0..n |->
                       IF i = 0 THEN <<>>
                       ELSE IF text[i] \in set THEN Append(f[i - 1], text[i]) ELSE f[i - 1]]
              kept == CHOOSE f : Equation(f)
              step == [p \in (1..n) \X D |-> next(p[2], p[1])]
  <1>1. n \in Nat /\ <<>> \in D /\ Only(text, set) = kept[n]
    BY DEF Only
  <1>2. \A k \in D, i \in 1..n : next(k, i) \in D
    OBVIOUS
  <1>3. PICK f : Iterates(f, n, D, <<>>, step)
    <2>1. step \in [(1..n) \X D -> D]
      <3>. HIDE DEF D, n, next
      <3>. QED BY <1>2
    <2>. HIDE DEF step, n, D
    <2>. QED BY <1>1, <2>1, Iterated
  <1>. HIDE DEF D
  <1>4. Equation(f)
    <2>. DEFINE e(i) == IF i = 0 THEN <<>>
                        ELSE IF text[i] \in set THEN Append(f[i - 1], text[i]) ELSE f[i - 1]
    <2>1. ASSUME NEW i \in 0..n PROVE f[i] = e(i)
      <3>1. CASE i = 0
        BY <1>3, <3>1 DEF Iterates
      <3>2. CASE i \in 1..n
        <4>1. i # 0 /\ f[i - 1] \in D /\ f[i] = step[<<i, f[i - 1]>>]
          <5>. HIDE DEF step, n, D
          <5>. QED BY <1>1, <1>3, <3>2, Turn
        <4>2. step[<<i, f[i - 1]>>] = next(f[i - 1], i)
          <5>. HIDE DEF next
          <5>. QED BY <3>2, <4>1
        <4>. QED BY <4>1, <4>2, Zenon
      <3>. QED BY <3>1, <3>2
    <2>2. f = [i \in 0..n |-> f[i]]
      BY <1>3 DEF Iterates
    <2>. QED BY <2>1, <2>2, Zenon
  <1>5. Equation(kept)
    <2>. HIDE DEF Equation
    <2>. QED BY <1>4
  <1>. HIDE DEF kept, step
  <1>6. kept[0] = <<>> /\ \A i \in 1..n : kept[i] = next(kept[i - 1], i)
    <2>1. \A i \in 1..n : i \in 0..n /\ i # 0
      OBVIOUS
    <2>2. kept[0] = <<>>
      BY <1>1, <1>5
    <2>3. ASSUME NEW i \in 1..n PROVE kept[i] = next(kept[i - 1], i)
      BY <1>5, <2>1, Zenon
    <2>. HIDE DEF next
    <2>. QED BY <2>2, <2>3
  <1>7. kept \in [0..n -> D]
    <2>. DEFINE P == {i \in 0..n : kept[i] \in D}
    <2>. HIDE DEF next
    <2>1. 0 \in P
      BY <1>1, <1>6
    <2>2. ASSUME NEW i \in 1..n, i - 1 \in P PROVE i \in P
      <3>1. i \in 0..n /\ kept[i - 1] \in D
        BY <2>2
      <3>. QED BY <1>2, <1>6, <3>1
    <2>3. 0..n \subseteq P
      <3>. HIDE DEF P
      <3>. QED BY <1>1, <2>1, <2>2, UpTo
    <2>4. \A i \in 0..n : kept[i] \in D
      BY <2>3
    <2>5. kept = [i \in 0..n |-> kept[i]]
      BY <1>5, Zenon
    <2>. QED BY <2>4, <2>5
  <1>8. Keeping(kept, text, set)
    <2>. HIDE DEF Equation
    <2>. QED BY <1>1, <1>6, <1>7 DEF Keeping, D
  <1>. QED BY <1>8

\* Only takes runes out of a text and puts none in.
LEMMA OnlyType ==
  ASSUME NEW text \in Seq(Rune), NEW set
  PROVE  Only(text, set) \in Seq(Rune)
  <1>1. PICK kept : Keeping(kept, text, set)
    BY OnlyLoop
  <1>2. Len(text) \in 0..Len(text)
    OBVIOUS
  <1>. QED BY <1>1, <1>2 DEF Keeping

\* What strings.TrimSpace leaves of a text is a text.
LEMMA TrimType ==
  ASSUME NEW s \in Seq(Rune)
  PROVE  TrimSpace(s) \in Seq(Rune)
  <1>. DEFINE kept == {i \in DOMAIN s : s[i] \notin Space}
  <1>1. CASE kept = {}
    BY <1>1 DEF TrimSpace
  <1>2. CASE kept # {}
    <2>1. kept \subseteq 0..Len(s) /\ kept \subseteq Nat
      OBVIOUS
    <2>2. Min(kept) \in kept /\ Max(kept) \in kept
      <3>1. Len(s) \in Nat
        OBVIOUS
      <3>. HIDE DEF kept
      <3>. QED BY <1>2, <2>1, <3>1, MinIsThere, MaxIsThere
    <2>3. SubSeq(s, Min(kept), Max(kept)) \in Seq(Rune)
      <3>1. Min(kept) \in 1..Len(s) /\ Max(kept) \in 1..Len(s)
        BY <2>2
      <3>. HIDE DEF kept
      <3>. QED BY <3>1, SubSeqProperties
    <2>. QED BY <1>2, <2>3 DEF TrimSpace
  <1>. QED BY <1>1, <1>2

\* What cleanText leaves of a text is a text.
LEMMA CleanType ==
  ASSUME NEW text \in Seq(Rune)
  PROVE  CleanText(text) \in Seq(Rune)
  <1>. DEFINE cleaned == TrimSpace(Only(text, Rune \ Control))
  <1>1. cleaned \in Seq(Rune)
    BY OnlyType, TrimType
  <1>2. [i \in DOMAIN cleaned |-> Lower[cleaned[i]]] \in Seq(Rune)
    <2>. HIDE DEF cleaned
    <2>1. \A i \in 1..Len(cleaned) : Lower[cleaned[i]] \in Rune
      BY <1>1, TokenizerAssumption DEF TokenizerAssumption
    <2>. QED BY <1>1, <2>1, IsASeq
  <1>. QED BY <1>1, <1>2 DEF CleanText

-----------------------------------------------------------------------------

Marks == {CLS, SEP, PAD}

\* What may become of a text: a token of the frame only where the text spells it.
Piece(text) == {t \in Seq(Rune) : t \in Marks => Spells(text, t)}

Part(text) == {w \in Seq(Rune) : w = <<>> \/ Spells(text, w)}

\* A part of what the text spells is spelled by the text.
LEMMA PartOfPart ==
  ASSUME NEW text \in Seq(Rune), NEW w \in Part(text), NEW i \in 1..Len(w), NEW j \in i..Len(w)
  PROVE  SubSeq(w, i, j) \in Seq(Rune) /\ Spells(text, SubSeq(w, i, j))
  <1>1. w \in Seq(Rune) /\ w # <<>>
    BY DEF Part
  <1>. DEFINE n == Len(text)
  <1>2. PICK a \in 1..n, b \in 1..n : w = SubSeq(text, a, b)
    <2>1. DOMAIN text = 1..n
      OBVIOUS
    <2>. QED BY <1>1, <2>1 DEF Part, Spells
  <1>3. a \in 1..n /\ b \in 1..n /\ n \in Nat
    BY <1>2
  <1>4. \A k \in a..b : text[k] \in Rune
    BY <1>3
  <1>5. a <= b /\ Len(w) = b - a + 1
    BY <1>1, <1>2, <1>3, <1>4, SubSeqProperties
  <1>6. SubSeq(w, i, j) = SubSeq(text, a + i - 1, a + j - 1)
    <2>. DEFINE lhs == SubSeq(w, i, j)
                rhs == SubSeq(text, a + i - 1, a + j - 1)
    <2>1. \A k \in 1..(b - a + 1) : w[k] = text[a + k - 1]
      <3>1. a \in Int /\ b \in Int
        BY <1>3
      <3>2. \A k \in 1..(b - a + 1) : SubSeq(text, a, b)[k] = text[a + k - 1]
        BY <1>4, <3>1, SubSeqProperties
      <3>. QED BY <1>2, <3>2, Zenon
    <2>2. /\ lhs \in Seq(Rune) /\ Len(lhs) = j - i + 1
          /\ \A k \in 1..(j - i + 1) : lhs[k] = w[i + k - 1]
      BY <1>1, SubSeqProperties
    <2>3. /\ rhs \in Seq(Rune) /\ Len(rhs) = j - i + 1
          /\ \A k \in 1..(j - i + 1) : rhs[k] = text[(a + i - 1) + k - 1]
      <3>. DEFINE lo == a + i - 1
                  hi == a + j - 1
      <3>0. /\ i \in Int /\ j \in Int /\ 1 <= i /\ i <= j /\ j <= b - a + 1
            /\ a \in Int /\ b \in Int /\ 1 <= a /\ b <= Len(text)
        BY <1>3, <1>5
      <3>1. /\ lo \in Int /\ hi \in Int /\ hi - lo + 1 = j - i + 1 /\ lo <= hi
            /\ \A k \in lo..hi : text[k] \in Rune
        <4>1. /\ lo \in Int /\ hi \in Int /\ hi - lo + 1 = j - i + 1 /\ lo <= hi
              /\ a <= lo /\ hi <= b
          BY <3>0
        <4>2. \A k \in lo..hi : k \in a..b
          <5>. HIDE DEF lo, hi
          <5>. QED BY <3>0, <4>1
        <4>. QED BY <1>4, <4>1, <4>2
      <3>2. /\ SubSeq(text, lo, hi) \in Seq(Rune)
            /\ Len(SubSeq(text, lo, hi)) = hi - lo + 1
            /\ \A k \in 1..(hi - lo + 1) : SubSeq(text, lo, hi)[k] = text[lo + k - 1]
        <4>. HIDE DEF lo, hi
        <4>. QED BY <3>1, SubSeqProperties
      <3>. QED BY <3>1, <3>2
    <2>4. ASSUME NEW k \in 1..(j - i + 1) PROVE lhs[k] = rhs[k]
      <3>1. i + k - 1 \in 1..(b - a + 1) /\ a + (i + k - 1) - 1 = (a + i - 1) + k - 1
        BY <1>3, <1>5
      <3>. HIDE DEF lhs, rhs
      <3>. QED BY <2>1, <2>2, <2>3, <3>1
    <2>5. lhs = rhs
      <3>. HIDE DEF lhs, rhs
      <3>. QED BY <2>2, <2>3, <2>4, SeqEqual
    <2>. QED BY <2>5
  <1>7. a + i - 1 \in DOMAIN text /\ a + j - 1 \in DOMAIN text
    BY <1>3, <1>5
  <1>8. SubSeq(w, i, j) \in Seq(Rune)
    BY <1>1, SubSeqProperties
  <1>. QED BY <1>6, <1>7, <1>8 DEF Spells

\* [UNK] is no token of the frame.
LEMMA UnknownIsPiece == \A text : UNK \in Piece(text)
  BY TokenizerAssumption DEF TokenizerAssumption, Piece, Marks

\* What begins with ## is no token of the frame.
LEMMA SuffixIsPiece ==
  ASSUME NEW text, NEW w \in Seq(Rune)
  PROVE  Suffix(w) \in Piece(text)
  <1>1. Hashes \in Seq(Rune) /\ Hashes # <<>> /\ \A m \in Marks : m[1] # Hashes[1]
    BY TokenizerAssumption DEF TokenizerAssumption, Marks
  <1>2. Suffix(w) \in Seq(Rune) /\ Suffix(w)[1] = Hashes[1]
    BY <1>1, ConcatProperties DEF Suffix
  <1>. QED BY <1>1, <1>2 DEF Piece

CutState(text, word) == [tokens : Seq(Piece(text)), from : 1..(Len(word) + 1)]

\* The next piece of a word of the text is a piece of the text.
LEMMA CutType ==
  ASSUME NEW text \in Seq(Rune), NEW word \in Part(text), NEW v,
         NEW s \in CutState(text, word)
  PROVE  Cut(v, word, s) \in CutState(text, word)
  <1>. DEFINE Candidate(to) == IF s.from = 1 THEN SubSeq(word, 1, to)
                               ELSE Suffix(SubSeq(word, s.from, to))
              fits == {to \in s.from..Len(word) : Candidate(to) \in v}
  <1>1. s.tokens \in Seq(Piece(text)) /\ s.from \in 1..(Len(word) + 1) /\ Len(word) \in Nat
    BY DEF CutState, Part
  <1>2. CASE s.from > Len(word)
    <2>1. ~(s.from <= Len(word))
      BY <1>1, <1>2
    <2>2. Cut(v, word, s) = s
      BY <1>2, <2>1 DEF Cut
    <2>. QED BY <2>2
  <1>3. CASE s.from <= Len(word) /\ fits = {}
    <2>1. [tokens |-> Append(s.tokens, UNK), from |-> Len(word) + 1] \in CutState(text, word)
      BY <1>1, UnknownIsPiece DEF CutState
    <2>. QED BY <1>1, <1>3, <2>1 DEF Cut
  <1>4. CASE s.from <= Len(word) /\ fits # {}
    <2>1. fits \subseteq 0..Len(word)
      BY <1>1
    <2>2. Max(fits) \in s.from..Len(word)
      <3>1. Max(fits) \in fits
        <4>. HIDE DEF fits
        <4>. QED BY <1>1, <1>4, <2>1, MaxIsThere
      <3>. QED BY <3>1
    <2>3. \A to \in s.from..Len(word) : Candidate(to) \in Piece(text)
      <3>1. SUFFICES ASSUME NEW to \in s.from..Len(word) PROVE Candidate(to) \in Piece(text)
        OBVIOUS
      <3>2. s.from \in 1..Len(word)
        BY <1>1, <1>4
      <3>3. SubSeq(word, s.from, to) \in Seq(Rune) /\ Spells(text, SubSeq(word, s.from, to))
        BY <3>2, PartOfPart
      <3>. QED BY <3>3, SuffixIsPiece DEF Piece
    <2>4. [tokens |-> Append(s.tokens, Candidate(Max(fits))), from |-> Max(fits) + 1]
            \in CutState(text, word)
      <3>1. Candidate(Max(fits)) \in Piece(text)
        <4>. HIDE DEF Candidate, fits
        <4>. QED BY <2>2, <2>3
      <3>2. Max(fits) + 1 \in 1..(Len(word) + 1)
        <4>. HIDE DEF fits
        <4>. QED BY <1>1, <2>2
      <3>. HIDE DEF Candidate, fits
      <3>. QED BY <1>1, <3>1, <3>2 DEF CutState
    <2>. QED BY <1>1, <1>4, <2>4 DEF Cut
  <1>. QED BY <1>1, <1>2, <1>3, <1>4

\* A word after each cut.
Cutting(after, text, v, word) ==
  /\ after \in [0..Len(word) -> CutState(text, word)]
  /\ WordPieceSplit(v, word) = after[Len(word)].tokens
  /\ after[0] = [tokens |-> <<>>, from |-> 1]
  /\ \A i \in 1..Len(word) : after[i] = Cut(v, word, after[i - 1])

\* The loop of WordPieceSplit over the pieces of a word.
LEMMA SplitLoop ==
  ASSUME NEW text \in Seq(Rune), NEW word \in Part(text), NEW v
  PROVE  \E after : Cutting(after, text, v, word)
  <1>. DEFINE n == Len(word)
              D == CutState(text, word)
              start == [tokens |-> <<>>, from |-> 1]
              Equation(f) ==
                f = [i \in 0..n |->
                       IF i = 0 THEN [tokens |-> <<>>, from |-> 1] ELSE Cut(v, word, f[i - 1])]
              after == CHOOSE f : Equation(f)
              step == [p \in (1..n) \X D |-> Cut(v, word, p[2])]
  <1>1. n \in Nat /\ start \in D
    BY DEF CutState, Part
  <1>2. WordPieceSplit(v, word) = after[n].tokens
    BY DEF WordPieceSplit
  <1>3. \A s \in D : Cut(v, word, s) \in D
    BY CutType
  <1>4. PICK f : Iterates(f, n, D, start, step)
    <2>1. step \in [(1..n) \X D -> D]
      <3>. HIDE DEF D
      <3>. QED BY <1>3
    <2>. HIDE DEF step, n, D, start
    <2>. QED BY <1>1, <2>1, Iterated
  <1>. HIDE DEF D
  <1>5. Equation(f)
    <2>. DEFINE e(i) == IF i = 0 THEN [tokens |-> <<>>, from |-> 1] ELSE Cut(v, word, f[i - 1])
    <2>1. ASSUME NEW i \in 0..n PROVE f[i] = e(i)
      <3>1. CASE i = 0
        BY <1>4, <3>1 DEF Iterates
      <3>2. CASE i \in 1..n
        <4>1. i # 0 /\ f[i - 1] \in D /\ f[i] = step[<<i, f[i - 1]>>]
          <5>. HIDE DEF step, n, D
          <5>. QED BY <1>1, <1>4, <3>2, Turn
        <4>2. step[<<i, f[i - 1]>>] = Cut(v, word, f[i - 1])
          BY <3>2, <4>1
        <4>. QED BY <4>1, <4>2, Zenon
      <3>. QED BY <1>1, <3>1, <3>2
    <2>2. f = [i \in 0..n |-> f[i]]
      BY <1>4 DEF Iterates
    <2>. QED BY <2>1, <2>2, Zenon
  <1>6. Equation(after)
    <2>. HIDE DEF Equation
    <2>. QED BY <1>5
  <1>. HIDE DEF after, step
  <1>7. after[0] = start /\ \A i \in 1..n : after[i] = Cut(v, word, after[i - 1])
    <2>1. \A i \in 1..n : i \in 0..n /\ i # 0
      BY <1>1
    <2>2. after[0] = start
      BY <1>1, <1>6
    <2>3. ASSUME NEW i \in 1..n PROVE after[i] = Cut(v, word, after[i - 1])
      BY <1>6, <2>1, Zenon
    <2>. QED BY <2>2, <2>3
  <1>8. after \in [0..n -> D]
    <2>. DEFINE P == {i \in 0..n : after[i] \in D}
    <2>1. 0 \in P
      <3>. HIDE DEF start
      <3>. QED BY <1>1, <1>7
    <2>2. ASSUME NEW i \in 1..n, i - 1 \in P PROVE i \in P
      <3>1. i \in 0..n /\ after[i - 1] \in D
        BY <1>1, <2>2
      <3>. QED BY <1>3, <1>7, <3>1
    <2>3. 0..n \subseteq P
      <3>. HIDE DEF P
      <3>. QED BY <1>1, <2>1, <2>2, UpTo
    <2>4. \A i \in 0..n : after[i] \in D
      BY <2>3
    <2>5. after = [i \in 0..n |-> after[i]]
      BY <1>6, Zenon
    <2>. QED BY <2>4, <2>5
  <1>9. Cutting(after, text, v, word)
    <2>. HIDE DEF Equation
    <2>. QED BY <1>2, <1>7, <1>8 DEF Cutting, D
  <1>. QED BY <1>9

\* What is cut off a word, piece by piece, are pieces of the text.
LEMMA SplitType ==
  ASSUME NEW text \in Seq(Rune), NEW word \in Part(text), NEW v
  PROVE  WordPieceSplit(v, word) \in Seq(Piece(text))
  <1>1. PICK after : Cutting(after, text, v, word)
    BY SplitLoop
  <1>2. Len(word) \in 0..Len(word)
    BY DEF Part
  <1>. QED BY <1>1, <1>2 DEF Cutting, CutState

\* A word is a part of itself.
LEMMA WordIsPart == \A w \in Seq(Rune) : w \in Part(w)
  <1>1. SUFFICES ASSUME NEW w \in Seq(Rune) PROVE w \in Part(w)
    OBVIOUS
  <1>2. CASE w = <<>>
    BY <1>2 DEF Part
  <1>3. CASE w # <<>>
    <2>1. 1 \in DOMAIN w /\ Len(w) \in DOMAIN w /\ w = SubSeq(w, 1, Len(w))
      BY <1>3, SubSeqFull
    <2>. QED BY <2>1 DEF Part, Spells
  <1>. QED BY <1>2, <1>3

LoopState == [tokens : Seq(Seq(Rune)), current : Seq(Rune)]

\* The pieces of a word are texts.
LEMMA SplitOfAnyWord ==
  ASSUME NEW w \in Seq(Rune), NEW v
  PROVE  WordPieceSplit(v, w) \in Seq(Seq(Rune))
  <1>1. w \in Part(w)
    BY WordIsPart
  <1>2. WordPieceSplit(v, w) \in Seq(Piece(w))
    BY <1>1, SplitType
  <1>3. Piece(w) \subseteq Seq(Rune)
    BY DEF Piece
  <1>. QED BY <1>2, <1>3, SeqMonotonic

\* The loop over the runes keeps tokens and a word under way.
LEMMA TakeType ==
  ASSUME NEW s \in LoopState, NEW r \in Rune, NEW v
  PROVE  Take(v, s, r) \in LoopState
  <1>1. s.tokens \in Seq(Seq(Rune)) /\ s.current \in Seq(Rune) /\ <<r>> \in Seq(Rune)
    BY DEF LoopState
  <1>. DEFINE f == Flush(v, s)
  <1>2. /\ f = [tokens |-> s.tokens \o WordPieceSplit(v, s.current), current |-> <<>>]
        /\ s.tokens \o WordPieceSplit(v, s.current) \in Seq(Seq(Rune))
    BY <1>1, SplitOfAnyWord, ConcatProperties DEF Flush
  <1>3. f \in LoopState /\ f.tokens \in Seq(Seq(Rune)) /\ f.current = <<>>
    <2>. HIDE DEF f
    <2>. QED BY <1>2 DEF LoopState
  <1>4. [f EXCEPT !.tokens = Append(@, <<r>>)] \in LoopState
    <2>. HIDE DEF f
    <2>1. Append(f.tokens, <<r>>) \in Seq(Seq(Rune))
      BY <1>1, <1>3, AppendProperties
    <2>. QED BY <1>3, <2>1 DEF LoopState
  <1>5. [s EXCEPT !.current = Append(@, r)] \in LoopState
    <2>1. Append(s.current, r) \in Seq(Rune)
      BY <1>1, AppendProperties
    <2>. QED BY <2>1 DEF LoopState
  <1>6. r \in Space => r \notin Han
    BY TokenizerAssumption DEF TokenizerAssumption
  <1>. QED BY <1>3, <1>4, <1>5, <1>6 DEF Take

\* After i runes: pieces of the text, and a word that ends with rune i.
Progress(text, s, i) ==
  /\ s.tokens \in Seq(Piece(text))
  /\ s.current = <<>> \/ \E a \in 1..i : s.current = SubSeq(text, a, i)

\* The word under way is a part of the text.
LEMMA ProgressIsPart ==
  ASSUME NEW text \in Seq(Rune), NEW i \in 0..Len(text), NEW s, Progress(text, s, i)
  PROVE  s.current \in Part(text)
  <1>1. CASE s.current = <<>>
    BY <1>1 DEF Part
  <1>2. CASE \E a \in 1..i : s.current = SubSeq(text, a, i)
    <2>1. PICK a \in 1..i : s.current = SubSeq(text, a, i)
      BY <1>2
    <2>2. a \in DOMAIN text /\ i \in DOMAIN text /\ \A k \in a..i : text[k] \in Rune
      BY <2>1
    <2>3. SubSeq(text, a, i) \in Seq(Rune)
      BY <2>2, SubSeqProperties
    <2>. QED BY <2>1, <2>2, <2>3 DEF Part, Spells
  <1>. QED BY <1>1, <1>2 DEF Progress

\* The pieces of the word under way are pieces of the text.
LEMMA FlushProgress ==
  ASSUME NEW text \in Seq(Rune), NEW i \in 0..Len(text), NEW s, Progress(text, s, i), NEW v
  PROVE  /\ Flush(v, s).tokens \in Seq(Piece(text))
         /\ Flush(v, s).current = <<>>
         /\ Flush(v, s) = [tokens |-> Flush(v, s).tokens, current |-> <<>>]
  <1>1. WordPieceSplit(v, s.current) \in Seq(Piece(text))
    BY ProgressIsPart, SplitType
  <1>2. s.tokens \o WordPieceSplit(v, s.current) \in Seq(Piece(text))
    BY <1>1, ConcatProperties DEF Progress
  <1>. QED BY <1>2 DEF Flush

\* One rune more: the word under way goes on, or its pieces are taken.
LEMMA TakeProgress ==
  ASSUME NEW text \in Seq(Rune), NEW i \in 1..Len(text), NEW v,
         NEW s \in LoopState, Progress(text, s, i - 1)
  PROVE  Progress(text, Take(v, s, text[i]), i)
  <1>. DEFINE r == text[i]
              f == Flush(v, s)
  <1>1. /\ r \in Rune
        /\ SubSeq(text, i, i) = <<r>>
        /\ i - 1 \in 0..Len(text)
    <2>1. i \in Int /\ \A k \in i..i : text[k] \in Rune
      OBVIOUS
    <2>2. SubSeq(text, i, i) = <<r>>
      <3>1. /\ SubSeq(text, i, i) \in Seq(Rune) /\ Len(SubSeq(text, i, i)) = 1
            /\ SubSeq(text, i, i)[1] = r
        BY <2>1, SubSeqProperties
      <3>2. <<r>> \in Seq(Rune) /\ Len(<<r>>) = 1 /\ <<r>>[1] = r
        BY <2>1
      <3>3. \A k \in 1..1 : SubSeq(text, i, i)[k] = <<r>>[k]
        BY <3>1, <3>2
      <3>. DEFINE one == <<r>>
      <3>. HIDE DEF r, one
      <3>4. SubSeq(text, i, i) = one
        BY <3>1, <3>2, <3>3, SeqEqual DEF one
      <3>. QED BY <3>4 DEF one
    <2>. QED BY <2>1, <2>2
  <1>2. /\ f.tokens \in Seq(Piece(text)) /\ f.current = <<>>
        /\ f = [tokens |-> f.tokens, current |-> <<>>]
    BY <1>1, FlushProgress
  <1>3. CASE r \in Space
    <2>1. r \notin Han
      BY <1>3, TokenizerAssumption DEF TokenizerAssumption
    <2>2. Take(v, s, r) = f
      BY <1>3, <2>1 DEF Take
    <2>. HIDE DEF f
    <2>. QED BY <1>2, <2>2 DEF Progress
  <1>4. CASE r \in Han
    <2>1. r \notin Space
      BY <1>4, TokenizerAssumption DEF TokenizerAssumption
    <2>2. Take(v, s, r) = [f EXCEPT !.tokens = Append(@, <<r>>)]
      BY <1>4, <2>1 DEF Take
    <2>3. <<r>> \in Piece(text)
      <3>1. i \in DOMAIN text
        OBVIOUS
      <3>. QED BY <1>1, <3>1 DEF Piece, Spells
    <2>4. Append(f.tokens, <<r>>) \in Seq(Piece(text))
      <3>. HIDE DEF f
      <3>. QED BY <1>2, <2>3, AppendProperties
    <2>5. /\ Take(v, s, r).tokens = Append(f.tokens, <<r>>)
          /\ Take(v, s, r).current = <<>>
      <3>. HIDE DEF f
      <3>. QED BY <1>2, <2>2
    <2>. QED BY <2>4, <2>5 DEF Progress
  <1>5. CASE r \notin Space /\ r \notin Han
    <2>1. Take(v, s, r) = [s EXCEPT !.current = Append(@, r)]
      BY <1>5 DEF Take
    <2>2. Take(v, s, r).tokens = s.tokens /\ Take(v, s, r).current = Append(s.current, r)
      BY <2>1 DEF LoopState
    <2>3. \E a \in 1..i : Append(s.current, r) = SubSeq(text, a, i)
      <3>1. CASE s.current = <<>>
        BY <1>1, <3>1
      <3>2. CASE \E a \in 1..(i - 1) : s.current = SubSeq(text, a, i - 1)
        <4>1. PICK a \in 1..(i - 1) : s.current = SubSeq(text, a, i - 1)
          BY <3>2
        <4>2. a \in 1..Len(text) /\ i \in a..Len(text)
          OBVIOUS
        <4>3. SubSeq(text, a, i) = SubSeq(text, a, i - 1) \o <<text[i]>>
          BY <4>2, SubSeqRecursiveSecond
        <4>4. Append(s.current, r) = s.current \o <<r>>
          BY AppendIsConcat, <1>1 DEF LoopState
        <4>. QED BY <4>1, <4>3, <4>4
      <3>. QED BY <3>1, <3>2 DEF Progress
    <2>. QED BY <2>2, <2>3 DEF Progress
  <1>. QED BY <1>3, <1>4, <1>5

\* The tokens and the word under way after each rune.
Tokenizing(state, v, text) ==
  /\ state \in [0..Len(text) -> LoopState]
  /\ WordPieceTokenize(v, text) = Flush(v, state[Len(text)]).tokens
  /\ state[0] = [tokens |-> <<>>, current |-> <<>>]
  /\ \A i \in 1..Len(text) : state[i] = Take(v, state[i - 1], text[i])

\* The loop of WordPieceTokenize over the runes of a text.
LEMMA TokenizeLoop ==
  ASSUME NEW text \in Seq(Rune), NEW v
  PROVE  \E state : Tokenizing(state, v, text)
  <1>. DEFINE n == Len(text)
              start == [tokens |-> <<>>, current |-> <<>>]
              Equation(f) ==
                f = [i \in 0..n |->
                       IF i = 0 THEN [tokens |-> <<>>, current |-> <<>>]
                       ELSE Take(v, f[i - 1], text[i])]
              state == CHOOSE f : Equation(f)
              step == [p \in (1..n) \X LoopState |-> Take(v, p[2], text[p[1]])]
  <1>1. n \in Nat /\ start \in LoopState
    BY DEF LoopState
  <1>2. WordPieceTokenize(v, text) = Flush(v, state[n]).tokens
    BY DEF WordPieceTokenize
  <1>3. \A s \in LoopState, i \in 1..n : Take(v, s, text[i]) \in LoopState
    BY TakeType
  <1>4. PICK f : Iterates(f, n, LoopState, start, step)
    <2>1. step \in [(1..n) \X LoopState -> LoopState]
      BY <1>3
    <2>. HIDE DEF step, n, start
    <2>. QED BY <1>1, <2>1, Iterated
  <1>5. Equation(f)
    <2>. DEFINE e(i) == IF i = 0 THEN [tokens |-> <<>>, current |-> <<>>]
                        ELSE Take(v, f[i - 1], text[i])
    <2>1. ASSUME NEW i \in 0..n PROVE f[i] = e(i)
      <3>1. CASE i = 0
        BY <1>4, <3>1 DEF Iterates
      <3>2. CASE i \in 1..n
        <4>1. i # 0 /\ f[i - 1] \in LoopState /\ f[i] = step[<<i, f[i - 1]>>]
          <5>. HIDE DEF step, n
          <5>. QED BY <1>1, <1>4, <3>2, Turn
        <4>2. step[<<i, f[i - 1]>>] = Take(v, f[i - 1], text[i])
          BY <3>2, <4>1
        <4>. QED BY <4>1, <4>2, Zenon
      <3>. QED BY <3>1, <3>2
    <2>2. f = [i \in 0..n |-> f[i]]
      BY <1>4 DEF Iterates
    <2>. QED BY <2>1, <2>2, Zenon
  <1>6. Equation(state)
    <2>. HIDE DEF Equation
    <2>. QED BY <1>5
  <1>. HIDE DEF state, step
  <1>7. state[0] = start /\ \A i \in 1..n : state[i] = Take(v, state[i - 1], text[i])
    <2>1. \A i \in 1..n : i \in 0..n /\ i # 0
      OBVIOUS
    <2>2. state[0] = start
      BY <1>1, <1>6
    <2>3. ASSUME NEW i \in 1..n PROVE state[i] = Take(v, state[i - 1], text[i])
      BY <1>6, <2>1, Zenon
    <2>. QED BY <2>2, <2>3
  <1>8. state \in [0..n -> LoopState]
    <2>. DEFINE P == {i \in 0..n : state[i] \in LoopState}
    <2>1. 0 \in P
      <3>. HIDE DEF start
      <3>. QED BY <1>1, <1>7
    <2>2. ASSUME NEW i \in 1..n, i - 1 \in P PROVE i \in P
      <3>1. i \in 0..n /\ state[i - 1] \in LoopState
        BY <2>2
      <3>. QED BY <1>3, <1>7, <3>1
    <2>3. 0..n \subseteq P
      <3>. HIDE DEF P
      <3>. QED BY <1>1, <2>1, <2>2, UpTo
    <2>4. \A i \in 0..n : state[i] \in LoopState
      BY <2>3
    <2>5. state = [i \in 0..n |-> state[i]]
      BY <1>6, Zenon
    <2>. QED BY <2>4, <2>5
  <1>9. Tokenizing(state, v, text)
    <2>. HIDE DEF Equation
    <2>. QED BY <1>2, <1>7, <1>8 DEF Tokenizing
  <1>. QED BY <1>9

\* The tokens of a text are pieces of it.
LEMMA TokenizeType ==
  ASSUME NEW text \in Seq(Rune), NEW v
  PROVE  WordPieceTokenize(v, text) \in Seq(Piece(text))
  <1>. DEFINE n == Len(text)
  <1>1. PICK state : Tokenizing(state, v, text)
    BY TokenizeLoop
  <1>2. n \in Nat /\ n \in 0..n
    OBVIOUS
  <1>. DEFINE P == {i \in 0..n : Progress(text, state[i], i)}
  <1>3. 0 \in P
    <2>1. Progress(text, state[0], 0)
      BY <1>1 DEF Tokenizing, Progress
    <2>. QED BY <1>2, <2>1
  <1>4. ASSUME NEW i \in 1..n, i - 1 \in P PROVE i \in P
    <2>1. i \in 0..n /\ i - 1 \in 0..n /\ Progress(text, state[i - 1], i - 1)
      BY <1>4
    <2>2. state[i - 1] \in LoopState /\ state[i] = Take(v, state[i - 1], text[i])
      BY <1>1, <2>1 DEF Tokenizing
    <2>3. Progress(text, state[i], i)
      BY <2>1, <2>2, TakeProgress
    <2>. QED BY <2>1, <2>3
  <1>5. n \in P
    <2>. HIDE DEF P
    <2>. QED BY <1>2, <1>3, <1>4, UpTo
  <1>6. Flush(v, state[n]).tokens \in Seq(Piece(text))
    BY <1>2, <1>5, FlushProgress
  <1>. QED BY <1>1, <1>6 DEF Tokenizing

-----------------------------------------------------------------------------

Framed(text, ids, end) ==
  /\ Len(ids) = MaxLen
  /\ end \in 2..MaxLen
  /\ ids[1] = CLS /\ ids[end] = SEP
  /\ \A i \in 2..(end - 1) : ids[i] \in {CLS, SEP, PAD} => Spells(CleanText(text), ids[i])
  /\ \A i \in (end + 1)..MaxLen : ids[i] = PAD

\* What is left after the cut has room for [CLS] and [SEP].
LEMMA TruncateType ==
  ASSUME NEW S, NEW tokens \in Seq(S)
  PROVE  Truncate(tokens) \in Seq(S) /\ Len(Truncate(tokens)) <= MaxLen - 2
  <1>. DEFINE m == Min({Len(tokens), MaxLen - 2})
  <1>1. Len(tokens) \in Nat /\ MaxLen - 2 \in Nat
    BY TokenizerAssumption DEF TokenizerAssumption
  <1>2. m \in {Len(tokens), MaxLen - 2} /\ \A x \in {Len(tokens), MaxLen - 2} : m <= x
    <2>1. {Len(tokens), MaxLen - 2} \subseteq Nat /\ {Len(tokens), MaxLen - 2} # {}
      BY <1>1
    <2>. QED BY <2>1, MinIsThere
  <1>3. m \in Nat /\ m <= Len(tokens) /\ m <= MaxLen - 2
    <2>. HIDE DEF m
    <2>. QED BY <1>1, <1>2
  <1>4. SubSeq(tokens, 1, m) \in Seq(S) /\ Len(SubSeq(tokens, 1, m)) <= m
    <2>. HIDE DEF m
    <2>1. m \in Int /\ \A i \in 1..m : tokens[i] \in S
      BY <1>1, <1>3
    <2>. QED BY <1>3, <2>1, SubSeqProperties
  <1>5. MaxLen \in Nat
    BY TokenizerAssumption DEF TokenizerAssumption
  <1>6. Truncate(tokens) = SubSeq(tokens, 1, m)
    BY DEF Truncate
  <1>7. Len(SubSeq(tokens, 1, m)) \in Nat
    BY <1>4
  <1>. HIDE DEF m
  <1>. QED BY <1>3, <1>4, <1>5, <1>6, <1>7

\* The ids are [CLS], the tokens left, [SEP] and the padding.
LEMMA EncodeShape ==
  ASSUME NEW text \in Seq(Rune), NEW v
  PROVE  LET tokens == Truncate(WordPieceTokenize(v, CleanText(text)))
             ids    == Encode(v, text).ids
             end    == Encode(v, text).mask
         IN  /\ tokens \in Seq(Piece(CleanText(text)))
             /\ Len(tokens) \in Nat /\ end = Len(tokens) + 2 /\ end <= MaxLen
             /\ Len(ids) = MaxLen
             /\ ids[1] = CLS /\ ids[end] = SEP
             /\ \A i \in 1..Len(tokens) :
                  ids[i + 1] = IF tokens[i] \in v THEN tokens[i] ELSE UNK
             /\ \A i \in (end + 1)..MaxLen : ids[i] = PAD
  <1>. DEFINE clean  == CleanText(text)
              tokens == Truncate(WordPieceTokenize(v, clean))
              known(t) == IF t \in v THEN t ELSE UNK
              body   == [i \in DOMAIN tokens |-> IF tokens[i] \in v THEN tokens[i] ELSE UNK]
              ids    == <<CLS>> \o body \o <<SEP>>
              full   == [i \in 1..Max({Len(ids), MaxLen}) |-> IF i <= Len(ids) THEN ids[i] ELSE PAD]
  <1>1. clean \in Seq(Rune)
    BY CleanType
  <1>2. tokens \in Seq(Piece(clean)) /\ Len(tokens) \in Nat /\ Len(tokens) <= MaxLen - 2
    <2>. HIDE DEF clean
    <2>. QED BY <1>1, TokenizeType, TruncateType
  <1>3. {CLS, SEP, PAD, UNK} \subseteq Seq(Rune) /\ MaxLen \in Nat
    BY TokenizerAssumption DEF TokenizerAssumption
  <1>4. /\ body \in Seq(Seq(Rune)) /\ Len(body) = Len(tokens)
        /\ \A i \in 1..Len(tokens) : body[i] = known(tokens[i])
    <2>1. \A i \in 1..Len(tokens) : known(tokens[i]) \in Seq(Rune)
      <3>1. \A i \in 1..Len(tokens) : tokens[i] \in Seq(Rune)
        <4>. HIDE DEF tokens, clean
        <4>. QED BY <1>2 DEF Piece
      <3>. HIDE DEF tokens, clean
      <3>. QED BY <1>3, <3>1
    <2>2. DOMAIN tokens = 1..Len(tokens)
      <3>. HIDE DEF tokens, clean
      <3>. QED BY <1>2
    <2>3. \A i \in 1..Len(tokens) : body[i] = known(tokens[i])
      BY <2>2
    <2>. HIDE DEF tokens, clean
    <2>. QED BY <1>2, <2>1, <2>2, <2>3
  <1>5. /\ Len(ids) = Len(tokens) + 2
        /\ ids[1] = CLS /\ ids[Len(ids)] = SEP
        /\ \A i \in 1..Len(tokens) : ids[i + 1] = body[i]
    <2>1. <<CLS>> \in Seq(Seq(Rune)) /\ <<SEP>> \in Seq(Seq(Rune))
      BY <1>3
    <2>. HIDE DEF body, clean, tokens
    <2>2. /\ <<CLS>> \o body \in Seq(Seq(Rune)) /\ Len(<<CLS>> \o body) = Len(body) + 1
          /\ (<<CLS>> \o body)[1] = CLS
          /\ \A i \in 1..Len(body) : (<<CLS>> \o body)[i + 1] = body[i]
      BY <1>2, <1>4, <2>1, ConcatProperties
    <2>. DEFINE front == <<CLS>> \o body
    <2>3. /\ Len(ids) = Len(front) + 1
          /\ \A i \in 1..Len(front) : ids[i] = front[i]
          /\ ids[Len(front) + 1] = SEP
      <3>1. ids = front \o <<SEP>>
        OBVIOUS
      <3>2. front \in Seq(Seq(Rune))
        BY <2>2
      <3>. HIDE DEF front, ids
      <3>. QED BY <2>1, <3>1, <3>2, ConcatProperties
    <2>4. Len(front) = Len(body) + 1 /\ Len(body) \in Nat /\ Len(body) = Len(tokens)
      BY <1>2, <1>4, <2>2
    <2>5. ASSUME NEW i \in 1..Len(tokens) PROVE ids[i + 1] = body[i]
      <3>1. i + 1 \in 1..Len(front) /\ i \in 1..Len(body)
        BY <2>4
      <3>2. front[i + 1] = body[i]
        BY <2>2, <3>1
      <3>. HIDE DEF front, ids
      <3>. QED BY <2>3, <3>1, <3>2
    <2>6. ids[1] = CLS
      <3>1. 1 \in 1..Len(front) /\ front[1] = CLS
        BY <2>2, <2>4
      <3>. HIDE DEF front, ids
      <3>. QED BY <2>3, <3>1
    <2>. HIDE DEF ids, front
    <2>. QED BY <2>3, <2>4, <2>5, <2>6
  <1>6. Max({Len(ids), MaxLen}) = MaxLen
    <2>. HIDE DEF ids, tokens
    <2>1. Len(ids) \in 0..MaxLen
      BY <1>2, <1>3, <1>5
    <2>2. {Len(ids), MaxLen} \subseteq 0..MaxLen /\ {Len(ids), MaxLen} # {}
      BY <1>3, <2>1
    <2>3. /\ Max({Len(ids), MaxLen}) \in {Len(ids), MaxLen}
          /\ \A x \in {Len(ids), MaxLen} : x <= Max({Len(ids), MaxLen})
      BY <1>3, <2>2, MaxIsThere
    <2>. QED BY <1>3, <2>1, <2>3
  <1>7. Encode(v, text).ids = full /\ Encode(v, text).mask = Len(ids)
    BY DEF Encode
  <1>8. /\ Len(full) = MaxLen
        /\ \A i \in 1..MaxLen : full[i] = IF i <= Len(ids) THEN ids[i] ELSE PAD
    <2>. HIDE DEF ids, tokens
    <2>1. full = [i \in 1..MaxLen |-> IF i <= Len(ids) THEN ids[i] ELSE PAD]
      BY <1>6, Zenon
    <2>. HIDE DEF full
    <2>. QED BY <1>3, <2>1
  <1>. HIDE DEF full, ids, body, tokens, clean
  <1>9. full[1] = CLS /\ full[Len(ids)] = SEP
    <2>1. 1 \in 1..MaxLen /\ 1 <= Len(ids) /\ Len(ids) \in 1..MaxLen
      BY <1>2, <1>3, <1>5
    <2>. QED BY <1>5, <1>8, <2>1
  <1>10. ASSUME NEW i \in 1..Len(tokens) PROVE full[i + 1] = known(tokens[i])
    <2>1. i + 1 \in 1..MaxLen /\ i + 1 <= Len(ids)
      BY <1>2, <1>3, <1>5
    <2>. HIDE DEF known
    <2>. QED BY <1>4, <1>5, <1>8, <2>1
  <1>11. ASSUME NEW i \in (Len(ids) + 1)..MaxLen PROVE full[i] = PAD
    <2>1. i \in 1..MaxLen /\ ~(i <= Len(ids))
      BY <1>2, <1>3, <1>5
    <2>. QED BY <1>8, <2>1
  <1>12. Len(ids) <= MaxLen
    BY <1>2, <1>3, <1>5
  <1>13. /\ tokens \in Seq(Piece(clean))
         /\ Len(tokens) \in Nat /\ Len(ids) = Len(tokens) + 2 /\ Len(ids) <= MaxLen
         /\ Len(full) = MaxLen
         /\ full[1] = CLS /\ full[Len(ids)] = SEP
         /\ \A i \in 1..Len(tokens) : full[i + 1] = IF tokens[i] \in v THEN tokens[i] ELSE UNK
         /\ \A i \in (Len(ids) + 1)..MaxLen : full[i] = PAD
    BY <1>2, <1>5, <1>8, <1>9, <1>10, <1>11, <1>12
  <1>. QED BY <1>7, <1>13, Zenon DEF tokens, clean

\* The input for the model has its length, its frame and its padding, for any vocabulary.
LEMMA EncodeIsFramed ==
  ASSUME NEW text \in Seq(Rune), NEW v
  PROVE  Framed(text, Encode(v, text).ids, Encode(v, text).mask)
  <1>. DEFINE clean  == CleanText(text)
              tokens == Truncate(WordPieceTokenize(v, clean))
              ids    == Encode(v, text).ids
              end    == Encode(v, text).mask
  <1>1. /\ tokens \in Seq(Piece(clean))
        /\ Len(tokens) \in Nat /\ end = Len(tokens) + 2 /\ end <= MaxLen
        /\ Len(ids) = MaxLen
        /\ ids[1] = CLS /\ ids[end] = SEP
        /\ \A i \in 1..Len(tokens) : ids[i + 1] = IF tokens[i] \in v THEN tokens[i] ELSE UNK
        /\ \A i \in (end + 1)..MaxLen : ids[i] = PAD
    BY EncodeShape
  <1>. HIDE DEF ids, end, tokens, clean
  <1>2. UNK \notin {CLS, SEP, PAD} /\ MaxLen \in Nat
    BY TokenizerAssumption DEF TokenizerAssumption
  <1>3. ASSUME NEW i \in 2..(end - 1), ids[i] \in {CLS, SEP, PAD} PROVE Spells(clean, ids[i])
    <2>. DEFINE j == i - 1
    <2>1. j \in 1..Len(tokens) /\ i = j + 1
      BY <1>1
    <2>. HIDE DEF j
    <2>2. ids[i] = IF tokens[j] \in v THEN tokens[j] ELSE UNK
      BY <1>1, <2>1
    <2>3. ids[i] = tokens[j] /\ tokens[j] \in Piece(clean)
      BY <1>1, <1>2, <1>3, <2>1, <2>2
    <2>. QED BY <1>3, <2>3 DEF Piece, Marks
  <1>4. end \in 2..MaxLen
    BY <1>1, <1>2
  <1>5. Framed(text, ids, end)
    BY <1>1, <1>3, <1>4 DEF Framed, clean
  <1>. QED BY <1>5 DEF ids, end

-----------------------------------------------------------------------------
(* The trie                                                                *)

Node == [children : [Rune -> Nat], word : Seq(Rune)]

Trie ==
  {T \in Seq(Node) :
     /\ T # <<>>
     /\ \A n \in 1..Len(T), r \in Rune : T[n].children[r] \in 0..Len(T)}

\* Every node stands for the runes on the way to it, L of it; W are the words inserted.
Labelled(T, L, W) ==
  /\ T \in Trie
  /\ L \in [1..Len(T) -> Seq(Rune)] /\ L[1] = <<>>
  /\ \A m, n \in 1..Len(T) : L[m] = L[n] => m = n
  /\ \A n \in 1..Len(T), r \in Rune :
       T[n].children[r] # Nowhere => L[T[n].children[r]] = Append(L[n], r)
  /\ \A m, n \in 1..Len(T), r \in Rune : L[m] = Append(L[n], r) => T[n].children[r] = m
  /\ \A m \in 2..Len(T) : \E n \in 1..Len(T), r \in Rune : L[m] = Append(L[n], r)
  /\ \A w \in W : w # <<>> /\ \E n \in 1..Len(T) : L[n] = w
  /\ \A n \in 1..Len(T) : T[n].word = IF L[n] \in W THEN L[n] ELSE <<>>

\* And one of the nodes stands for the runes in a.
Leads(T, L, W, node, a) == Labelled(T, L, W) /\ L[node] = a

InTrie == {s \in [trie : Trie, node : Nat] : s.node \in 1..Len(s.trie)}

\* A new node is a node.
LEMMA NewNodeType == NewNode \in Node
  BY DEF NewNode, Node, Nowhere

\* Sequences that end with different runes, or begin differently, are different.
LEMMA AppendApart ==
  ASSUME NEW a \in Seq(Rune), NEW b \in Seq(Rune), NEW r \in Rune, NEW q \in Rune
  PROVE  /\ Append(a, r) \in Seq(Rune)
         /\ Append(a, r) # <<>>
         /\ Append(a, r) = Append(b, q) => a = b /\ r = q
  BY AppendInjective, AppendProperties

\* What Descend does to a trie that has no such child.
Grown(T, n, r) == Append([T EXCEPT ![n].children[r] = Len(T) + 1], NewNode)

\* A new child changes one child of one node and no word.
LEMMA GrownType ==
  ASSUME NEW T \in Trie, NEW n \in 1..Len(T), NEW r \in Rune
  PROVE  /\ Grown(T, n, r) \in Trie
         /\ Len(Grown(T, n, r)) = Len(T) + 1
         /\ Grown(T, n, r)[Len(T) + 1] = NewNode
         /\ \A m \in 1..Len(T) : Grown(T, n, r)[m].word = T[m].word
         /\ \A m \in 1..Len(T), q \in Rune :
              Grown(T, n, r)[m].children[q]
                = IF m = n /\ q = r THEN Len(T) + 1 ELSE T[m].children[q]
  <1>. DEFINE node == [T[n] EXCEPT !.children[r] = Len(T) + 1]
              U    == [T EXCEPT ![n] = node]
  <1>1. T \in Seq(Node) /\ Len(T) \in Nat /\ T[n] \in Node
    BY DEF Trie
  <1>2. /\ node \in Node /\ node.word = T[n].word
        /\ \A q \in Rune : node.children[q] = IF q = r THEN Len(T) + 1 ELSE T[n].children[q]
    <2>. DEFINE c == [T[n].children EXCEPT ![r] = Len(T) + 1]
    <2>1. T[n].children \in [Rune -> Nat] /\ T[n].word \in Seq(Rune)
      BY <1>1 DEF Node
    <2>2. /\ c \in [Rune -> Nat]
          /\ \A q \in Rune : c[q] = IF q = r THEN Len(T) + 1 ELSE T[n].children[q]
      BY <1>1, <2>1
    <2>3. node = [children |-> c, word |-> T[n].word]
      <3>1. node = [T[n] EXCEPT !.children = c]
        OBVIOUS
      <3>. HIDE DEF node, c
      <3>. QED BY <1>1, <3>1 DEF Node
    <2>. HIDE DEF node, c
    <2>. QED BY <2>1, <2>2, <2>3 DEF Node
  <1>3. U \in Seq(Node) /\ Len(U) = Len(T) /\ \A m \in 1..Len(T) : U[m] = IF m = n THEN node ELSE T[m]
    <2>. HIDE DEF node
    <2>. QED BY <1>1, <1>2, ExceptSeq
  <1>4. Grown(T, n, r) = Append(U, NewNode)
    BY DEF Grown
  <1>5. /\ Grown(T, n, r) \in Seq(Node)
        /\ Len(Grown(T, n, r)) = Len(T) + 1
        /\ Grown(T, n, r)[Len(T) + 1] = NewNode
        /\ \A m \in 1..Len(T) : Grown(T, n, r)[m] = U[m]
    <2>. HIDE DEF U, node
    <2>. QED BY <1>1, <1>3, <1>4, NewNodeType, AppendProperties
  <1>. HIDE DEF U, node
  <1>6. \A m \in 1..Len(T) : Grown(T, n, r)[m].word = T[m].word
    BY <1>2, <1>3, <1>5
  <1>7. \A m \in 1..Len(T), q \in Rune :
          Grown(T, n, r)[m].children[q]
            = IF m = n /\ q = r THEN Len(T) + 1 ELSE T[m].children[q]
    BY <1>2, <1>3, <1>5
  <1>8. ASSUME NEW m \in 1..(Len(T) + 1), NEW q \in Rune
        PROVE  Grown(T, n, r)[m].children[q] \in 0..(Len(T) + 1)
    <2>1. CASE m \in 1..Len(T)
      BY <1>1, <1>7, <2>1 DEF Trie
    <2>2. CASE m = Len(T) + 1
      BY <1>1, <1>5, <2>2 DEF NewNode, Nowhere
    <2>. QED BY <1>1, <2>1, <2>2
  <1>9. Grown(T, n, r) \in Trie
    BY <1>1, <1>5, <1>8 DEF Trie
  <1>. QED BY <1>5, <1>6, <1>7, <1>9

\* Descend stays in the trie.
LEMMA DescendType ==
  ASSUME NEW s \in InTrie, NEW r \in Rune
  PROVE  Descend(s, r) \in InTrie
  <1>1. /\ s.trie \in Trie /\ s.node \in 1..Len(s.trie)
        /\ s.trie[s.node].children[r] \in 0..Len(s.trie) /\ Len(s.trie) \in Nat
    BY DEF InTrie, Trie
  <1>2. CASE s.trie[s.node].children[r] # Nowhere
    <2>1. Descend(s, r) = [s EXCEPT !.node = s.trie[s.node].children[r]]
      BY <1>2 DEF Descend
    <2>2. s.trie[s.node].children[r] \in 1..Len(s.trie)
      BY <1>1, <1>2 DEF Nowhere
    <2>. QED BY <2>1, <2>2 DEF InTrie
  <1>3. CASE s.trie[s.node].children[r] = Nowhere
    <2>1. Descend(s, r) = [trie |-> Grown(s.trie, s.node, r), node |-> Len(s.trie) + 1]
      BY <1>3 DEF Descend, Grown
    <2>. QED BY <1>1, <2>1, GrownType DEF InTrie
  <1>. QED BY <1>2, <1>3

\* A child that is not there yet is made, and labelled with the runes on the way to it.
LEMMA GrownLabelled ==
  ASSUME NEW T, NEW L, NEW W, Labelled(T, L, W),
         NEW n \in 1..Len(T), NEW r \in Rune, T[n].children[r] = Nowhere
  PROVE  \E M : Leads(Grown(T, n, r), M, W, Len(T) + 1, Append(L[n], r))
  <1>. DEFINE new == Len(T) + 1
              G   == Grown(T, n, r)
              a   == Append(L[n], r)
              M   == [m \in 1..new |-> IF m = new THEN a ELSE L[m]]
  <1>1. /\ T \in Trie /\ T \in Seq(Node) /\ T # <<>> /\ Len(T) \in Nat /\ Len(T) >= 1
        /\ L \in [1..Len(T) -> Seq(Rune)] /\ L[1] = <<>>
    BY DEF Labelled, Trie
  <1>2. /\ G \in Trie /\ Len(G) = new /\ G[new] = NewNode
        /\ \A m \in 1..Len(T) : G[m].word = T[m].word
        /\ \A m \in 1..Len(T), q \in Rune :
             G[m].children[q] = IF m = n /\ q = r THEN new ELSE T[m].children[q]
    BY <1>1, GrownType
  <1>3. a \in Seq(Rune) /\ a # <<>>
    BY <1>1, AppendApart
  <1>4. /\ M \in [1..new -> Seq(Rune)] /\ M[new] = a
        /\ \A m \in 1..Len(T) : M[m] = L[m]
        /\ M[1] = <<>>
    <2>. HIDE DEF a
    <2>. QED BY <1>1, <1>3
  <1>0. \A m, k \in 1..Len(T), q \in Rune : L[m] = Append(L[k], q) => T[k].children[q] = m
    BY DEF Labelled
  <1>5. \A m \in 1..Len(T) : L[m] # a
    <2>1. ASSUME NEW m \in 1..Len(T), L[m] = a PROVE FALSE
      <3>1. T[n].children[r] = m
        BY <1>0, <2>1
      <3>. QED BY <1>1, <3>1 DEF Nowhere
    <2>. QED BY <2>1
  <1>. HIDE DEF G, M, a
  <1>6. \A m \in 1..new : m \in 1..Len(T) \/ m = new
    BY <1>1
  <1>7. new \notin 1..Len(T) /\ new \in 1..new /\ \A m \in 1..Len(T) : m \in 1..new
    BY <1>1
  <1>. HIDE DEF new
  <1>8. \A m, k \in 1..new : M[m] = M[k] => m = k
    <2>1. \A m, k \in 1..Len(T) : L[m] = L[k] => m = k
      BY DEF Labelled
    <2>. QED BY <1>4, <1>5, <1>6, <2>1
  <1>9. ASSUME NEW m \in 1..new, NEW q \in Rune, G[m].children[q] # Nowhere
        PROVE  M[G[m].children[q]] = Append(M[m], q)
    <2>1. CASE m = new
      BY <1>2, <1>9, <2>1 DEF NewNode
    <2>2. CASE m \in 1..Len(T) /\ m = n /\ q = r
      BY <1>2, <1>4, <2>2 DEF a
    <2>3. CASE m \in 1..Len(T) /\ ~(m = n /\ q = r)
      <3>1. G[m].children[q] = T[m].children[q]
        BY <1>2, <2>3
      <3>2. T[m].children[q] \in 1..Len(T)
        BY <1>1, <1>9, <2>3, <3>1 DEF Trie, Nowhere
      <3>3. L[T[m].children[q]] = Append(L[m], q)
        BY <1>9, <2>3, <3>1 DEF Labelled
      <3>. QED BY <1>4, <2>3, <3>1, <3>2, <3>3
    <2>. QED BY <1>6, <2>1, <2>2, <2>3
  <1>10. ASSUME NEW m \in 1..new, NEW k \in 1..new, NEW q \in Rune, M[m] = Append(M[k], q)
         PROVE  G[k].children[q] = m
    <2>1. \A x \in 1..Len(T) : L[x] \in Seq(Rune)
      BY <1>1
    <2>2. CASE m \in 1..Len(T) /\ k \in 1..Len(T)
      <3>1. T[k].children[q] = m
        <4>1. L[m] = Append(L[k], q)
          BY <1>4, <1>10, <2>2
        <4>. QED BY <1>0, <2>2, <4>1
      <3>2. ~(k = n /\ q = r)
        <4>1. m # Nowhere
          BY <1>1, <2>2 DEF Nowhere
        <4>. QED BY <3>1, <4>1
      <3>. QED BY <1>2, <2>2, <3>1, <3>2
    <2>3. CASE m = new /\ k \in 1..Len(T)
      <3>1. Append(L[n], r) = Append(L[k], q)
        BY <1>4, <1>10, <2>3 DEF a
      <3>2. L[n] = L[k] /\ r = q
        <4>1. L[n] \in Seq(Rune) /\ L[k] \in Seq(Rune)
          BY <2>1, <2>3
        <4>2. \A b, c \in Seq(Rune) : Append(b, r) = Append(c, q) => b = c /\ r = q
          BY AppendApart
        <4>. QED BY <3>1, <4>1, <4>2
      <3>3. n = k
        BY <2>3, <3>2 DEF Labelled
      <3>. QED BY <1>2, <2>3, <3>2, <3>3
    <2>4. CASE m = new /\ k = new
      <3>1. a = Append(a, q)
        BY <1>4, <1>10, <2>4
      <3>2. Len(Append(a, q)) = Len(a) + 1 /\ Len(a) \in Nat
        BY <1>3, AppendProperties
      <3>. QED BY <3>1, <3>2
    <2>5. CASE m \in 1..Len(T) /\ k = new
      <3>1. L[m] = Append(a, q)
        BY <1>4, <1>10, <2>5
      <3>2. L[m] # <<>>
        BY <1>3, <3>1, AppendApart
      <3>3. m \in 2..Len(T)
        BY <1>1, <2>5, <3>2
      <3>4. PICK p \in 1..Len(T), o \in Rune : L[m] = Append(L[p], o)
        BY <3>3 DEF Labelled
      <3>5. L[p] = a
        BY <1>3, <2>1, <3>1, <3>4, AppendApart
      <3>. QED BY <1>5, <3>5
    <2>. QED BY <1>6, <2>2, <2>3, <2>4, <2>5
  <1>11. ASSUME NEW m \in 2..new PROVE \E k \in 1..new, q \in Rune : M[m] = Append(M[k], q)
    <2>1. CASE m = new
      BY <1>4, <1>7, <2>1 DEF a
    <2>2. CASE m # new
      <3>1. m \in 2..Len(T)
        BY <1>1, <2>2 DEF new
      <3>2. PICK k \in 1..Len(T), q \in Rune : L[m] = Append(L[k], q)
        BY <3>1 DEF Labelled
      <3>3. m \in 1..Len(T)
        BY <1>1, <3>1
      <3>. QED BY <1>4, <1>7, <3>2, <3>3
    <2>. QED BY <2>1, <2>2
  <1>12. \A w \in W : w # <<>> /\ \E m \in 1..new : M[m] = w
    <2>1. \A w \in W : w # <<>> /\ \E m \in 1..Len(T) : L[m] = w
      BY DEF Labelled
    <2>. QED BY <1>4, <1>7, <2>1
  <1>13. ASSUME NEW m \in 1..new PROVE G[m].word = IF M[m] \in W THEN M[m] ELSE <<>>
    <2>1. CASE m = new
      <3>1. a \notin W
        BY <1>5 DEF Labelled
      <3>. QED BY <1>2, <1>4, <2>1, <3>1 DEF NewNode
    <2>2. CASE m \in 1..Len(T)
      BY <1>2, <1>4, <2>2 DEF Labelled
    <2>. QED BY <1>6, <2>1, <2>2
  <1>14. Labelled(G, M, W)
    BY <1>2, <1>4, <1>8, <1>9, <1>10, <1>11, <1>12, <1>13 DEF Labelled
  <1>15. Leads(G, M, W, new, a)
    BY <1>4, <1>14 DEF Leads
  <1>. QED BY <1>15, Zenon DEF G, new, a

\* Descend leads to the node that stands for one rune more.
LEMMA DescendLabelled ==
  ASSUME NEW s \in InTrie, NEW L, NEW W, Labelled(s.trie, L, W), NEW r \in Rune
  PROVE  \E M : Leads(Descend(s, r).trie, M, W, Descend(s, r).node, Append(L[s.node], r))
  <1>. DEFINE child == s.trie[s.node].children[r]
  <1>1. s.node \in 1..Len(s.trie) /\ Len(s.trie) \in Nat
    BY DEF InTrie, Trie
  <1>2. CASE child # Nowhere
    <2>1. Descend(s, r) = [s EXCEPT !.node = child]
      BY <1>2 DEF Descend
    <2>2. Descend(s, r).trie = s.trie /\ Descend(s, r).node = child
      <3>. HIDE DEF child
      <3>. QED BY <2>1 DEF InTrie
    <2>3. L[child] = Append(L[s.node], r)
      BY <1>1, <1>2 DEF Labelled
    <2>. HIDE DEF child
    <2>4. Labelled(Descend(s, r).trie, L, W)
      BY <2>2
    <2>5. L[Descend(s, r).node] = Append(L[s.node], r)
      BY <2>2, <2>3
    <2>6. Leads(Descend(s, r).trie, L, W, Descend(s, r).node, Append(L[s.node], r))
      BY <2>4, <2>5 DEF Leads
    <2>. QED BY <2>6, Zenon
  <1>3. CASE child = Nowhere
    <2>1. Descend(s, r) = [trie |-> Grown(s.trie, s.node, r), node |-> Len(s.trie) + 1]
      BY <1>3 DEF Descend, Grown
    <2>2. PICK M : Leads(Grown(s.trie, s.node, r), M, W, Len(s.trie) + 1, Append(L[s.node], r))
      <3>1. s.node \in 1..Len(s.trie) /\ s.trie[s.node].children[r] = Nowhere
        BY <1>1, <1>3
      <3>. QED BY <3>1, GrownLabelled, Zenon
    <2>3. Leads(Descend(s, r).trie, M, W, Descend(s, r).node, Append(L[s.node], r))
      BY <2>1, <2>2
    <2>. QED BY <2>3, Zenon
  <1>. QED BY <1>2, <1>3

\* The loop of Insert over the runes of a word.
LEMMA InsertLoop ==
  ASSUME NEW T \in Trie, NEW w \in Seq(Rune)
  PROVE  \E at \in [0..Len(w) -> InTrie] :
           /\ Insert(T, w) = [at[Len(w)].trie EXCEPT ![at[Len(w)].node].word = w]
           /\ at[0] = [trie |-> T, node |-> Root]
           /\ \A i \in 1..Len(w) : at[i] = Descend(at[i - 1], w[i])
  <1>. DEFINE n == Len(w)
              start == [trie |-> T, node |-> Root]
              Equation(f) ==
                f = [i \in 0..n |->
                       IF i = 0 THEN [trie |-> T, node |-> Root] ELSE Descend(f[i - 1], w[i])]
              at == CHOOSE f : Equation(f)
              step == [p \in (1..n) \X InTrie |-> Descend(p[2], w[p[1]])]
  <1>1. n \in Nat /\ start \in InTrie
    BY DEF InTrie, Trie, Root
  <1>2. Insert(T, w) = [at[n].trie EXCEPT ![at[n].node].word = w]
    BY DEF Insert
  <1>3. \A s \in InTrie, i \in 1..n : Descend(s, w[i]) \in InTrie
    BY DescendType
  <1>4. PICK f : Iterates(f, n, InTrie, start, step)
    <2>1. step \in [(1..n) \X InTrie -> InTrie]
      BY <1>3
    <2>. HIDE DEF step, n, start
    <2>. QED BY <1>1, <2>1, Iterated
  <1>5. Equation(f)
    <2>. DEFINE e(i) == IF i = 0 THEN [trie |-> T, node |-> Root] ELSE Descend(f[i - 1], w[i])
    <2>1. ASSUME NEW i \in 0..n PROVE f[i] = e(i)
      <3>1. CASE i = 0
        BY <1>4, <3>1 DEF Iterates
      <3>2. CASE i \in 1..n
        <4>1. i # 0 /\ f[i - 1] \in InTrie /\ f[i] = step[<<i, f[i - 1]>>]
          <5>. HIDE DEF step, n
          <5>. QED BY <1>1, <1>4, <3>2, Turn
        <4>2. step[<<i, f[i - 1]>>] = Descend(f[i - 1], w[i])
          BY <3>2, <4>1
        <4>. QED BY <4>1, <4>2, Zenon
      <3>. QED BY <3>1, <3>2
    <2>2. f = [i \in 0..n |-> f[i]]
      BY <1>4 DEF Iterates
    <2>. QED BY <2>1, <2>2, Zenon
  <1>6. Equation(at)
    <2>. HIDE DEF Equation
    <2>. QED BY <1>5
  <1>7. at[0] = start /\ \A i \in 1..n : at[i] = Descend(at[i - 1], w[i])
    <2>. HIDE DEF at
    <2>1. \A i \in 1..n : i \in 0..n /\ i # 0
      OBVIOUS
    <2>2. at[0] = start
      BY <1>1, <1>6
    <2>3. ASSUME NEW i \in 1..n PROVE at[i] = Descend(at[i - 1], w[i])
      BY <1>6, <2>1, Zenon
    <2>. QED BY <2>2, <2>3
  <1>8. at \in [0..n -> InTrie]
    <2>. DEFINE P == {i \in 0..n : at[i] \in InTrie}
    <2>. HIDE DEF at
    <2>1. 0 \in P
      BY <1>1, <1>7
    <2>2. ASSUME NEW i \in 1..n, i - 1 \in P PROVE i \in P
      <3>1. i \in 0..n /\ at[i - 1] \in InTrie
        BY <2>2
      <3>. QED BY <1>3, <1>7, <3>1
    <2>3. 0..n \subseteq P
      <3>. HIDE DEF P
      <3>. QED BY <1>1, <2>1, <2>2, UpTo
    <2>4. \A i \in 0..n : at[i] \in InTrie
      BY <2>3
    <2>5. at = [i \in 0..n |-> at[i]]
      BY <1>6, Zenon
    <2>. QED BY <2>4, <2>5
  <1>. HIDE DEF at
  <1>. QED BY <1>2, <1>7, <1>8

\* After Insert, the trie has one word more.
LEMMA InsertLabelled ==
  ASSUME NEW T, NEW L, NEW W, Labelled(T, L, W), NEW w \in Seq(Rune), w # <<>>
  PROVE  \E M : Labelled(Insert(T, w), M, W \cup {w})
  <1>. DEFINE n == Len(w)
  <1>1. T \in Trie /\ n \in Nat /\ Len(T) \in Nat /\ Len(T) >= 1
    BY DEF Labelled, Trie
  <1>2. PICK at \in [0..n -> InTrie] :
          /\ Insert(T, w) = [at[n].trie EXCEPT ![at[n].node].word = w]
          /\ at[0] = [trie |-> T, node |-> Root]
          /\ \A i \in 1..n : at[i] = Descend(at[i - 1], w[i])
    BY <1>1, InsertLoop
  <1>3. \E M : Leads(at[n].trie, M, W, at[n].node, SubSeq(w, 1, n))
    <2>. DEFINE P == {i \in 0..n : \E M : Leads(at[i].trie, M, W, at[i].node, SubSeq(w, 1, i))}
    <2>1. 0 \in P
      <3>1. SubSeq(w, 1, 0) = <<>>
        OBVIOUS
      <3>2. L[Root] = <<>>
        BY DEF Labelled, Root
      <3>3. at[0].trie = T /\ at[0].node = Root
        BY <1>2
      <3>4. Leads(at[0].trie, L, W, at[0].node, SubSeq(w, 1, 0))
        BY <3>1, <3>2, <3>3 DEF Leads
      <3>5. 0 \in 0..n
        BY <1>1
      <3>. QED BY <3>4, <3>5
    <2>2. ASSUME NEW i \in 1..n, i - 1 \in P PROVE i \in P
      <3>1. i \in 0..n /\ i - 1 \in 0..n /\ w[i] \in Rune /\ at[i - 1] \in InTrie
        BY <1>1, <1>2
      <3>2. PICK K : Leads(at[i - 1].trie, K, W, at[i - 1].node, SubSeq(w, 1, i - 1))
        BY <2>2
      <3>3. PICK M : Leads(at[i].trie, M, W, at[i].node, Append(SubSeq(w, 1, i - 1), w[i]))
        <4>1. /\ at[i - 1] \in InTrie /\ w[i] \in Rune
              /\ Labelled(at[i - 1].trie, K, W) /\ K[at[i - 1].node] = SubSeq(w, 1, i - 1)
          BY <3>1, <3>2 DEF Leads
        <4>2. PICK M : Leads(Descend(at[i - 1], w[i]).trie, M, W, Descend(at[i - 1], w[i]).node,
                             Append(K[at[i - 1].node], w[i]))
          BY <4>1, DescendLabelled, Zenon
        <4>3. at[i] = Descend(at[i - 1], w[i])
          BY <1>2
        <4>4. Leads(at[i].trie, M, W, at[i].node, Append(SubSeq(w, 1, i - 1), w[i]))
          BY <4>1, <4>2, <4>3
        <4>. QED BY <4>4, Zenon
      <3>4. Append(SubSeq(w, 1, i - 1), w[i]) = SubSeq(w, 1, i)
        <4>1. 1 \in 1..Len(w) /\ i \in 1..Len(w)
          BY <1>1
        <4>2. SubSeq(w, 1, i) = SubSeq(w, 1, i - 1) \o <<w[i]>>
          BY <4>1, SubSeqRecursiveSecond
        <4>3. SubSeq(w, 1, i - 1) \in Seq(Rune)
          BY <4>1
        <4>. QED BY <3>1, <4>2, <4>3, AppendIsConcat
      <3>5. Leads(at[i].trie, M, W, at[i].node, SubSeq(w, 1, i))
        BY <3>3, <3>4
      <3>. QED BY <3>1, <3>5, Zenon
    <2>3. 0..n \subseteq P
      <3>. HIDE DEF P
      <3>. QED BY <1>1, <2>1, <2>2, UpTo
    <2>4. n \in P
      <3>. HIDE DEF P
      <3>. QED BY <1>1, <2>3
    <2>. QED BY <2>4
  <1>. DEFINE U == at[n].trie
              m == at[n].node
              I == [U EXCEPT ![m].word = w]
  <1>4. PICK M : Labelled(U, M, W) /\ M[m] = w
    <2>1. SubSeq(w, 1, n) = w
      BY SubSeqFull
    <2>. QED BY <1>3, <2>1 DEF Leads
  <1>5. U \in Trie /\ U \in Seq(Node) /\ U # <<>> /\ m \in 1..Len(U) /\ Len(U) \in Nat
    <2>1. n \in 0..n
      BY <1>1
    <2>2. at[n] \in InTrie
      BY <1>2, <2>1
    <2>. QED BY <2>2 DEF InTrie, Trie
  <1>. HIDE DEF U, m, n
  <1>6. /\ I \in Seq(Node) /\ Len(I) = Len(U)
        /\ \A k \in 1..Len(U) : /\ I[k].children = U[k].children
                                /\ I[k].word = IF k = m THEN w ELSE U[k].word
    <2>. DEFINE node == [U[m] EXCEPT !.word = w]
    <2>1. node \in Node /\ node.children = U[m].children /\ node.word = w
      <3>1. U[m] \in Node
        BY <1>5
      <3>. QED BY <3>1 DEF Node
    <2>2. I = [U EXCEPT ![m] = node]
      BY <1>5
    <2>. HIDE DEF node, I
    <2>3. I \in Seq(Node) /\ Len(I) = Len(U) /\ \A k \in 1..Len(U) : I[k] = IF k = m THEN node ELSE U[k]
      BY <1>5, <2>1, <2>2, ExceptSeq
    <2>. QED BY <2>1, <2>3
  <1>. HIDE DEF I
  <1>7. I \in Trie
    BY <1>5, <1>6 DEF Trie
  <1>8. \A x \in W \cup {w} : x # <<>> /\ \E k \in 1..Len(I) : M[k] = x
    <2>1. \A x \in W : x # <<>> /\ \E k \in 1..Len(U) : M[k] = x
      BY <1>4 DEF Labelled
    <2>. QED BY <1>4, <1>5, <1>6, <2>1
  <1>9. \A k \in 1..Len(I) : I[k].word = IF M[k] \in W \cup {w} THEN M[k] ELSE <<>>
    <2>1. \A k \in 1..Len(U) : M[k] = w => k = m
      BY <1>4, <1>5 DEF Labelled
    <2>2. \A k \in 1..Len(U) : U[k].word = IF M[k] \in W THEN M[k] ELSE <<>>
      BY <1>4 DEF Labelled
    <2>. QED BY <1>4, <1>6, <2>1, <2>2
  <1>10. Labelled(I, M, W \cup {w})
    <2>1. /\ M \in [1..Len(I) -> Seq(Rune)] /\ M[1] = <<>>
          /\ \A k, l \in 1..Len(I) : M[k] = M[l] => k = l
      BY <1>4, <1>6 DEF Labelled
    <2>2. \A k \in 1..Len(I), q \in Rune :
            I[k].children[q] # Nowhere => M[I[k].children[q]] = Append(M[k], q)
      <3>1. \A k \in 1..Len(U), q \in Rune :
              U[k].children[q] # Nowhere => M[U[k].children[q]] = Append(M[k], q)
        BY <1>4 DEF Labelled
      <3>. QED BY <1>6, <3>1
    <2>3. \A k, l \in 1..Len(I), q \in Rune : M[k] = Append(M[l], q) => I[l].children[q] = k
      <3>1. \A k, l \in 1..Len(U), q \in Rune : M[k] = Append(M[l], q) => U[l].children[q] = k
        BY <1>4 DEF Labelled
      <3>. QED BY <1>6, <3>1
    <2>4. \A k \in 2..Len(I) : \E l \in 1..Len(I), q \in Rune : M[k] = Append(M[l], q)
      BY <1>4, <1>6 DEF Labelled
    <2>. QED BY <1>7, <1>8, <1>9, <2>1, <2>2, <2>3, <2>4 DEF Labelled
  <1>11. Insert(T, w) = I
    BY <1>2 DEF I, U, m, n
  <1>. QED BY <1>10, <1>11

\* The words inserted after k words of a list.
WordsOf(list, k) == {TrimSpace(list[j]) : j \in 1..k} \ {<<>>}

\* A new matcher has no words.
LEMMA NewLabelled == \E L : Labelled(NewDFAMatcher, L, {})
  <1>. DEFINE L == [n \in 1..1 |-> <<>>]
  <1>1. NewDFAMatcher \in Seq(Node) /\ Len(NewDFAMatcher) = 1 /\ NewDFAMatcher[1] = NewNode
    BY NewNodeType DEF NewDFAMatcher
  <1>2. \A n \in 1..1, r \in Rune : NewDFAMatcher[n].children[r] = Nowhere
    BY <1>1 DEF NewNode
  <1>3. NewDFAMatcher \in Trie
    <2>1. NewDFAMatcher # <<>>
      BY DEF NewDFAMatcher
    <2>. DEFINE T == NewDFAMatcher
    <2>2. \A n \in 1..Len(T), r \in Rune : T[n].children[r] \in 0..Len(T)
      BY <1>1, <1>2 DEF Nowhere
    <2>. HIDE DEF T
    <2>3. T \in Seq(Node) /\ T # <<>>
      BY <1>1, <2>1 DEF T
    <2>. QED BY <2>2, <2>3 DEF Trie, T
  <1>4. \A a \in Seq(Rune), q \in Rune : <<>> # Append(a, q)
    BY AppendApart
  <1>5. L \in [1..1 -> Seq(Rune)] /\ \A n \in 1..1 : L[n] = <<>>
    OBVIOUS
  <1>6. \A n \in 1..1 : NewDFAMatcher[n].word = <<>>
    BY <1>1 DEF NewNode
  <1>. HIDE DEF L
  <1>7. \A m, n \in 1..1, q \in Rune : L[m] # Append(L[n], q)
    BY <1>4, <1>5
  <1>8. 2..1 = {} /\ \A m, n \in 1..1 : m = n
    OBVIOUS
  <1>9. 1 \in 1..1
    OBVIOUS
  <1>10. Labelled(NewDFAMatcher, L, {})
    BY <1>1, <1>2, <1>3, <1>5, <1>6, <1>7, <1>8, <1>9 DEF Labelled
  <1>. QED BY <1>10

\* After Build, the trie has the words of the list and nothing else.
LEMMA BuildLabelled ==
  ASSUME NEW list \in Seq(Seq(Rune))
  PROVE  \E L : Labelled(Build(list), L, WordsOf(list, Len(list)))
  <1>. DEFINE n == Len(list)
              w(k) == TrimSpace(list[k])
              S == {T \in Trie : \E L, W : Labelled(T, L, W)}
              next(T, k) == IF w(k) = <<>> THEN T ELSE Insert(T, w(k))
              Equation(f) ==
                f = [k \in 0..n |->
                       IF k = 0 THEN NewDFAMatcher
                       ELSE IF TrimSpace(list[k]) = <<>> THEN f[k - 1]
                            ELSE Insert(f[k - 1], TrimSpace(list[k]))]
              trie == CHOOSE f : Equation(f)
              step == [p \in (1..n) \X S |-> next(p[2], p[1])]
  <1>1. n \in Nat /\ NewDFAMatcher \in S
    <2>1. PICK L : Labelled(NewDFAMatcher, L, {})
      BY NewLabelled
    <2>2. \E M, W : Labelled(NewDFAMatcher, M, W)
      BY <2>1, Zenon
    <2>3. NewDFAMatcher \in Trie
      BY <2>1 DEF Labelled
    <2>. QED BY <2>2, <2>3
  <1>2. Build(list) = trie[n]
    BY DEF Build
  <1>3. \A k \in 1..n : w(k) \in Seq(Rune)
    BY TrimType
  <1>4. ASSUME NEW T, NEW L, NEW W, Labelled(T, L, W), NEW k \in 1..n
        PROVE  \E M : Labelled(next(T, k), M, W \cup ({w(k)} \ {<<>>}))
    <2>1. CASE w(k) = <<>>
      <3>1. W \cup ({w(k)} \ {<<>>}) = W /\ next(T, k) = T
        BY <2>1
      <3>. HIDE DEF w, next
      <3>2. Labelled(next(T, k), L, W \cup ({w(k)} \ {<<>>}))
        BY <1>4, <3>1
      <3>. QED BY <3>2
    <2>2. CASE w(k) # <<>>
      <3>1. W \cup ({w(k)} \ {<<>>}) = W \cup {w(k)} /\ next(T, k) = Insert(T, w(k))
        BY <2>2
      <3>. HIDE DEF w, next
      <3>2. w(k) \in Seq(Rune)
        BY <1>3
      <3>3. w(k) # <<>>
        BY <2>2
      <3>4. \E M : Labelled(Insert(T, w(k)), M, W \cup {w(k)})
        BY <1>4, <3>2, <3>3, InsertLabelled, Zenon
      <3>. QED BY <3>1, <3>4, Zenon
    <2>. QED BY <2>1, <2>2
  <1>5. \A T \in S, k \in 1..n : next(T, k) \in S
    <2>. HIDE DEF next, w
    <2>1. SUFFICES ASSUME NEW T \in S, NEW k \in 1..n PROVE next(T, k) \in S
      OBVIOUS
    <2>2. PICK L, W : Labelled(T, L, W)
      OBVIOUS
    <2>3. PICK M : Labelled(next(T, k), M, W \cup ({w(k)} \ {<<>>}))
      BY <1>4, <2>2
    <2>4. next(T, k) \in Trie
      BY <2>3 DEF Labelled
    <2>. QED BY <2>3, <2>4
  <1>6. PICK f : Iterates(f, n, S, NewDFAMatcher, step)
    <2>1. step \in [(1..n) \X S -> S]
      <3>. HIDE DEF S, next
      <3>. QED BY <1>5
    <2>. HIDE DEF step, n, S
    <2>. QED BY <1>1, <2>1, Iterated
  <1>7. Equation(f)
    <2>. DEFINE e(k) == IF k = 0 THEN NewDFAMatcher
                        ELSE IF TrimSpace(list[k]) = <<>> THEN f[k - 1]
                             ELSE Insert(f[k - 1], TrimSpace(list[k]))
    <2>1. ASSUME NEW k \in 0..n PROVE f[k] = e(k)
      <3>1. CASE k = 0
        BY <1>6, <3>1 DEF Iterates
      <3>2. CASE k \in 1..n
        <4>1. k # 0 /\ f[k - 1] \in S /\ f[k] = step[<<k, f[k - 1]>>]
          <5>. HIDE DEF step, n, S
          <5>. QED BY <1>1, <1>6, <3>2, Turn
        <4>2. step[<<k, f[k - 1]>>] = next(f[k - 1], k)
          <5>. HIDE DEF next, S
          <5>. QED BY <3>2, <4>1
        <4>. QED BY <4>1, <4>2, Zenon
      <3>. QED BY <3>1, <3>2
    <2>2. f = [k \in 0..n |-> f[k]]
      BY <1>6 DEF Iterates
    <2>. QED BY <2>1, <2>2, Zenon
  <1>8. Equation(trie)
    <2>. HIDE DEF Equation
    <2>. QED BY <1>7
  <1>9. \E L : Labelled(trie[n], L, WordsOf(list, n))
    <2>. DEFINE P == {k \in 0..n : \E L : Labelled(trie[k], L, WordsOf(list, k))}
    <2>. HIDE DEF trie
    <2>1. 0 \in P
      <3>1. trie[0] = NewDFAMatcher
        BY <1>1, <1>8
      <3>2. WordsOf(list, 0) = {}
        BY DEF WordsOf
      <3>3. PICK L : Labelled(NewDFAMatcher, L, {})
        BY NewLabelled
      <3>4. Labelled(trie[0], L, WordsOf(list, 0))
        BY <3>1, <3>2, <3>3
      <3>. QED BY <1>1, <3>4
    <2>2. ASSUME NEW k \in 1..n, k - 1 \in P PROVE k \in P
      <3>1. k \in 0..n /\ k # 0 /\ k - 1 \in 0..n
        BY <1>1
      <3>2. trie[k] = next(trie[k - 1], k)
        BY <1>8, <3>1, Zenon
      <3>3. PICK L : Labelled(trie[k - 1], L, WordsOf(list, k - 1))
        BY <2>2
      <3>4. WordsOf(list, k) = WordsOf(list, k - 1) \cup ({w(k)} \ {<<>>})
        <4>1. 1..k = 1..(k - 1) \cup {k}
          BY <3>1
        <4>. QED BY <4>1, Zenon DEF WordsOf
      <3>5. PICK M : Labelled(next(trie[k - 1], k), M, WordsOf(list, k - 1) \cup ({w(k)} \ {<<>>}))
        <4>. HIDE DEF next, w
        <4>. QED BY <1>4, <3>3
      <3>6. Labelled(trie[k], M, WordsOf(list, k))
        <4>. HIDE DEF next, w
        <4>. QED BY <3>2, <3>4, <3>5
      <3>. QED BY <3>1, <3>6
    <2>3. 0..n \subseteq P
      <3>. HIDE DEF P
      <3>. QED BY <1>1, <2>1, <2>2, UpTo
    <2>. QED BY <1>1, <2>3
  <1>. QED BY <1>2, <1>9

-----------------------------------------------------------------------------
(* The places of hits                                                      *)

\* A place further on in a text is more bytes on.
LEMMA OffsetsGrow ==
  ASSUME NEW text \in Seq(Rune)
  PROVE  /\ ByteOffsets(text) \in [0..Len(text) -> Nat]
         /\ \A i, j \in 0..Len(text) : i < j => ByteOffsets(text)[i] < ByteOffsets(text)[j]
  <1>. DEFINE n == Len(text)
              Equation(f) ==
                f = [i \in 0..n |-> IF i = 0 THEN 0 ELSE f[i - 1] + Width[text[i]]]
              offset == CHOOSE f : Equation(f)
              step == [p \in (1..n) \X Nat |-> p[2] + Width[text[p[1]]]]
  <1>1. ByteOffsets(text) = offset /\ n \in Nat
    BY DEF ByteOffsets
  <1>2. \A i \in 1..n : Width[text[i]] \in 1..4
    BY RuneAssumption DEF RuneAssumption
  <1>3. PICK f : Iterates(f, n, Nat, 0, step)
    <2>1. step \in [(1..n) \X Nat -> Nat]
      BY <1>2
    <2>. HIDE DEF step, n
    <2>. QED BY <1>1, <2>1, Iterated
  <1>4. Equation(f)
    <2>. DEFINE e(i) == IF i = 0 THEN 0 ELSE f[i - 1] + Width[text[i]]
    <2>1. ASSUME NEW i \in 0..n PROVE f[i] = e(i)
      <3>1. CASE i = 0
        BY <1>3, <3>1 DEF Iterates
      <3>2. CASE i \in 1..n
        <4>1. i # 0 /\ f[i - 1] \in Nat /\ f[i] = step[<<i, f[i - 1]>>]
          <5>. HIDE DEF step, n
          <5>. QED BY <1>1, <1>3, <3>2, Turn
        <4>2. step[<<i, f[i - 1]>>] = f[i - 1] + Width[text[i]]
          BY <3>2, <4>1
        <4>. QED BY <4>1, <4>2, Zenon
      <3>. QED BY <3>1, <3>2
    <2>2. f = [i \in 0..n |-> f[i]]
      BY <1>3 DEF Iterates
    <2>. QED BY <2>1, <2>2, Zenon
  <1>5. Equation(offset)
    <2>. HIDE DEF Equation
    <2>. QED BY <1>4
  <1>. HIDE DEF offset, step
  <1>6. offset[0] = 0 /\ \A i \in 1..n : offset[i] = offset[i - 1] + Width[text[i]]
    <2>1. \A i \in 1..n : i \in 0..n /\ i # 0
      OBVIOUS
    <2>2. offset[0] = 0
      BY <1>1, <1>5
    <2>3. ASSUME NEW i \in 1..n PROVE offset[i] = offset[i - 1] + Width[text[i]]
      BY <1>5, <2>1, Zenon
    <2>. QED BY <2>2, <2>3
  <1>7. \A i \in 0..n : offset[i] \in Nat /\ \A j \in 0..n : j < i => offset[j] < offset[i]
    <2>. DEFINE P == {i \in 0..n : /\ offset[i] \in Nat
                                   /\ \A j \in 0..n : j < i => offset[j] \in Nat /\ offset[j] < offset[i]}
    <2>1. 0 \in P
      BY <1>1, <1>6
    <2>2. ASSUME NEW i \in 1..n, i - 1 \in P PROVE i \in P
      <3>1. i \in 0..n /\ i - 1 \in 0..n
        OBVIOUS
      <3>2. offset[i] = offset[i - 1] + Width[text[i]] /\ Width[text[i]] \in 1..4
        BY <1>2, <1>6
      <3>3. offset[i - 1] \in Nat /\ \A j \in 0..n : j < i - 1 => offset[j] \in Nat /\ offset[j] < offset[i - 1]
        BY <2>2
      <3>4. offset[i] \in Nat /\ offset[i - 1] < offset[i]
        BY <3>2, <3>3
      <3>5. ASSUME NEW j \in 0..n, j < i PROVE offset[j] \in Nat /\ offset[j] < offset[i]
        <4>1. CASE j = i - 1
          BY <3>3, <3>4, <4>1
        <4>2. CASE j # i - 1
          <5>1. j < i - 1
            BY <3>1, <3>5, <4>2
          <5>2. offset[j] \in Nat /\ offset[j] < offset[i - 1]
            BY <3>3, <5>1
          <5>. QED BY <3>3, <3>4, <5>2
        <4>. QED BY <4>1, <4>2
      <3>. QED BY <3>1, <3>4, <3>5
    <2>3. 0..n \subseteq P
      <3>. HIDE DEF P
      <3>. QED BY <1>1, <2>1, <2>2, UpTo
    <2>. QED BY <2>3
  <1>8. offset = [i \in 0..n |-> offset[i]]
    BY <1>5, Zenon
  <1>9. offset \in [0..n -> Nat]
    BY <1>7, <1>8
  <1>. QED BY <1>1, <1>7, <1>9

HitRecord == [word : Seq(Rune), start : Nat, end : Nat]

\* The hit of the word that stands at a place.
HitAt(text, p) == Hit(SubSeq(text, p[1], p[2]), text, p[1], p[2])

Pairs(text) == (1..Len(text)) \X (1..Len(text))

\* The places where words of W stand.
Places(text, W) == {p \in Pairs(text) : SubSeq(text, p[1], p[2]) \in W}

\* Hits are at the places of S, each once and in order.
Collects(text, hits, S) ==
  /\ hits \in Seq({HitAt(text, p) : p \in S})
  /\ \A p \in S : \E k \in 1..Len(hits) : hits[k] = HitAt(text, p)
  /\ \A k, l \in 1..Len(hits) : hits[k] = hits[l] => k = l
  /\ \A k, l \in 1..Len(hits) : k <= l => hits[k].start <= hits[l].start

\* A hit has the bytes of its place.
LEMMA HitType ==
  ASSUME NEW text \in Seq(Rune), NEW p \in Pairs(text)
  PROVE  /\ HitAt(text, p) \in HitRecord
         /\ HitAt(text, p).start = ByteOffsets(text)[p[1] - 1]
         /\ HitAt(text, p).end = ByteOffsets(text)[p[2]]
  <1>1. p[1] \in 1..Len(text) /\ p[2] \in 1..Len(text) /\ Len(text) \in Nat
    BY DEF Pairs
  <1>2. SubSeq(text, p[1], p[2]) \in Seq(Rune)
    BY <1>1
  <1>3. p[1] - 1 \in 0..Len(text) /\ p[2] \in 0..Len(text)
    BY <1>1
  <1>4. ByteOffsets(text)[p[1] - 1] \in Nat /\ ByteOffsets(text)[p[2]] \in Nat
    BY <1>3, OffsetsGrow
  <1>. QED BY <1>2, <1>4 DEF HitAt, Hit, HitRecord

\* Hits at different places are different, and those of places further on start later.
LEMMA HitsApart ==
  ASSUME NEW text \in Seq(Rune), NEW p \in Pairs(text), NEW q \in Pairs(text)
  PROVE  /\ HitAt(text, p) = HitAt(text, q) => p = q
         /\ p[1] <= q[1] => HitAt(text, p).start <= HitAt(text, q).start
  <1>. DEFINE o == ByteOffsets(text)
  <1>1. /\ p[1] \in 1..Len(text) /\ p[2] \in 1..Len(text) /\ p = <<p[1], p[2]>>
        /\ q[1] \in 1..Len(text) /\ q[2] \in 1..Len(text) /\ q = <<q[1], q[2]>>
        /\ Len(text) \in Nat
    BY DEF Pairs
  <1>2. /\ o \in [0..Len(text) -> Nat]
        /\ \A i, j \in 0..Len(text) : i < j => o[i] < o[j]
    BY OffsetsGrow
  <1>3. /\ HitAt(text, p).start = o[p[1] - 1] /\ HitAt(text, p).end = o[p[2]]
        /\ HitAt(text, q).start = o[q[1] - 1] /\ HitAt(text, q).end = o[q[2]]
    BY HitType
  <1>. HIDE DEF o
  <1>4. ASSUME NEW i \in 0..Len(text), NEW j \in 0..Len(text), o[i] = o[j] PROVE i = j
    <2>1. ~(i < j) /\ ~(j < i)
      BY <1>2, <1>4
    <2>. QED BY <2>1
  <1>5. /\ p[1] - 1 \in 0..Len(text) /\ q[1] - 1 \in 0..Len(text)
        /\ p[2] \in 0..Len(text) /\ q[2] \in 0..Len(text)
    BY <1>1
  <1>6. ASSUME HitAt(text, p) = HitAt(text, q) PROVE p = q
    <2>1. o[p[1] - 1] = o[q[1] - 1] /\ o[p[2]] = o[q[2]]
      BY <1>3, <1>6
    <2>2. p[1] - 1 = q[1] - 1 /\ p[2] = q[2]
      BY <1>4, <1>5, <2>1
    <2>3. p[1] = q[1]
      BY <1>1, <2>2
    <2>. QED BY <1>1, <2>2, <2>3
  <1>7. ASSUME p[1] <= q[1] PROVE o[p[1] - 1] <= o[q[1] - 1]
    <2>1. p[1] = q[1] \/ p[1] - 1 < q[1] - 1
      BY <1>1, <1>7
    <2>2. o[p[1] - 1] \in Nat /\ o[q[1] - 1] \in Nat
      BY <1>2, <1>5
    <2>. QED BY <1>2, <1>5, <2>1, <2>2
  <1>. QED BY <1>3, <1>6, <1>7

\* One place further on.
LEMMA CollectMore ==
  ASSUME NEW text \in Seq(Rune), NEW S \in SUBSET Pairs(text), NEW hits, Collects(text, hits, S),
         NEW q \in Pairs(text), q \notin S, \A p \in S : p[1] <= q[1]
  PROVE  Collects(text, Append(hits, HitAt(text, q)), S \cup {q})
  <1>. DEFINE at(p) == HitAt(text, p)
              H == {at(p) : p \in S}
              G == {at(p) : p \in S \cup {q}}
              more == Append(hits, at(q))
  <1>1. hits \in Seq(H) /\ Len(hits) \in Nat
    BY DEF Collects
  <1>2. hits \in Seq(G) /\ at(q) \in G
    <2>1. H \subseteq G
      OBVIOUS
    <2>2. at(q) \in G
      OBVIOUS
    <2>. HIDE DEF H, G, at
    <2>. QED BY <1>1, <2>1, <2>2, SeqMonotonic
  <1>3. /\ more \in Seq(G) /\ Len(more) = Len(hits) + 1
        /\ \A k \in 1..Len(hits) : more[k] = hits[k]
        /\ more[Len(hits) + 1] = at(q)
    <2>. HIDE DEF G, at
    <2>. QED BY <1>2, AppendProperties
  <1>4. \A k \in 1..Len(hits) : hits[k] # at(q) /\ hits[k].start <= at(q).start
    <2>1. SUFFICES ASSUME NEW k \in 1..Len(hits)
                   PROVE  hits[k] # at(q) /\ hits[k].start <= at(q).start
      OBVIOUS
    <2>2. hits[k] \in H
      <3>. HIDE DEF H
      <3>. QED BY <1>1
    <2>3. PICK p \in S : hits[k] = at(p)
      BY <2>2
    <2>4. p \in Pairs(text) /\ p # q /\ p[1] <= q[1]
      OBVIOUS
    <2>5. at(p) # at(q) /\ at(p).start <= at(q).start
      BY <2>4, HitsApart
    <2>. HIDE DEF at
    <2>. QED BY <2>3, <2>5
  <1>5. at(q).start \in Nat
    BY HitType DEF HitRecord
  <1>. HIDE DEF G, H, more
  <1>6. \A k \in 1..Len(more) : k \in 1..Len(hits) \/ k = Len(hits) + 1
    BY <1>1, <1>3
  <1>7. \A p \in S \cup {q} : \E k \in 1..Len(more) : more[k] = at(p)
    <2>1. \A p \in S : \E k \in 1..Len(hits) : hits[k] = at(p)
      BY DEF Collects
    <2>. HIDE DEF at
    <2>2. \A k \in 1..Len(hits) : k \in 1..Len(more)
      BY <1>1, <1>3
    <2>3. Len(hits) + 1 \in 1..Len(more)
      BY <1>1, <1>3
    <2>4. ASSUME NEW p \in S PROVE \E k \in 1..Len(more) : more[k] = at(p)
      <3>1. PICK k \in 1..Len(hits) : hits[k] = at(p)
        BY <2>1
      <3>. QED BY <1>3, <2>2, <3>1
    <2>. QED BY <1>3, <2>3, <2>4
  <1>8. \A k, l \in 1..Len(more) : more[k] = more[l] => k = l
    <2>1. \A k, l \in 1..Len(hits) : hits[k] = hits[l] => k = l
      BY DEF Collects
    <2>. HIDE DEF at
    <2>. QED BY <1>3, <1>4, <1>6, <2>1
  <1>9. \A k, l \in 1..Len(more) : k <= l => more[k].start <= more[l].start
    <2>1. \A k, l \in 1..Len(hits) : k <= l => hits[k].start <= hits[l].start
      BY DEF Collects
    <2>. HIDE DEF at
    <2>2. SUFFICES ASSUME NEW k \in 1..Len(more), NEW l \in 1..Len(more), k <= l
                   PROVE  more[k].start <= more[l].start
      OBVIOUS
    <2>3. CASE l \in 1..Len(hits)
      <3>1. k \in 1..Len(hits)
        BY <1>1, <1>3, <2>2, <2>3
      <3>. QED BY <1>3, <2>1, <2>2, <2>3, <3>1
    <2>4. CASE k \in 1..Len(hits) /\ l = Len(hits) + 1
      BY <1>3, <1>4, <2>4
    <2>5. CASE k = Len(hits) + 1 /\ l = Len(hits) + 1
      BY <1>3, <1>5, <2>5
    <2>. QED BY <1>1, <1>6, <2>2, <2>3, <2>4, <2>5
  <1>. USE DEF G
  <1>. QED BY <1>3, <1>7, <1>8, <1>9 DEF Collects, more

-----------------------------------------------------------------------------
(* The walk                                                                *)

\* What a node says of its children, and that nodes stand for runes and words.
LEMMA LabelledFacts ==
  ASSUME NEW T, NEW L, NEW W, Labelled(T, L, W)
  PROVE  /\ T \in Seq(Node) /\ Len(T) \in Nat /\ 1 \in 1..Len(T)
         /\ \A n \in 1..Len(T), r \in Rune : T[n].children[r] \in 0..Len(T)
         /\ \A n \in 1..Len(T) : L[n] \in Seq(Rune) /\ T[n].word \in Seq(Rune)
         /\ <<>> \notin W
         /\ \A w \in W : \E n \in 1..Len(T) : L[n] = w
  <1>1. T \in Trie /\ L \in [1..Len(T) -> Seq(Rune)] /\ \A w \in W : w # <<>> /\ \E n \in 1..Len(T) : L[n] = w
    BY DEF Labelled
  <1>2. T \in Seq(Node) /\ T # <<>> /\ Len(T) \in Nat
    BY <1>1 DEF Trie
  <1>3. \A n \in 1..Len(T) : T[n] \in Node
    BY <1>2
  <1>4. \A n \in 1..Len(T) : T[n].word \in Seq(Rune)
    BY <1>3 DEF Node
  <1>5. 1 \in 1..Len(T)
    BY <1>2
  <1>6. \A n \in 1..Len(T), r \in Rune : T[n].children[r] \in 0..Len(T)
    BY <1>1 DEF Trie
  <1>. QED BY <1>1, <1>2, <1>4, <1>5, <1>6

\* The runes from i to j, one by one.
LEMMA OneMore ==
  ASSUME NEW text \in Seq(Rune), NEW i \in 1..Len(text), NEW j \in i..Len(text)
  PROVE  /\ text[j] \in Rune
         /\ SubSeq(text, i, j - 1) \in Seq(Rune)
         /\ SubSeq(text, i, j) = Append(SubSeq(text, i, j - 1), text[j])
         /\ SubSeq(text, i, j) # <<>>
  <1>1. Len(text) \in Nat /\ i \in Nat /\ j \in 1..Len(text) /\ text[j] \in Rune
    OBVIOUS
  <1>2. SubSeq(text, i, j - 1) \in Seq(Rune)
    BY <1>1
  <1>3. SubSeq(text, i, j) = SubSeq(text, i, j - 1) \o <<text[j]>>
    BY SubSeqRecursiveSecond
  <1>4. SubSeq(text, i, j) = Append(SubSeq(text, i, j - 1), text[j])
    BY <1>1, <1>2, <1>3, AppendIsConcat
  <1>. QED BY <1>1, <1>2, <1>4, AppendApart

\* A node of the trie stands for the runes in a.
Has(T, L, a) == \E n \in 1..Len(T) : L[n] = a

\* Where the trie has runes, it has all that they begin with.
LEMMA BeginningsThere ==
  ASSUME NEW T, NEW L, NEW W, Labelled(T, L, W),
         NEW text \in Seq(Rune), NEW i \in 1..Len(text), NEW j \in i..Len(text),
         NEW x \in j..Len(text), Has(T, L, SubSeq(text, i, x))
  PROVE  Has(T, L, SubSeq(text, i, j))
  <1>. DEFINE P == {d \in 0..(x - j) : Has(T, L, SubSeq(text, i, x - d))}
  <1>1. x - j \in Nat /\ Len(text) \in Nat
    OBVIOUS
  <1>2. 0 \in P
    <2>1. x - 0 = x /\ 0 \in 0..(x - j)
      OBVIOUS
    <2>. QED BY <2>1
  <1>3. ASSUME NEW d \in 1..(x - j), d - 1 \in P PROVE d \in P
    <2>. DEFINE y == x - (d - 1)
    <2>1. y \in i..Len(text) /\ y - 1 = x - d /\ d \in 0..(x - j)
      BY <1>1
    <2>2. PICK n \in 1..Len(T) : L[n] = SubSeq(text, i, y)
      BY <1>3 DEF Has
    <2>. HIDE DEF y
    <2>3. /\ text[y] \in Rune /\ SubSeq(text, i, y - 1) \in Seq(Rune)
          /\ SubSeq(text, i, y) = Append(SubSeq(text, i, y - 1), text[y])
          /\ SubSeq(text, i, y) # <<>>
      BY <2>1, OneMore
    <2>4. n \in 2..Len(T)
      <3>1. L[1] = <<>>
        BY DEF Labelled
      <3>2. n # 1
        BY <2>2, <2>3, <3>1
      <3>. QED BY <3>2
    <2>5. PICK k \in 1..Len(T), r \in Rune : L[n] = Append(L[k], r)
      BY <2>4 DEF Labelled
    <2>6. L[k] \in Seq(Rune)
      BY LabelledFacts
    <2>7. L[k] = SubSeq(text, i, y - 1)
      <3>1. Append(L[k], r) = Append(SubSeq(text, i, y - 1), text[y])
        BY <2>2, <2>3, <2>5
      <3>2. \A a, b \in Seq(Rune), q, p \in Rune : Append(a, q) = Append(b, p) => a = b
        BY AppendApart
      <3>. QED BY <2>3, <2>5, <2>6, <3>1, <3>2
    <2>8. Has(T, L, SubSeq(text, i, y - 1))
      BY <2>7 DEF Has
    <2>. QED BY <2>1, <2>8
  <1>4. 0..(x - j) \subseteq P
    <2>. HIDE DEF P
    <2>. QED BY <1>1, <1>2, <1>3, UpTo
  <1>5. x - j \in P
    <2>1. x - j \in 0..(x - j)
      BY <1>1
    <2>. HIDE DEF P
    <2>. QED BY <1>4, <2>1
  <1>6. x - (x - j) = j
    BY <1>1
  <1>. QED BY <1>5, <1>6

\* The places seen by the walks from runes before i, and by that from i up to rune j.
Seen(text, W, i, j) == {p \in Places(text, W) : p[1] < i \/ (p[1] = i /\ p[2] <= j)}

\* One rune further, one place more at most.
LEMMA SeenNext ==
  ASSUME NEW text \in Seq(Rune), NEW W, NEW i \in 1..Len(text), NEW j \in i..Len(text)
  PROVE  /\ SubSeq(text, i, j) \notin W => Seen(text, W, i, j) = Seen(text, W, i, j - 1)
         /\ SubSeq(text, i, j) \in W =>
              /\ Seen(text, W, i, j) = Seen(text, W, i, j - 1) \cup {<<i, j>>}
              /\ <<i, j>> \in Pairs(text)
              /\ <<i, j>> \notin Seen(text, W, i, j - 1)
              /\ \A p \in Seen(text, W, i, j - 1) : p[1] <= i
         /\ Seen(text, W, i, j - 1) \in SUBSET Pairs(text)
  <1>1. Len(text) \in Nat /\ i \in Nat /\ j \in 1..Len(text)
    OBVIOUS
  <1>2. \A p \in Pairs(text) : /\ p[1] \in 1..Len(text) /\ p[2] \in 1..Len(text)
                               /\ p = <<p[1], p[2]>>
    BY DEF Pairs
  <1>3. \A p \in Pairs(text) :
          p[1] = i /\ p[2] <= j <=> p = <<i, j>> \/ (p[1] = i /\ p[2] <= j - 1)
    BY <1>1, <1>2
  <1>4. <<i, j>> \in Pairs(text) /\ <<i, j>>[1] = i /\ <<i, j>>[2] = j
    BY <1>1 DEF Pairs
  <1>5. \A p \in Places(text, W) : p \in Pairs(text)
    BY DEF Places
  <1>6. <<i, j>> \in Places(text, W) <=> SubSeq(text, i, j) \in W
    BY <1>4 DEF Places
  <1>7. \A p : p \in Seen(text, W, i, j)
                 <=> p \in Seen(text, W, i, j - 1) \/ (p = <<i, j>> /\ p \in Places(text, W))
    BY <1>3, <1>4, <1>5 DEF Seen
  <1>8. <<i, j>> \notin Seen(text, W, i, j - 1)
    BY <1>1, <1>4 DEF Seen
  <1>9. \A p \in Seen(text, W, i, j - 1) : p[1] <= i
    BY <1>1, <1>2, <1>5 DEF Seen
  <1>10. Seen(text, W, i, j - 1) \in SUBSET Pairs(text)
    BY <1>5 DEF Seen
  <1>. QED BY <1>4, <1>6, <1>7, <1>8, <1>9, <1>10

\* A walk from rune i that has read rune j: it is at the node of those runes, or the
\* trie has none of them.
OnTheWay(T, L, text, i, j, node) ==
  IF node = Nowhere
  THEN \A x \in j..Len(text), n \in 1..Len(T) : L[n] # SubSeq(text, i, x)
  ELSE node \in 1..Len(T) /\ L[node] = SubSeq(text, i, j)

Walker(T) == [node : 0..Len(T), hits : Seq(HitRecord)]

Walks(T, L, W, text, i, s, j) ==
  OnTheWay(T, L, text, i, j, s.node) /\ Collects(text, s.hits, Seen(text, W, i, j))

\* A step of a walk ends at a node or nowhere.
LEMMA WalkType ==
  ASSUME NEW T, NEW L, NEW W, Labelled(T, L, W), NEW s \in Walker(T),
         NEW text \in Seq(Rune), NEW i \in 1..Len(text), NEW j \in i..Len(text)
  PROVE  Walk(T, text, i, s, j) \in Walker(T)
  <1>. DEFINE child == T[s.node].children[text[j]]
              new   == IF T[child].word = <<>> THEN s.hits
                       ELSE Append(s.hits, Hit(T[child].word, text, i, j))
  <1>1. s.node \in 0..Len(T) /\ s.hits \in Seq(HitRecord) /\ text[j] \in Rune /\ Len(T) \in Nat
    BY LabelledFacts DEF Walker
  <1>2. CASE s.node = Nowhere
    BY <1>2 DEF Walk
  <1>3. CASE s.node # Nowhere /\ child = Nowhere
    <2>1. Walk(T, text, i, s, j) = [s EXCEPT !.node = Nowhere]
      BY <1>3 DEF Walk
    <2>. QED BY <1>1, <2>1 DEF Walker, Nowhere
  <1>4. CASE s.node # Nowhere /\ child # Nowhere
    <2>1. Walk(T, text, i, s, j) = [node |-> child, hits |-> new]
      BY <1>4 DEF Walk
    <2>2. child \in 1..Len(T)
      <3>1. child \in 0..Len(T)
        BY <1>1, <1>4, LabelledFacts DEF Nowhere
      <3>. QED BY <1>4, <3>1 DEF Nowhere
    <2>3. T[child].word \in Seq(Rune)
      <3>. HIDE DEF child
      <3>. QED BY <2>2, LabelledFacts
    <2>4. Hit(T[child].word, text, i, j) \in HitRecord
      <3>1. i - 1 \in 0..Len(text) /\ j \in 0..Len(text)
        OBVIOUS
      <3>2. ByteOffsets(text)[i - 1] \in Nat /\ ByteOffsets(text)[j] \in Nat
        BY <3>1, OffsetsGrow
      <3>. HIDE DEF child
      <3>. QED BY <2>3, <3>2 DEF Hit, HitRecord
    <2>5. new \in Seq(HitRecord)
      <3>. HIDE DEF child
      <3>. QED BY <1>1, <2>4, AppendProperties
    <2>. HIDE DEF child, new
    <2>. QED BY <1>1, <2>1, <2>2, <2>5 DEF Walker
  <1>. QED BY <1>2, <1>3, <1>4

\* A step of a walk takes the word that ends there, if there is one.
LEMMA WalkStep ==
  ASSUME NEW T, NEW L, NEW W, Labelled(T, L, W), NEW s \in Walker(T),
         NEW text \in Seq(Rune), NEW i \in 1..Len(text), NEW j \in i..Len(text),
         Walks(T, L, W, text, i, s, j - 1)
  PROVE  Walks(T, L, W, text, i, Walk(T, text, i, s, j), j)
  <1>. DEFINE child == T[s.node].children[text[j]]
              seen  == Seen(text, W, i, j - 1)
              here  == SubSeq(text, i, j)
  <1>1. /\ text[j] \in Rune /\ SubSeq(text, i, j - 1) \in Seq(Rune)
        /\ here = Append(SubSeq(text, i, j - 1), text[j]) /\ here # <<>>
    BY OneMore
  <1>2. OnTheWay(T, L, text, i, j - 1, s.node) /\ Collects(text, s.hits, seen)
    BY DEF Walks
  <1>0. /\ here \notin W => Seen(text, W, i, j) = seen
        /\ here \in W =>
             /\ Seen(text, W, i, j) = seen \cup {<<i, j>>}
             /\ <<i, j>> \in Pairs(text)
             /\ <<i, j>> \notin seen
             /\ \A p \in seen : p[1] <= i
        /\ seen \in SUBSET Pairs(text)
    BY SeenNext, Zenon
  <1>9. \A m, n \in 1..Len(T), r \in Rune : L[m] = Append(L[n], r) => T[n].children[r] = m
    BY DEF Labelled
  <1>3. j \in (j - 1)..Len(text) /\ j \in j..Len(text) /\ j..Len(text) \subseteq (j - 1)..Len(text)
    OBVIOUS
  <1>. HIDE DEF here
  <1>4. (\A n \in 1..Len(T) : L[n] # here) => Collects(text, s.hits, Seen(text, W, i, j))
    <2>1. (\A n \in 1..Len(T) : L[n] # here) => here \notin W
      BY LabelledFacts
    <2>. QED BY <1>0, <1>2, <2>1
  <1>5. CASE s.node = Nowhere
    <2>1. Walk(T, text, i, s, j) = s
      BY <1>5 DEF Walk
    <2>2. \A x \in (j - 1)..Len(text), n \in 1..Len(T) : L[n] # SubSeq(text, i, x)
      BY <1>2, <1>5 DEF OnTheWay
    <2>3. OnTheWay(T, L, text, i, j, s.node)
      BY <1>3, <1>5, <2>2 DEF OnTheWay
    <2>4. \A n \in 1..Len(T) : L[n] # here
      BY <1>3, <2>2 DEF here
    <2>. QED BY <1>4, <2>1, <2>3, <2>4 DEF Walks
  <1>6. s.node # Nowhere => s.node \in 1..Len(T) /\ L[s.node] = SubSeq(text, i, j - 1)
    BY <1>2 DEF OnTheWay
  <1>7. CASE s.node # Nowhere /\ child = Nowhere
    <2>1. Walk(T, text, i, s, j) = [s EXCEPT !.node = Nowhere]
      BY <1>7 DEF Walk
    <2>2. Walk(T, text, i, s, j).node = Nowhere /\ Walk(T, text, i, s, j).hits = s.hits
      BY <2>1 DEF Walker
    <2>3. \A n \in 1..Len(T) : L[n] # here
      <3>1. SUFFICES ASSUME NEW n \in 1..Len(T), L[n] = here PROVE FALSE
        OBVIOUS
      <3>2. L[n] = Append(L[s.node], text[j])
        BY <1>1, <1>6, <1>7, <3>1
      <3>3. child = n
        BY <1>1, <1>6, <1>7, <1>9, <3>2
      <3>4. n # 0
        OBVIOUS
      <3>. QED BY <1>7, <3>3, <3>4 DEF Nowhere
    <2>4. \A x \in j..Len(text), n \in 1..Len(T) : L[n] # SubSeq(text, i, x)
      <3>1. SUFFICES ASSUME NEW x \in j..Len(text), NEW n \in 1..Len(T), L[n] = SubSeq(text, i, x)
                     PROVE  FALSE
        OBVIOUS
      <3>2. Has(T, L, SubSeq(text, i, x))
        BY <3>1 DEF Has
      <3>3. Has(T, L, here)
        BY <3>2, BeginningsThere DEF here
      <3>. QED BY <2>3, <3>3 DEF Has
    <2>5. OnTheWay(T, L, text, i, j, Walk(T, text, i, s, j).node)
      BY <2>2, <2>4 DEF OnTheWay
    <2>. QED BY <1>4, <2>2, <2>3, <2>5 DEF Walks
  <1>8. CASE s.node # Nowhere /\ child # Nowhere
    <2>. DEFINE new == IF T[child].word = <<>> THEN s.hits
                       ELSE Append(s.hits, Hit(T[child].word, text, i, j))
    <2>1. Walk(T, text, i, s, j) = [node |-> child, hits |-> new]
      BY <1>8 DEF Walk
    <2>2. child \in 1..Len(T)
      <3>1. child \in 0..Len(T)
        BY <1>1, <1>6, <1>8, LabelledFacts
      <3>. QED BY <1>8, <3>1 DEF Nowhere
    <2>3. L[child] = here
      <3>1. L[child] = Append(L[s.node], text[j])
        BY <1>1, <1>6, <1>8 DEF Labelled
      <3>. HIDE DEF child
      <3>. QED BY <1>1, <1>6, <1>8, <3>1
    <2>4. T[child].word = IF here \in W THEN here ELSE <<>>
      <3>. HIDE DEF child
      <3>. QED BY <2>2, <2>3 DEF Labelled
    <2>5. Walk(T, text, i, s, j).node = child /\ Walk(T, text, i, s, j).hits = new
      <3>. HIDE DEF child, new
      <3>. QED BY <2>1
    <2>. HIDE DEF child
    <2>6. OnTheWay(T, L, text, i, j, child)
      BY <1>8, <2>2, <2>3 DEF OnTheWay, here
    <2>7. Collects(text, new, Seen(text, W, i, j))
      <3>1. CASE here \notin W
        <4>1. Seen(text, W, i, j) = seen
          BY <1>0, <3>1
        <4>2. new = s.hits
          BY <2>4, <3>1
        <4>. HIDE DEF new
        <4>. QED BY <1>2, <4>1, <4>2
      <3>2. CASE here \in W
        <4>1. /\ Seen(text, W, i, j) = seen \cup {<<i, j>>}
              /\ <<i, j>> \in Pairs(text) /\ <<i, j>> \notin seen
              /\ \A p \in seen : p[1] <= i
              /\ seen \in SUBSET Pairs(text)
          BY <1>0, <3>2
        <4>2. new = Append(s.hits, HitAt(text, <<i, j>>))
          BY <1>1, <2>4, <3>2 DEF HitAt, here
        <4>3. \A p \in seen : p[1] <= <<i, j>>[1]
          BY <4>1
        <4>. HIDE DEF new, seen
        <4>4. Collects(text, Append(s.hits, HitAt(text, <<i, j>>)), seen \cup {<<i, j>>})
          BY <1>2, <4>1, <4>3, CollectMore
        <4>. QED BY <4>1, <4>2, <4>4
      <3>. QED BY <3>1, <3>2
    <2>. HIDE DEF new
    <2>. QED BY <2>5, <2>6, <2>7 DEF Walks
  <1>. QED BY <1>5, <1>7, <1>8

\* The states of the walk from rune i, up to the end of the text.
WalkFrom(walk, T, text, i, hits) ==
  /\ walk \in [0..(Len(text) - i + 1) -> Walker(T)]
  /\ MatchFrom(T, text, i, hits) = walk[Len(text) - i + 1].hits
  /\ walk[0] = [node |-> Root, hits |-> hits]
  /\ \A k \in 1..(Len(text) - i + 1) : walk[k] = Walk(T, text, i, walk[k - 1], i + k - 1)

\* The loop of MatchFrom over the runes after i.
LEMMA MatchFromLoop ==
  ASSUME NEW T, NEW L, NEW W, Labelled(T, L, W), NEW text \in Seq(Rune),
         NEW i \in 1..Len(text), NEW hits \in Seq(HitRecord)
  PROVE  \E walk : WalkFrom(walk, T, text, i, hits)
  <1>. DEFINE n == Len(text) - i + 1
              D == Walker(T)
              start == [node |-> Root, hits |-> hits]
              Equation(f) ==
                f = [k \in 0..n |->
                       IF k = 0 THEN [node |-> Root, hits |-> hits]
                       ELSE Walk(T, text, i, f[k - 1], i + k - 1)]
              walk == CHOOSE f : Equation(f)
              step == [p \in (1..n) \X D |-> Walk(T, text, i, p[2], i + p[1] - 1)]
  <1>1. n \in Nat /\ start \in D
    <2>1. n \in Nat
      OBVIOUS
    <2>2. Root \in 0..Len(T)
      BY LabelledFacts DEF Root
    <2>. QED BY <2>1, <2>2 DEF Walker
  <1>2. MatchFrom(T, text, i, hits) = walk[n].hits
    BY DEF MatchFrom
  <1>3. \A s \in D, k \in 1..n : Walk(T, text, i, s, i + k - 1) \in D
    <2>1. \A k \in 1..n : i + k - 1 \in i..Len(text)
      OBVIOUS
    <2>. QED BY <2>1, WalkType
  <1>4. PICK f : Iterates(f, n, D, start, step)
    <2>1. step \in [(1..n) \X D -> D]
      <3>. HIDE DEF D, n
      <3>. QED BY <1>3
    <2>. HIDE DEF step, n, start, D
    <2>. QED BY <1>1, <2>1, Iterated
  <1>. HIDE DEF D
  <1>5. Equation(f)
    <2>. DEFINE e(k) == IF k = 0 THEN [node |-> Root, hits |-> hits]
                        ELSE Walk(T, text, i, f[k - 1], i + k - 1)
    <2>1. ASSUME NEW k \in 0..n PROVE f[k] = e(k)
      <3>1. CASE k = 0
        BY <1>4, <3>1 DEF Iterates
      <3>2. CASE k \in 1..n
        <4>1. k # 0 /\ f[k - 1] \in D /\ f[k] = step[<<k, f[k - 1]>>]
          <5>. HIDE DEF step, n, D
          <5>. QED BY <1>1, <1>4, <3>2, Turn
        <4>2. step[<<k, f[k - 1]>>] = Walk(T, text, i, f[k - 1], i + k - 1)
          BY <3>2, <4>1
        <4>. QED BY <4>1, <4>2, Zenon
      <3>. QED BY <3>1, <3>2
    <2>2. f = [k \in 0..n |-> f[k]]
      BY <1>4 DEF Iterates
    <2>. QED BY <2>1, <2>2, Zenon
  <1>6. Equation(walk)
    <2>. HIDE DEF Equation
    <2>. QED BY <1>5
  <1>. HIDE DEF walk
  <1>7. walk[0] = start /\ \A k \in 1..n : walk[k] = Walk(T, text, i, walk[k - 1], i + k - 1)
    <2>1. \A k \in 1..n : k \in 0..n /\ k # 0
      OBVIOUS
    <2>2. walk[0] = start
      BY <1>1, <1>6
    <2>3. ASSUME NEW k \in 1..n PROVE walk[k] = Walk(T, text, i, walk[k - 1], i + k - 1)
      BY <1>6, <2>1, Zenon
    <2>. QED BY <2>2, <2>3
  <1>8. walk \in [0..n -> D]
    <2>. DEFINE P == {k \in 0..n : walk[k] \in D}
    <2>1. 0 \in P
      BY <1>1, <1>7
    <2>2. ASSUME NEW k \in 1..n, k - 1 \in P PROVE k \in P
      <3>1. k \in 0..n /\ walk[k - 1] \in D
        BY <2>2
      <3>. QED BY <1>3, <1>7, <3>1
    <2>3. 0..n \subseteq P
      <3>. HIDE DEF P
      <3>. QED BY <1>1, <2>1, <2>2, UpTo
    <2>4. \A k \in 0..n : walk[k] \in D
      BY <2>3
    <2>5. walk = [k \in 0..n |-> walk[k]]
      BY <1>6, Zenon
    <2>. QED BY <2>4, <2>5
  <1>9. WalkFrom(walk, T, text, i, hits)
    BY <1>2, <1>7, <1>8 DEF D, WalkFrom
  <1>. QED BY <1>9

\* MatchFrom gives hits.
LEMMA MatchFromType ==
  ASSUME NEW T, NEW L, NEW W, Labelled(T, L, W), NEW text \in Seq(Rune),
         NEW i \in 1..Len(text), NEW hits \in Seq(HitRecord)
  PROVE  MatchFrom(T, text, i, hits) \in Seq(HitRecord)
  <1>. DEFINE n == Len(text) - i + 1
  <1>1. PICK walk : WalkFrom(walk, T, text, i, hits)
    BY MatchFromLoop
  <1>2. n \in 0..n
    OBVIOUS
  <1>3. MatchFrom(T, text, i, hits) = walk[n].hits /\ walk[n] \in Walker(T)
    BY <1>1, <1>2 DEF WalkFrom
  <1>. HIDE DEF n
  <1>. QED BY <1>3 DEF Walker

\* A walk finds the words that begin where it does.
LEMMA MatchFromCollects ==
  ASSUME NEW T, NEW L, NEW W, Labelled(T, L, W), NEW text \in Seq(Rune),
         NEW i \in 1..Len(text), NEW hits \in Seq(HitRecord),
         Collects(text, hits, Seen(text, W, i, i - 1))
  PROVE  Collects(text, MatchFrom(T, text, i, hits), Seen(text, W, i, Len(text)))
  <1>. DEFINE n == Len(text) - i + 1
  <1>1. n \in Nat /\ n \in 0..n /\ i + n - 1 = Len(text) /\ i + 0 - 1 = i - 1
    OBVIOUS
  <1>0. PICK walk : WalkFrom(walk, T, text, i, hits)
    BY MatchFromLoop
  <1>2. /\ walk \in [0..n -> Walker(T)]
        /\ MatchFrom(T, text, i, hits) = walk[n].hits
        /\ walk[0] = [node |-> Root, hits |-> hits]
        /\ \A k \in 1..n : walk[k] = Walk(T, text, i, walk[k - 1], i + k - 1)
    BY <1>0 DEF WalkFrom
  <1>. DEFINE P == {k \in 0..n : Walks(T, L, W, text, i, walk[k], i + k - 1)}
  <1>3. 0 \in P
    <2>1. walk[0].node = Root /\ walk[0].hits = hits
      BY <1>2
    <2>2. SubSeq(text, i, i - 1) = <<>>
      BY SubSeqEmpty
    <2>3. L[1] = <<>> /\ 1 \in 1..Len(T)
      <3>1. 1 \in 1..Len(T)
        BY LabelledFacts
      <3>. QED BY <3>1 DEF Labelled
    <2>4. OnTheWay(T, L, text, i, i - 1, Root)
      BY <2>2, <2>3 DEF OnTheWay, Root, Nowhere
    <2>5. Walks(T, L, W, text, i, walk[0], i - 1)
      BY <2>1, <2>4 DEF Walks
    <2>6. 0 \in 0..n
      BY <1>1
    <2>. QED BY <1>1, <2>5, <2>6
  <1>4. ASSUME NEW k \in 1..n, k - 1 \in P PROVE k \in P
    <2>1. i + k - 1 \in i..Len(text) /\ i + (k - 1) - 1 = (i + k - 1) - 1 /\ k - 1 \in 0..n /\ k \in 0..n
      OBVIOUS
    <2>2. walk[k - 1] \in Walker(T) /\ Walks(T, L, W, text, i, walk[k - 1], (i + k - 1) - 1)
      <3>1. walk[k - 1] \in Walker(T)
        <4>. HIDE DEF n
        <4>. QED BY <1>2, <2>1
      <3>2. Walks(T, L, W, text, i, walk[k - 1], i + (k - 1) - 1)
        BY <1>4
      <3>. QED BY <2>1, <3>1, <3>2
    <2>. HIDE DEF n
    <2>3. Walks(T, L, W, text, i, Walk(T, text, i, walk[k - 1], i + k - 1), i + k - 1)
      BY <2>1, <2>2, WalkStep
    <2>4. walk[k] = Walk(T, text, i, walk[k - 1], i + k - 1)
      BY <1>2
    <2>. QED BY <2>1, <2>3, <2>4
  <1>5. n \in P
    <2>. HIDE DEF P, n
    <2>. QED BY <1>1, <1>3, <1>4, UpTo
  <1>6. Walks(T, L, W, text, i, walk[n], Len(text))
    BY <1>1, <1>5
  <1>. HIDE DEF n, P
  <1>. QED BY <1>2, <1>6 DEF Walks

\* The walks from all runes find the words at all places.
LEMMA MatchCollects ==
  ASSUME NEW T, NEW L, NEW W, Labelled(T, L, W), NEW text \in Seq(Rune)
  PROVE  Match(T, text) \in Seq(HitRecord) /\ Collects(text, Match(T, text), Places(text, W))
  <1>. DEFINE n == Len(text)
              D == Seq(HitRecord)
              Equation(f) ==
                f = [i \in 0..n |-> IF i = 0 THEN <<>> ELSE MatchFrom(T, text, i, f[i - 1])]
              results == CHOOSE f : Equation(f)
              step == [p \in (1..n) \X D |-> MatchFrom(T, text, p[1], p[2])]
  <1>1. n \in Nat /\ <<>> \in D /\ n \in 0..n
    OBVIOUS
  <1>2. Match(T, text) = results[n]
    BY DEF Match
  <1>3. \A hits \in D, i \in 1..n : MatchFrom(T, text, i, hits) \in D
    BY MatchFromType
  <1>4. PICK f : Iterates(f, n, D, <<>>, step)
    <2>1. step \in [(1..n) \X D -> D]
      <3>. HIDE DEF D, n
      <3>. QED BY <1>3
    <2>. HIDE DEF step, n, D
    <2>. QED BY <1>1, <2>1, Iterated
  <1>5. Equation(f)
    <2>. DEFINE e(i) == IF i = 0 THEN <<>> ELSE MatchFrom(T, text, i, f[i - 1])
    <2>1. ASSUME NEW i \in 0..n PROVE f[i] = e(i)
      <3>1. CASE i = 0
        BY <1>4, <3>1 DEF Iterates
      <3>2. CASE i \in 1..n
        <4>1. i # 0 /\ f[i - 1] \in D /\ f[i] = step[<<i, f[i - 1]>>]
          <5>. HIDE DEF step, n, D
          <5>. QED BY <1>1, <1>4, <3>2, Turn
        <4>2. step[<<i, f[i - 1]>>] = MatchFrom(T, text, i, f[i - 1])
          BY <3>2, <4>1
        <4>. QED BY <4>1, <4>2, Zenon
      <3>. QED BY <3>1, <3>2
    <2>2. f = [i \in 0..n |-> f[i]]
      BY <1>4 DEF Iterates
    <2>. QED BY <2>1, <2>2, Zenon
  <1>6. Equation(results)
    <2>. HIDE DEF Equation
    <2>. QED BY <1>5
  <1>. HIDE DEF results, step, D
  <1>7. results[0] = <<>> /\ \A i \in 1..n : results[i] = MatchFrom(T, text, i, results[i - 1])
    <2>1. \A i \in 1..n : i \in 0..n /\ i # 0
      OBVIOUS
    <2>2. results[0] = <<>>
      BY <1>1, <1>6
    <2>3. ASSUME NEW i \in 1..n PROVE results[i] = MatchFrom(T, text, i, results[i - 1])
      BY <1>6, <2>1, Zenon
    <2>. QED BY <2>2, <2>3
  <1>. DEFINE P == {i \in 0..n : results[i] \in D /\ Collects(text, results[i], Seen(text, W, i, n))}
  <1>8. \A p \in Places(text, W) : p[1] \in 1..n /\ p[2] \in 1..n
    BY DEF Places, Pairs
  <1>9. 0 \in P
    <2>1. \A p \in Places(text, W) : ~(p[1] < 0) /\ p[1] # 0
      BY <1>1, <1>8
    <2>2. Seen(text, W, 0, n) = {}
      BY <2>1 DEF Seen
    <2>3. Collects(text, <<>>, {})
      <3>1. <<>> \in Seq({HitAt(text, p) : p \in {}}) /\ Len(<<>>) = 0 /\ 1..0 = {}
        OBVIOUS
      <3>. QED BY <3>1 DEF Collects
    <2>4. results[0] \in D /\ Collects(text, results[0], Seen(text, W, 0, n))
      BY <1>1, <1>7, <2>2, <2>3
    <2>5. 0 \in 0..n
      BY <1>1
    <2>. QED BY <2>4, <2>5
  <1>10. ASSUME NEW i \in 1..n, i - 1 \in P PROVE i \in P
    <2>1. i \in 0..n /\ i - 1 \in 0..n
      OBVIOUS
    <2>2. results[i - 1] \in D /\ Collects(text, results[i - 1], Seen(text, W, i - 1, n))
      BY <1>10
    <2>3. Seen(text, W, i - 1, n) = Seen(text, W, i, i - 1)
      <3>1. \A p \in Places(text, W) :
              p[1] < i - 1 \/ (p[1] = i - 1 /\ p[2] <= n) <=> p[1] < i \/ (p[1] = i /\ p[2] <= i - 1)
        <4>1. SUFFICES ASSUME NEW p \in Places(text, W)
                       PROVE  p[1] < i - 1 \/ (p[1] = i - 1 /\ p[2] <= n)
                                <=> p[1] < i \/ (p[1] = i /\ p[2] <= i - 1)
          OBVIOUS
        <4>2. p[1] \in 1..n /\ p[2] \in 1..n
          BY <1>8
        <4>3. ~(p[1] = i /\ p[2] <= i - 1)
          <5>1. SUFFICES ASSUME p[1] = i, p[2] <= i - 1 PROVE FALSE
            OBVIOUS
          <5>2. SubSeq(text, p[1], p[2]) = <<>>
            BY <4>2, <5>1, SubSeqEmpty
          <5>3. SubSeq(text, p[1], p[2]) \in W
            BY DEF Places
          <5>. QED BY <5>2, <5>3, LabelledFacts
        <4>. QED BY <1>1, <4>2, <4>3
      <3>. QED BY <3>1 DEF Seen
    <2>4. results[i] = MatchFrom(T, text, i, results[i - 1])
      BY <1>7
    <2>5. results[i] \in D
      BY <1>3, <2>2, <2>4
    <2>6. Collects(text, MatchFrom(T, text, i, results[i - 1]), Seen(text, W, i, n))
      BY <2>2, <2>3, MatchFromCollects DEF D
    <2>. QED BY <2>1, <2>4, <2>5, <2>6
  <1>11. n \in P
    <2>. HIDE DEF P, n
    <2>. QED BY <1>1, <1>9, <1>10, UpTo
  <1>12. Seen(text, W, n, n) = Places(text, W)
    BY <1>1, <1>8 DEF Seen
  <1>13. results[n] \in D /\ Collects(text, results[n], Seen(text, W, n, n))
    BY <1>11
  <1>. QED BY <1>2, <1>12, <1>13 DEF D

\* The scan finds what the list of words says.
LEMMA MatchIsRight ==
  ASSUME NEW list \in Seq(Seq(Rune)), NEW text \in Seq(Rune)
  PROVE  LET hits == Match(Build(list), text)
         IN  /\ hits \in Seq(HitRecord)
             /\ {hits[k] : k \in DOMAIN hits} = Occurrences(list, text)
             /\ Len(hits) = Cardinality(Occurrences(list, text))
             /\ \A k \in 2..Len(hits) : hits[k - 1].start <= hits[k].start
  <1>. DEFINE hits == Match(Build(list), text)
              W == WordsOf(list, Len(list))
              O == {HitAt(text, p) : p \in Places(text, W)}
  <1>1. PICK L : Labelled(Build(list), L, W)
    BY BuildLabelled
  <1>2. hits \in Seq(HitRecord) /\ Collects(text, hits, Places(text, W))
    <2>. HIDE DEF W
    <2>. QED BY <1>1, MatchCollects
  <1>3. Occurrences(list, text) = O
    <2>1. DOMAIN list = 1..Len(list) /\ DOMAIN text = 1..Len(text)
      OBVIOUS
    <2>. QED BY <2>1 DEF Occurrences, WordsOf, Places, Pairs, HitAt
  <1>. HIDE DEF hits, W
  <1>4. /\ hits \in Seq(O) /\ DOMAIN hits = 1..Len(hits) /\ Len(hits) \in Nat
        /\ \A k \in 1..Len(hits) : hits[k] \in O
        /\ \A o \in O : \E k \in 1..Len(hits) : hits[k] = o
    <2>1. hits \in Seq(O) /\ \A p \in Places(text, W) : \E k \in 1..Len(hits) : hits[k] = HitAt(text, p)
      BY <1>2 DEF Collects
    <2>2. \A o \in O : \E k \in 1..Len(hits) : hits[k] = o
      BY <2>1
    <2>. HIDE DEF O
    <2>. QED BY <2>1, <2>2
  <1>. HIDE DEF O
  <1>5. {hits[k] : k \in DOMAIN hits} = O
    BY <1>4
  <1>6. Len(hits) = Cardinality(O)
    <2>1. hits \in [1..Len(hits) -> O]
      BY <1>4
    <2>2. \A k, l \in 1..Len(hits) : hits[k] = hits[l] => k = l
      BY <1>2 DEF Collects
    <2>3. hits \in Bijection(1..Len(hits), O)
      BY <1>4, <2>1, <2>2 DEF Bijection, Injection, Surjection, IsInjective
    <2>4. ExistsBijection(1..Len(hits), O)
      BY <2>3 DEF ExistsBijection
    <2>. QED BY <1>4, <2>4, FS_CountingElements
  <1>7. \A k \in 2..Len(hits) : hits[k - 1].start <= hits[k].start
    <2>1. \A k, l \in 1..Len(hits) : k <= l => hits[k].start <= hits[l].start
      BY <1>2 DEF Collects
    <2>2. \A k \in 2..Len(hits) : k \in 1..Len(hits) /\ k - 1 \in 1..Len(hits) /\ k - 1 <= k
      BY <1>4
    <2>. QED BY <2>1, <2>2
  <1>8. /\ hits \in Seq(HitRecord)
        /\ {hits[k] : k \in DOMAIN hits} = Occurrences(list, text)
        /\ Len(hits) = Cardinality(Occurrences(list, text))
        /\ \A k \in 2..Len(hits) : hits[k - 1].start <= hits[k].start
    BY <1>2, <1>3, <1>5, <1>6, <1>7
  <1>. QED BY <1>8, Zenon DEF hits

-----------------------------------------------------------------------------
(* What tokens say                                                         *)

\* A token without the ## of a suffix.
Said(token) ==
  IF IsPrefix(Hashes, token) THEN SubSeq(token, Len(Hashes) + 1, Len(token)) ELSE token

\* What tokens say, one after the other.
Saying(f, tokens, a) ==
  /\ f \in [0..Len(tokens) -> Seq(Rune)]
  /\ f[0] = <<>>
  /\ \A k \in 1..Len(tokens) : f[k] = f[k - 1] \o Said(tokens[k])
  /\ f[Len(tokens)] = a

Say(tokens, a) == \E f : Saying(f, tokens, a)

\* Hashes in front of a token are taken off; a token that does not begin with their first
\* rune says itself.
LEMMA SaidOfToken ==
  ASSUME NEW t \in Seq(Rune)
  PROVE  /\ Said(t) \in Seq(Rune)
         /\ Said(Suffix(t)) = t
         /\ t # <<>> /\ t[1] # Hashes[1] => Said(t) = t
  <1>. DEFINE h == Len(Hashes)
  <1>1. Hashes \in Seq(Rune) /\ Hashes # <<>> /\ h \in Nat /\ h >= 1
    BY TokenizerAssumption DEF TokenizerAssumption
  <1>2. Said(t) \in Seq(Rune)
    <2>1. \A k \in (h + 1)..Len(t) : t[k] \in Rune
      BY <1>1
    <2>2. h + 1 \in Int /\ Len(t) \in Int
      BY <1>1
    <2>3. SubSeq(t, h + 1, Len(t)) \in Seq(Rune)
      BY <2>1, <2>2, SubSeqProperties
    <2>. QED BY <2>3 DEF Said
  <1>3. Said(Suffix(t)) = t
    <2>. DEFINE s == Suffix(t)
    <2>1. /\ s \in Seq(Rune) /\ Len(s) = h + Len(t)
          /\ \A k \in 1..h : s[k] = Hashes[k]
          /\ \A k \in 1..Len(t) : s[h + k] = t[k]
      <3>1. /\ Hashes \o t \in Seq(Rune) /\ Len(Hashes \o t) = h + Len(t)
            /\ \A k \in 1..h : (Hashes \o t)[k] = Hashes[k]
            /\ \A k \in 1..Len(t) : (Hashes \o t)[h + k] = t[k]
        BY <1>1, ConcatProperties
      <3>. QED BY <3>1 DEF Suffix
    <2>. HIDE DEF s
    <2>2. SubSeq(Hashes, 1, h) = SubSeq(s, 1, h)
      <3>1. \A k \in 1..h : Hashes[k] \in Rune /\ s[k] \in Rune
        BY <1>1, <2>1
      <3>2. /\ SubSeq(Hashes, 1, h) \in Seq(Rune) /\ Len(SubSeq(Hashes, 1, h)) = h
            /\ \A k \in 1..h : SubSeq(Hashes, 1, h)[k] = Hashes[k]
        BY <1>1, SubSeqFull
      <3>3. /\ SubSeq(s, 1, h) \in Seq(Rune) /\ Len(SubSeq(s, 1, h)) = h
            /\ \A k \in 1..h : SubSeq(s, 1, h)[k] = s[k]
        BY <1>1, <3>1, SubSeqProperties
      <3>4. \A k \in 1..h : SubSeq(Hashes, 1, h)[k] = SubSeq(s, 1, h)[k]
        BY <2>1, <3>2, <3>3
      <3>. DEFINE lhs == SubSeq(Hashes, 1, h)
                  rhs == SubSeq(s, 1, h)
      <3>. HIDE DEF lhs, rhs, h
      <3>5. lhs = rhs
        BY <3>2, <3>3, <3>4, SeqEqual DEF lhs, rhs
      <3>. QED BY <3>5 DEF lhs, rhs
    <2>3. IsPrefix(Hashes, s)
      BY <1>1, <2>1, <2>2 DEF IsPrefix
    <2>4. SubSeq(s, h + 1, Len(s)) = t
      <3>. DEFINE lhs == SubSeq(s, h + 1, Len(s))
      <3>1. \A k \in (h + 1)..Len(s) : s[k] \in Rune
        BY <1>1, <2>1
      <3>2. Len(s) \in Nat /\ h + 1 \in Nat /\ Len(t) \in Nat /\ Len(s) - (h + 1) + 1 = Len(t)
        BY <1>1, <2>1
      <3>3. /\ lhs \in Seq(Rune) /\ Len(lhs) = Len(t)
            /\ \A k \in 1..Len(t) : lhs[k] = s[(h + 1) + k - 1]
        <4>. DEFINE m == h + 1
        <4>1. /\ SubSeq(s, m, Len(s)) \in Seq(Rune)
              /\ Len(SubSeq(s, m, Len(s))) = IF m <= Len(s) THEN Len(s) - m + 1 ELSE 0
              /\ \A k \in 1..(Len(s) - m + 1) : SubSeq(s, m, Len(s))[k] = s[m + k - 1]
          <5>. HIDE DEF m
          <5>1. m \in Int /\ Len(s) \in Int /\ \A k \in m..Len(s) : s[k] \in Rune
            BY <3>1, <3>2 DEF m
          <5>. QED BY <5>1, SubSeqProperties
        <4>2. (IF m <= Len(s) THEN Len(s) - m + 1 ELSE 0) = Len(t)
          BY <1>1, <2>1, <3>2
        <4>. QED BY <3>2, <4>1, <4>2
      <3>4. \A k \in 1..Len(t) : lhs[k] = t[k]
        <4>1. \A k \in 1..Len(t) : (h + 1) + k - 1 = h + k
          BY <1>1
        <4>. HIDE DEF lhs
        <4>. QED BY <2>1, <3>3, <4>1
      <3>. HIDE DEF lhs
      <3>5. lhs = t
        BY <3>3, <3>4, SeqEqual
      <3>. QED BY <3>5 DEF lhs
    <2>5. Said(s) = t
      BY <2>3, <2>4 DEF Said
    <2>. QED BY <2>5 DEF s
  <1>4. ASSUME t # <<>>, t[1] # Hashes[1] PROVE Said(t) = t
    <2>1. ~IsPrefix(Hashes, t)
      <3>1. SUFFICES ASSUME IsPrefix(Hashes, t) PROVE FALSE
        OBVIOUS
      <3>2. h <= Len(t) /\ SubSeq(Hashes, 1, h) = SubSeq(t, 1, h)
        BY <3>1 DEF IsPrefix
      <3>3. SubSeq(Hashes, 1, h)[1] = Hashes[1] /\ SubSeq(t, 1, h)[1] = t[1]
        <4>1. 1 \in Int /\ h \in Int /\ (\A k \in 1..h : Hashes[k] \in Rune) /\ (\A k \in 1..h : t[k] \in Rune)
          BY <1>1, <3>2
        <4>2. 1 \in 1..(h - 1 + 1) /\ 1 + 1 - 1 = 1
          BY <1>1
        <4>3. /\ \A k \in 1..(h - 1 + 1) : SubSeq(Hashes, 1, h)[k] = Hashes[1 + k - 1]
              /\ \A k \in 1..(h - 1 + 1) : SubSeq(t, 1, h)[k] = t[1 + k - 1]
          BY <4>1, SubSeqProperties
        <4>. QED BY <4>2, <4>3
      <3>. QED BY <1>4, <3>2, <3>3
    <2>. QED BY <2>1 DEF Said
  <1>. QED BY <1>2, <1>3, <1>4

\* No tokens say nothing.
LEMMA SayNothing == Say(<<>>, <<>>)
  <1>. DEFINE f == [k \in 0..0 |-> <<>>]
  <1>1. f \in [0..0 -> Seq(Rune)] /\ f[0] = <<>> /\ Len(<<>>) = 0 /\ 1..0 = {}
    OBVIOUS
  <1>. HIDE DEF f
  <1>2. Saying(f, <<>>, <<>>)
    BY <1>1 DEF Saying
  <1>. QED BY <1>2 DEF Say

\* What more tokens say comes after what the first ones do.
LEMMA SayBoth ==
  ASSUME NEW tokens \in Seq(Seq(Rune)), NEW more \in Seq(Seq(Rune)), NEW a, NEW b,
         Say(tokens, a), Say(more, b)
  PROVE  Say(tokens \o more, a \o b) /\ a \in Seq(Rune) /\ b \in Seq(Rune)
  <1>. DEFINE n == Len(tokens)
              m == Len(more)
              all == tokens \o more
  <1>1. PICK f : Saying(f, tokens, a)
    BY DEF Say
  <1>2. PICK g : Saying(g, more, b)
    BY DEF Say
  <1>3. n \in Nat /\ m \in Nat
    OBVIOUS
  <1>4. /\ all \in Seq(Seq(Rune)) /\ Len(all) = n + m
        /\ \A k \in 1..n : all[k] = tokens[k]
        /\ \A k \in 1..m : all[n + k] = more[k]
    BY ConcatProperties
  <1>. HIDE DEF all
  <1>5. /\ f \in [0..n -> Seq(Rune)] /\ f[0] = <<>> /\ f[n] = a
        /\ \A k \in 1..n : f[k] = f[k - 1] \o Said(tokens[k])
    BY <1>1 DEF Saying
  <1>6. /\ g \in [0..m -> Seq(Rune)] /\ g[0] = <<>> /\ g[m] = b
        /\ \A k \in 1..m : g[k] = g[k - 1] \o Said(more[k])
    BY <1>2 DEF Saying
  <1>7. a \in Seq(Rune) /\ b \in Seq(Rune)
    <2>1. n \in 0..n /\ m \in 0..m
      BY <1>3
    <2>. HIDE DEF n, m
    <2>. QED BY <1>5, <1>6, <2>1
  <1>8. \A k \in 1..m : Said(more[k]) \in Seq(Rune)
    BY SaidOfToken
  <1>. HIDE DEF n, m
  <1>. DEFINE h == [k \in 0..(n + m) |-> IF k <= n THEN f[k] ELSE a \o g[k - n]]
  <1>9. h \in [0..(n + m) -> Seq(Rune)]
    <2>1. \A k \in 0..(n + m) : k <= n => f[k] \in Seq(Rune)
      BY <1>3, <1>5
    <2>2. \A k \in 0..(n + m) : ~(k <= n) => a \o g[k - n] \in Seq(Rune)
      <3>1. \A k \in 0..(n + m) : ~(k <= n) => k - n \in 0..m
        BY <1>3
      <3>2. \A k \in 0..m : a \o g[k] \in Seq(Rune)
        BY <1>6, <1>7, ConcatProperties
      <3>. QED BY <3>1, <3>2
    <2>. QED BY <2>1, <2>2
  <1>10. h[0] = <<>>
    BY <1>3, <1>5
  <1>11. h[n + m] = a \o b
    <2>1. CASE m = 0
      <3>1. b = <<>> /\ h[n + m] = a
        BY <1>3, <1>5, <1>6, <2>1
      <3>. HIDE DEF h
      <3>. QED BY <1>7, <3>1, ConcatEmptySeq
    <2>2. CASE m # 0
      BY <1>3, <1>6, <2>2
    <2>. QED BY <2>1, <2>2
  <1>12. ASSUME NEW k \in 1..(n + m) PROVE h[k] = h[k - 1] \o Said(all[k])
    <2>1. CASE k <= n
      <3>1. k \in 1..n /\ h[k] = f[k] /\ h[k - 1] = f[k - 1]
        BY <1>3, <2>1
      <3>. HIDE DEF h
      <3>. QED BY <1>4, <1>5, <3>1
    <2>2. CASE k > n
      <3>. DEFINE l == k - n
      <3>1. l \in 1..m /\ k = n + l /\ ~(k <= n)
        BY <1>3, <2>2
      <3>2. h[k] = a \o g[l]
        BY <3>1
      <3>3. h[k - 1] = a \o g[l - 1]
        <4>1. CASE l = 1
          <5>1. k - 1 = n /\ h[k - 1] = a /\ g[l - 1] = <<>>
            BY <1>3, <1>5, <1>6, <3>1, <4>1
          <5>. HIDE DEF h, l
          <5>. QED BY <1>7, <5>1, ConcatEmptySeq
        <4>2. CASE l # 1
          <5>1. ~(k - 1 <= n) /\ k - 1 \in 0..(n + m) /\ (k - 1) - n = l - 1
            BY <1>3, <3>1, <4>2
          <5>. QED BY <5>1
        <4>. QED BY <4>1, <4>2
      <3>. HIDE DEF h, l
      <3>4. g[l] = g[l - 1] \o Said(more[l]) /\ g[l - 1] \in Seq(Rune) /\ Said(more[l]) \in Seq(Rune)
        <4>1. l - 1 \in 0..m
          BY <1>3, <3>1
        <4>. QED BY <1>6, <1>8, <3>1, <4>1
      <3>5. a \o (g[l - 1] \o Said(more[l])) = (a \o g[l - 1]) \o Said(more[l])
        <4>. DEFINE x == g[l - 1]
                    y == Said(more[l])
        <4>1. a \in Seq(Rune) /\ x \in Seq(Rune) /\ y \in Seq(Rune)
          BY <1>7, <3>4
        <4>. HIDE DEF x, y
        <4>2. (a \o x) \o y = a \o (x \o y)
          BY <4>1, ConcatAssociative
        <4>. QED BY <4>2 DEF x, y
      <3>6. all[k] = more[l]
        BY <1>4, <3>1
      <3>7. h[k] = a \o (g[l - 1] \o Said(more[l]))
        BY <3>2, <3>4
      <3>8. h[k - 1] \o Said(all[k]) = (a \o g[l - 1]) \o Said(more[l])
        BY <3>3, <3>6
      <3>. QED BY <3>5, <3>7, <3>8
    <2>3. k <= n \/ k > n
      BY <1>3
    <2>. HIDE DEF h
    <2>. QED BY <2>1, <2>2, <2>3
  <1>. HIDE DEF h
  <1>13. Saying(h, all, a \o b)
    BY <1>4, <1>9, <1>10, <1>11, <1>12 DEF Saying
  <1>14. Say(all, a \o b)
    BY <1>13 DEF Say
  <1>. QED BY <1>7, <1>14 DEF all

\* One more token.
LEMMA SayOneMore ==
  ASSUME NEW tokens \in Seq(Seq(Rune)), NEW t \in Seq(Rune), NEW a, Say(tokens, a)
  PROVE  Say(Append(tokens, t), a \o Said(t)) /\ a \in Seq(Rune)
  <1>. DEFINE one == <<t>>
  <1>1. one \in Seq(Seq(Rune)) /\ Len(one) = 1 /\ one[1] = t
    OBVIOUS
  <1>2. Said(t) \in Seq(Rune)
    BY SaidOfToken
  <1>3. Append(tokens, t) = tokens \o one
    BY AppendIsConcat
  <1>. HIDE DEF one
  <1>. DEFINE f == [k \in 0..1 |-> IF k = 0 THEN <<>> ELSE Said(t)]
  <1>4. /\ f \in [0..1 -> Seq(Rune)] /\ f[0] = <<>> /\ f[1] = Said(t)
        /\ \A k \in 1..1 : k = 1 /\ k - 1 = 0
    BY <1>2
  <1>. HIDE DEF f
  <1>5. <<>> \o Said(t) = Said(t)
    BY <1>2, ConcatEmptySeq
  <1>6. Saying(f, one, Said(t))
    BY <1>1, <1>4, <1>5 DEF Saying
  <1>7. Say(one, Said(t))
    BY <1>6 DEF Say
  <1>. QED BY <1>1, <1>3, <1>7, SayBoth

\* The first tokens say how the others begin.
LEMMA SayFirst ==
  ASSUME NEW tokens \in Seq(Seq(Rune)), NEW a, Say(tokens, a), NEW m \in 0..Len(tokens)
  PROVE  \E b : /\ Say(SubSeq(tokens, 1, m), b) /\ b \in Seq(Rune) /\ IsPrefix(b, a)
                /\ m = Len(tokens) => b = a
  <1>. DEFINE n == Len(tokens)
              first == SubSeq(tokens, 1, m)
  <1>1. PICK f : Saying(f, tokens, a)
    BY DEF Say
  <1>2. /\ f \in [0..n -> Seq(Rune)] /\ f[0] = <<>> /\ f[n] = a
        /\ \A k \in 1..n : f[k] = f[k - 1] \o Said(tokens[k])
    BY <1>1 DEF Saying
  <1>3. /\ first \in Seq(Seq(Rune)) /\ Len(first) = m
        /\ \A k \in 1..m : first[k] = tokens[k]
    OBVIOUS
  <1>4. n \in Nat /\ m \in 0..n /\ 0..m \subseteq 0..n
    OBVIOUS
  <1>. HIDE DEF first, n
  <1>. DEFINE g == [k \in 0..m |-> f[k]]
  <1>5. Saying(g, first, f[m])
    <2>1. g \in [0..m -> Seq(Rune)] /\ g[0] = <<>> /\ g[m] = f[m]
      BY <1>2, <1>4
    <2>2. \A k \in 1..m : g[k] = g[k - 1] \o Said(first[k])
      <3>1. \A k \in 1..m : k \in 1..n /\ k \in 0..m /\ k - 1 \in 0..m
        BY <1>4
      <3>2. \A k \in 0..m : g[k] = f[k]
        OBVIOUS
      <3>. HIDE DEF g
      <3>. QED BY <1>2, <1>3, <3>1, <3>2
    <2>. HIDE DEF g
    <2>. QED BY <1>3, <2>1, <2>2 DEF Saying
  <1>6. Say(first, f[m])
    BY <1>5 DEF Say
  <1>7. IsPrefix(f[m], f[n])
    <2>. DEFINE P == {d \in 0..(n - m) : f[m + d] \in Seq(Rune) /\ IsPrefix(f[m], f[m + d])}
    <2>1. 0 \in P
      <3>1. m + 0 = m /\ f[m] \in Seq(Rune) /\ 0 \in 0..(n - m)
        BY <1>2, <1>4
      <3>2. IsPrefix(f[m], f[m])
        BY <3>1 DEF IsPrefix
      <3>. QED BY <3>1, <3>2
    <2>2. ASSUME NEW d \in 1..(n - m), d - 1 \in P PROVE d \in P
      <3>. DEFINE k == m + d
                  s == f[m]
                  u == f[k - 1]
                  w == Said(tokens[k])
      <3>1. k \in 1..n /\ k - 1 \in 0..n /\ k \in 0..n /\ m + (d - 1) = k - 1 /\ d \in 0..(n - m)
        BY <1>4
      <3>2. s \in Seq(Rune) /\ u \in Seq(Rune) /\ IsPrefix(s, u) /\ w \in Seq(Rune)
        <4>1. tokens[k] \in Seq(Rune)
          BY <3>1 DEF n
        <4>2. w \in Seq(Rune)
          BY <4>1, SaidOfToken
        <4>3. IsPrefix(s, u)
          BY <2>2, <3>1
        <4>. QED BY <1>2, <1>4, <3>1, <4>2, <4>3
      <3>3. f[k] = u \o w
        BY <1>2, <3>1
      <3>. HIDE DEF s, u, w, k
      <3>4. IsPrefix(s, u \o w) /\ u \o w \in Seq(Rune)
        <4>1. /\ u \o w \in Seq(Rune) /\ Len(u \o w) = Len(u) + Len(w)
              /\ \A l \in 1..Len(u) : (u \o w)[l] = u[l]
          BY <3>2, ConcatProperties
        <4>2. Len(s) <= Len(u) /\ SubSeq(s, 1, Len(s)) = SubSeq(u, 1, Len(s))
          BY <3>2 DEF IsPrefix
        <4>3. Len(s) \in Nat /\ Len(u) \in Nat /\ Len(w) \in Nat
          BY <3>2
        <4>. DEFINE q == Len(s)
                    x == SubSeq(u, 1, q)
                    y == SubSeq(u \o w, 1, q)
        <4>4. x \in Seq(Rune) /\ Len(x) = q /\ \A l \in 1..q : x[l] = u[l]
          BY <3>2, <4>2, <4>3
        <4>5. y \in Seq(Rune) /\ Len(y) = q /\ \A l \in 1..q : y[l] = (u \o w)[l]
          <5>. DEFINE uw == u \o w
          <5>1. uw \in Seq(Rune) /\ q \in 0..Len(uw)
            BY <4>1, <4>2, <4>3
          <5>. HIDE DEF uw, q
          <5>2. SubSeq(uw, 1, q) \in Seq(Rune) /\ Len(SubSeq(uw, 1, q)) = q /\ \A l \in 1..q : SubSeq(uw, 1, q)[l] = uw[l]
            BY <5>1
          <5>. QED BY <5>2 DEF uw
        <4>6. \A l \in 1..q : x[l] = y[l]
          BY <4>1, <4>2, <4>3, <4>4, <4>5
        <4>7. x = y
          <5>. HIDE DEF x, y, q
          <5>. QED BY <4>4, <4>5, <4>6, SeqEqual
        <4>8. Len(s) <= Len(u \o w)
          BY <4>1, <4>2, <4>3
        <4>. QED BY <4>1, <4>2, <4>7, <4>8 DEF IsPrefix
      <3>5. f[m + d] \in Seq(Rune) /\ IsPrefix(f[m], f[m + d])
        BY <3>3, <3>4 DEF k, s
      <3>. QED BY <3>1, <3>5
    <2>3. n - m \in P
      <3>1. n - m \in Nat /\ n - m \in 0..(n - m)
        BY <1>4
      <3>. HIDE DEF P
      <3>. QED BY <2>1, <2>2, <3>1, UpTo
    <2>4. m + (n - m) = n
      BY <1>4
    <2>. QED BY <2>3, <2>4
  <1>8. f[m] \in Seq(Rune)
    BY <1>2, <1>4
  <1>9. m = n => f[m] = a
    BY <1>2
  <1>. QED BY <1>2, <1>6, <1>7, <1>8, <1>9 DEF first, n

\* What they say is what FlattenSeq makes of them.
LEMMA SayIsFlat ==
  ASSUME NEW tokens \in Seq(Seq(Rune)), NEW a, Say(tokens, a)
  PROVE  FlattenSeq([k \in 1..Len(tokens) |-> Said(tokens[k])]) = a
  <1>. DEFINE n == Len(tokens)
              seqs == [k \in 1..n |-> Said(tokens[k])]
  <1>1. PICK f : Saying(f, tokens, a)
    BY DEF Say
  <1>2. /\ f \in [0..n -> Seq(Rune)] /\ f[0] = <<>> /\ f[n] = a
        /\ \A k \in 1..n : f[k] = f[k - 1] \o Said(tokens[k])
    BY <1>1 DEF Saying
  <1>3. \A k \in 1..n : Said(tokens[k]) \in Seq(Rune)
    BY SaidOfToken
  <1>4. n \in Nat
    OBVIOUS
  <1>. HIDE DEF n
  <1>5. seqs \in Seq(Seq(Rune)) /\ Len(seqs) = n /\ \A k \in 1..n : seqs[k] = Said(tokens[k])
    BY <1>3, <1>4
  <1>. HIDE DEF seqs
  <1>6. CASE n = 0
    <2>1. seqs = <<>>
      BY <1>5, <1>6
    <2>. QED BY <1>2, <1>5, <1>6, <2>1 DEF FlattenSeq, seqs, n
  <1>7. CASE n # 0
    <2>. DEFINE Equation(g) ==
                  g = [k \in 1..n |-> IF k = 1 THEN seqs[k] ELSE g[k - 1] \o seqs[k]]
                flatten == CHOOSE g : Equation(g)
                e == [k \in 1..n |-> f[k]]
    <2>1. FlattenSeq(seqs) = flatten[n]
      BY <1>5, <1>7, Zenon DEF FlattenSeq
    <2>2. Equation(e)
      <3>1. ASSUME NEW k \in 1..n PROVE f[k] = IF k = 1 THEN seqs[k] ELSE e[k - 1] \o seqs[k]
        <4>1. CASE k = 1
          <5>1. f[1] = f[0] \o seqs[1] /\ seqs[1] \in Seq(Rune)
            <6>1. 1 \in 1..n /\ 1 - 1 = 0
              BY <4>1
            <6>. QED BY <1>2, <1>3, <1>5, <6>1
          <5>2. <<>> \o seqs[1] = seqs[1]
            BY <5>1, ConcatEmptySeq
          <5>. QED BY <1>2, <4>1, <5>1, <5>2
        <4>2. CASE k # 1
          <5>1. k - 1 \in 1..n
            BY <1>4, <4>2
          <5>2. e[k - 1] = f[k - 1]
            BY <5>1
          <5>. QED BY <1>2, <1>5, <4>2, <5>2
        <4>. QED BY <4>1, <4>2
      <3>. QED BY <3>1, Zenon
    <2>3. Equation(flatten)
      <3>. HIDE DEF Equation, e
      <3>. QED BY <2>2
    <2>. HIDE DEF flatten, e
    <2>4. /\ flatten[1] = seqs[1]
          /\ \A k \in 2..n : flatten[k] = flatten[k - 1] \o seqs[k]
      <3>1. 1 \in 1..n /\ \A k \in 2..n : k \in 1..n /\ k # 1
        BY <1>4, <1>7
      <3>2. flatten[1] = seqs[1]
        BY <2>3, <3>1
      <3>3. ASSUME NEW k \in 2..n PROVE flatten[k] = flatten[k - 1] \o seqs[k]
        BY <2>3, <3>1, Zenon
      <3>. QED BY <3>2, <3>3
    <2>. DEFINE P == {d \in 0..(n - 1) : flatten[d + 1] = f[d + 1]}
    <2>5. 0 \in P
      <3>1. f[1] = f[0] \o seqs[1] /\ seqs[1] \in Seq(Rune)
        <4>1. 1 \in 1..n /\ 1 - 1 = 0
          BY <1>4, <1>7
        <4>. QED BY <1>2, <1>3, <1>5, <4>1
      <3>2. <<>> \o seqs[1] = seqs[1]
        BY <3>1, ConcatEmptySeq
      <3>3. flatten[0 + 1] = f[0 + 1] /\ 0 \in 0..(n - 1)
        BY <1>2, <1>4, <1>7, <2>4, <3>1, <3>2
      <3>. QED BY <3>3
    <2>6. ASSUME NEW d \in 1..(n - 1), d - 1 \in P PROVE d \in P
      <3>1. d + 1 \in 2..n /\ d + 1 \in 1..n /\ (d - 1) + 1 = d /\ (d + 1) - 1 = d /\ d \in 0..(n - 1)
        BY <1>4
      <3>2. flatten[d] = f[d]
        BY <2>6, <3>1
      <3>3. flatten[d + 1] = flatten[d] \o seqs[d + 1]
        BY <2>4, <3>1
      <3>4. f[d + 1] = f[d] \o seqs[d + 1]
        BY <1>2, <1>5, <3>1
      <3>. QED BY <3>1, <3>2, <3>3, <3>4
    <2>7. n - 1 \in P
      <3>1. n - 1 \in Nat /\ n - 1 \in 0..(n - 1)
        BY <1>4, <1>7
      <3>. HIDE DEF P
      <3>. QED BY <2>5, <2>6, <3>1, UpTo
    <2>8. flatten[n] = f[n]
      <3>1. (n - 1) + 1 = n
        BY <1>4
      <3>. QED BY <2>7, <3>1
    <2>. QED BY <1>2, <2>1, <2>8 DEF seqs, n
  <1>. QED BY <1>6, <1>7

-----------------------------------------------------------------------------
(* What the tokens of a text say                                           *)

\* The runes that a vocabulary can say.
Sayable(v) == {r \in Rune : /\ <<r>> \in v
                            /\ r \in Han \/ Suffix(<<r>>) \in v
                            /\ r # Hashes[1]}

\* Those of words.
WordRune(v) == Sayable(v) \ (Han \cup Space)

Known(v) == {t \in Seq(Rune) : t \in v}

\* A word cut up to s.from, its pieces in the vocabulary.
CutSays(v, word, s) ==
  /\ s.tokens \in Seq(Known(v))
  /\ s.from \in 1..(Len(word) + 1)
  /\ Say(s.tokens, SubSeq(word, 1, s.from - 1))

\* The next piece of a word says the next runes of it, one at least.
LEMMA CutSaysMore ==
  ASSUME NEW v, NEW word \in Seq(WordRune(v)), NEW s, CutSays(v, word, s)
  PROVE  /\ CutSays(v, word, Cut(v, word, s))
         /\ s.from <= Len(word) => Cut(v, word, s).from > s.from
         /\ s.from > Len(word) => Cut(v, word, s).from = s.from
  <1>. DEFINE n == Len(word)
              Candidate(to) == IF s.from = 1 THEN SubSeq(word, 1, to)
                               ELSE Suffix(SubSeq(word, s.from, to))
              fits == {to \in s.from..n : Candidate(to) \in v}
              m == Max(fits)
  <1>1. /\ s.tokens \in Seq(Known(v)) /\ s.from \in 1..(n + 1) /\ n \in Nat
        /\ Say(s.tokens, SubSeq(word, 1, s.from - 1))
    BY DEF CutSays
  <1>2. CASE s.from > n
    <2>1. ~(s.from <= n)
      BY <1>1, <1>2
    <2>2. Cut(v, word, s) = s
      BY <1>2, <2>1 DEF Cut
    <2>. QED BY <1>2, <2>1, <2>2
  <1>3. CASE s.from <= n
    <2>0. /\ word \in Seq(Rune)
          /\ \A i \in 1..n : /\ word[i] \in Rune /\ <<word[i]>> \in v
                             /\ Suffix(<<word[i]>>) \in v /\ word[i] # Hashes[1]
      <3>1. WordRune(v) \subseteq Rune
        BY DEF WordRune, Sayable
      <3>2. word \in Seq(Rune)
        BY <3>1, SeqMonotonic
      <3>3. \A i \in 1..n : word[i] \in WordRune(v)
        OBVIOUS
      <3>. QED BY <3>2, <3>3 DEF WordRune, Sayable
    <2>1. s.from \in 1..n
      BY <1>1, <1>3
    <2>2. SubSeq(word, s.from, s.from) = <<word[s.from]>>
      <3>. DEFINE i == s.from
                  r == word[i]
                  one == <<r>>
                  sub == SubSeq(word, i, i)
      <3>1. i \in Int /\ r \in Rune /\ \A k \in i..i : word[k] \in Rune
        BY <2>0, <2>1
      <3>. HIDE DEF i
      <3>2. i <= i /\ i - i + 1 = 1 /\ i + 1 - 1 = i
        BY <3>1
      <3>3. sub \in Seq(Rune) /\ Len(sub) = 1 /\ sub[1] = r
        BY <3>1, <3>2, SubSeqProperties
      <3>4. one \in Seq(Rune) /\ Len(one) = 1 /\ one[1] = r
        BY <3>1
      <3>. HIDE DEF sub, one, r
      <3>5. \A k \in 1..1 : sub[k] = one[k]
        BY <3>3, <3>4
      <3>6. sub = one
        BY <3>3, <3>4, <3>5, SeqEqual
      <3>. QED BY <3>6 DEF sub, one, r, i
    <2>3. s.from \in fits
      <3>1. Candidate(s.from) \in v
        BY <2>0, <2>1, <2>2
      <3>. HIDE DEF Candidate
      <3>. QED BY <2>1, <3>1
    <2>4. m \in fits
      <3>1. fits \subseteq 0..n /\ fits # {}
        BY <1>1, <2>3
      <3>. HIDE DEF fits
      <3>. QED BY <1>1, <3>1, MaxIsThere
    <2>5. m \in s.from..n /\ Candidate(m) \in v
      <3>. HIDE DEF m, Candidate
      <3>. QED BY <2>4
    <2>6. Cut(v, word, s) = [tokens |-> Append(s.tokens, Candidate(m)), from |-> m + 1]
      BY <1>1, <1>3, <2>3 DEF Cut
    <2>. HIDE DEF m, fits
    <2>. DEFINE piece == SubSeq(word, s.from, m)
    <2>7. /\ piece \in Seq(Rune) /\ piece # <<>> /\ piece[1] = word[s.from]
      <3>1. m \in Int /\ s.from \in Int /\ s.from <= m /\ \A k \in s.from..m : word[k] \in Rune
        BY <1>1, <2>0, <2>1, <2>5
      <3>. DEFINE i == s.from
      <3>. HIDE DEF i
      <3>2. /\ SubSeq(word, i, m) \in Seq(Rune) /\ Len(SubSeq(word, i, m)) = m - i + 1
            /\ \A k \in 1..(m - i + 1) : SubSeq(word, i, m)[k] = word[i + k - 1]
        BY <3>1, SubSeqProperties DEF i
      <3>3. 1 \in 1..(m - i + 1) /\ i + 1 - 1 = i /\ m - i + 1 # 0
        BY <3>1 DEF i
      <3>4. SubSeq(word, i, m)[1] = word[i] /\ Len(SubSeq(word, i, m)) # 0
        BY <3>2, <3>3
      <3>5. SubSeq(word, i, m) # <<>>
        BY <3>4, EmptySeq
      <3>. QED BY <3>2, <3>4, <3>5 DEF i
    <2>8. Candidate(m) \in Known(v) /\ Said(Candidate(m)) = piece
      <3>1. CASE s.from = 1
        <4>1. Candidate(m) = piece
          BY <3>1
        <4>2. piece[1] # Hashes[1]
          BY <2>0, <2>1, <2>7
        <4>. HIDE DEF Candidate, piece
        <4>. QED BY <2>5, <2>7, <4>1, <4>2, SaidOfToken DEF Known
      <3>2. CASE s.from # 1
        <4>1. Candidate(m) = Suffix(piece)
          BY <3>2
        <4>. HIDE DEF Candidate, piece
        <4>2. Said(Suffix(piece)) = piece
          BY <2>7, SaidOfToken
        <4>3. Suffix(piece) \in Seq(Rune)
          <5>1. Hashes \in Seq(Rune)
            BY TokenizerAssumption DEF TokenizerAssumption
          <5>. QED BY <2>7, <5>1, ConcatProperties DEF Suffix
        <4>. QED BY <2>5, <4>1, <4>2, <4>3 DEF Known
      <3>. QED BY <3>1, <3>2
    <2>9. Append(s.tokens, Candidate(m)) \in Seq(Known(v))
      <3>. HIDE DEF Candidate
      <3>. QED BY <1>1, <2>8, AppendProperties
    <2>10. Say(Append(s.tokens, Candidate(m)), SubSeq(word, 1, s.from - 1) \o piece)
      <3>1. s.tokens \in Seq(Seq(Rune)) /\ Candidate(m) \in Seq(Rune)
        <4>1. Known(v) \subseteq Seq(Rune)
          BY DEF Known
        <4>. HIDE DEF Candidate
        <4>. QED BY <1>1, <2>8, <4>1, SeqMonotonic
      <3>. HIDE DEF Candidate, piece
      <3>. QED BY <1>1, <2>8, <3>1, SayOneMore
    <2>11. SubSeq(word, 1, s.from - 1) \o piece = SubSeq(word, 1, m)
      <3>. DEFINE i == s.from
                  x == SubSeq(word, 1, i - 1)
                  y == SubSeq(word, i, m)
                  z == SubSeq(word, 1, m)
      <3>1. /\ i \in 1..n /\ m \in i..n /\ n \in Nat /\ i - 1 \in Nat /\ m \in Nat
            /\ \A k \in 1..n : word[k] \in Rune
        BY <1>1, <2>0, <2>1, <2>5
      <3>. HIDE DEF i, n
      <3>2. x \in Seq(Rune) /\ Len(x) = i - 1 /\ \A k \in 1..(i - 1) : x[k] = word[k]
        <4>1. i - 1 \in Int /\ 1 \in Int /\ (\A k \in 1..(i - 1) : word[k] \in Rune)
          BY <3>1
        <4>. DEFINE j == i - 1
        <4>. HIDE DEF j
        <4>2. /\ SubSeq(word, 1, j) \in Seq(Rune)
              /\ Len(SubSeq(word, 1, j)) = IF 1 <= j THEN j - 1 + 1 ELSE 0
              /\ \A k \in 1..(j - 1 + 1) : SubSeq(word, 1, j)[k] = word[1 + k - 1]
          BY <4>1, SubSeqProperties DEF j
        <4>3. j \in Nat
          BY <3>1 DEF j
        <4>4. SubSeq(word, 1, j) \in Seq(Rune) /\ Len(SubSeq(word, 1, j)) = j /\ \A k \in 1..j : SubSeq(word, 1, j)[k] = word[k]
          BY <4>2, <4>3
        <4>. QED BY <4>4 DEF j
      <3>3. y \in Seq(Rune) /\ Len(y) = m - i + 1 /\ \A k \in 1..(m - i + 1) : y[k] = word[i + k - 1]
        <4>1. i \in Int /\ m \in Int /\ i <= m /\ (\A k \in i..m : word[k] \in Rune)
          BY <3>1
        <4>. QED BY <4>1, SubSeqProperties
      <3>4. z \in Seq(Rune) /\ Len(z) = m /\ \A k \in 1..m : z[k] = word[k]
        <4>1. 1 \in Int /\ m \in Int /\ 1 <= m /\ m - 1 + 1 = m /\ (\A k \in 1..m : word[k] \in Rune)
          BY <3>1
        <4>2. /\ SubSeq(word, 1, m) \in Seq(Rune) /\ Len(SubSeq(word, 1, m)) = m - 1 + 1
              /\ \A k \in 1..(m - 1 + 1) : SubSeq(word, 1, m)[k] = word[1 + k - 1]
          BY <4>1, SubSeqProperties
        <4>. QED BY <4>1, <4>2
      <3>. HIDE DEF x, y, z
      <3>5. /\ x \o y \in Seq(Rune) /\ Len(x \o y) = Len(x) + Len(y)
            /\ \A k \in 1..Len(x) : (x \o y)[k] = x[k]
            /\ \A k \in 1..Len(y) : (x \o y)[Len(x) + k] = y[k]
        <4>1. x \in Seq(Rune) /\ y \in Seq(Rune)
          BY <3>2, <3>3
        <4>. QED BY <4>1, ConcatProperties
      <3>6. Len(x \o y) = m
        BY <3>1, <3>2, <3>3, <3>5
      <3>7. ASSUME NEW k \in 1..m PROVE (x \o y)[k] = z[k]
        <4>1. CASE k <= i - 1
          BY <3>1, <3>2, <3>4, <3>5, <4>1
        <4>2. CASE ~(k <= i - 1)
          <5>. DEFINE l == k - (i - 1)
          <5>1. l \in 1..(m - i + 1) /\ (i - 1) + l = k /\ i + l - 1 = k
            BY <3>1, <4>2
          <5>. HIDE DEF l
          <5>2. (x \o y)[Len(x) + l] = y[l] /\ y[l] = word[i + l - 1]
            BY <3>3, <3>5, <5>1
          <5>. QED BY <3>2, <3>4, <5>1, <5>2
        <4>. QED BY <4>1, <4>2
      <3>8. x \o y = z
        <4>. DEFINE w == x \o y
        <4>1. w \in Seq(Rune) /\ Len(w) = m /\ \A k \in 1..m : w[k] = z[k]
          BY <3>5, <3>6, <3>7
        <4>. HIDE DEF w
        <4>2. w = z
          BY <3>4, <4>1, SeqEqual
        <4>. QED BY <4>2 DEF w
      <3>. QED BY <3>8 DEF x, y, z, i
    <2>12. m \in Nat /\ m + 1 \in 1..(n + 1) /\ (m + 1) - 1 = m /\ m + 1 > s.from
      BY <1>1, <2>1, <2>5
    <2>. HIDE DEF Candidate, piece
    <2>13. Cut(v, word, s).tokens = Append(s.tokens, Candidate(m)) /\ Cut(v, word, s).from = m + 1
      BY <2>6
    <2>14. CutSays(v, word, Cut(v, word, s))
      BY <2>9, <2>10, <2>11, <2>12, <2>13 DEF CutSays
    <2>. QED BY <1>1, <1>3, <2>12, <2>13, <2>14
  <1>. QED BY <1>1, <1>2, <1>3

\* The pieces of a word say the word.
LEMMA SplitSays ==
  ASSUME NEW v, NEW word \in Seq(WordRune(v))
  PROVE  /\ WordPieceSplit(v, word) \in Seq(Known(v))
         /\ Say(WordPieceSplit(v, word), word)
  <1>. DEFINE n == Len(word)
  <1>1. word \in Seq(Rune) /\ n \in Nat /\ n \in 0..n
    <2>1. WordRune(v) \subseteq Rune
      BY DEF WordRune, Sayable
    <2>. QED BY <2>1, SeqMonotonic
  <1>2. PICK after : Cutting(after, word, v, word)
    BY <1>1, WordIsPart, SplitLoop
  <1>. DEFINE P == {i \in 0..n : CutSays(v, word, after[i]) /\ after[i].from > i}
  <1>3. 0 \in P
    <2>1. after[0].tokens = <<>> /\ after[0].from = 1
      BY <1>2 DEF Cutting
    <2>2. SubSeq(word, 1, after[0].from - 1) = <<>>
      BY <1>1, <2>1
    <2>3. Say(after[0].tokens, SubSeq(word, 1, after[0].from - 1))
      <3>1. Say(<<>>, SubSeq(word, 1, after[0].from - 1))
        BY <2>2, SayNothing
      <3>. QED BY <2>1, <3>1
    <2>4. after[0].tokens \in Seq(Known(v)) /\ after[0].from \in 1..(Len(word) + 1)
      BY <1>1, <2>1
    <2>5. CutSays(v, word, after[0])
      BY <2>3, <2>4 DEF CutSays
    <2>. QED BY <1>1, <2>1, <2>5
  <1>4. ASSUME NEW i \in 1..n, i - 1 \in P PROVE i \in P
    <2>1. i \in 0..n /\ CutSays(v, word, after[i - 1]) /\ after[i - 1].from > i - 1
      BY <1>4
    <2>2. after[i] = Cut(v, word, after[i - 1])
      BY <1>2 DEF Cutting
    <2>3. /\ CutSays(v, word, after[i])
          /\ after[i - 1].from <= n => after[i].from > after[i - 1].from
          /\ after[i - 1].from > n => after[i].from = after[i - 1].from
      BY <2>1, <2>2, CutSaysMore
    <2>4. after[i - 1].from \in 1..(n + 1) /\ after[i].from \in 1..(n + 1)
      BY <2>1, <2>3 DEF CutSays
    <2>5. after[i].from > i
      BY <1>1, <2>1, <2>3, <2>4
    <2>. QED BY <2>1, <2>3, <2>5
  <1>5. n \in P
    <2>. HIDE DEF P
    <2>. QED BY <1>1, <1>3, <1>4, UpTo
  <1>6. CutSays(v, word, after[n]) /\ after[n].from > n
    BY <1>5
  <1>7. after[n].from = n + 1 /\ (n + 1) - 1 = n
    BY <1>1, <1>6 DEF CutSays
  <1>8. SubSeq(word, 1, n) = word
    BY SubSeqFull
  <1>. QED BY <1>2, <1>6, <1>7, <1>8 DEF CutSays, Cutting

\* What Only keeps of a text has every rune of it that is in the set.
LEMMA OnlyKeeps ==
  ASSUME NEW text \in Seq(Rune), NEW set, NEW i \in 1..Len(text), text[i] \in set
  PROVE  \E k \in DOMAIN Only(text, set) : Only(text, set)[k] = text[i]
  <1>. DEFINE n == Len(text)
              r == text[i]
  <1>1. PICK kept : Keeping(kept, text, set)
    BY OnlyLoop
  <1>2. /\ kept \in [0..n -> Seq(Rune)] /\ Only(text, set) = kept[n]
        /\ \A j \in 1..n : kept[j] = IF text[j] \in set THEN Append(kept[j - 1], text[j]) ELSE kept[j - 1]
    BY <1>1 DEF Keeping
  <1>3. n \in Nat /\ n \in 0..n /\ i \in 1..n /\ r \in Rune
    OBVIOUS
  <1>. DEFINE Has1(s) == \E k \in 1..Len(s) : s[k] = r
              P == {j \in 0..n : j >= i => Has1(kept[j])}
  <1>4. 0 \in P
    BY <1>3
  <1>5. ASSUME NEW j \in 1..n, j - 1 \in P PROVE j \in P
    <2>1. j \in 0..n /\ j - 1 \in 0..n /\ kept[j - 1] \in Seq(Rune) /\ text[j] \in Rune
      <3>1. j \in 0..n /\ j - 1 \in 0..n /\ text[j] \in Rune
        OBVIOUS
      <3>. HIDE DEF n
      <3>. QED BY <1>2, <3>1
    <2>. DEFINE u == kept[j - 1]
                more == Append(u, text[j])
    <2>2. /\ Len(u) \in Nat /\ Len(more) = Len(u) + 1
          /\ \A k \in 1..Len(u) : more[k] = u[k]
          /\ more[Len(u) + 1] = text[j]
      BY <2>1, AppendProperties
    <2>3. kept[j] = IF text[j] \in set THEN more ELSE u
      BY <1>2
    <2>4. CASE j = i
      <3>1. kept[j] = more /\ more[Len(u) + 1] = r /\ Len(u) + 1 \in 1..Len(more)
        BY <2>2, <2>3, <2>4
      <3>. HIDE DEF more, u
      <3>2. Has1(kept[j])
        BY <3>1
      <3>. QED BY <2>1, <3>2
    <2>5. CASE j > i
      <3>1. Has1(u)
        BY <1>3, <1>5, <2>1, <2>5
      <3>. HIDE DEF more, u, r
      <3>2. PICK k \in 1..Len(u) : u[k] = r
        BY <3>1
      <3>3. k \in 1..Len(more) /\ more[k] = r
        BY <2>2, <3>2
      <3>4. Has1(more) /\ Has1(u)
        BY <3>1, <3>3
      <3>5. Has1(kept[j])
        <4>. HIDE DEF Has1
        <4>. QED BY <2>3, <3>4
      <3>. QED BY <2>1, <3>5
    <2>6. CASE j < i
      BY <1>3, <2>1, <2>6
    <2>. QED BY <1>3, <2>4, <2>5, <2>6
  <1>6. n \in P
    <2>. HIDE DEF P
    <2>. QED BY <1>3, <1>4, <1>5, UpTo
  <1>7. Has1(kept[n]) /\ kept[n] \in Seq(Rune)
    BY <1>2, <1>3, <1>6
  <1>8. DOMAIN kept[n] = 1..Len(kept[n])
    BY <1>7
  <1>. QED BY <1>2, <1>7, <1>8

\* A text up to a rune, of which kept is what Only keeps: what the tokens say, and the
\* word under way after it.
SaysSoFar(v, s, kept) ==
  /\ s \in LoopState
  /\ s.tokens \in Seq(Known(v))
  /\ s.current \in Seq(WordRune(v))
  /\ \E a : Say(s.tokens, a) /\ a \o s.current = kept

\* Flush leaves a word in its pieces.
LEMMA FlushSays ==
  ASSUME NEW v, NEW s, s.tokens \in Seq(Known(v)), s.current \in Seq(WordRune(v)),
         NEW a, Say(s.tokens, a)
  PROVE  /\ Flush(v, s).tokens \in Seq(Known(v))
         /\ Say(Flush(v, s).tokens, a \o s.current)
         /\ a \in Seq(Rune) /\ s.current \in Seq(Rune)
  <1>. DEFINE x == s.tokens
              w == s.current
              y == WordPieceSplit(v, w)
  <1>1. x \in Seq(Known(v)) /\ w \in Seq(WordRune(v)) /\ y \in Seq(Known(v)) /\ Say(y, w) /\ Say(x, a)
    BY SplitSays
  <1>2. Known(v) \subseteq Seq(Rune) /\ WordRune(v) \subseteq Rune
    BY DEF Known, WordRune, Sayable
  <1>3. Flush(v, s).tokens = x \o y
    BY DEF Flush
  <1>. HIDE DEF x, y, w
  <1>4. x \in Seq(Seq(Rune)) /\ y \in Seq(Seq(Rune)) /\ w \in Seq(Rune)
    BY <1>1, <1>2, SeqMonotonic
  <1>5. x \o y \in Seq(Known(v))
    BY <1>1, ConcatProperties
  <1>6. Say(x \o y, a \o w) /\ a \in Seq(Rune)
    BY <1>1, <1>4, SayBoth
  <1>. QED BY <1>3, <1>4, <1>5, <1>6 DEF w

\* One rune more: it is a token, or the word under way goes on.
LEMMA TakeSays ==
  ASSUME NEW v, NEW s, NEW kept, SaysSoFar(v, s, kept),
         NEW r \in Rune, r \in Sayable(v) \cup Space
  PROVE  /\ r \in Rune \ Space => SaysSoFar(v, Take(v, s, r), Append(kept, r))
         /\ r \notin Rune \ Space => SaysSoFar(v, Take(v, s, r), kept)
  <1>. DEFINE f == Flush(v, s)
              one == <<r>>
              next == Take(v, s, r)
  <1>1. PICK a : Say(s.tokens, a) /\ a \o s.current = kept
    BY DEF SaysSoFar
  <1>2. s \in LoopState /\ s.tokens \in Seq(Known(v)) /\ s.current \in Seq(WordRune(v))
    BY DEF SaysSoFar
  <1>3. /\ f.tokens \in Seq(Known(v)) /\ Say(f.tokens, kept)
        /\ a \in Seq(Rune) /\ s.current \in Seq(Rune)
    <2>. HIDE DEF f
    <2>1. /\ Flush(v, s).tokens \in Seq(Known(v))
          /\ Say(Flush(v, s).tokens, a \o s.current)
          /\ a \in Seq(Rune) /\ s.current \in Seq(Rune)
      BY <1>1, <1>2, FlushSays
    <2>. QED BY <1>1, <2>1 DEF f
  <1>4. kept \in Seq(Rune)
    <2>. DEFINE w == s.current
    <2>1. a \in Seq(Rune) /\ w \in Seq(Rune) /\ kept = a \o w
      BY <1>1, <1>3
    <2>. HIDE DEF w
    <2>. QED BY <2>1, ConcatProperties
  <1>5. next \in LoopState
    BY <1>2, TakeType
  <1>6. f.current = <<>>
    BY DEF Flush
  <1>7. Han \subseteq Rune \ Space
    BY TokenizerAssumption DEF TokenizerAssumption
  <1>8. <<>> \in Seq(WordRune(v)) /\ kept \o <<>> = kept
    BY <1>4, ConcatEmptySeq
  <1>9. CASE r \in Space
    <2>1. next = f
      BY <1>7, <1>9 DEF Take
    <2>. HIDE DEF f, next
    <2>2. Say(next.tokens, kept) /\ kept \o next.current = kept
      BY <1>3, <1>6, <1>8, <2>1
    <2>3. next.tokens \in Seq(Known(v)) /\ next.current \in Seq(WordRune(v))
      BY <1>3, <1>6, <1>8, <2>1
    <2>4. SaysSoFar(v, next, kept)
      BY <1>5, <2>2, <2>3 DEF SaysSoFar
    <2>. QED BY <1>9, <2>4 DEF next
  <1>10. CASE r \in Han
    <2>1. r \notin Space /\ r \in Sayable(v)
      BY <1>7, <1>10
    <2>2. next = [f EXCEPT !.tokens = Append(f.tokens, one)]
      BY <1>10, <2>1 DEF Take
    <2>3. next.tokens = Append(f.tokens, one) /\ next.current = <<>>
      BY <2>2 DEF Flush
    <2>4. one \in Seq(Rune) /\ one # <<>> /\ one[1] = r /\ one \in v /\ r # Hashes[1]
      BY <2>1 DEF Sayable
    <2>. HIDE DEF f, next, one
    <2>5. one \in Known(v) /\ Said(one) = one
      BY <2>4, SaidOfToken DEF Known
    <2>6. next.tokens \in Seq(Known(v))
      BY <1>3, <2>3, <2>5, AppendProperties
    <2>7. f.tokens \in Seq(Seq(Rune))
      <3>1. Known(v) \subseteq Seq(Rune)
        BY DEF Known
      <3>. QED BY <1>3, <3>1, SeqMonotonic
    <2>8. Say(next.tokens, kept \o one)
      BY <1>3, <2>3, <2>4, <2>5, <2>7, SayOneMore
    <2>9. kept \o one = Append(kept, r)
      BY <1>4, AppendIsConcat DEF one
    <2>10. Append(kept, r) \o next.current = Append(kept, r)
      <3>. DEFINE x == Append(kept, r)
      <3>1. x \in Seq(Rune)
        BY <1>4, AppendProperties
      <3>. HIDE DEF x
      <3>2. x \o <<>> = x
        BY <3>1, ConcatEmptySeq
      <3>. QED BY <2>3, <3>2 DEF x
    <2>11. next.current \in Seq(WordRune(v))
      BY <1>8, <2>3
    <2>12. Say(next.tokens, Append(kept, r))
      BY <2>8, <2>9
    <2>13. SaysSoFar(v, next, Append(kept, r))
      BY <1>5, <2>6, <2>10, <2>11, <2>12 DEF SaysSoFar
    <2>. QED BY <2>1, <2>13 DEF next
  <1>11. CASE r \notin Space /\ r \notin Han
    <2>1. r \in WordRune(v)
      BY <1>11 DEF WordRune
    <2>2. next = [s EXCEPT !.current = Append(s.current, r)]
      BY <1>11 DEF Take
    <2>3. next.tokens = s.tokens /\ next.current = Append(s.current, r)
      BY <1>2, <2>2 DEF LoopState
    <2>. DEFINE w == s.current
    <2>4. w \in Seq(Rune) /\ w \in Seq(WordRune(v)) /\ a \o w = kept
      BY <1>1, <1>2, <1>3
    <2>. HIDE DEF w, next
    <2>5. Append(w, r) \in Seq(WordRune(v))
      BY <2>1, <2>4, AppendProperties
    <2>6. a \o Append(w, r) = Append(a \o w, r)
      <3>1. one \in Seq(Rune)
        OBVIOUS
      <3>2. a \o w \in Seq(Rune)
        BY <1>3, <2>4, ConcatProperties
      <3>3. Append(w, r) = w \o one /\ Append(a \o w, r) = (a \o w) \o one
        <4>. DEFINE z == a \o w
        <4>1. z \in Seq(Rune) /\ w \in Seq(Rune)
          BY <2>4, <3>2
        <4>. HIDE DEF z
        <4>2. Append(w, r) = w \o one /\ Append(z, r) = z \o one
          BY <4>1, AppendIsConcat
        <4>. QED BY <4>2 DEF z
      <3>. HIDE DEF one
      <3>4. a \in Seq(Rune) /\ w \in Seq(Rune) /\ one \in Seq(Rune)
        BY <1>3, <2>4, <3>1
      <3>5. (a \o w) \o one = a \o (w \o one)
        BY <3>4, ConcatAssociative
      <3>. QED BY <3>3, <3>5
    <2>7. a \o next.current = Append(kept, r)
      BY <2>3, <2>4, <2>6 DEF w
    <2>8. Say(next.tokens, a)
      BY <1>1, <2>3
    <2>9. next.tokens \in Seq(Known(v)) /\ next.current \in Seq(WordRune(v))
      BY <1>2, <2>3, <2>5 DEF w
    <2>10. SaysSoFar(v, next, Append(kept, r))
      BY <1>5, <2>7, <2>8, <2>9 DEF SaysSoFar
    <2>. QED BY <1>11, <2>10 DEF next
  <1>. QED BY <1>9, <1>10, <1>11

\* The tokens of a text say what it says without its spaces.
LEMMA TokenizeSays ==
  ASSUME NEW v, NEW c \in Seq(Rune),
         \A i \in DOMAIN Only(c, Rune \ Space) : Only(c, Rune \ Space)[i] \in Sayable(v)
  PROVE  /\ WordPieceTokenize(v, c) \in Seq(Known(v))
         /\ Say(WordPieceTokenize(v, c), Only(c, Rune \ Space))
  <1>. DEFINE n == Len(c)
              text == Only(c, Rune \ Space)
  <1>1. n \in Nat /\ n \in 0..n /\ \A i \in 1..n : c[i] \in Rune
    OBVIOUS
  <1>2. PICK state : Tokenizing(state, v, c)
    BY TokenizeLoop
  <1>3. PICK kept : Keeping(kept, c, Rune \ Space)
    BY OnlyLoop
  <1>4. \A i \in 1..n : c[i] \in Sayable(v) \cup Space
    <2>1. SUFFICES ASSUME NEW i \in 1..n, c[i] \notin Space PROVE c[i] \in Sayable(v)
      OBVIOUS
    <2>2. c[i] \in Rune \ Space
      BY <1>1, <2>1
    <2>3. PICK k \in DOMAIN text : text[k] = c[i]
      BY <2>2, OnlyKeeps
    <2>. QED BY <2>3
  <1>. DEFINE P == {i \in 0..n : SaysSoFar(v, state[i], kept[i])}
  <1>5. 0 \in P
    <2>1. state[0] = [tokens |-> <<>>, current |-> <<>>] /\ kept[0] = <<>>
      BY <1>2, <1>3 DEF Tokenizing, Keeping
    <2>2. state[0] \in LoopState
      BY <2>1 DEF LoopState
    <2>3. state[0].tokens = <<>> /\ state[0].current = <<>>
      BY <2>1
    <2>4. <<>> \o state[0].current = kept[0]
      BY <2>1, <2>3
    <2>5. Say(state[0].tokens, <<>>)
      BY <2>3, SayNothing
    <2>6. state[0].tokens \in Seq(Known(v)) /\ state[0].current \in Seq(WordRune(v))
      BY <2>3
    <2>7. SaysSoFar(v, state[0], kept[0])
      BY <2>2, <2>4, <2>5, <2>6 DEF SaysSoFar
    <2>. QED BY <1>1, <2>7
  <1>6. ASSUME NEW i \in 1..n, i - 1 \in P PROVE i \in P
    <2>1. i \in 0..n /\ SaysSoFar(v, state[i - 1], kept[i - 1])
      BY <1>6
    <2>2. state[i] = Take(v, state[i - 1], c[i])
      BY <1>2 DEF Tokenizing
    <2>3. kept[i] = IF c[i] \in Rune \ Space THEN Append(kept[i - 1], c[i]) ELSE kept[i - 1]
      BY <1>3 DEF Keeping
    <2>4. c[i] \in Rune /\ c[i] \in Sayable(v) \cup Space
      BY <1>1, <1>4
    <2>5. /\ c[i] \in Rune \ Space => SaysSoFar(v, Take(v, state[i - 1], c[i]), Append(kept[i - 1], c[i]))
          /\ c[i] \notin Rune \ Space => SaysSoFar(v, Take(v, state[i - 1], c[i]), kept[i - 1])
      BY <2>1, <2>4, TakeSays
    <2>6. SaysSoFar(v, state[i], kept[i])
      BY <2>2, <2>3, <2>5
    <2>. QED BY <2>1, <2>6
  <1>7. n \in P
    <2>. HIDE DEF P
    <2>. QED BY <1>1, <1>5, <1>6, UpTo
  <1>8. SaysSoFar(v, state[n], kept[n])
    BY <1>7
  <1>9. PICK a : Say(state[n].tokens, a) /\ a \o state[n].current = kept[n]
    BY <1>8 DEF SaysSoFar
  <1>10. state[n].tokens \in Seq(Known(v)) /\ state[n].current \in Seq(WordRune(v))
    BY <1>8 DEF SaysSoFar
  <1>11. /\ Flush(v, state[n]).tokens \in Seq(Known(v))
         /\ Say(Flush(v, state[n]).tokens, a \o state[n].current)
    BY <1>9, <1>10, FlushSays
  <1>12. WordPieceTokenize(v, c) = Flush(v, state[n]).tokens /\ Only(c, Rune \ Space) = kept[n]
    BY <1>2, <1>3 DEF Tokenizing, Keeping
  <1>. QED BY <1>9, <1>11, <1>12

\* What is cut off by Truncate is the end.
LEMMA TruncateIsFirst ==
  ASSUME NEW S, NEW tokens \in Seq(S)
  PROVE  \E m \in 0..Len(tokens) :
           /\ Truncate(tokens) = SubSeq(tokens, 1, m)
           /\ Len(Truncate(tokens)) = m
           /\ m < MaxLen - 2 => m = Len(tokens)
  <1>. DEFINE both == {Len(tokens), MaxLen - 2}
              m == Min(both)
  <1>1. Len(tokens) \in Nat /\ MaxLen - 2 \in Nat
    BY TokenizerAssumption DEF TokenizerAssumption
  <1>2. m \in both /\ \A x \in both : m <= x
    <2>1. both \subseteq Nat /\ both # {}
      BY <1>1
    <2>. HIDE DEF both
    <2>. QED BY <2>1, MinIsThere
  <1>3. Truncate(tokens) = SubSeq(tokens, 1, m)
    BY DEF Truncate
  <1>. HIDE DEF m
  <1>4. m \in 0..Len(tokens) /\ (m < MaxLen - 2 => m = Len(tokens))
    BY <1>1, <1>2
  <1>5. Len(SubSeq(tokens, 1, m)) = m
    BY <1>4
  <1>. QED BY <1>3, <1>4, <1>5

\* With a vocabulary that can say every rune of a text, its input says how it begins, and
\* all of it if there is room left.
LEMMA EncodeSays ==
  ASSUME NEW v, NEW t \in Seq(Rune),
         \A i \in DOMAIN Only(CleanText(t), Rune \ Space) :
           Only(CleanText(t), Rune \ Space)[i] \in Sayable(v)
  PROVE  /\ IsPrefix(Spelled(Encode(v, t)), Only(CleanText(t), Rune \ Space))
         /\ Encode(v, t).mask < MaxLen => Spelled(Encode(v, t)) = Only(CleanText(t), Rune \ Space)
  <1>. DEFINE clean  == CleanText(t)
              text   == Only(clean, Rune \ Space)
              all    == WordPieceTokenize(v, clean)
              tokens == Truncate(all)
              input  == Encode(v, t)
  <1>1. clean \in Seq(Rune)
    BY CleanType
  <1>2. all \in Seq(Known(v)) /\ Say(all, text)
    <2>1. \A i \in DOMAIN Only(clean, Rune \ Space) : Only(clean, Rune \ Space)[i] \in Sayable(v)
      OBVIOUS
    <2>. HIDE DEF clean
    <2>. QED BY <1>1, <2>1, TokenizeSays
  <1>3. /\ Len(tokens) \in Nat /\ input.mask = Len(tokens) + 2
        /\ \A i \in 1..Len(tokens) :
             input.ids[i + 1] = IF tokens[i] \in v THEN tokens[i] ELSE UNK
    BY EncodeShape
  <1>. HIDE DEF clean, text, all, tokens
  <1>4. all \in Seq(Seq(Rune))
    <2>1. Known(v) \subseteq Seq(Rune)
      BY DEF Known
    <2>. QED BY <1>2, <2>1, SeqMonotonic
  <1>5. PICK m \in 0..Len(all) :
          /\ tokens = SubSeq(all, 1, m) /\ Len(tokens) = m
          /\ m < MaxLen - 2 => m = Len(all)
    <2>1. \E m \in 0..Len(all) :
            /\ Truncate(all) = SubSeq(all, 1, m)
            /\ Len(Truncate(all)) = m
            /\ m < MaxLen - 2 => m = Len(all)
      BY <1>2, TruncateIsFirst
    <2>. QED BY <2>1 DEF tokens
  <1>6. PICK b : /\ Say(SubSeq(all, 1, m), b) /\ b \in Seq(Rune) /\ IsPrefix(b, text)
                 /\ m = Len(all) => b = text
    BY <1>2, <1>4, SayFirst
  <1>7. tokens \in Seq(Known(v)) /\ tokens \in Seq(Seq(Rune))
    <2>1. SubSeq(all, 1, m) \in Seq(Known(v)) /\ SubSeq(all, 1, m) \in Seq(Seq(Rune))
      <3>1. 1..m \subseteq 1..Len(all) /\ 1 \in Int /\ m \in Int
        BY <1>4
      <3>2. (\A i \in 1..m : all[i] \in Known(v)) /\ (\A i \in 1..m : all[i] \in Seq(Rune))
        BY <1>2, <1>4, <3>1
      <3>. QED BY <3>1, <3>2, SubSeqProperties
    <2>. QED BY <1>5, <2>1
  <1>8. \A i \in 1..Len(tokens) : input.ids[i + 1] = tokens[i]
    <2>1. \A i \in 1..Len(tokens) : tokens[i] \in Known(v)
      BY <1>7
    <2>. HIDE DEF input
    <2>. QED BY <1>3, <2>1 DEF Known
  <1>9. FlattenSeq([k \in 1..Len(tokens) |-> Said(tokens[k])]) = b
    BY <1>5, <1>6, <1>7, SayIsFlat
  <1>10. Spelled(input) = FlattenSeq([k \in 1..Len(tokens) |-> Said(tokens[k])])
    <2>. DEFINE Of(token) == IF IsPrefix(Hashes, token)
                             THEN SubSeq(token, Len(Hashes) + 1, Len(token))
                             ELSE token
                lhs == [i \in 1..(input.mask - 2) |-> Of(input.ids[i + 1])]
                rhs == [k \in 1..Len(tokens) |-> Said(tokens[k])]
    <2>1. Spelled(input) = FlattenSeq(lhs)
      BY DEF Spelled
    <2>. HIDE DEF input
    <2>2. input.mask - 2 = Len(tokens)
      BY <1>3
    <2>3. \A i \in 1..Len(tokens) : Of(input.ids[i + 1]) = Said(tokens[i])
      BY <1>8 DEF Said
    <2>4. lhs = rhs
      <3>. HIDE DEF Of
      <3>. QED BY <2>2, <2>3
    <2>. QED BY <2>1, <2>4
  <1>11. Spelled(input) = b
    BY <1>9, <1>10
  <1>12. input.mask < MaxLen => b = text
    <2>1. MaxLen \in Nat
      BY TokenizerAssumption DEF TokenizerAssumption
    <2>. HIDE DEF input
    <2>. QED BY <1>3, <1>5, <1>6, <2>1
  <1>. HIDE DEF input
  <1>13. IsPrefix(Spelled(input), text) /\ (input.mask < MaxLen => Spelled(input) = text)
    BY <1>6, <1>11, <1>12
  <1>. QED BY <1>13 DEF input, text, clean

-----------------------------------------------------------------------------

\* What the steps of ScreeningSpec keep: the trie is the one of the list of words, and
\* a request holds what the scan and the encoding of its text give.
ScreeningInv ==
  /\ words \in WordLists /\ dfaMatcher = Build(words)
  /\ vocab \in Vocabs
  /\ \/ request = NoRequest
     \/ \E t \in Texts, at \in {"scanned", "refused"} :
          request = [at |-> at, text |-> t, hits |-> Match(dfaMatcher, t)]
     \/ \E t \in Texts :
          request = [at |-> "encoded", text |-> t, input |-> Encode(vocab, t)]

\* Every request holds what the scan and the encoding of its text give.
THEOREM ScreeningInvariance == ScreeningSpec => []ScreeningInv
  <1>1. ScreeningInit => ScreeningInv
    BY DEF ScreeningInit, newDFAMatcher, NewBertTokenizerFromFile, ScreeningInv
  <1>2. ScreeningInv /\ [ScreeningNext]_screeningVars => ScreeningInv'
    <2>. SUFFICES ASSUME ScreeningInv, [ScreeningNext]_screeningVars PROVE ScreeningInv'
      OBVIOUS
    <2>1. ASSUME NEW t \in Texts, ScanSensitive(t) PROVE ScreeningInv'
      BY <2>1 DEF ScanSensitive, ScreeningInv
    <2>2. CASE Refuse
      <3>1. PICK t \in Texts, at \in {"scanned", "refused"} :
              request = [at |-> at, text |-> t, hits |-> Match(dfaMatcher, t)]
        BY <2>2 DEF Refuse, ScreeningInv, NoRequest
      <3>2. request' = [at |-> "refused", text |-> t, hits |-> Match(dfaMatcher, t)]
        BY <2>2, <3>1 DEF Refuse
      <3>. QED BY <2>2, <3>2 DEF Refuse, ScreeningInv
    <2>3. CASE Infer
      <3>1. request.text \in Texts
        BY <2>3 DEF Infer, ScreeningInv, NoRequest
      <3>. QED BY <2>3, <3>1 DEF Infer, ScreeningInv
    <2>4. CASE Respond
      BY <2>4 DEF Respond, ScreeningInv
    <2>5. CASE UNCHANGED screeningVars
      BY <2>5 DEF screeningVars, ScreeningInv
    <2>. QED BY <2>1, <2>2, <2>3, <2>4, <2>5 DEF ScreeningNext
  <1>. QED BY <1>1, <1>2, PTL DEF ScreeningSpec

\* The trie of the matcher has no way out of it and none back to its root, and a request
\* under way has a text.
THEOREM ScreeningTypeCorrect == ScreeningSpec => []ScreeningTypeOK
  <1>1. ScreeningInv => ScreeningTypeOK
    <2>. SUFFICES ASSUME ScreeningInv PROVE ScreeningTypeOK
      OBVIOUS
    <2>1. words \in Seq(Seq(Rune)) /\ dfaMatcher = Build(words)
      BY ScreeningAssumption DEF ScreeningInv, ScreeningAssumption
    <2>2. PICK L : Labelled(dfaMatcher, L, WordsOf(words, Len(words)))
      BY <2>1, BuildLabelled
    <2>3. ASSUME NEW n \in DOMAIN dfaMatcher, NEW r \in Rune
          PROVE  dfaMatcher[n].children[r] \in {Nowhere} \cup 2..Len(dfaMatcher)
      <3>. DEFINE child == dfaMatcher[n].children[r]
      <3>1. dfaMatcher \in Seq(Node) /\ Len(dfaMatcher) \in Nat /\ n \in 1..Len(dfaMatcher)
        BY <2>2, LabelledFacts
      <3>2. child \in 0..Len(dfaMatcher) /\ L[n] \in Seq(Rune)
        BY <2>2, <3>1, LabelledFacts
      <3>3. child # Nowhere => L[child] = Append(L[n], r) /\ L[1] = <<>>
        BY <2>2, <3>1 DEF Labelled
      <3>4. child # 1
        <4>. HIDE DEF child
        <4>. QED BY <3>2, <3>3, AppendApart DEF Nowhere
      <3>. HIDE DEF child
      <3>5. child \in {Nowhere} \cup 2..Len(dfaMatcher)
        BY <3>1, <3>2, <3>4 DEF Nowhere
      <3>. QED BY <3>5 DEF child
    <2>4. request.at \in {"idle", "scanned", "refused", "encoded"}
      BY DEF ScreeningInv, NoRequest
    <2>5. request # NoRequest => request.text \in Texts
      BY DEF ScreeningInv
    <2>. QED BY <2>3, <2>4, <2>5 DEF ScreeningInv, ScreeningTypeOK
  <1>. QED BY <1>1, ScreeningInvariance, PTL

\* Whatever the list of words and the text, the scan of a post finds every place where a
\* word of the list stands, nothing else and nothing twice, in the order of the text.
THEOREM ScansFindAll == ScreeningSpec => []HitsAreOccurrences
  <1>1. ScreeningInv => HitsAreOccurrences
    <2>. SUFFICES ASSUME ScreeningInv, request.at \in {"scanned", "refused"}
                  PROVE  LET hits == request.hits
                         IN  /\ {hits[k] : k \in DOMAIN hits} = Occurrences(words, request.text)
                             /\ Len(hits) = Cardinality(Occurrences(words, request.text))
                             /\ \A k \in 2..Len(hits) : hits[k - 1].start <= hits[k].start
      BY DEF HitsAreOccurrences
    <2>1. request.text \in Texts /\ request.hits = Match(Build(words), request.text)
      BY DEF ScreeningInv, NoRequest
    <2>2. words \in Seq(Seq(Rune)) /\ request.text \in Seq(Rune)
      BY <2>1, ScreeningAssumption DEF ScreeningInv, ScreeningAssumption
    <2>. QED BY <2>1, <2>2, MatchIsRight
  <1>. QED BY <1>1, ScreeningInvariance, PTL

\* Whatever the vocabulary and the text, the input of the model has its length, its frame
\* and its padding where they belong.
THEOREM InputsAreFramed == ScreeningSpec => []InputIsFramed
  <1>1. ScreeningInv => InputIsFramed
    <2>. SUFFICES ASSUME ScreeningInv, request.at = "encoded"
                  PROVE  Framed(request.text, request.input.ids, request.input.mask)
      BY DEF InputIsFramed, Framed
    <2>1. request.text \in Texts /\ request.input = Encode(vocab, request.text)
      BY DEF ScreeningInv, NoRequest
    <2>2. request.text \in Seq(Rune)
      BY <2>1, ScreeningAssumption DEF ScreeningAssumption
    <2>. QED BY <2>1, <2>2, EncodeIsFramed
  <1>. QED BY <1>1, ScreeningInvariance, PTL

\* Whatever the text, a vocabulary that can say every rune of it gives an input that says the
\* text, rune by rune and in order, as far as it reaches: what wordPieceTokenize cuts is
\* neither lost nor moved, and only the end is cut off.
THEOREM InputsSpellTexts == ScreeningSpec => []InputSpellsText
  <1>1. ScreeningInv => InputSpellsText
    <2>. SUFFICES ASSUME ScreeningInv, request.at = "encoded" PROVE InputSpellsText
      BY DEF InputSpellsText
    <2>. DEFINE text == Only(CleanText(request.text), Rune \ Space)
    <2>1. request.text \in Texts /\ request.input = Encode(vocab, request.text)
      BY DEF ScreeningInv, NoRequest
    <2>2. request.text \in Seq(Rune)
      BY <2>1, ScreeningAssumption DEF ScreeningAssumption
    <2>3. SUFFICES ASSUME {text[i] : i \in DOMAIN text} \subseteq Sayable(vocab)
                   PROVE  /\ IsPrefix(Spelled(request.input), text)
                          /\ request.input.mask < MaxLen => Spelled(request.input) = text
      BY DEF InputSpellsText, Sayable
    <2>4. \A i \in DOMAIN text : text[i] \in Sayable(vocab)
      BY <2>3
    <2>5. /\ IsPrefix(Spelled(Encode(vocab, request.text)), text)
          /\ Encode(vocab, request.text).mask < MaxLen => Spelled(Encode(vocab, request.text)) = text
      BY <2>2, <2>4, EncodeSays
    <2>. QED BY <2>1, <2>5
  <1>. QED BY <1>1, ScreeningInvariance, PTL
=============================================================================
