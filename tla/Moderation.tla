----------------------------- MODULE Moderation -----------------------------
(***************************************************************************)
(* The judgement of a post by the AI moderation service, when it is        *)
(* created and when it is reviewed again later.                            *)
(*                                                                         *)
(* CreatePost asks before it inserts the row, the consumer of              *)
(* ai.moderation.async_review asks about a published post; both use one    *)
(* client, and so one breaker.  The caller waits 800 ms.  The service may  *)
(* go on with a call nobody waits for.  Without an answer CreatePost       *)
(* publishes the post, and the consumer puts its message back.             *)
(*                                                                         *)
(* While a call runs, moderators and the author change the post.  The      *)
(* other handlers of posts are those of ContentPosts; here they are one    *)
(* action each.  A post keeps the text it was created with: UpdatePost     *)
(* writes another one without asking anybody.  ai_audit_logs is left out:  *)
(* no decision reads it.                                                   *)
(***************************************************************************)
EXTENDS FallbackLoader, Breaker, FiniteSetsExt

CONSTANTS
  Post,
  Class,      \* what the model tells texts apart by
  Safe,       \* the class of harmless texts
  Tenths,     \* [Post -> [Class -> 0..10]]: the probabilities of the classes
  ScanFinds,  \* posts the scans of the scheduler and the finalizer may return: none
              \* as long as these are stubs
  MaxPosts    \* bound: no post is submitted while so many exist or are under way

ASSUME ModerationAssumption ==
  /\ Safe \in Class
  /\ ScanFinds \subseteq Post
  /\ Tenths \in [Post -> [Class -> 0..10]]

VARIABLES
  status,   \* posts.status, "none" before the INSERT
  deleted,  \* posts.deleted_at is set
  queue,    \* posts a message in ai.moderation.async_review names
  client,   \* calls in the content service
  server,   \* calls in the AI moderation service
  basis,    \* the answer the first status of a post comes from (history)
  moderated \* posts a moderator has approved or rejected (history)

rows    == <<status, deleted>>
history == <<basis, moderated>>
vars    == <<loader, circuit, rows, queue, client, server, history>>

-----------------------------------------------------------------------------
(* The answers *)

Result == {"pass", "review", "block"}

Answer == [result : Result, fallback : BOOLEAN]

\* MockLoader.Infer, degradedResponse and callAIModeration without an answer.
Passes == [result |-> "pass", fallback |-> TRUE]

\* maxWithIndex(softmax(logits))
MaxProb(x) == Max({Tenths[x][k] : k \in Class})

DecideResult(p) ==
  IF p >= 9 THEN "block" ELSE IF p >= 5 THEN "review" ELSE "pass"

Verdict(x) == DecideResult(MaxProb(x))

\* Mutant: what is not blocked is published.
DecidePostStatusBlocksOnly(r) == IF r = "block" THEN "rejected" ELSE "published"

DecidePostStatus(r) ==
  CASE r = "pass"   -> "published"
    [] r = "review" -> "pending"
    [] r = "block"  -> "rejected"

-----------------------------------------------------------------------------

Status ==
  {"none", "pending", "published", "rejected", "closed", "taken_down_pending"}

Idle == [stage |-> "idle"]

Waiting == [stage : {"waiting"}, of : {"create", "review"}, post : Post]
Decided == [stage : {"decided"}, of : {"create", "review"}, post : Post, answer : Answer]
Serving == [stage : {"asked", "infer"}, post : Post]
Replied == [stage : {"replied"}, answer : Answer]

RowsOK ==
  /\ status  \in [Post -> Status]
  /\ deleted \in [Post -> BOOLEAN]
  /\ queue   \subseteq Post
  /\ basis   \in [Post -> Answer]
  /\ moderated \subseteq Post

CallsOK ==
  /\ client \in [Call -> {Idle} \cup Waiting \cup Decided]
  /\ server \in [Call -> {Idle} \cup Serving \cup Replied]

TypeOK == LoaderOK /\ BreakerOK /\ RowsOK /\ CallsOK

Init ==
  /\ InitLoader
  /\ InitBreaker
  /\ status  = [x \in Post |-> "none"]
  /\ deleted = [x \in Post |-> FALSE]
  /\ queue   = {}
  /\ client  = [c \in Call |-> Idle]
  /\ server  = [c \in Call |-> Idle]
  /\ basis   = [x \in Post |-> Passes]
  /\ moderated = {}

Shown(x) == status[x] = "published" /\ ~deleted[x]

Works(c, of, x) == client[c] # Idle /\ client[c].of = of /\ client[c].post = x

-----------------------------------------------------------------------------
(* The client: ModerateText, under the breaker                             *)

Asks(c, of, x) ==
  /\ client[c] = Idle
  /\ server[c] = Idle
  /\ Admit(c)
  /\ client' = [client EXCEPT ![c] = [stage |-> "waiting", of |-> of, post |-> x]]
  /\ server' = [server EXCEPT ![c] = [stage |-> "asked", post |-> x]]

Decide(c, of, x, a) ==
  client' = [client EXCEPT ![c] =
    [stage |-> "decided", of |-> of, post |-> x, answer |-> a]]

Return(c) ==
  /\ client[c].stage = "waiting"
  /\ server[c].stage = "replied"
  /\ Succeeds(c)
  /\ Decide(c, client[c].of, client[c].post, server[c].answer)
  /\ server' = [server EXCEPT ![c] = Idle]
  /\ UNCHANGED <<loader, rows, queue, history>>

\* After 800 ms, or at once when the student or the connection is gone.  A request
\* that has not arrived yet may still do so.
TimesOut(c) ==
  /\ client[c].stage = "waiting"
  /\ Fails(c)
  /\ IF client[c].of = "create"
     THEN Decide(c, "create", client[c].post, Passes)
     ELSE client' = [client EXCEPT ![c] = Idle]
  /\ \/ server[c].stage \in {"asked", "infer"} /\ UNCHANGED server
     \/ server[c].stage # "infer" /\ server' = [server EXCEPT ![c] = Idle]
  /\ UNCHANGED <<loader, rows, queue, history>>

-----------------------------------------------------------------------------
(* The service *)

Reply(c, a) ==
  server' = [server EXCEPT ![c] =
    IF client[c].stage = "waiting" THEN [stage |-> "replied", answer |-> a] ELSE Idle]

\* A batch of texts: each is judged like a single one.  No part of the repository asks
\* for batches; whoever does is not one of the clients here.
ModerateBatch(c, x) ==
  /\ client[c] = Idle
  /\ server[c] = Idle
  /\ server' = [server EXCEPT ![c] = [stage |-> "asked", post |-> x]]
  /\ UNCHANGED <<loader, circuit, rows, queue, client, history>>

\* Infer reads whether it is degraded, and asks the model or the mock.
Serve(c) ==
  /\ server[c].stage = "asked"
  /\ \/ AsksModel /\ server' = [server EXCEPT ![c].stage = "infer"]
     \/ ~AsksModel /\ Reply(c, Passes)
  /\ UNCHANGED <<loader, circuit, rows, queue, client, history>>

InferSucceeds(c) ==
  /\ server[c].stage = "infer"
  /\ ~sick
  /\ Reply(c, [result |-> Verdict(server[c].post), fallback |-> FALSE])
  /\ UNCHANGED <<loader, circuit, rows, queue, client, history>>

\* Mutant: the answer of the mock that stands in is not marked.
InferFailsUnmarked(c) ==
  /\ server[c].stage = "infer"
  /\ RecordDegrade
  /\ Reply(c, [result |-> "pass", fallback |-> FALSE])
  /\ UNCHANGED <<circuit, rows, queue, client, history>>

\* A healthy model fails too when the caller has given up before it began.
InferFails(c) ==
  /\ server[c].stage = "infer"
  /\ sick \/ client[c].stage # "waiting"
  /\ RecordDegrade
  /\ Reply(c, Passes)
  /\ UNCHANGED <<circuit, rows, queue, client, history>>

-----------------------------------------------------------------------------
(* CreatePost *)

Begun(x) == status[x] # "none" \/ \E c \in Call : Works(c, "create", x)

New(x) == ~Begun(x) /\ Cardinality({y \in Post : Begun(y)}) < MaxPosts

Submit(c, x) ==
  /\ New(x)
  /\ Asks(c, "create", x)
  /\ UNCHANGED <<loader, rows, queue, history>>

\* The breaker does not let the call through.
SubmitUnasked(c, x) ==
  /\ New(x)
  /\ client[c] = Idle
  /\ server[c] = Idle
  /\ Rejects
  /\ Decide(c, "create", x, Passes)
  /\ UNCHANGED <<loader, circuit, rows, queue, server, history>>

Create(c) ==
  LET x == client[c].post IN
  /\ client[c].stage = "decided"
  /\ client[c].of = "create"
  /\ status' = [status EXCEPT ![x] = DecidePostStatus(client[c].answer.result)]
  /\ basis' = [basis EXCEPT ![x] = client[c].answer]
  /\ client' = [client EXCEPT ![c] = Idle]
  /\ UNCHANGED <<loader, circuit, deleted, queue, server, moderated>>

\* No id, or no INSERT.
CreateFails(c) ==
  /\ client[c].stage = "decided"
  /\ client[c].of = "create"
  /\ client' = [client EXCEPT ![c] = Idle]
  /\ UNCHANGED <<loader, circuit, rows, queue, server, history>>

-----------------------------------------------------------------------------
(* The later review *)

PublishAsyncReviewEvent(x) == queue' = queue \cup {x}

\* scanAndEnqueue; or a message whose acknowledgement was lost.
Enqueue(x) ==
  /\ x \in ScanFinds
  /\ Shown(x)
  /\ PublishAsyncReviewEvent(x)
  /\ UNCHANGED <<loader, circuit, rows, client, server, history>>

\* The consumer handles one message at a time.
Free == \A c \in Call, x \in Post : ~Works(c, "review", x)

\* A breaker that rejects leaves the message where it was.
Review(c, x) ==
  /\ x \in queue
  /\ Free
  /\ Shown(x)
  /\ Asks(c, "review", x)
  /\ UNCHANGED <<loader, rows, queue, history>>

\* A post in another status; or one that GetByID could not read, for whatever reason.
Drop(x) ==
  /\ x \in queue
  /\ Free
  /\ queue' = queue \ {x}
  /\ UNCHANGED <<loader, circuit, rows, client, server, history>>

Judged(c, r) == client[c].stage = "decided" /\ client[c].of = "review" /\ client[c].answer.result \in r

\* UPDATE posts SET status = <to> WHERE id = <x> AND status = <from>, which finds a row.
MoveTo(x, from, to) ==
  /\ status[x] = from
  /\ ~deleted[x]
  /\ status' = [status EXCEPT ![x] = to]

\* Mutant: the UPDATE is by id alone; the status was checked when the message came.
TakeDownAnyStatus(c) ==
  /\ Judged(c, {"block"})
  /\ ~deleted[client[c].post]
  /\ status' = [status EXCEPT ![client[c].post] = "taken_down_pending"]
  /\ client' = [client EXCEPT ![c] = Idle]
  /\ queue' = queue \ {client[c].post}
  /\ UNCHANGED <<loader, circuit, deleted, server, history>>

TakeDown(c) ==
  /\ Judged(c, {"block"})
  /\ MoveTo(client[c].post, "published", "taken_down_pending")
  /\ client' = [client EXCEPT ![c] = Idle]
  /\ queue' = queue \ {client[c].post}
  /\ UNCHANGED <<loader, circuit, deleted, server, history>>

\* The UPDATE finds no such row, or the database no answer: back into the queue.
Requeue(c) ==
  /\ Judged(c, {"block"})
  /\ client' = [client EXCEPT ![c] = Idle]
  /\ UNCHANGED <<loader, circuit, rows, queue, server, history>>

LetStand(c) ==
  /\ Judged(c, {"pass", "review"})
  /\ client' = [client EXCEPT ![c] = Idle]
  /\ queue' = queue \ {client[c].post}
  /\ UNCHANGED <<loader, circuit, rows, server, history>>

\* scanAndFinalize; nobody can appeal.
FinalizeGrace(x) ==
  /\ x \in ScanFinds
  /\ MoveTo(x, "taken_down_pending", "closed")
  /\ UNCHANGED <<loader, circuit, deleted, queue, client, server, history>>

-----------------------------------------------------------------------------
(* The other handlers of posts; processes that stop *)

\* ApprovePost and RejectPost.
ModeratorDecides(x) ==
  /\ \E to \in {"published", "rejected"} : MoveTo(x, "pending", to)
  /\ moderated' = moderated \cup {x}
  /\ UNCHANGED <<loader, circuit, deleted, queue, client, server, basis>>

\* TakedownPost; MarkRetrieved and MarkSold end a publication, too, and "closed" stands
\* for what any of them writes.
OthersClose(x) ==
  /\ MoveTo(x, "published", "closed")
  /\ UNCHANGED <<loader, circuit, deleted, queue, client, server, history>>

Withdraw(x) ==
  /\ status[x] # "none"
  /\ ~deleted[x]
  /\ deleted' = [deleted EXCEPT ![x] = TRUE]
  /\ UNCHANGED <<loader, circuit, status, queue, client, server, history>>

ContentRestarts ==
  /\ client' = [c \in Call |-> Idle]
  /\ server' = [c \in Call |-> IF server[c].stage = "replied" THEN Idle ELSE server[c]]
  /\ breaker' = "closed"
  /\ failures' = 0
  /\ flight' = [c \in Call |-> "none"]
  /\ UNCHANGED <<loader, rows, queue, history>>

ModerationRestarts ==
  /\ LoaderRestarts
  /\ server' = [c \in Call |-> Idle]
  /\ UNCHANGED <<circuit, rows, queue, client, history>>

BreakerAges == NewInterval /\ UNCHANGED <<loader, rows, queue, client, server, history>>

LoaderMoves == (Recover \/ ModelChanges) /\ UNCHANGED <<circuit, rows, queue, client, server, history>>

Next ==
  \/ \E c \in Call :
       \/ Return(c) \/ TimesOut(c)
       \/ Serve(c) \/ InferSucceeds(c) \/ InferFails(c)
       \/ Create(c) \/ CreateFails(c)
       \/ TakeDown(c) \/ Requeue(c) \/ LetStand(c)
  \/ \E x \in Post :
       \/ \E c \in Call :
            \/ Submit(c, x) \/ SubmitUnasked(c, x) \/ Review(c, x)
            \/ ModerateBatch(c, x)
       \/ Enqueue(x) \/ Drop(x) \/ FinalizeGrace(x)
       \/ ModeratorDecides(x) \/ OthersClose(x) \/ Withdraw(x)
  \/ ContentRestarts \/ ModerationRestarts
  \/ BreakerAges \/ LoaderMoves

Spec == Init /\ [][Next]_vars

\* recoveryCheck looks again every five minutes.
Fairness == WF_loader(Recover)

FairSpec == Spec /\ Fairness

-----------------------------------------------------------------------------
(* Properties *)

\* Unless its author was told that the model had no part in it (AiFallbackUsed), a
\* post starts from what the model says of the text it was submitted with: a blocked one
\* stays rejected, a doubtful one waits until a moderator has decided, a harmless one
\* does not wait (CreatePost, post_service.go:71-116), however many other calls failed,
\* came late or were answered by the mock.
ModelHasItsSay ==
  \A x \in Post : status[x] # "none" /\ ~basis[x].fallback =>
    /\ basis[x].result = Verdict(x)
    /\ Verdict(x) = "block"  => status[x] = "rejected"
    /\ Verdict(x) = "review" => status[x] = "pending" \/ x \in moderated
    /\ Verdict(x) = "pass"   => status[x] \notin {"pending", "rejected"}

\* A degraded loader has a goroutine that will bring the model back, and no loader has
\* one for nothing (recordDegrade and recoveryCheck, fallback_loader.go:135-170).
DegradedIsWatched == degraded <=> watching

\* The mock does not answer for ever: while the model stays healthy, calls reach it
\* again in the end.
ModelServesAgain == <>[]~sick => []<>~degraded

\* Posts follow the state machine of PostContract although the later review reads the
\* status before it asks and acts on the answer after it (processAsyncReview).
Contract == INSTANCE PostContract WITH
  withdrawn <- deleted, doc <- [x \in Post |-> "none"]

ContractSpec == Contract!Spec

\* What Infer says it does: "for a Chinese two-class model take the probability of the
\* violating class" (onnx_loader.go:214).  So no text is refused that the model takes
\* for harmless.  Not so: the largest probability of any class decides.
HarmlessIsNotBlocked ==
  \A x \in Post : Tenths[x][Safe] >= 9 /\ ~basis[x].fallback => status[x] # "rejected"
=============================================================================
