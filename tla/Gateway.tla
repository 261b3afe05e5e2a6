------------------------------ MODULE Gateway --------------------------------
(***************************************************************************)
(* A request on its way through the gateway: the bucket of its address     *)
(* (RateLimit), whose mutex it keeps until it has been answered, then the  *)
(* middleware of its group and its handler (Routes), and the call of a     *)
(* service, which has no deadline and ends when the service answers, the   *)
(* connection breaks or the client gives up.                               *)
(***************************************************************************)
EXTENDS RateLimit, Routes

CONSTANTS
  Asked,    \* operations clients ask for
  Shown,    \* tokens they show
  Says      \* gRPC codes services and their connections come up with

\* A token is signed for the row of a user (Accounts).
ASSUME GatewayAssumption ==
  /\ Asked \subseteq Op
  /\ Shown \subseteq Token
  /\ \A t \in Shown : t.kind = "valid" => t.who.user # 0
  /\ Says \subseteq GrpcCode

VARIABLE req  \* how far a request has got

vars == <<limits, req>>

At == {"gone", "arrived", "inside", "calling", "answered"}

\* The operation and the caller of a call, and what the service said of it.
Nothing == "none"
Said == [grpc : Says \cup {Nothing}, code : Nat]
Unsaid == [grpc |-> Nothing, code |-> 0]

TypeOK ==
  /\ RateLimitOK
  /\ req \in [Req -> [at : At, op : Op \cup {Nothing}, who : Identity,
                      said : Said, status : Nat]]
  /\ \A r \in Req : req[r].at = "calling" => req[r].op # Nothing

\* The record of a request that is at s.
Stage(s) == [at |-> s, op |-> Nothing, who |-> Guest, said |-> Unsaid, status |-> 0]

Calling(op, who) == [at |-> "calling", op |-> op, who |-> who, said |-> Unsaid, status |-> 0]
Answered(said, status) ==
  [at |-> "answered", op |-> Nothing, who |-> Guest, said |-> said, status |-> status]

Init == InitRateLimit /\ req = [r \in Req |-> Stage("gone")]

-----------------------------------------------------------------------------

Becomes(r, stage) == req' = [req EXCEPT ![r] = stage]
Answer(r, said, status) == Becomes(r, Answered(said, status))

Arrive(r, i) ==
  /\ req[r].at = "gone"
  /\ client' = [client EXCEPT ![r] = i]
  /\ Becomes(r, Stage("arrived"))
  /\ UNCHANGED <<table, tokens, idle, holder, sweeping, todo, doomed, hand, meter, overtaken>>

Enter(r) ==
  /\ req[r].at = "arrived"
  /\ GetBucket(r)
  /\ UNCHANGED req

Pass(r) ==
  /\ req[r].at = "arrived"
  /\ Admit(r)
  /\ Becomes(r, Stage("inside"))

TurnAway(r) ==
  /\ req[r].at = "arrived"
  /\ Refuse(r)
  /\ Answer(r, Unsaid, HTTPStatus(30001))

\* The mutex of the bucket falls to r.
Count(r) == Pass(r) \/ TurnAway(r)

\* A middleware, the handler's context or its look at the parameters ends the request.
Reject(r, op, t) ==
  /\ req[r].at = "inside"
  /\ \E code \in {Turnstile(op, t), AuthCtxWithIDs(op, Caller(op, t)),
                  IF HasInput(op) THEN 40001 ELSE 0} :
       /\ code # 0
       /\ Turnstile(op, t) # 0 => code = Turnstile(op, t)
       /\ Answer(r, Unsaid, HTTPStatus(code))
  /\ Release(r)

\* The identity goes along as metadata and in the fields of the call.
Call(r, op, t) ==
  /\ req[r].at = "inside"
  /\ Turnstile(op, t) = 0
  /\ AuthCtxWithIDs(op, Caller(op, t)) = 0
  /\ Becomes(r, Calling(op, Caller(op, t)))
  /\ UNCHANGED limits

\* The call ends: the service answers, or no instance is there to take it, or the
\* connection breaks, or the client is gone.
Return(r) ==
  /\ req[r].at = "calling"
  /\ \E c \in Says : \E n \in IF c = "OK" THEN CodeOf(req[r].op) ELSE {0} :
       LET said == [grpc |-> c, code |-> n] IN Answer(r, said, Respond(req[r].op, said))
  /\ Release(r)

Leave(r) ==
  /\ req[r].at = "answered"
  /\ Becomes(r, Stage("gone"))
  /\ UNCHANGED limits

Dispatch(r) == \E op \in Asked, t \in Shown : Reject(r, op, t) \/ Call(r, op, t)

-----------------------------------------------------------------------------
Next ==
  \/ \E r \in Req : \/ \E i \in Ip : Arrive(r, i)
                    \/ Enter(r)
                    \/ Count(r)
                    \/ Dispatch(r)
                    \/ Return(r)
                    \/ Leave(r)
  \/ (Wake \/ Sweep \/ TimePasses) /\ UNCHANGED req

Spec == Init /\ [][Next]_vars

\* Goroutines run on, every call ends, and nobody waits for a mutex for ever while
\* others get it again and again: sync.Mutex hands itself over to a waiter that has
\* been starving for a millisecond.
FairSpec ==
  /\ Spec
  /\ \A r \in Req : /\ SF_vars(Enter(r))
                    /\ SF_vars(Count(r))
                    /\ WF_vars(Dispatch(r))
                    /\ WF_vars(Return(r))
  /\ \A i \in Ip : SF_vars(Look(i) /\ UNCHANGED req) /\ WF_vars(Remove(i) /\ UNCHANGED req)
  /\ WF_vars(Sleep /\ UNCHANGED req)

-----------------------------------------------------------------------------
(* Properties *)

\* A service is called for nobody the operation is not for: a write that belongs to
\* a school comes with a user and a school, an admin's with an admin's role.
CallersAreEntitled ==
  \A r \in Req : req[r].at = "calling" => Entitled(req[r].op, req[r].who)

\* A client hears 200 exactly when the service answered that it succeeded, whether a
\* refusal travels as an error or as a code inside the answer (FromGRPC, HTTPStatus and
\* the handlers).  Whether a service is right is not said here: AuditContent answers 0
\* without touching the content (user_service.go:756), and a call that is cut off after
\* its commit is answered with an error.
AnswersAreTrue ==
  \A r \in Req : req[r].at = "answered" =>
    (req[r].status = 200 <=> req[r].said.grpc = "OK" /\ req[r].said.code = 0)

\* Every request is answered, although its mutex is held through calls of services
\* and the sweep waits for it with bucketsMu in its hand.
RequestEnds == \A r \in Req : req[r].at = "arrived" ~> req[r].at = "answered"
=============================================================================
