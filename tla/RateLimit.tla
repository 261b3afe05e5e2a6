----------------------------- MODULE RateLimit -------------------------------
(***************************************************************************)
(* The token buckets of the gateway (cmd/gateway/middleware/ratelimit.go), *)
(* one per client address.  bucketsMu guards the map, the mutex of a       *)
(* bucket guards its tokens and is held until the request has been served; *)
(* a goroutine sweeps the map for buckets nobody has used for ten minutes, *)
(* holding bucketsMu for the whole sweep and each bucket for one look.     *)
(*                                                                         *)
(* Tokens are whole; the tokens a bucket is owed for the time since it was *)
(* last locked are added when the time passes and not at the next lock.    *)
(* In ten minutes every bucket fills up, and no request takes that long.   *)
(***************************************************************************)
EXTENDS Integers, FiniteSets

CONSTANTS
  Ip,
  Bucket,   \* ipBuckets in memory: bounds those of the map and those still in use
  Burst,    \* Gateway.RateBurst
  Req,      \* goroutines that serve a request: bounds the requests under way
  Nobody,   \* no goroutine
  NoBucket

ASSUME RateLimitAssumption ==
  /\ Ip # {} /\ Req # {}
  /\ Burst \in Nat \ {0}
  /\ Nobody \notin Req
  /\ NoBucket \notin Bucket

VARIABLES
  table,     \* buckets
  tokens,    \* of a bucket
  idle,      \* buckets whose lastSeen is more than ten minutes ago
  holder,    \* who has the mutex of a bucket
  sweeping,  \* cleanupStaleBuckets has bucketsMu
  todo,      \* the addresses it has not looked at yet
  doomed,    \* the address it is about to remove, if any
  hand,      \* the bucket a request has got
  client,    \* ClientIP of a request
  meter,     \* what has been let in of an address, less what time has given back
  overtaken  \* addresses whose bucket was taken from under a request

limits == <<table, tokens, idle, holder, sweeping, todo, doomed, hand, client,
            meter, overtaken>>

RateLimitOK ==
  /\ table     \in [Ip -> Bucket \cup {NoBucket}]
  /\ tokens    \in [Bucket -> 0..Burst]
  /\ idle      \subseteq Bucket
  /\ holder    \in [Bucket -> Req \cup {Nobody}]
  /\ sweeping  \in BOOLEAN
  /\ todo      \subseteq Ip
  /\ doomed    \subseteq Ip
  /\ hand      \in [Req -> Bucket \cup {NoBucket}]
  /\ client    \in [Req -> Ip]
  /\ meter     \in [Ip -> Nat]
  /\ overtaken \subseteq Ip

InitRateLimit ==
  /\ table = [i \in Ip |-> NoBucket]
  /\ tokens = [b \in Bucket |-> Burst]
  /\ idle = {}
  /\ holder = [b \in Bucket |-> Nobody]
  /\ sweeping = FALSE /\ todo = {} /\ doomed = {}
  /\ hand = [r \in Req |-> NoBucket]
  /\ client \in [Req -> Ip]
  /\ meter = [i \in Ip |-> 0]
  /\ overtaken = {}

\* The garbage collector may have b back.
Unused(b) == /\ \A i \in Ip : table[i] # b
             /\ \A r \in Req : hand[r] # b

\* The buckets that count what i does.
BucketsOf(i) == {b \in Bucket : table[i] = b \/ \E r \in Req : client[r] = i /\ hand[r] = b}

-----------------------------------------------------------------------------
(* The middleware *)

\* getBucket finds a bucket, or makes one.
FindBucket(r) ==
  /\ table[client[r]] # NoBucket
  /\ hand' = [hand EXCEPT ![r] = table[client[r]]]
  /\ UNCHANGED <<table, tokens, idle>>

MakeBucket(r) ==
  /\ table[client[r]] = NoBucket
  /\ \E b \in Bucket :
       /\ b = CHOOSE free \in Bucket : Unused(free)
       /\ Unused(b)
       /\ hand' = [hand EXCEPT ![r] = b]
       /\ table' = [table EXCEPT ![client[r]] = b]
       /\ tokens' = [tokens EXCEPT ![b] = Burst]
       /\ idle' = idle \ {b}

\* bucketsMu is free.
GetBucket(r) ==
  /\ ~sweeping /\ hand[r] = NoBucket
  /\ FindBucket(r) \/ MakeBucket(r)
  /\ UNCHANGED <<holder, sweeping, todo, doomed, client, meter, overtaken>>

\* r locks its bucket and counts.
Locks(r) ==
  /\ hand[r] # NoBucket
  /\ holder[hand[r]] = Nobody
  /\ idle' = idle \ {hand[r]}

\* There is a token: the mutex stays locked across c.Next().
Admit(r) ==
  /\ Locks(r)
  /\ tokens[hand[r]] >= 1
  /\ tokens' = [tokens EXCEPT ![hand[r]] = @ - 1]
  /\ holder' = [holder EXCEPT ![hand[r]] = r]
  /\ meter' = [meter EXCEPT ![client[r]] = @ + 1]
  /\ UNCHANGED <<table, sweeping, todo, doomed, hand, client, overtaken>>

\* There is none, and the mutex is free again.
Refuse(r) ==
  /\ Locks(r)
  /\ tokens[hand[r]] < 1
  /\ hand' = [hand EXCEPT ![r] = NoBucket]
  /\ UNCHANGED <<table, tokens, holder, sweeping, todo, doomed, client, meter, overtaken>>

\* Mutant: a bucket that is looked up again when the request has been served.
ReleaseByName(r) ==
  /\ ~sweeping
  /\ holder' = [holder EXCEPT ![hand[r]] = Nobody]
  /\ hand' = [hand EXCEPT ![r] = NoBucket]
  /\ UNCHANGED <<table, tokens, idle, sweeping, todo, doomed, client, meter, overtaken>>

\* The deferred Unlock.
Release(r) ==
  /\ holder' = [holder EXCEPT ![hand[r]] = Nobody]
  /\ hand' = [hand EXCEPT ![r] = NoBucket]
  /\ UNCHANGED <<table, tokens, idle, sweeping, todo, doomed, client, meter, overtaken>>

-----------------------------------------------------------------------------
(* cleanupStaleBuckets *)

Wake ==
  /\ ~sweeping
  /\ sweeping' = TRUE
  /\ todo' = {i \in Ip : table[i] # NoBucket}
  /\ todo' # {}
  /\ UNCHANGED <<table, tokens, idle, holder, doomed, hand, client, meter, overtaken>>

\* Mutant: whoever has no request in the works is removed.
LookAtHolder(i) ==
  /\ i \in todo /\ doomed = {}
  /\ holder[table[i]] = Nobody
  /\ todo' = todo \ {i}
  /\ doomed' = {i}
  /\ overtaken' = overtaken \cup {j \in {i} : \E r \in Req : hand[r] = table[i]}
  /\ UNCHANGED <<table, tokens, idle, holder, sweeping, hand, client, meter>>

\* The mutex of the bucket is taken for a look and given back before the removal.
Look(i) ==
  /\ i \in todo /\ doomed = {}
  /\ holder[table[i]] = Nobody
  /\ todo' = todo \ {i}
  /\ IF table[i] \in idle
     THEN /\ doomed' = {i}
          /\ overtaken' = overtaken \cup {j \in {i} : \E r \in Req : hand[r] = table[i]}
     ELSE UNCHANGED <<doomed, overtaken>>
  /\ UNCHANGED <<table, tokens, idle, holder, sweeping, hand, client, meter>>

Remove(i) ==
  /\ i \in doomed
  /\ table' = [table EXCEPT ![i] = NoBucket]
  /\ doomed' = {}
  /\ UNCHANGED <<tokens, idle, holder, sweeping, todo, hand, client, meter, overtaken>>

Sleep ==
  /\ sweeping /\ todo = {} /\ doomed = {}
  /\ sweeping' = FALSE
  /\ UNCHANGED <<table, tokens, idle, holder, todo, doomed, hand, client, meter, overtaken>>

Sweep == Sleep \/ \E i \in Ip : Look(i) \/ Remove(i)

-----------------------------------------------------------------------------
(* Time *)

\* Time for one token, which a full bucket has no use for.
Refill(i) ==
  /\ meter[i] > 0
  /\ tokens' = [b \in Bucket |-> IF b \in BucketsOf(i) /\ tokens[b] < Burst
                                 THEN tokens[b] + 1 ELSE tokens[b]]
  /\ meter' = [meter EXCEPT ![i] = @ - 1]
  /\ UNCHANGED <<table, idle, holder, sweeping, todo, doomed, hand, client, overtaken>>

\* Ten minutes without a request of i.
FallsIdle(i) ==
  /\ ~sweeping
  /\ table[i] # NoBucket /\ table[i] \notin idle
  /\ \A r \in Req : client[r] = i => hand[r] = NoBucket
  /\ tokens' = [tokens EXCEPT ![table[i]] = Burst]
  /\ idle' = idle \cup {table[i]}
  /\ meter' = [meter EXCEPT ![i] = 0]
  /\ overtaken' = overtaken \ {i}
  /\ UNCHANGED <<table, holder, sweeping, todo, doomed, hand, client>>

TimePasses == \E i \in Ip : Refill(i) \/ FallsIdle(i)

-----------------------------------------------------------------------------
(* Properties *)

\* The limit as a meter that every request raises by one and time lowers: it
\* stays within the burst, whatever the sweep removes, unless the sweep took a
\* bucket that a request had got and not locked yet.
BurstIsKept == \A i \in Ip : meter[i] > Burst => i \in overtaken
=============================================================================
