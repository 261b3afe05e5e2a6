----------------------------- MODULE PostCache ------------------------------
(***************************************************************************)
(* The content service and its search index composed with the Redis copies *)
(* of its posts (cmd/content/database/post_cache.go over pkg/cache).       *)
(* GetPost reads through the cache; some handlers drop the entry after     *)
(* their UPDATE, others (ApprovePost, RejectPost, TakedownPost) leave it   *)
(* to its TTL.                                                             *)
(***************************************************************************)
EXTENDS SearchIndex

VARIABLES
  cache,  \* status in the Redis entry of a post, "none" without one
  load    \* the singleflight call of a post: "idle", "query", or what it has read

redis   == <<cache, load>>
allVars == <<vars, redis>>

CacheTypeOK ==
  /\ cache \in [Post -> Status]
  /\ load  \in [Post -> Status \cup {"idle", "query"}]

CacheInit ==
  /\ IndexInit
  /\ cache = [p \in Post |-> "none"]
  /\ load  = [p \in Post |-> "idle"]

\* singleflight: a call for the post, if there is none; the others wait for it.
Do(p) ==
  /\ load[p] = "idle"
  /\ load' = [load EXCEPT ![p] = "query"]

\* GetPost misses the entry, however long ago that was.
GetMiss(p) ==
  /\ Do(p)
  /\ UNCHANGED <<vars, cache>>

GetQuery(p) ==
  /\ load[p] = "query"
  /\ load' = [load EXCEPT ![p] = IF Visible(p) THEN status[p] ELSE "idle"]
  /\ UNCHANGED <<vars, cache>>

\* The error of the SET is dropped.
GetFill(p) ==
  /\ load[p] \in Status
  /\ cache' \in {cache, [cache EXCEPT ![p] = load[p]]}
  /\ load' = [load EXCEPT ![p] = "idle"]
  /\ UNCHANGED vars

CacheExpire(p) ==
  /\ cache[p] # "none"
  /\ cache' = [cache EXCEPT ![p] = "none"]
  /\ UNCHANGED <<vars, load>>

\* InvalidatePostCache after a write.  A DEL that fails is a step of SearchIndex
\* alone.
DropEntry(c) ==
  /\ BringAbout(c, "cache")
  /\ cache' = [cache EXCEPT ![NextEffect(c).post] = "none"]
  /\ UNCHANGED <<contentEvents, reading, subscribed, doc, load>>

RestartAll ==
  /\ Restart
  /\ load' = [p \in Post |-> "idle"]
  /\ UNCHANGED cache

CacheNext ==
  \/ Step /\ UNCHANGED redis
  \/ RestartAll
  \/ \E c \in Call : DropEntry(c)
  \/ \E p \in Post : GetMiss(p) \/ GetQuery(p) \/ GetFill(p) \/ CacheExpire(p)

CacheSpec == CacheInit /\ [][CacheNext]_allVars

FairCacheSpec == CacheSpec /\ Fairness

-----------------------------------------------------------------------------
(* Properties *)

\* From s, the handlers may lead a post to r.
Earlier(s, r) ==
  \/ s = r
  \/ s = "pending" /\ r \in {"published", "rejected", "closed", "retrieved", "sold"}
  \/ s = "published" /\ r \in {"closed", "retrieved", "sold"}

\* An entry of the cache, or a row about to become one, may be old but is never
\* ahead of the row: GetPost shows no post in a status it has not had.
CacheBehindRow ==
  \A p \in Post :
    /\ cache[p] # "none" => Earlier(cache[p], status[p])
    /\ load[p] \in Status => Earlier(load[p], status[p])
=============================================================================
