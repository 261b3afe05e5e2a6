------------------------------ MODULE Discovery ------------------------------
(***************************************************************************)
(* One address of one service in etcd (pkg/discovery, the mains under      *)
(* cmd/): the processes that come and go at the address, their leases, the *)
(* one key the address has, and what the gateway's resolver makes of it.   *)
(* Processes share nothing but the port.  etcd may refuse a request, carry *)
(* out one whose answer is lost, and lose sight of a process for longer    *)
(* than its lease lasts.                                                   *)
(***************************************************************************)
CONSTANTS
  Proc,
  Lease,     \* bounds the leases alive and those processes still remember
  NoProc,
  NoLease

ASSUME DiscoveryAssumption ==
  /\ NoProc \notin Proc
  /\ NoLease \notin Lease

VARIABLES
  main,   \* how the service's main treats Register and its cleanup
  at,     \* how far a process has got
  port,   \* the process bound to the address
  lease,  \* leaseID of a process
  alive,  \* the leases of etcd
  key,    \* the lease the endpoint is attached to
  late,   \* a deletion of the key that timed out is still on its way
  seen    \* the gateway's resolver has the address

discoveryVars == <<main, at, port, lease, alive, key, late, seen>>

\* "strict" mains (user, content) end when Register fails, "tolerant" ones (task, file,
\* message) go on without; ai-moderation is strict, and defers the cleanup to its end.
Main  == {"strict", "tolerant", "ai-moderation"}
Phase == {"down", "bound", "granted", "serving", "unlisted", "leaving", "deleted", "revoked"}

DiscoveryTypeOK ==
  /\ main  \in Main
  /\ at    \in [Proc -> Phase]
  /\ port  \in Proc \cup {NoProc}
  /\ lease \in [Proc -> Lease \cup {NoLease}]
  /\ alive \subseteq Lease
  /\ key   \in alive \cup {NoLease}
  /\ late  \in BOOLEAN
  /\ seen  \in BOOLEAN

DiscoveryInit ==
  /\ main \in Main
  /\ at = [p \in Proc |-> "down"]
  /\ port = NoProc
  /\ lease = [p \in Proc |-> NoLease]
  /\ alive = {} /\ key = NoLease
  /\ late = FALSE /\ seen = FALSE

Goes(p, stage) == at' = [at EXCEPT ![p] = stage]

\* A lease nobody has any use for.
Fresh(l) == l \notin alive /\ \A p \in Proc : lease[p] # l

\* A lease no KeepAlive goroutine looks after.
Orphaned(l) == ~\E p \in Proc : at[p] = "serving" /\ lease[p] = l

-----------------------------------------------------------------------------
(* A process starts *)

\* InitEtcd has found etcd, and the address is free.
Listen(p) ==
  /\ at[p] = "down" /\ port = NoProc
  /\ port' = p
  /\ Goes(p, "bound")
  /\ UNCHANGED <<main, lease, alive, key, late, seen>>

Grant(p) ==
  /\ at[p] = "bound"
  /\ \E l \in Lease : /\ Fresh(l)
                      /\ lease' = [lease EXCEPT ![p] = l]
                      /\ alive' = alive \cup {l}
  /\ Goes(p, "granted")
  /\ UNCHANGED <<main, port, key, late, seen>>

\* Mutant: the endpoint is put without WithLease.
AddEndpointForGood(p) ==
  /\ at[p] = "granted" /\ lease[p] \in alive
  /\ key' = NoProc
  /\ Goes(p, "serving")
  /\ UNCHANGED <<main, port, lease, alive, late, seen>>

\* The key is put, whoever's it was, and the KeepAlive goroutine starts.
AddEndpoint(p) ==
  /\ at[p] = "granted" /\ lease[p] \in alive
  /\ key' = lease[p]
  /\ Goes(p, "serving")
  /\ UNCHANGED <<main, port, lease, alive, late, seen>>

\* The end of a process, expected or not: the kernel frees the port.
Ends(p) ==
  /\ Goes(p, "down")
  /\ port' = IF port = p THEN NoProc ELSE port
  /\ lease' = [lease EXCEPT ![p] = NoLease]

\* Grant or AddEndpoint answers with an error, whether or not the key was put.
RegisterFails(p) ==
  /\ at[p] \in {"bound", "granted"}
  /\ \/ key' = key
     \/ at[p] = "granted" /\ lease[p] \in alive /\ key' = lease[p]
  /\ IF main = "tolerant" THEN Goes(p, "unlisted") /\ UNCHANGED <<port, lease>> ELSE Ends(p)
  /\ UNCHANGED <<main, alive, late, seen>>

-----------------------------------------------------------------------------
(* A process stops *)

\* Mutant: every main stops its server first.
StopServerFirst(p) ==
  /\ at[p] = "serving"
  /\ Goes(p, "leaving")
  /\ port' = NoProc
  /\ UNCHANGED <<main, lease, alive, key, late, seen>>

\* The signal: cleanup cancels the KeepAlive.  ai-moderation has stopped its server by
\* then.
Stop(p) ==
  /\ at[p] = "serving"
  /\ Goes(p, "leaving")
  /\ port' = IF main = "ai-moderation" THEN NoProc ELSE port
  /\ UNCHANGED <<main, lease, alive, key, late, seen>>

\* A process Register failed for calls the cleanup it did not get, and panics.
StopUnlisted(p) ==
  /\ at[p] = "unlisted"
  /\ Ends(p)
  /\ UNCHANGED <<main, alive, key, late, seen>>

\* DeleteEndpoint deletes the key of the address, whoever put it, or fails, or times out
\* and is carried out later.
DeleteEndpoint(p) ==
  /\ at[p] = "leaving"
  /\ Goes(p, "deleted")
  /\ \/ key' = NoLease /\ UNCHANGED late
     \/ UNCHANGED <<key, late>>
     \/ late' = TRUE /\ UNCHANGED key
  /\ UNCHANGED <<main, port, lease, alive, seen>>

LateDelete ==
  /\ late
  /\ late' = FALSE
  /\ key' = NoLease
  /\ UNCHANGED <<main, at, port, lease, alive, seen>>

\* Revoke takes what is attached to the lease along, or fails, which nobody minds.
Revoke(p) ==
  /\ at[p] = "deleted"
  /\ Goes(p, "revoked")
  /\ \/ /\ alive' = alive \ {lease[p]}
        /\ key' = IF key = lease[p] THEN NoLease ELSE key
     \/ UNCHANGED <<alive, key>>
  /\ UNCHANGED <<main, port, lease, late, seen>>

\* GracefulStop and the end of main.
Exit(p) ==
  /\ at[p] = "revoked"
  /\ Ends(p)
  /\ UNCHANGED <<main, alive, key, late, seen>>

-----------------------------------------------------------------------------
(* Faults, time and the gateway *)

Crash(p) ==
  /\ at[p] # "down"
  /\ Ends(p)
  /\ UNCHANGED <<main, alive, key, late, seen>>

\* leaseTTL is over: nobody has kept the lease alive, or nobody got through.  The
\* KeepAlive goroutine, if there is one, ends with it, and the process goes on.
Expire(l) ==
  /\ l \in alive
  /\ alive' = alive \ {l}
  /\ key' = IF key = l THEN NoLease ELSE key
  /\ UNCHANGED <<main, at, port, lease, late, seen>>

\* What a resolver is told: the address, as long as it has a key.
Resolved == key # NoLease

\* The resolver in the gateway's connection hears of it.
Watch ==
  /\ seen # Resolved
  /\ seen' = Resolved
  /\ UNCHANGED <<main, at, port, lease, alive, key, late>>

-----------------------------------------------------------------------------
DiscoveryNext ==
  \/ \E p \in Proc : \/ Listen(p) \/ Grant(p) \/ AddEndpoint(p) \/ RegisterFails(p)
                     \/ Stop(p) \/ StopUnlisted(p) \/ DeleteEndpoint(p) \/ Revoke(p)
                     \/ Exit(p) \/ Crash(p)
  \/ \E l \in Lease : Expire(l)
  \/ LateDelete \/ Watch

DiscoverySpec == DiscoveryInit /\ [][DiscoveryNext]_discoveryVars

\* etcd ends a lease nobody keeps alive, and its watches are heard.  Nothing says that a
\* process that is down is started again, or that one that is told to stop gets through.
FairDiscoverySpec ==
  /\ DiscoverySpec
  /\ \A l \in Lease : WF_discoveryVars(Orphaned(l) /\ Expire(l))
  /\ WF_discoveryVars(Watch)

-----------------------------------------------------------------------------
(* Properties *)

\* The key of a process that serves, its lease alive, is taken away by nothing but the
\* process itself and the end of the lease: the cleanup deletes by address, and only the
\* order of Listen, Register, cleanup and GracefulStop keeps it from a successor's key.
\* ai-moderation does not keep that order; and a deletion may come after its timeout.
StaysListed ==
  [][\A p \in Proc :
       /\ at[p] = "serving" /\ at'[p] = "serving"
       /\ key = lease[p] /\ lease[p] \in alive'
       => key' = key \/ main = "ai-moderation" \/ (late /\ ~late')]_discoveryVars

\* An address that nobody is bound to does not stay with the gateway, however its last
\* process came to its end.
GhostLeaves == (seen /\ port = NoProc) ~> (~seen \/ port # NoProc)
=============================================================================
