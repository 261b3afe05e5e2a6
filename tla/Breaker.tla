------------------------------ MODULE Breaker -------------------------------
(***************************************************************************)
(* The circuit breaker of the content service's AI client (pkg/aiclient),  *)
(* a gobreaker with MaxRequests = 1.                                       *)
(*                                                                         *)
(* Every change of its state, and the end of an interval while it is       *)
(* closed, begins a generation; the outcome of a call of an earlier one is *)
(* ignored.  The clock is left out: an interval may end, and the timeout   *)
(* of an open breaker pass, at any time.                                   *)
(***************************************************************************)
EXTENDS Naturals

CONSTANTS
  Call,  \* concurrent calls of ModerateText
  Trip   \* consecutive failures that open the breaker, 5

ASSUME BreakerAssumption == Trip \in Nat \ {0}

VARIABLES
  breaker,   \* state of the gobreaker
  failures,  \* consecutive failures in this generation
  flight     \* whether a call runs, and in which generation it began

circuit == <<breaker, failures, flight>>

BreakerOK ==
  /\ breaker  \in {"closed", "open", "half-open"}
  /\ failures \in 0..(Trip - 1)
  /\ flight   \in [Call -> {"none", "current", "stale"}]

InitBreaker ==
  /\ breaker = "closed"
  /\ failures = 0
  /\ flight = [c \in Call |-> "none"]

Current == {c \in Call : flight[c] = "current"}

\* toNewGeneration
Aged(f) == [c \in Call |-> IF f[c] = "current" THEN "stale" ELSE f[c]]

NewInterval ==
  /\ breaker = "closed"
  /\ failures' = 0
  /\ flight' = Aged(flight)
  /\ UNCHANGED breaker

\* ErrOpenState, ErrTooManyRequests.
Rejects == breaker = "open" \/ (breaker = "half-open" /\ Current # {})

Admit(c) ==
  \/ /\ breaker = "closed" \/ (breaker = "half-open" /\ Current = {})
     /\ flight' = [flight EXCEPT ![c] = "current"]
     /\ UNCHANGED <<breaker, failures>>
  \/ /\ breaker = "open"  \* and its timeout has passed
     /\ breaker' = "half-open"
     /\ failures' = 0
     /\ flight' = [Aged(flight) EXCEPT ![c] = "current"]

\* The call c ends without a word to the counters, or ends the generation with it.
Ends(c, f)      == [f EXCEPT ![c] = "none"]
TurnsTo(s, c)   == breaker' = s /\ failures' = 0 /\ flight' = Ends(c, Aged(flight))
Ignored(c)      == flight[c] = "stale" /\ flight' = Ends(c, flight) /\ UNCHANGED <<breaker, failures>>

Succeeds(c) ==
  \/ Ignored(c)
  \/ /\ flight[c] = "current"
     /\ breaker = "closed"
     /\ failures' = 0
     /\ flight' = Ends(c, flight)
     /\ UNCHANGED breaker
  \/ flight[c] = "current" /\ breaker = "half-open" /\ TurnsTo("closed", c)

Fails(c) ==
  \/ Ignored(c)
  \/ /\ flight[c] = "current"
     /\ breaker = "closed"
     /\ failures + 1 < Trip
     /\ failures' = failures + 1
     /\ flight' = Ends(c, flight)
     /\ UNCHANGED breaker
  \/ flight[c] = "current" /\ breaker = "closed" /\ failures + 1 = Trip /\ TurnsTo("open", c)
  \/ flight[c] = "current" /\ breaker = "half-open" /\ TurnsTo("open", c)
=============================================================================
