----------------------------- MODULE Snowflake ------------------------------
(***************************************************************************)
(* pkg/snowflake: the generator of ids that every service holds one of, in *)
(* the memory of its process.                                              *)
(*                                                                         *)
(* An id is a time and a sequence number: the two machine fields between   *)
(* them are the same for all ids of a process, and the packed bits compare *)
(* like the pair.  NextID runs under a mutex, so a call is one action,     *)
(* except that a call which has used up the numbers of its millisecond     *)
(* keeps the mutex and reads the clock until it shows a later one.         *)
(*                                                                         *)
(* The clock is the wall clock of the machine: it goes on, and it may be   *)
(* set back.  A process that starts knows nothing of the ids of the one    *)
(* before it.                                                              *)
(***************************************************************************)
EXTENDS Integers

CONSTANTS
  MaxSequence,  \* maxSequence, the last number of a millisecond
  MaxClock,     \* bound: the time at which the clock stops
  MaxSetBacks   \* bound: how often the clock is set back

ASSUME SnowflakeAssumption ==
  MaxSequence \in Nat /\ MaxClock \in Nat /\ MaxClock > 0 /\ MaxSetBacks \in Nat

VARIABLES
  clock,      \* time.Now() in milliseconds since baseTime
  setBacks,   \* how often the clock has been set back
  lastTime,   \* Snowflake.lastTime
  sequence,   \* Snowflake.sequence
  spinning,   \* a call waits for the next millisecond, with the mutex
  latest      \* the id issued last in this life of the process (history)

generator == <<lastTime, sequence, spinning, latest>>
timing    == <<clock, setBacks>>

Id == [time : 0..MaxClock, seq : 0..MaxSequence]

\* No id has this value: the clock is past baseTime.
NoId == [time |-> 0, seq |-> 0]

Precedes(i, j) == i.time < j.time \/ (i.time = j.time /\ i.seq < j.seq)

GeneratorOK ==
  /\ clock    \in 1..MaxClock
  /\ setBacks \in 0..MaxSetBacks
  /\ lastTime \in 0..MaxClock
  /\ sequence \in 0..MaxSequence
  /\ spinning \in BOOLEAN
  /\ latest   \in Id

GeneratorInit ==
  /\ clock = 1
  /\ setBacks = 0
  /\ lastTime = 0
  /\ sequence = 0
  /\ spinning = FALSE
  /\ latest = NoId

-----------------------------------------------------------------------------

\* ErrClockMovedBackwards.  A call that spins has passed the comparison.
IsBackwards == ~spinning /\ clock < lastTime

\* Mutant: the sequence wraps and the call does not wait.
MayIssueAtOnce(seq) ==
  seq = IF clock = lastTime THEN (sequence + 1) % (MaxSequence + 1) ELSE 0

\* The number NextID gives out at once, or after it has waited.
MayIssue(seq) ==
  \/ clock = lastTime /\ ~spinning /\ sequence < MaxSequence /\ seq = sequence + 1
  \/ clock # lastTime /\ (spinning => clock > lastTime) /\ seq = 0

\* NextID answers with an id, which is latest'.
Issue ==
  /\ ~IsBackwards
  /\ \E seq \in 0..MaxSequence :
       /\ MayIssue(seq)
       /\ lastTime' = clock
       /\ sequence' = seq
       /\ spinning' = FALSE
       /\ latest' = [time |-> clock, seq |-> seq]
  /\ UNCHANGED timing

\* NextID finds the numbers of this millisecond used up.
Overflow ==
  /\ ~spinning
  /\ clock = lastTime
  /\ sequence = MaxSequence
  /\ sequence' = 0
  /\ spinning' = TRUE
  /\ UNCHANGED <<lastTime, latest, timing>>

\* init(): a generator with nothing in it.
Forget ==
  /\ lastTime' = 0
  /\ sequence' = 0
  /\ spinning' = FALSE
  /\ latest' = NoId
  /\ UNCHANGED timing

Tick ==
  /\ clock < MaxClock
  /\ clock' = clock + 1
  /\ UNCHANGED <<setBacks, generator>>

SetBack ==
  /\ setBacks < MaxSetBacks
  /\ clock' \in 1..(clock - 1)
  /\ setBacks' = setBacks + 1
  /\ UNCHANGED generator

\* A call waits for the clock, or the next one will fail because of it.
Behind == spinning \/ clock < lastTime

-----------------------------------------------------------------------------

\* The ids of one life of a process grow, whatever the clock does and however
\* many are asked for in a millisecond (NextID, snowflake.go:58).
IdsGrow == [][latest' \in {latest, NoId} \/ Precedes(latest, latest')]_generator
=============================================================================
