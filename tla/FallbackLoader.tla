--------------------------- MODULE FallbackLoader ---------------------------
(***************************************************************************)
(* The loader of the AI moderation service (internal/ai_moderation): the   *)
(* ONNX model, and a mock that passes every text when there is no model or *)
(* it fails.                                                               *)
(*                                                                         *)
(* One failed inference degrades the loader: it asks the mock until a      *)
(* goroutine, which looks at the model every five minutes, finds it        *)
(* healthy again.  A sync.Once guards both the degradation and the start   *)
(* of that goroutine, so that this happens once in the life of a process.  *)
(***************************************************************************)

VARIABLES
  primary,   \* there is an ONNX model: the build has it, and it could be loaded
  sick,      \* its inferences fail
  degraded,  \* FallbackLoader.degraded = 1
  once,      \* degradeOnce has been used
  watching   \* recoveryCheck runs

loader == <<primary, sick, degraded, once, watching>>

LoaderOK ==
  /\ primary  \in BOOLEAN
  /\ sick     \in BOOLEAN
  /\ degraded \in BOOLEAN
  /\ once     \in BOOLEAN
  /\ watching \in BOOLEAN

\* NewFallbackLoaderFromConfig: without a model the mock answers alone.
InitLoader ==
  /\ primary \in BOOLEAN
  /\ sick \in BOOLEAN
  /\ degraded = FALSE
  /\ once = FALSE
  /\ watching = FALSE

LoaderRestarts ==
  /\ primary' \in BOOLEAN
  /\ sick' \in BOOLEAN
  /\ degraded' = FALSE
  /\ once' = FALSE
  /\ watching' = FALSE

\* Infer asks the model, which it decides before the inference.
AsksModel == primary /\ ~degraded

RecordDegrade ==
  IF once
  THEN UNCHANGED loader
  ELSE /\ degraded' = TRUE
       /\ once' = TRUE
       /\ watching' = TRUE
       /\ UNCHANGED <<primary, sick>>

\* Mutant: the goroutine ends with its first look at the model.
RecoverOnce ==
  /\ watching
  /\ degraded
  /\ degraded' = sick
  /\ watching' = FALSE
  /\ UNCHANGED <<primary, sick, once>>

\* The model answers the health check; until it does, recoveryCheck goes on.
Recover ==
  /\ watching
  /\ degraded
  /\ ~sick
  /\ degraded' = FALSE
  /\ watching' = FALSE
  /\ UNCHANGED <<primary, sick, once>>

\* The model, its runtime or its memory.
ModelChanges == sick' = ~sick /\ UNCHANGED <<primary, degraded, once, watching>>
=============================================================================
