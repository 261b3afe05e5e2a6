------------------------------ MODULE MCQueue -------------------------------
(* MessageQueue with one message of each kind: one that is handled, one      *)
(* nobody handles and one whose handler always fails.                        *)
EXTENDS MessageQueue
=============================================================================
