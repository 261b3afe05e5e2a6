----------------------------- MODULE MCCounters -----------------------------
(* PostCounters: two students, a comment with up to two replies (or three    *)
(* comments of any other shape), two concurrent handlers.                    *)
EXTENDS PostCounters
=============================================================================
