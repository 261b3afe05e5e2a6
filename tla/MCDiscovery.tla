----------------------------- MODULE MCDiscovery -----------------------------
(* Discovery with a process, its successor and the successor's successor. *)
EXTENDS Discovery
=============================================================================
