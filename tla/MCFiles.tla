------------------------------ MODULE MCFiles -------------------------------
(* Files with one content, two students and two uploads at a time. *)
EXTENDS Files
=============================================================================
