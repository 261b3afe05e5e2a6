------------------------------- MODULE MCTask -------------------------------
(* TaskService on one task, three students and two concurrent calls.       *)
EXTENDS TaskService
=============================================================================
