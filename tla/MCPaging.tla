------------------------------ MODULE MCPaging -------------------------------
(* Paging with three rows, read one by one, over a clock of two seconds of two *)
(* ticks.                                                                      *)
EXTENDS Paging
=============================================================================
