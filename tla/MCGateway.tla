------------------------------ MODULE MCGateway ------------------------------
(* Gateway with two requests of one address, and one operation of each kind. *)
EXTENDS Gateway

AskedOps == {"WxLogin", "ListPosts", "CreateTask", "MarkRead", "AdminSetUserRole"}

Who(u, r, s) == [user |-> u, role |-> r, school |-> s]
ShownTokens ==
  {[kind |-> "missing", who |-> Guest], [kind |-> "expired", who |-> Who(1, 1, 1)],
   [kind |-> "valid", who |-> Who(1, 1, 0)], [kind |-> "valid", who |-> Who(1, 1, 1)],
   [kind |-> "valid", who |-> Who(2, 3, 0)]}
=============================================================================
