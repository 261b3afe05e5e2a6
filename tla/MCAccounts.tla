----------------------------- MODULE MCAccounts ------------------------------
(* Accounts with one user, who may become an admin, and two calls at a time. *)
EXTENDS Accounts
=============================================================================
