---------------------------- MODULE MCModeration ----------------------------
(***************************************************************************)
(* Moderation with three texts: a harmless one the model is sure of, which *)
(* gets the verdict "block", one it knows less about, "review", and one it *)
(* is sure of nothing about, "pass".  Two of them are submitted.           *)
(***************************************************************************)
EXTENDS Moderation, TLC

CONSTANTS calm, vague, odd, safe, suspicious, violating

MCTenths ==
  (calm  :> (safe :> 9 @@ suspicious :> 1 @@ violating :> 0)) @@
  (vague :> (safe :> 6 @@ suspicious :> 2 @@ violating :> 2)) @@
  (odd   :> (safe :> 4 @@ suspicious :> 3 @@ violating :> 3))
=============================================================================
