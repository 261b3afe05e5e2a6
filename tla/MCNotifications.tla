-------------------------- MODULE MCNotifications ---------------------------
(* Notifications with two events of one student and one that tells nobody. *)
EXTENDS Notifications

CONSTANTS liked, ann, sysu

Receivers == [e \in Event |-> IF e = liked THEN Nobody ELSE ann]
Schools   == [e \in Event |-> sysu]
=============================================================================
