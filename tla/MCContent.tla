----------------------------- MODULE MCContent ------------------------------
(* The content service with its search index and cache: one post, three      *)
(* concurrent handlers, so that a review can overtake the events of another. *)
EXTENDS PostCache
=============================================================================
