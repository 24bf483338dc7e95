------------------------------- MODULE MCFeed -------------------------------
(* Instances of Feed. *)
EXTENDS Feed, TLC
=============================================================================
