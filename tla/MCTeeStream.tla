---------------------------- MODULE MCTeeStream ----------------------------
(* Instances of TeeStream. *)
EXTENDS TeeStream
=============================================================================
