--------------------------- MODULE MCOfflineStore ---------------------------
(* An instance of OfflineStore: two qualities of one video. *)
EXTENDS OfflineStore, TLC

CONSTANTS i1, i2, vid

OneVideo == i1 :> vid @@ i2 :> vid
=============================================================================
