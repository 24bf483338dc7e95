------------------------- MODULE MCSegmentEviction -------------------------
(* Instances of SegmentEviction. *)
EXTENDS SegmentEviction, TLC

\* Every chunk has a stripe of its own.
OwnStripe == [c \in Chunks |-> c]

Symmetric == Permutations(Encodes) \cup Permutations(Requests) \cup Permutations(Evictors)
=============================================================================
