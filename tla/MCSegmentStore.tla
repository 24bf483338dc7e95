--------------------------- MODULE MCSegmentStore ---------------------------
(* Instances of SegmentStore for TLC. *)
EXTENDS SegmentStore, TLC

\* Both chunks hash to the same stripe, or each to its own.
SharedStripe == [c \in Chunks |-> CHOOSE s \in Stripes : TRUE]
OwnStripe == [c \in Chunks |-> c]

Symmetric == Permutations(Requests) \cup Permutations(Encodes)
=============================================================================
