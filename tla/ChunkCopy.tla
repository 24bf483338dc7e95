----------------------------- MODULE ChunkCopy -----------------------------
(***************************************************************************)
(* What the tee promises the chunk cache: a stream copies whole chunks of  *)
(* the upstream file, each at most once and in ascending order; it may     *)
(* leave out any of them.  SegmentStore's requests write chunks this way.  *)
(***************************************************************************)
EXTENDS Naturals

CONSTANTS
    Chunks,   \* the chunk numbers of the file
    Copy(_),  \* the bytes of a chunk
    None      \* no copy

VARIABLES
    chunks,   \* the copies made
    frontier  \* every chunk below has been copied or left out

Init == chunks = [n \in Chunks |-> None] /\ frontier = 0

LeaveOut(n) == frontier' = n + 1 /\ UNCHANGED chunks

Write(n) == frontier' = n + 1 /\ chunks' = [chunks EXCEPT ![n] = Copy(n)]

Next == \E n \in Chunks : n >= frontier /\ (LeaveOut(n) \/ Write(n))

Spec == Init /\ [][Next]_<<chunks, frontier>>
=============================================================================
