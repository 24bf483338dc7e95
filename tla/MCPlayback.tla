----------------------------- MODULE MCPlayback -----------------------------
(***************************************************************************)
(* Instances of Playback: two small extractions, for the interleavings of  *)
(* requests, tasks and settings; and every arrangement of three formats of *)
(* a pool, one of the first two unresolved or none, for the manifest.      *)
(***************************************************************************)
EXTENDS Playback

CONSTANT Single  \* the request that is made of an arrangement

Video(id, itag, codec, height, rate) ==
    [id |-> id, itag |-> itag, direct |-> TRUE, drc |-> FALSE, video |-> codec, audio |-> None,
     height |-> height, rate |-> rate, size |-> id, lang |-> 0, original |-> FALSE, pref |-> 0]
Audio(id, itag, codec, rate, lang) ==
    [id |-> id, itag |-> itag, direct |-> TRUE, drc |-> FALSE, video |-> None, audio |-> codec,
     height |-> 0, rate |-> rate, size |-> id, lang |-> lang, original |-> lang = 1, pref |-> lang]

Pool == {
    Video(1, 248, "vp9", 1080, 26003),
    Video(2, 248, "vp9", 1080, 26008),     \* the same media by another protocol
    Video(3, 303, "vp9", 1080, 44000),     \* 60 fps
    Video(5, 136, "avc1", 720, 15000),
    Audio(6, 249, "opus", 500, 1),
    Audio(7, 251, "opus", 1292, 1),
    Audio(8, 251, "opus", 1298, 1),        \* the same media by another protocol
    Audio(9, 251, "opus", 1290, 2),        \* a dub
    Audio(10, 140, "mp4a", 1290, 1),
    [Audio(11, 251, "opus", 1400, 1) EXCEPT !.drc = TRUE]}

Entry(f, covered) == [itag |-> f.itag, size |-> f.size, ranged |-> f \in covered]
Extraction(encode, s, covered) ==
    [encode |-> encode, formats |-> s, dump |-> {Entry(f, covered) : f \in ToSet(s)}]

Arrangements == {s \in [1 .. 3 -> Pool] : s[1] # s[2] /\ s[1] # s[3] /\ s[2] # s[3]}
Arranged == {Extraction(1, s, {s[i] : i \in (1 .. 3) \ {k}}) : s \in Arrangements, k \in 0 .. 2}

\* Two encodes; the player dump of the second lists the ranges of one format.
V == CHOOSE f \in Pool : f.id = 5
A == CHOOSE f \in Pool : f.id = 7
MCLater == {Extraction(1, <<V, A>>, {V, A}), Extraction(2, <<V, A>>, {V})}
MCExtractions == MCLater \cup Arranged

\* One request for an arrangement; around the two, anything may happen.
MCNext ==
    \/ cached \in MCLater /\ Next
    \/ cached \in Arranged /\ Step(Single)
MCSpec == Init /\ [][MCNext]_vars

=============================================================================
