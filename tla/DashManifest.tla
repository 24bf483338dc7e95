---------------------------- MODULE DashManifest ----------------------------
(***************************************************************************)
(* The DASH manifest of a video as services/dash.rs synthesises it from    *)
(* the formats of an extraction, and the byte ranges it gives each of      *)
(* them (services/ytdlp.rs, run_extraction): definitions without state.    *)
(*                                                                         *)
(* A format is a record                                                    *)
(*   id, itag    its format_id, and the itag that begins it                *)
(*   direct      it is no storyboard, has a URL and a protocol we speak    *)
(*   drc         a DRC variant                                             *)
(*   video,audio its codec families, or None                               *)
(*   height      or 0 for unknown                                          *)
(*   rate        tenths of kbit/s, or 0 for unknown                        *)
(*   size        filesize, or 0 for unknown                                *)
(*   lang        languages are numbered in their order; 0 for none         *)
(*   original    its note says "original"                                  *)
(*   pref        language_preference, or 0 for none                        *)
(* XML and URL text are left out.                                          *)
(***************************************************************************)
EXTENDS Integers, Sequences, SequencesExt

None == "none"
VideoFamilies == {"vp9", "avc1"}
AudioFamilies == {"opus", "mp4a"}

-----------------------------------------------------------------------------
(* Which bytes of which file: ranges per format.                           *)

\* What the player dumps tell: adaptive formats with an itag, a length and both
\* ranges.  The ranges are known by the file they describe.
PlayerEntries(dump) ==
    {[itag |-> d.itag, size |-> d.size] : d \in {e \in dump : e.size # 0 /\ e.ranged}}

\* A format takes those of its itag and size, else those of an itag that has
\* only one file.
ResolveRange(f, innertube) ==
    LET exact == {e \in innertube : e.itag = f.itag /\ f.size # 0 /\ e.size = f.size}
        byItag == {e \in innertube : e.itag = f.itag}
    IN IF exact # {} THEN exact
       ELSE IF \E e \in byItag : byItag = {e} THEN byItag ELSE {}

\* format_box_ranges of an extraction, as a function of the ids it covers.
ResolveRanges(formats, innertube) ==
    LET resolved == {f \in ToSet(formats) : ResolveRange(f, innertube) # {}}
    IN [i \in {f.id : f \in resolved} |->
           CHOOSE e \in ResolveRange(CHOOSE f \in resolved : f.id = i, innertube) : TRUE]

-----------------------------------------------------------------------------
(* Which formats: usable, not twice, one per height or language.           *)

\* Those of the formats s that are in S, in their order.
Keeping(s, S) ==
    LET upTo[n \in 0 .. Len(s)] ==
            IF n = 0 THEN <<>>
            ELSE IF s[n] \in S THEN Append(upTo[n - 1], s[n]) ELSE upTo[n - 1]
    IN upTo[Len(s)]

IsVideoOnly(f) == f.video # None /\ f.audio = None
IsAudioOnly(f) == f.audio # None /\ f.video = None

IsDashUsable(f) ==
    /\ f.direct
    /\ ~f.drc
    /\ \/ IsVideoOnly(f) /\ f.height # 0 /\ f.video \in VideoFamilies
       \/ IsAudioOnly(f) /\ f.audio \in AudioFamilies

\* "The same media": codecs, height, whole kbit/s and language agree.
MediaKey(f) == <<f.video, f.audio, f.height, f.rate \div 10, f.lang>>

\* Of the same media the first keeps the place, unless only a later has ranges.
Take(kept, f, ranged) ==
    LET same == {i \in DOMAIN kept : MediaKey(kept[i]) = MediaKey(f)}
    IN IF same = {} THEN Append(kept, f)
       ELSE [i \in DOMAIN kept |->
               IF i \in same /\ f.id \in ranged /\ kept[i].id \notin ranged
               THEN f ELSE kept[i]]

DedupePreferWithRanges(usable, ranged) ==
    LET upTo[n \in 0 .. Len(usable)] ==
            IF n = 0 THEN <<>> ELSE Take(upTo[n - 1], usable[n], ranged)
    IN upTo[Len(usable)]

\* The first of each height.
TrimVideoRepresentations(s) ==
    {s[i] : i \in {k \in DOMAIN s : \A j \in 1 .. k - 1 : s[j].height # s[k].height}}

\* The first of the highest rate of each language.
TrimAudioRepresentations(s) ==
    {s[i] : i \in {k \in DOMAIN s : \A j \in DOMAIN s :
                      s[j].lang = s[k].lang => \/ s[j].rate < s[k].rate
                                               \/ s[j].rate = s[k].rate /\ j >= k}}

\* The first track marked original, opus before mp4a and by language in each,
\* else the first of the highest preference; 0 if nothing tells.
PickMainAudioLang(opus, mp4a) ==
    LET lowest(S) == CHOOSE l \in S : \A m \in S : l <= m
        originals(S) == {f.lang : f \in {g \in S : g.original}}
        graded == {f \in opus \cup mp4a : f.lang # 0 /\ f.pref # 0}
        top == {f \in graded : \A g \in graded : g.pref <= f.pref}
        langs(S) == {f.lang : f \in S}
    IN CASE originals(opus) # {} -> lowest(originals(opus))
         [] originals(opus) = {} /\ originals(mp4a) # {} -> lowest(originals(mp4a))
         [] originals(opus \cup mp4a) = {} /\ top \cap opus # {} -> lowest(langs(top \cap opus))
         [] originals(opus \cup mp4a) = {} /\ top \cap opus = {} /\ top # {} -> lowest(langs(top))
         [] OTHER -> 0

\* The formats of one family that have ranges, one per height or language:
\* those without go before the trim, so that they take no other's place.
TrimVideo(usable, ranged, c) ==
    TrimVideoRepresentations(Keeping(usable,
        {f \in ToSet(usable) : f.video = c /\ f.id \in ranged}))
TrimAudio(usable, ranged, c) ==
    TrimAudioRepresentations(Keeping(usable,
        {f \in ToSet(usable) : f.audio = c /\ f.id \in ranged}))

\* One adaptation set per language.  If the manifest has several languages, of
\* whatever family, the set of the main one carries Role=main.
AudioAdaptationSets(tracks, main, langs) ==
    {[lang |-> l, tracks |-> {f \in tracks : f.lang = l},
      main |-> l # 0 /\ main = l /\ langs # {l}] : l \in {f.lang : f \in tracks}}

\* The formats that can be played, each media once.
Playable(formats, ranged) ==
    DedupePreferWithRanges(Keeping(formats, {f \in ToSet(formats) : IsDashUsable(f)}), ranged)

\* Mutant: the trim comes first, and what has no ranges goes after it.
TrimBeforeFilter(formats, ranged) ==
    LET usable == Playable(formats, ranged)
        Kept(S) == {f \in S : f.id \in ranged}
        Video(c) == Keeping(usable, {f \in ToSet(usable) : f.video = c})
        Audio(c) == Keeping(usable, {f \in ToSet(usable) : f.audio = c})
    IN [video |-> [c \in VideoFamilies |->
                     Kept(TrimVideoRepresentations(Video(c)))],
        audio |-> [c \in AudioFamilies |-> AudioAdaptationSets(
                     Kept(TrimAudioRepresentations(Audio(c))), 0, {})]]

\* The adaptation sets of the manifest, by codec family.
SynthesizeManifest(formats, ranged) ==
    LET usable == Playable(formats, ranged)
        audio == [c \in AudioFamilies |-> TrimAudio(usable, ranged, c)]
        langs == {f.lang : f \in audio["opus"] \cup audio["mp4a"]}
        main == PickMainAudioLang(audio["opus"], audio["mp4a"])
    IN [video |-> [c \in VideoFamilies |-> TrimVideo(usable, ranged, c)],
        audio |-> [c \in AudioFamilies |-> AudioAdaptationSets(audio[c], main, langs)]]

AudioTracks(mpd, c) == UNION {set.tracks : set \in mpd.audio[c]}
Representations(mpd) ==
    (UNION {mpd.video[c] : c \in VideoFamilies})
    \cup (UNION {AudioTracks(mpd, c) : c \in AudioFamilies})

\* What can be played: formats the synthesizer accepts that have ranges.  An
\* extraction that resolved none was SABR-only.
UsableFormats(formats, covered) == {f \in ToSet(formats) : IsDashUsable(f) /\ f.id \in covered}

=============================================================================
