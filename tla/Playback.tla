------------------------------ MODULE Playback ------------------------------
(***************************************************************************)
(* The requests that begin a playback, routes/videos.rs: get_stream, for a *)
(* session, and get_stream_manifest with the token of a cast receiver.     *)
(* Both take the cached extraction, look up what its formats lack in the   *)
(* table format_box_ranges, answer with a manifest, and leave what they    *)
(* resolved to a spawned task that stores it, guarded by RangePersistMemo  *)
(* (services/segment_ranges.rs).                                           *)
(*                                                                         *)
(* One video and one child.  The ranges of a format are known by the file  *)
(* they describe: the encode, the itag and the size.                       *)
(***************************************************************************)
EXTENDS DashManifest

CONSTANTS
    Requests,    \* concurrent requests
    Extractions, \* what yt-dlp may return
    Later,       \* those of them that may replace a cached one
    Nothing,     \* no row, no entry, no extraction
    Refills,     \* bound: how often the cached extraction is replaced
    Changes      \* bound: how often a setting changes or the memo overflows

ASSUME LaterAssumption == Later \subseteq Extractions
\* yt-dlp numbers formats that would share an id, and rates are no less than 0.
ASSUME ExtractionsAssumption ==
    \A x \in Extractions :
        /\ x.formats \in Seq(ToSet(x.formats))
        /\ \A f \in ToSet(x.formats) : f.rate \in Nat
        /\ \A f, g \in ToSet(x.formats) : f.id = g.id => f = g
ASSUME BoundsAssumption == Refills \in Nat /\ Changes \in Nat

\* Ids of formats that occur, and the ranges that can be stored for them.
FormatIds == UNION {{f.id : f \in ToSet(x.formats)} : x \in Extractions}
\* format_box_ranges of an extraction; each entry names its encode.
OwnRanges(x) ==
    LET r == ResolveRanges(x.formats, PlayerEntries(x.dump))
    IN [i \in DOMAIN r |-> [encode |-> x.encode, file |-> r[i]]]
RangeSets == {OwnRanges(x) : x \in Extractions}
Ranges == UNION {{s[i] : i \in DOMAIN s} : s \in RangeSets}

\* The entry of a video in the memo; the task of a request.
Entries == [state : {"inflight", "persisted"}, set : RangeSets]
NoTask == [pc |-> "none", set |-> Nothing]
Tasks == [pc : {"writing", "stored"}, set : RangeSets] \cup {NoTask}

ASSUME NothingAssumption == Nothing \notin Entries \cup Extractions

VARIABLES
    cached,   \* the extraction that get_or_extract returns
    rows,     \* format_box_ranges: per format its ranges
    memo,     \* the video's entry of RangePersistMemo
    task,     \* the store_all task that each request spawned
    overlap,  \* history: the last set was begun while another task was at work
    stored,   \* history: the sets that have been committed
    allowed,  \* can_child_view
    castable, \* child_settings.chromecast_enabled
    token,    \* "none", a cast URL has been handed out, it has expired
    request,  \* each request
    refills,  \* replacements so far
    changes   \* changes of settings so far

rangeVars == <<rows, memo, task, overlap, stored>>
ruleVars == <<allowed, castable, token>>
vars == <<cached, rangeVars, ruleVars, request, refills, changes>>

Kinds == {"stream", "cast"}
Idle == [pc |-> "idle", kind |-> "stream", x |-> Nothing, ranges |-> Nothing,
         mayView |-> FALSE, mayCast |-> FALSE]

Init ==
    /\ cached \in Extractions
    /\ rows = [i \in FormatIds |-> Nothing]
    /\ memo = Nothing
    /\ task = [r \in Requests |-> NoTask]
    /\ overlap = FALSE
    /\ stored = {}
    /\ allowed = TRUE
    /\ castable = TRUE
    /\ token = "none"
    /\ request = [r \in Requests |-> Idle]
    /\ refills = 0
    /\ changes = 0

-----------------------------------------------------------------------------
(* RangePersistMemo: claim a set, publish it, forget it.                   *)

\* The set is neither in the database already nor on its way.
Claims(set) == memo = Nothing \/ memo.set # set

\* Mutant: the set counts as persisted before the task has run.
PublishAtOnce(r, set) ==
    IF DOMAIN set # {} /\ Claims(set)
    THEN /\ memo' = [state |-> "persisted", set |-> set]
         /\ task' = [task EXCEPT ![r] = [pc |-> "writing", set |-> set]]
         /\ overlap' = \E q \in Requests : task[q] # NoTask
    ELSE UNCHANGED <<memo, task, overlap>>

\* Tasks of earlier sets may still be writing.
BeginPersist(r, set) ==
    IF DOMAIN set # {} /\ Claims(set)
    THEN /\ memo' = [state |-> "inflight", set |-> set]
         /\ task' = [task EXCEPT ![r] = [pc |-> "writing", set |-> set]]
         /\ overlap' = \E q \in Requests : task[q] # NoTask
    ELSE UNCHANGED <<memo, task, overlap>>

\* store_all commits: one transaction, an upsert per format.
StoreAll(r) ==
    /\ task[r].pc = "writing"
    /\ rows' = [i \in FormatIds |->
                  IF i \in DOMAIN task[r].set THEN task[r].set[i] ELSE rows[i]]
    /\ stored' = stored \cup {task[r].set}
    /\ task' = [task EXCEPT ![r].pc = "stored"]
    /\ UNCHANGED <<cached, memo, overlap, ruleVars, request, refills, changes>>

InFlight(set) == [state |-> "inflight", set |-> set]

\* Nothing happens if a newer set took the entry.
CommitMemo(r) ==
    /\ task[r].pc = "stored"
    /\ memo' = IF memo = InFlight(task[r].set)
               THEN [state |-> "persisted", set |-> task[r].set] ELSE memo
    /\ task' = [task EXCEPT ![r] = NoTask]
    /\ UNCHANGED <<cached, rows, overlap, stored, ruleVars, request, refills, changes>>

\* The transaction fails and is rolled back.
AbortMemo(r) ==
    /\ task[r].pc = "writing"
    /\ memo' = IF memo = InFlight(task[r].set) THEN Nothing ELSE memo
    /\ task' = [task EXCEPT ![r] = NoTask]
    /\ UNCHANGED <<cached, rows, overlap, stored, ruleVars, request, refills, changes>>

\* Another video finds the memo full, MAX_TRACKED_VIDEOS, and clears it.
MemoOverflows ==
    /\ memo # Nothing
    /\ changes < Changes
    /\ memo' = Nothing
    /\ changes' = changes + 1
    /\ UNCHANGED <<cached, rows, task, overlap, stored, ruleVars, request, refills>>

-----------------------------------------------------------------------------
(* A request, from one await to the next.                                  *)

\* The token was minted for this video and child, and is in time.
VerifyCastToken == token = "minted"
\* A cast receiver has no session.
Authenticated(kind) == kind = "cast" => VerifyCastToken

Start(r, kind) ==
    /\ request[r].pc = "idle"
    /\ task[r] = NoTask
    /\ Authenticated(kind)
    /\ request' = [request EXCEPT ![r] = [Idle EXCEPT !.pc = "extract", !.kind = kind,
                                            !.mayView = allowed, !.mayCast = castable]]
    /\ UNCHANGED <<cached, rangeVars, ruleVars, refills, changes>>

GetOrExtract(r) ==
    /\ request[r].pc = "extract"
    /\ request' = [request EXCEPT ![r].x = cached,
                      ![r].pc = IF request[r].kind = "cast" THEN "cast" ELSE "access"]
    /\ UNCHANGED <<cached, rangeVars, ruleVars, refills, changes>>

\* Mutant: the token is trusted.
TrustToken(r) ==
    /\ request[r].pc = "cast"
    /\ request' = [request EXCEPT ![r].pc = "access"]
    /\ UNCHANGED <<cached, rangeVars, ruleVars, refills, changes>>

\* The setting is read again, not only when the token was minted.
CheckCast(r) ==
    /\ request[r].pc = "cast"
    /\ request' = [request EXCEPT ![r] = IF castable THEN [@ EXCEPT !.pc = "access"] ELSE Idle]
    /\ UNCHANGED <<cached, rangeVars, ruleVars, refills, changes>>

EnforceAccess(r) ==
    /\ request[r].pc = "access"
    /\ request' = [request EXCEPT ![r] = IF allowed THEN [@ EXCEPT !.pc = "resolve"] ELSE Idle]
    /\ UNCHANGED <<cached, rangeVars, ruleVars, refills, changes>>

\* Mutant: the table first, then the extraction.
TableFirst(x, table) ==
    LET own == OwnRanges(x)
        found == {f.id : f \in {g \in ToSet(x.formats) : g.direct /\ table[g.id] # Nothing}}
    IN [i \in DOMAIN own \cup found |-> IF i \in found THEN table[i] ELSE own[i]]

\* resolve_segment_ranges: the extraction's own ranges, then the table for
\* the other formats that have a URL.
ResolvedRanges(x, table) ==
    LET own == OwnRanges(x)
        found == {f.id : f \in {g \in ToSet(x.formats) :
                     g.direct /\ g.id \notin DOMAIN own /\ table[g.id] # Nothing}}
    IN [i \in DOMAIN own \cup found |-> IF i \in DOMAIN own THEN own[i] ELSE table[i]]

\* The manifest is answered; a set not seen before is left to a task.
ResolveSegmentRanges(r) ==
    /\ request[r].pc = "resolve"
    /\ BeginPersist(r, OwnRanges(request[r].x))
    /\ request' = [request EXCEPT ![r].ranges = ResolvedRanges(request[r].x, rows),
                                  ![r].pc = "answer"]
    /\ UNCHANGED <<cached, rows, stored, ruleVars, refills, changes>>

BuildCastManifestUrl == "minted"

\* /stream hands out a cast URL as well, if the child may cast.
Answer(r) ==
    /\ request[r].pc = "answer"
    /\ token' = IF request[r].kind = "stream" /\ castable THEN BuildCastManifestUrl ELSE token
    /\ request' = [request EXCEPT ![r] = Idle]
    /\ UNCHANGED <<cached, rangeVars, allowed, castable, refills, changes>>

-----------------------------------------------------------------------------
(* The world: a new extraction, six hours, a parent.                       *)

Reextract ==
    /\ refills < Refills
    /\ \E x \in Later \ {cached} : cached' = x
    /\ refills' = refills + 1
    /\ UNCHANGED <<rangeVars, ruleVars, request, changes>>

TokenExpires ==
    /\ token = "minted"
    /\ token' = "expired"
    /\ UNCHANGED <<cached, rangeVars, allowed, castable, request, refills, changes>>

\* A grant counts for the requests under way; a withdrawal takes no past away.
ParentChanges ==
    /\ changes < Changes
    /\ changes' = changes + 1
    /\ \/ allowed' = ~allowed /\ UNCHANGED castable
       \/ castable' = ~castable /\ UNCHANGED allowed
    /\ request' = [r \in Requests |->
          IF request[r].pc = "idle" THEN Idle
          ELSE [request[r] EXCEPT !.mayView = @ \/ allowed', !.mayCast = @ \/ castable']]
    /\ UNCHANGED <<cached, rangeVars, token, refills>>

Step(r) ==
    \/ \E kind \in Kinds : Start(r, kind)
    \/ GetOrExtract(r) \/ CheckCast(r) \/ EnforceAccess(r)
    \/ ResolveSegmentRanges(r) \/ Answer(r)
    \/ StoreAll(r) \/ CommitMemo(r) \/ AbortMemo(r)

Next ==
    \/ \E r \in Requests : Step(r)
    \/ MemoOverflows \/ Reextract \/ TokenExpires \/ ParentChanges

Spec == Init /\ [][Next]_vars

-----------------------------------------------------------------------------
(* What is expected.                                                       *)

\* The variables have their types; a request holds an extraction exactly
\* while it works on it.
TypeOK ==
    /\ rows \in [FormatIds -> Ranges \cup {Nothing}]
    /\ memo = Nothing \/ memo \in Entries
    /\ task \in [Requests -> Tasks]
    /\ overlap \in BOOLEAN
    /\ stored \subseteq RangeSets
    /\ allowed \in BOOLEAN /\ castable \in BOOLEAN
    /\ token \in {"none", "minted", "expired"}
    /\ refills \in 0 .. Refills /\ changes \in 0 .. Changes
    /\ \A r \in Requests :
         /\ request[r].pc \in {"idle", "extract", "cast", "access", "resolve", "answer"}
         /\ request[r].pc \in {"idle", "extract"} <=> request[r].x = Nothing

\* The manifest that request r answers with.
Answered(r) == SynthesizeManifest(request[r].x.formats, DOMAIN request[r].ranges)
Candidates(r) == UsableFormats(request[r].x.formats, DOMAIN request[r].ranges)

\* Whatever variants an extraction lists and in whatever order, every height
\* and every language that can be played is offered, once per codec family;
\* an audio track is the best of its language up to a kbit/s, and the families
\* agree on the main language (synthesize_manifest, filter before trim).
LadderIsComplete ==
    \A r \in Requests : request[r].pc = "answer" =>
        LET mpd == Answered(r)
            heights(S) == {f.height : f \in S}
            langs(S) == {f.lang : f \in S}
        IN /\ \A c \in VideoFamilies :
                 /\ heights(mpd.video[c]) = heights({f \in Candidates(r) : f.video = c})
                 /\ \A f, g \in mpd.video[c] : f.height = g.height => f = g
           /\ \A c \in AudioFamilies :
                 /\ langs(AudioTracks(mpd, c)) = langs({f \in Candidates(r) : f.audio = c})
                 /\ \A f, g \in AudioTracks(mpd, c) : f.lang = g.lang => f = g
                 /\ \A f \in AudioTracks(mpd, c), g \in Candidates(r) :
                       g.audio = c /\ g.lang = f.lang => g.rate \div 10 <= f.rate \div 10
                 /\ \A d \in AudioFamilies : \A s \in mpd.audio[c], t \in mpd.audio[d] :
                       /\ s.lang = t.lang => s.main = t.main
                       /\ s.main /\ t.main => s.lang = t.lang

\* A representation is never given ranges of another file than its own when
\* the extraction knows them: rows that an older encode left in the table
\* serve only formats the extraction could not resolve.
RangesFitFile ==
    \A r \in Requests : request[r].pc = "answer" =>
        \A f \in Representations(Answered(r)), e \in PlayerEntries(request[r].x.dump) :
            e.itag = f.itag /\ e.size = f.size
                => request[r].ranges[f.id] = [encode |-> request[r].x.encode, file |-> e]

\* What the memo suppresses is in the database, or being written: a set that
\* counts as in flight has its task, one that counts as persisted has been
\* committed, and is what the table holds unless another write overlapped it.
MemoIsHonest ==
    memo # Nothing =>
        /\ memo.state = "inflight" => \E r \in Requests : task[r].set = memo.set
        /\ memo.state = "persisted" =>
              /\ memo.set \in stored
              /\ ~overlap => \A i \in DOMAIN memo.set : rows[i] = memo.set[i]

\* A cast URL outlives neither the permission to watch nor the one to cast: a
\* request that began after a withdrawal, and saw no new grant, gets no
\* manifest however long ago its token was minted.
RevokedStaysRevoked ==
    \A r \in Requests : request[r].pc \in {"resolve", "answer"} =>
        /\ request[r].mayView
        /\ request[r].kind = "cast" => request[r].mayCast

=============================================================================
