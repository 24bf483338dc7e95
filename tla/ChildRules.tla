----------------------------- MODULE ChildRules -----------------------------
(***************************************************************************)
(* What a child may see: the rules its parents keep, what it keeps itself, *)
(* and every page and gate that asks them (services/access.rs,             *)
(* routes/allowlist.rs, blocked.rs, child_settings.rs, hidden.rs,          *)
(* likes.rs, subscriptions.rs, feed.rs, search.rs, channels.rs,            *)
(* downloads.rs).                                                          *)
(*                                                                         *)
(* A gate asks one table after another, a statement each, in no            *)
(* transaction: the rules may change between two answers.                  *)
(***************************************************************************)
EXTENDS Notices

CONSTANTS
    Kid,          \* the child
    Videos,
    Channels,     \* in the order of MAX(channel_id)
    TrueChannel,  \* the channel an extraction finds for a video
    Uploads       \* what the channels list: pairs of a channel and a video

ASSUME KidAssumption == Kid \in Accounts
ASSUME ChannelAssumption ==
    Channels \subseteq Nat /\ {Nobody, Unborn} \cap Channels = {} /\ Unborn # Nobody
ASSUME LargestAssumption == \A cs \in SUBSET Channels \ {{}} : \E c \in cs : \A d \in cs : d <= c
ASSUME TrueChannelAssumption == TrueChannel \in [Videos -> Channels]
ASSUME UploadsAssumption == Uploads \subseteq Channels \X Videos

VARIABLES
    blocked,     \* blocked_videos: who blocked it
    direct,      \* allowlisted_videos: who added it
    granted,     \* allowlisted_channels: who added it
    hidden,      \* hidden_videos
    liked,       \* video_likes
    subscribed,  \* child_subscriptions
    settings,    \* child_settings: downloads_enabled
    archive,     \* channel_videos: channels and their live uploads
    channelOf,   \* videos: channel_id; Unborn, no row
    watched,     \* watch_history
    downloads,   \* offline_downloads, of one quality
    searched     \* search_log, of one query: there is a row

parentRules == <<blocked, direct, granted, settings, archive>>
ownRules == <<hidden, liked, subscribed>>
ruleVars == <<parentRules, ownRules, channelOf, watched, downloads, searched>>

\* The accounts that rows of these tables name.
KidHasRows ==
    \/ \E v \in Videos : \/ blocked[v] # Nobody \/ direct[v] # Nobody \/ liked[v] # "none"
                         \/ watched[v] # "none" \/ downloads[v] # "none"
    \/ \E c \in Channels : granted[c] # Nobody \/ subscribed[c] # "none"
    \/ settings # "unset" \/ searched
Named == {blocked[v] : v \in Videos} \cup {direct[v] : v \in Videos}
         \cup {granted[c] : c \in Channels} \cup {a \in {Kid} : KidHasRows}

\* videos::upsert keeps the channel it knows when it is given none.
Seed(v, c) == [channelOf EXCEPT ![v] = IF c # Nobody THEN c
                                       ELSE IF @ = Unborn THEN Nobody ELSE @]

-----------------------------------------------------------------------------
(* The parents' rules.                                                     *)

ParentOps == {"block", "unblock", "allowVideo", "dropVideo", "allowChannel", "dropChannel",
              "switchDownloads"}

BeginRule(r, b, op, on, as) ==
    /\ op \in ParentOps
    /\ Begins(r, b, [New EXCEPT !.op = op, !.on = on, !.as = as, !.pc = "requireChild"], "parent")
    /\ UNCHANGED ruleVars

RequireChild(r) ==
    /\ At(r, "requireChild")
    /\ Reads(r, IF IsChildAccount(Kid) THEN [request[r] EXCEPT !.pc = request[r].op] ELSE Done)
    /\ UNCHANGED <<accountVars, ruleVars>>

\* A row that names an account that is gone is refused, and undoes its transaction.
Holds(r) == Kid \in Existing /\ request[r].me \in Existing

AddBlocked(r) ==
    LET v == request[r].on
    IN /\ At(r, "block")
       /\ IF Holds(r)
          THEN /\ blocked' = [blocked EXCEPT ![v] = IF @ = Nobody THEN request[r].me ELSE @]
               /\ channelOf' = Seed(v, Nobody)
          ELSE UNCHANGED <<blocked, channelOf>>
       /\ Commits(r, Done)
       /\ UNCHANGED <<accountVars, direct, granted, settings, archive, ownRules, watched, downloads, searched>>

DeleteBlocked(r) ==
    /\ At(r, "unblock")
    /\ blocked' = [blocked EXCEPT ![request[r].on] = Nobody]
    /\ Commits(r, Done)
    /\ UNCHANGED <<accountVars, direct, granted, settings, archive, ownRules, channelOf, watched,
                   downloads, searched>>

\* The sidecar may or may not know the video's channel.
AddVideo(r) ==
    LET v == request[r].on
    IN /\ At(r, "allowVideo")
       /\ IF Holds(r)
          THEN /\ direct' = [direct EXCEPT ![v] = IF @ = Nobody THEN request[r].me ELSE @]
               /\ \E c \in {Nobody, TrueChannel[v]} : channelOf' = Seed(v, c)
          ELSE UNCHANGED <<direct, channelOf>>
       /\ Commits(r, Done)
       /\ UNCHANGED <<accountVars, blocked, granted, settings, archive, ownRules, watched, downloads, searched>>

DeleteVideo(r) ==
    /\ At(r, "dropVideo")
    /\ direct' = [direct EXCEPT ![request[r].on] = Nobody]
    /\ Commits(r, Done)
    /\ UNCHANGED <<accountVars, blocked, granted, settings, archive, ownRules, channelOf, watched,
                   downloads, searched>>

AddChannel(r) ==
    LET c == request[r].on
    IN /\ At(r, "allowChannel")
       /\ granted' = IF Holds(r)
                     THEN [granted EXCEPT ![c] = IF @ = Nobody THEN request[r].me ELSE @]
                     ELSE granted
       /\ Commits(r, Done)
       /\ UNCHANGED <<accountVars, blocked, direct, settings, archive, ownRules, channelOf, watched,
                      downloads, searched>>

\* A channel nobody has allowlisted any more loses its archive.
DeleteChannel(r) ==
    LET c == request[r].on
    IN /\ At(r, "dropChannel")
       /\ granted' = [granted EXCEPT ![c] = Nobody]
       /\ archive' = {row \in archive : row[1] # c}
       /\ Commits(r, Done)
       /\ UNCHANGED <<accountVars, blocked, direct, settings, ownRules, channelOf, watched, downloads, searched>>

EnsureSettingsRow(r) ==
    /\ At(r, "switchDownloads")
    /\ settings' = IF settings = "unset" /\ Kid \in Existing THEN "off" ELSE settings
    /\ Commits(r, IF Kid \in Existing THEN [request[r] EXCEPT !.pc = "update settings"] ELSE Done)
    /\ UNCHANGED <<accountVars, blocked, direct, granted, archive, ownRules, channelOf, watched,
                   downloads, searched>>

UpdateSettings(r) ==
    /\ At(r, "update settings")
    /\ settings' = IF settings = "unset" THEN settings ELSE request[r].as
    /\ Commits(r, Done)
    /\ UNCHANGED <<accountVars, blocked, direct, granted, archive, ownRules, channelOf, watched,
                   downloads, searched>>

-----------------------------------------------------------------------------
(* The child's own marks: one transaction each.                            *)

OwnOps == {"hide", "unhide", "like", "unlike", "subscribe", "unsubscribe"}

\* `as` says whether the player tells the video's channel.
BeginMark(r, b, op, on, as) ==
    /\ op \in OwnOps
    /\ Begins(r, b, [New EXCEPT !.op = op, !.on = on, !.as = as, !.pc = op], "child")
    /\ request'[r].me = Kid
    /\ UNCHANGED ruleVars

TellsChannel(r) == IF request[r].as = "told" THEN TrueChannel[request[r].on] ELSE Nobody

\* Hidden rows go with the child; the rows of the other tables keep it.
Hide(r) ==
    LET v == request[r].on
        holds == At(r, "hide") /\ Kid \in Existing
    IN /\ request[r].pc \in {"hide", "unhide"}
       /\ hidden' = IF At(r, "unhide") THEN hidden \ {v} ELSE IF holds THEN hidden \cup {v} ELSE hidden
       /\ channelOf' = IF holds THEN Seed(v, TellsChannel(r)) ELSE channelOf
       /\ Commits(r, Done)
       /\ UNCHANGED <<accountVars, parentRules, liked, subscribed, watched, downloads, searched>>

\* A like taken back leaves a tombstone.
Like(r) ==
    LET v == request[r].on
        holds == At(r, "like") /\ Kid \in Existing
    IN /\ request[r].pc \in {"like", "unlike"}
       /\ liked' = IF holds THEN [liked EXCEPT ![v] = "live"]
                   ELSE IF At(r, "unlike") /\ liked[v] # "none" THEN [liked EXCEPT ![v] = "deleted"]
                   ELSE liked
       /\ channelOf' = IF holds THEN Seed(v, TellsChannel(r)) ELSE channelOf
       /\ Commits(r, Done)
       /\ UNCHANGED <<accountVars, parentRules, hidden, subscribed, watched, downloads, searched>>

Subscribe(r) ==
    LET c == request[r].on
    IN /\ request[r].pc \in {"subscribe", "unsubscribe"}
       /\ subscribed' = IF At(r, "subscribe") /\ Kid \in Existing
                        THEN [subscribed EXCEPT ![c] = "live"]
                        ELSE IF At(r, "unsubscribe") /\ subscribed[c] # "none"
                        THEN [subscribed EXCEPT ![c] = "deleted"]
                        ELSE subscribed
       /\ Commits(r, Done)
       /\ UNCHANGED <<accountVars, parentRules, hidden, liked, channelOf, watched, downloads, searched>>

-----------------------------------------------------------------------------
(* The gate: can_child_view, a SELECT at a time.                           *)

Stages == {"blocked?", "hidden?", "video?", "channel?"}

\* Mutant: a video a parent has picked is shown although the child hid it.
PickedFirst(stage, v, c) ==
    CASE stage = "blocked?" -> IF blocked[v] # Nobody THEN "deny" ELSE "video?"
      [] stage = "video?" -> IF direct[v] # Nobody THEN "show" ELSE "hidden?"
      [] stage = "hidden?" -> IF v \in hidden \/ c = Nobody THEN "deny" ELSE "channel?"
      [] stage = "channel?" -> IF granted[c] # Nobody THEN "show" ELSE "deny"

CanChildView(stage, v, c) ==
    CASE stage = "blocked?" -> IF blocked[v] # Nobody THEN "deny" ELSE "hidden?"
      [] stage = "hidden?" -> IF v \in hidden THEN "deny" ELSE "video?"
      [] stage = "video?" -> IF direct[v] # Nobody THEN "show"
                             ELSE IF c = Nobody THEN "deny" ELSE "channel?"
      [] stage = "channel?" -> IF granted[c] # Nobody THEN "show" ELSE "deny"

\* The next row is asked about, or the page is complete.
NextRow(rec, shown, rows) ==
    IF rows = {} THEN {[rec EXCEPT !.shown = shown, !.rows = {}, !.row = <<>>,
                                   !.pc = IF rec.op = "createDownload" /\ shown # {}
                                          THEN "insert download"
                                          ELSE IF rec.op = "search" THEN "prior?"
                                          ELSE "answered"]}
    ELSE {[rec EXCEPT !.shown = shown, !.rows = rows \ {row}, !.row = row, !.pc = "blocked?"] :
              row \in rows}

\* Rows are pairs of a video and the channel it is said to be of.
Asks(r, rows) == \E next \in NextRow(request[r], {}, rows) : Reads(r, next)

Gate(r) ==
    LET rec == request[r]
        v == rec.row[1]
        verdict == CanChildView(rec.pc, v, rec.row[2])
    IN /\ rec.pc \in Stages
       /\ IF verdict \in Stages THEN Reads(r, [rec EXCEPT !.pc = verdict])
          ELSE \E next \in NextRow(rec, IF verdict = "show" THEN rec.shown \cup {v} ELSE rec.shown,
                                   rec.rows) : Reads(r, next)
       /\ UNCHANGED <<accountVars, ruleVars>>

-----------------------------------------------------------------------------
(* The pages.                                                              *)

ListOps == {"newVideos", "likes", "channelPage", "search", "continueWatching", "watchAgain",
            "upNext", "upNextOf"}
GateOps == {"stream", "createDownload", "streamDownload"}
PageOps == ListOps \cup GateOps

BeginPage(r, b, op, on) ==
    /\ op \in PageOps
    /\ Begins(r, b, [New EXCEPT !.op = op, !.on = on,
                                !.pc = IF op \in {"createDownload", "streamDownload"}
                                       THEN "downloads?" ELSE op], "child")
    /\ request'[r].me = Kid
    /\ UNCHANGED ruleVars

Shows(r, vs) == Reads(r, [request[r] EXCEPT !.shown = vs, !.pc = "answered"])

\* blocked and hidden inside the query.
Clear(v) == blocked[v] = Nobody /\ v \notin hidden
UploadsOf(c) == {row[2] : row \in {up \in archive : up[1] = c}}
Granted == {c \in Channels : granted[c] # Nobody}

\* feed_for_child, LIKE_LIST_SQL: one query for the whole page.
ListAtOnce(r) ==
    /\ \/ /\ At(r, "newVideos")
          /\ Shows(r, {v \in UNION {UploadsOf(c) : c \in Granted} : Clear(v)})
       \/ /\ At(r, "likes")
          /\ Shows(r, {v \in Videos : liked[v] = "live" /\ Clear(v)
                                      /\ (direct[v] # Nobody \/ channelOf[v] \in Granted)})
    /\ UNCHANGED <<accountVars, ruleVars>>

\* enforce_channel_access: two queries; then the page's own.
EnforceChannelAccess(r) ==
    LET c == request[r].on
        to(pc) == Reads(r, [request[r] EXCEPT !.pc = pc])
    IN /\ \/ At(r, "channelPage") /\ to(IF granted[c] # Nobody THEN "uploads" ELSE "subscribed?")
          \/ At(r, "subscribed?") /\ to(IF subscribed[c] = "live" THEN "uploads" ELSE "answered")
          \/ At(r, "uploads") /\ Shows(r, {v \in UploadsOf(c) : Clear(v)})
       /\ UNCHANGED <<accountVars, ruleVars>>

\* CHILD_SEARCH_SQL; then every hit meets the gate.
Search(r) ==
    /\ At(r, "search")
    /\ Asks(r, {<<v, channelOf[v]>> :
                v \in {w \in Videos : direct[w] # Nobody \/ watched[w] # "none"}
                      \cup UNION {UploadsOf(c) : c \in Granted}})
    /\ UNCHANGED <<accountVars, ruleVars>>

\* Mutant: the search is logged before anybody looks whether it is new.
LogFirst(r) ==
    /\ At(r, "prior?")
    /\ searched' = TRUE
    /\ Commits(r, [request[r] EXCEPT !.saw = TRUE, !.pc = "log search"])
    /\ UNCHANGED <<accountVars, parentRules, ownRules, channelOf, watched, downloads>>

\* Only the first search for a term is told to the parents.
LookForPrior(r) ==
    /\ At(r, "prior?")
    /\ Reads(r, [request[r] EXCEPT !.saw = searched, !.pc = "log search"])
    /\ UNCHANGED <<accountVars, ruleVars>>

LogSearch(r) ==
    /\ At(r, "log search")
    /\ searched' = (searched \/ Kid \in Existing)
    /\ Commits(r, [request[r] EXCEPT !.pc = IF request[r].saw THEN "answered" ELSE "parents"])
    /\ UNCHANGED <<accountVars, parentRules, ownRules, channelOf, watched, downloads>>

\* is_effectively_finished tells the two pages apart.
Keep(op) == IF op = "watchAgain" THEN "finished" ELSE "started"

WatchHistory(r) ==
    LET kept == {v \in Videos : watched[v] = Keep(request[r].op)}
        rows == {<<v, channelOf[v]>> : v \in kept}
    IN /\ request[r].pc \in {"continueWatching", "watchAgain"}
       /\ IF \E row \in rows : row[2] = Nobody
          THEN Reads(r, [request[r] EXCEPT !.rows = rows, !.pc = "lookup"])
          ELSE Asks(r, rows)
       /\ UNCHANGED <<accountVars, ruleVars>>

\* Mutant: a row without a channel stays without.
AsRecorded(row) == row

\* Rows without a channel take the largest that lists the video.
Resolve(row) ==
    LET cs == {c \in Channels : <<c, row[1]>> \in archive}
    IN IF row[2] # Nobody \/ cs = {} THEN row
       ELSE <<row[1], CHOOSE c \in cs : \A d \in cs : d <= c>>

LookupChannelIds(r) ==
    /\ At(r, "lookup")
    /\ Reads(r, [request[r] EXCEPT !.rows = {Resolve(row) : row \in request[r].rows},
                                   !.pc = "write back"])
    /\ UNCHANGED <<accountVars, ruleVars>>

\* Only where the row still has none.
BackfillVideoChannelIds(r) ==
    /\ At(r, "write back")
    /\ channelOf' = [v \in Videos |-> IF channelOf[v] = Nobody /\ \E row \in request[r].rows : row[1] = v
                                      THEN (CHOOSE row \in request[r].rows : row[1] = v)[2]
                                      ELSE channelOf[v]]
    /\ \E next \in NextRow(request[r], {}, request[r].rows) : Commits(r, next)
    /\ UNCHANGED <<accountVars, parentRules, ownRules, watched, downloads, searched>>

Listed(c) == {<<v, c>> : v \in UploadsOf(c)}

\* Candidates of the channel of the video that is playing.
UpNextFromChannel(r) ==
    /\ At(r, "upNextOf")
    /\ Reads(r, [request[r] EXCEPT !.rows = Listed(request[r].on), !.pc = "unwatched"])
    /\ UNCHANGED <<accountVars, ruleVars>>

\* A query for each channel of the allowlist; saw carries those that are left.
UpNextFromNewVideos(r) ==
    LET rec == request[r]
    IN /\ \/ /\ At(r, "upNext")
             /\ Reads(r, [rec EXCEPT !.saw = Granted, !.pc = "bucket"])
          \/ /\ At(r, "bucket")
             /\ IF rec.saw = {} THEN Reads(r, [rec EXCEPT !.pc = "unwatched"])
                ELSE \E c \in rec.saw :
                        Reads(r, [rec EXCEPT !.rows = @ \cup Listed(c), !.saw = @ \ {c}])
       /\ UNCHANGED <<accountVars, ruleVars>>

\* What was watched is left out; the rest meets the gate.
UpNext(r) ==
    /\ At(r, "unwatched")
    /\ Asks(r, {row \in request[r].rows : watched[row[1]] = "none"})
    /\ UNCHANGED <<accountVars, ruleVars>>

\* The extraction's own channel goes to the gate.
Extracted(r) ==
    /\ At(r, "stream")
    /\ Asks(r, {<<request[r].on, TrueChannel[request[r].on]>>})
    /\ UNCHANGED <<accountVars, ruleVars>>

-----------------------------------------------------------------------------
(* Downloads: the setting first, then the gate.                            *)

EnsureDownloadsEnabled(r) ==
    /\ At(r, "downloads?")
    /\ IF settings = "on" THEN Asks(r, {<<request[r].on, TrueChannel[request[r].on]>>})
       ELSE Shows(r, {})
    /\ UNCHANGED <<accountVars, ruleVars>>

\* The child has a row of settings, and cannot have been deleted.
InsertDownload(r) ==
    LET v == request[r].on
    IN /\ At(r, "insert download")
       /\ downloads' = [downloads EXCEPT ![v] = "pending"]
       /\ channelOf' = Seed(v, TrueChannel[v])
       /\ Commits(r, [request[r] EXCEPT !.pc = "answered"])
       /\ UNCHANGED <<accountVars, parentRules, ownRules, watched, searched>>

BeginDownload(r, b, op, v) ==
    /\ op \in {"finishDownload", "deleteDownload"}
    /\ Begins(r, b, [New EXCEPT !.op = op, !.on = v, !.pc = op], "child")
    /\ request'[r].me = Kid
    /\ UNCHANGED ruleVars

\* A row that was deleted stays so until it is asked for again.
UpdateDownload(r) ==
    LET v == request[r].on
    IN /\ request[r].pc \in {"finishDownload", "deleteDownload"}
       /\ downloads' = [downloads EXCEPT ![v] =
                            IF @ = "none" THEN @
                            ELSE IF request[r].op = "deleteDownload" THEN "deleted"
                            ELSE IF @ = "deleted" THEN @ ELSE "complete"]
       /\ Commits(r, Done)
       /\ UNCHANGED <<accountVars, parentRules, ownRules, channelOf, watched, searched>>

-----------------------------------------------------------------------------
\* A poll or a crawl of a tracked channel lists an upload.
Publish(r, c, v) ==
    /\ At(r, "new") /\ granted[c] # Nobody
    /\ archive' = archive \cup {<<c, v>>}
    /\ channelOf' = Seed(v, c)
    /\ Commits(r, Done)
    /\ UNCHANGED <<accountVars, blocked, direct, granted, settings, ownRules, watched, downloads, searched>>

\* The hidden rows of a child that is deleted go with it.
Cascade ==
    /\ hidden' = IF Kid \in {a \in Accounts : accounts'[a] = Gone} THEN {} ELSE hidden
    /\ UNCHANGED <<parentRules, liked, subscribed, channelOf, watched, downloads, searched>>

RuleStep(r) ==
    \/ RequireChild(r) \/ AddBlocked(r) \/ DeleteBlocked(r) \/ AddVideo(r) \/ DeleteVideo(r)
    \/ AddChannel(r) \/ DeleteChannel(r) \/ EnsureSettingsRow(r) \/ UpdateSettings(r)
    \/ Hide(r) \/ Like(r) \/ Subscribe(r) \/ Gate(r) \/ ListAtOnce(r) \/ EnforceChannelAccess(r) \/ Search(r)
    \/ LookForPrior(r) \/ LogSearch(r)
    \/ WatchHistory(r) \/ LookupChannelIds(r) \/ BackfillVideoChannelIds(r) \/ UpNextFromChannel(r) \/ UpNextFromNewVideos(r) \/ UpNext(r)
    \/ Extracted(r) \/ EnsureDownloadsEnabled(r) \/ InsertDownload(r) \/ UpdateDownload(r)

=============================================================================
