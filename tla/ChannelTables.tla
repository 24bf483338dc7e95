---------------------------- MODULE ChannelTables ----------------------------
(***************************************************************************)
(* What the crawler (channel_backfill.rs) and the refresher                *)
(* (feed_refresher.rs) share for one channel: its row of `channels`, its   *)
(* rows of `channel_videos`, the children it is allowlisted for, and the   *)
(* pages of YouTube the three are kept in step with.                       *)
(*                                                                         *)
(* Times are kept as what a comparison with the clock answers: a row is    *)
(* due or not, its lease over or not, and first_seen_at at or after the    *)
(* started_at of the crawl under way or not.                               *)
(***************************************************************************)
EXTENDS Naturals, FiniteSets

CONSTANTS
    Videos,     \* the videos of the channel
    Children,   \* those it can be allowlisted for
    Shelve,     \* max_consecutive_errors_before_shelve
    DeadAfter,  \* SIDECAR_NOTFOUND_SHELVE_THRESHOLD
    Sidecar,    \* sidecar_fallback_enabled
    NoChannel,  \* there is no row
    NoTag       \* rss_etag and rss_last_modified are NULL

ASSUME SwitchAssumption == Sidecar \in BOOLEAN
ASSUME LimitAssumption == Shelve \in Nat \ {0} /\ DeadAfter \in Nat \ {0}

VARIABLES
    channel,    \* the row of `channels`
    live,       \* the videos with a row that is not deleted
    gone,       \* those with a tombstone, is_deleted = 1
    newcomers,  \* rows with first_seen_at >= started_at of the crawl under way
    allowed,    \* the children with a row of allowlisted_channels
    tab,        \* the videos YouTube lists under /videos
    feed,       \* the videos of the channel's RSS feed
    settled     \* faults, removals and uploads are over

tableVars == <<channel, live, gone, newcomers, allowed>>
upstreamVars == <<tab, feed, settled>>

Stored == live \cup gone

\* An etag stands for the feed it was sent with.
Tags == (SUBSET Videos) \cup {NoTag}

\* due: backfill_next_at <= now.  over: backfill_lease_expires_at <= now.
\* poll: rss_next_poll_at <= now.  cooling: the last sidecar fallback is less
\* than an hour old, the cooldown and the default interval between fallbacks.
Channels == [status: {"pending", "running", "shelved"}, due: BOOLEAN, over: BOOLEAN,
             errors: 0 .. Shelve, poll: BOOLEAN, rssErrors: 0 .. DeadAfter,
             tag: Tags, cooling: BOOLEAN]

ASSUME NoChannelAssumption == NoChannel \notin Channels

Exists == channel # NoChannel

\* What every INSERT INTO channels writes.
FreshChannel == [status |-> "pending", due |-> TRUE, over |-> FALSE, errors |-> 0,
                 poll |-> TRUE, rssErrors |-> 0, tag |-> NoTag, cooling |-> FALSE]

\* Mutant: foreign keys are not enforced.
AcceptedAnyway(items) == Exists \/ TRUE

\* The foreign key refuses videos of a channel that has been deleted.
Accepted(items) == Exists \/ items = {}

TablesInit ==
    /\ channel = NoChannel
    /\ live = {} /\ gone = {} /\ newcomers = {}
    /\ allowed = {}
    /\ tab \in SUBSET Videos
    /\ feed = tab
    /\ settled = FALSE

-----------------------------------------------------------------------------
(* The allowlist and the administrator.                                    *)

\* ON CONFLICT keeps all of a row but its title, thumbnail and description.
Seed == channel' = IF Exists THEN channel ELSE FreshChannel

AddChannel(k) ==
    /\ ~settled
    /\ Seed
    /\ allowed' = allowed \cup {k}
    /\ UNCHANGED <<live, gone, newcomers, upstreamVars>>

\* A like, a hidden video or a single allowlisted video brings its channel.
MentionChannel ==
    /\ ~settled /\ ~Exists
    /\ Seed
    /\ UNCHANGED <<live, gone, newcomers, allowed, upstreamVars>>

DropChannel ==
    /\ channel' = NoChannel
    /\ live' = {} /\ gone' = {} /\ newcomers' = {}

\* The channel goes with the last child it is allowlisted for.
DeleteChannel(k) ==
    /\ ~settled /\ Exists
    /\ allowed' = allowed \ {k}
    /\ IF allowed' = {} THEN DropChannel ELSE UNCHANGED <<channel, live, gone, newcomers>>
    /\ UNCHANGED upstreamVars

\* gc_orphan_sources and reconcile_with_allowlist; what the latter seeds is
\* there already, by the foreign key of allowlisted_channels.
FeedGc ==
    /\ ~settled /\ Exists /\ allowed = {}
    /\ DropChannel
    /\ UNCHANGED <<allowed, upstreamVars>>

RunNow ==
    /\ Exists /\ channel.status = "pending" /\ ~channel.due
    /\ channel' = [channel EXCEPT !.due = TRUE]
    /\ UNCHANGED <<live, gone, newcomers, allowed, upstreamVars>>

Unshelve ==
    /\ Exists /\ channel.status = "shelved"
    /\ channel' = [channel EXCEPT !.status = "pending", !.errors = 0,
                                  !.due = TRUE, !.over = FALSE]
    /\ UNCHANGED <<live, gone, newcomers, allowed, upstreamVars>>

-----------------------------------------------------------------------------
(* Time and YouTube.                                                       *)

CrawlDue == Exists /\ ~channel.due /\ channel' = [channel EXCEPT !.due = TRUE]
LeaseOver == Exists /\ channel.status = "running" /\ ~channel.over
             /\ channel' = [channel EXCEPT !.over = TRUE]
PollDue == Exists /\ ~channel.poll /\ channel' = [channel EXCEPT !.poll = TRUE]

TimePasses ==
    /\ CrawlDue \/ LeaseOver \/ PollDue
    /\ UNCHANGED <<live, gone, newcomers, allowed, upstreamVars>>

\* Uploads and removals.  A short is in the feed and not on the tab; the feed
\* has the newest videos only.
UploadsChange ==
    /\ ~settled
    /\ tab' \in SUBSET Videos
    /\ feed' \in SUBSET Videos
    /\ <<tab, feed>>' # <<tab, feed>>
    /\ UNCHANGED <<tableVars, settled>>

\* From here on the channel stays as it is and everybody answers.
Settle ==
    /\ ~settled /\ Exists
    /\ settled' = TRUE
    /\ UNCHANGED <<tableVars, tab, feed>>

TablesTypeOK ==
    /\ channel \in Channels \cup {NoChannel}
    /\ live \subseteq Videos /\ gone \subseteq Videos \ live
    /\ newcomers \subseteq Stored
    /\ ~Exists => Stored = {} /\ allowed = {}
    /\ allowed \subseteq Children
    /\ tab \subseteq Videos /\ feed \subseteq Videos
    /\ settled \in BOOLEAN
=============================================================================
