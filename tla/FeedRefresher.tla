---------------------------- MODULE FeedRefresher ----------------------------
(***************************************************************************)
(* services/feed_refresher.rs for one channel: a loop that claims the      *)
(* channel when its poll is due, asks for its RSS feed with the etag of    *)
(* the last answer, falls back to the discovery sidecar within its caps,   *)
(* stores what came and records how the poll ended.  The loop waits for    *)
(* the polls of a batch before it claims again, so there is one poll at a  *)
(* time; it has no lock that the crawler, or a removal, would respect.     *)
(***************************************************************************)
EXTENDS ChannelTables

VARIABLES
    poll,     \* the poll under way
    called,   \* the sidecar was asked for the channel less than an hour ago
    astray    \* the row's tag is that of a poll which stored nothing for this row

\* tag, errors, cooling: the DueSource that was claimed; after an answer tag
\* is the one to record.  items: what is to be stored.  young: the poll began
\* after the crawl under way did.  orphan: what the tag stands for was not
\* stored for the row there is now, but for one that has been deleted.
PollPC == {"idle", "ask", "store", "success", "caps", "reserve", "sidecar", "failure", "dead"}
Polls == [pc: PollPC, tag: Tags, errors: 0 .. DeadAfter, cooling: BOOLEAN,
          items: SUBSET Videos, young: BOOLEAN, orphan: BOOLEAN]
IdlePoll == [pc |-> "idle", tag |-> NoTag, errors |-> 0, cooling |-> FALSE,
             items |-> {}, young |-> FALSE, orphan |-> FALSE]

ghostVars == <<called, astray>>

PollAt(label) == poll.pc = label
PollTo(label) == poll' = [poll EXCEPT !.pc = label]

\* With the locals that are still needed.
Answered(label, items, tag) ==
    poll' = [IdlePoll EXCEPT !.pc = label, !.items = items, !.tag = tag,
                             !.young = poll.young /\ label = "store", !.orphan = poll.orphan]
Failed(label) == poll' = [IdlePoll EXCEPT !.pc = label]
EndPoll == poll' = IdlePoll

UpTo(n, limit) == IF n < limit THEN n ELSE limit

-----------------------------------------------------------------------------
\* claim_due_sources pushes rss_next_poll_at behind the lease.
ClaimDueSource ==
    /\ PollAt("idle") /\ Exists /\ channel.poll
    /\ channel' = [channel EXCEPT !.poll = FALSE]
    /\ poll' = [IdlePoll EXCEPT !.pc = "ask", !.tag = channel.tag, !.young = TRUE,
                                !.errors = channel.rssErrors, !.cooling = channel.cooling,
                                !.orphan = astray]
    /\ UNCHANGED <<live, gone, newcomers, allowed, upstreamVars, ghostVars>>

\* 304: the feed is the one the etag was sent with.
NotModified ==
    /\ PollAt("ask") /\ feed = poll.tag
    /\ Answered("success", {}, poll.tag)
    /\ UNCHANGED <<tableVars, upstreamVars, ghostVars>>

\* Mutant: the poll is recorded, with its etag, before its items are stored.
UpdatedRecordsFirst ==
    /\ PollAt("ask") /\ feed # poll.tag
    /\ channel' = IF Exists THEN [channel EXCEPT !.tag = feed] ELSE NoChannel
    /\ Answered("store", feed, feed)
    /\ UNCHANGED <<live, gone, newcomers, allowed, upstreamVars, ghostVars>>

\* 200, with or without an etag.
Updated ==
    /\ PollAt("ask") /\ feed # poll.tag
    /\ \E tag \in {feed, NoTag} : Answered("store", feed, tag)
    /\ UNCHANGED <<tableVars, upstreamVars, ghostVars>>

PollErr ==
    /\ PollAt("ask") /\ ~settled
    /\ poll' = [poll EXCEPT !.pc = "caps", !.tag = NoTag]
    /\ UNCHANGED <<tableVars, upstreamVars, ghostVars>>

\* upsert_channel_videos: one transaction, which clears is_deleted.
UpsertChannelVideos(duringCrawl) ==
    /\ PollAt("store") /\ Accepted(poll.items)
    /\ live' = live \cup poll.items
    /\ gone' = gone \ poll.items
    /\ newcomers' = newcomers \cup (IF duringCrawl /\ poll.young THEN poll.items \ Stored ELSE {})
    /\ poll' = [IdlePoll EXCEPT !.pc = "success", !.tag = poll.tag, !.orphan = ~Exists]
    /\ UNCHANGED <<channel, allowed, upstreamVars, ghostVars>>

\* The statements that end a poll write to whatever row has the id now.
Record(changed) ==
    /\ channel' = IF Exists THEN changed ELSE NoChannel
    /\ EndPoll
    /\ UNCHANGED <<live, gone, newcomers, allowed, upstreamVars>>

RecordPollSuccess ==
    /\ PollAt("success")
    /\ Record([channel EXCEPT !.tag = poll.tag, !.rssErrors = 0, !.poll = FALSE])
    /\ astray' = (Exists /\ poll.orphan)
    /\ UNCHANGED called

-----------------------------------------------------------------------------
(* run_sidecar_fallback.                                                   *)

\* The kill switch or the cap of all channels together may refuse at any
\* time, and a dormant channel has a longer interval than an hour.
FallbackPermitted ==
    /\ PollAt("caps") /\ Sidecar /\ ~poll.cooling
    /\ poll' = [poll EXCEPT !.pc = "reserve", !.tag = NoTag]
    /\ UNCHANGED <<tableVars, upstreamVars, ghostVars>>

FallbackRefused ==
    /\ PollAt("caps")
    /\ Failed("failure")
    /\ UNCHANGED <<tableVars, upstreamVars, ghostVars>>

\* Mutant: no reservation; last_sidecar_fallback_at would follow the answer.
DispatchUnreserved ==
    /\ PollAt("reserve")
    /\ called' = Exists
    /\ PollTo("sidecar")
    /\ UNCHANGED <<tableVars, upstreamVars, astray>>

\* The reservation is written, then the sidecar is asked.
DispatchFallback ==
    /\ PollAt("reserve")
    /\ channel' = IF Exists THEN [channel EXCEPT !.cooling = TRUE] ELSE NoChannel
    /\ called' = Exists
    /\ PollTo("sidecar")
    /\ UNCHANGED <<live, gone, newcomers, allowed, upstreamVars, astray>>

\* An existing channel, of which the sidecar may see no videos.
SidecarItems ==
    /\ PollAt("sidecar")
    /\ \E items \in {tab, {}} : Answered("store", items, NoTag)
    /\ UNCHANGED <<tableVars, upstreamVars, ghostVars>>

SidecarNotFound ==
    /\ PollAt("sidecar")
    /\ Failed(IF poll.errors + 1 >= DeadAfter THEN "dead" ELSE "failure")
    /\ UNCHANGED <<tableVars, upstreamVars, ghostVars>>

SidecarError ==
    /\ PollAt("sidecar")
    /\ Failed("failure")
    /\ UNCHANGED <<tableVars, upstreamVars, ghostVars>>

RecordPollFailure ==
    /\ PollAt("failure")
    /\ Record([channel EXCEPT !.rssErrors = UpTo(@ + 1, DeadAfter), !.poll = FALSE])
    /\ UNCHANGED ghostVars

RecordSourceDead ==
    /\ PollAt("dead")
    /\ Record([channel EXCEPT !.rssErrors = 0, !.poll = FALSE])
    /\ UNCHANGED ghostVars

\* A statement fails: the channel is gone, the database is busy, or another
\* writer has come between a transaction's read and its write.  The poll ends
\* there, and comes again when its lease is over.
PollWriteFails ==
    /\ \/ PollAt("store") /\ ~Accepted(poll.items)
       \/ poll.pc \in {"store", "success", "reserve", "failure", "dead"} /\ ~settled
    /\ EndPoll
    /\ UNCHANGED <<tableVars, upstreamVars, ghostVars>>

\* An hour after the last fallback.
HourOver ==
    /\ (Exists /\ channel.cooling) \/ called
    /\ channel' = IF Exists THEN [channel EXCEPT !.cooling = FALSE] ELSE NoChannel
    /\ called' = FALSE
    /\ UNCHANGED <<live, gone, newcomers, allowed, upstreamVars, poll, astray>>

PollStep(duringCrawl) ==
    \/ NotModified \/ Updated \/ PollErr
    \/ UpsertChannelVideos(duringCrawl) \/ RecordPollSuccess
    \/ FallbackPermitted \/ FallbackRefused \/ DispatchFallback
    \/ SidecarItems \/ SidecarNotFound \/ SidecarError
    \/ RecordPollFailure \/ RecordSourceDead \/ PollWriteFails
=============================================================================
