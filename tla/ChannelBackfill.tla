--------------------------- MODULE ChannelBackfill ---------------------------
(***************************************************************************)
(* services/channel_backfill.rs for one channel: a loop that claims the    *)
(* channel when it is due, has yt-dlp list its /videos tab, upserts what   *)
(* was listed, tombstones what was not, and schedules the next crawl.      *)
(* There is one loop, so there is one crawl at a time; a crash leaves the  *)
(* row `running` until its lease is over.                                  *)
(***************************************************************************)
EXTENDS ChannelTables

VARIABLE crawl  \* the crawl under way

\* seen: the entries yt-dlp brought.  attempt: record_failure's local.
\* Kept for the properties: steady, the videos on the tab all along and on
\* no line that could not be parsed.
CrawlPC == {"idle", "list", "apply", "finish", "absent", "failed", "backoff"}
Crawls == [pc: CrawlPC, seen: SUBSET Videos, attempt: 0 .. Shelve,
           steady: SUBSET Videos]
IdleCrawl == [pc |-> "idle", seen |-> {}, attempt |-> 0, steady |-> {}]

CrawlAt(label) == crawl.pc = label
CrawlTo(label) == crawl' = [crawl EXCEPT !.pc = label]
EndCrawl == crawl' = IdleCrawl /\ newcomers' = {}

\* Between started_at and the commit that compares first_seen_at with it.
Crawling == crawl.pc \in {"list", "apply"}

-----------------------------------------------------------------------------
\* A row is claimed when it is pending, or when whoever ran it is gone.
Claimable ==
    /\ \/ channel.status = "pending"
       \/ channel.status = "running" /\ channel.over
    /\ channel.due
    /\ ~channel.cooling

ClaimWhen(claimable) ==
    /\ CrawlAt("idle") /\ Exists /\ claimable
    /\ channel' = [channel EXCEPT !.status = "running", !.over = FALSE]
    /\ newcomers' = {}
    /\ crawl' = [IdleCrawl EXCEPT !.pc = "list", !.steady = tab]
    /\ UNCHANGED <<live, gone, allowed, upstreamVars>>

\* Mutant: a row that was running when its process died is never taken again.
ClaimPendingOnly == ClaimWhen(channel.status = "pending" /\ channel.due /\ ~channel.cooling)

ClaimOneDue == ClaimWhen(Claimable)

\* yt-dlp succeeds; a line that does not parse is left out.
FlatPlaylist(dropped) ==
    /\ CrawlAt("list")
    /\ dropped \subseteq tab /\ (settled => dropped = {})
    /\ crawl' = [crawl EXCEPT !.pc = "apply", !.seen = tab \ dropped,
                              !.steady = @ \ dropped]
    /\ UNCHANGED <<tableVars, upstreamVars>>

\* A timeout, an exit status, an error message that reads as a 404, or not.
FlatPlaylistFails ==
    /\ CrawlAt("list") /\ ~settled
    /\ \E kind \in {"absent", "failed"} : crawl' = [IdleCrawl EXCEPT !.pc = kind]
    /\ newcomers' = {}
    /\ UNCHANGED <<channel, live, gone, allowed, upstreamVars>>

-----------------------------------------------------------------------------
(* apply_backfill_entries: one transaction, then a statement of its own.   *)

\* Rows of this channel that the crawl has not listed and that are older.
Unlisted == live \ (crawl.seen \cup newcomers)

ApplyWith(tombstoned, revived) ==
    /\ CrawlAt("apply") /\ Accepted(crawl.seen)
    /\ live' = (live \ tombstoned) \cup revived
    /\ gone' = (gone \ revived) \cup tombstoned
    /\ newcomers' = {}
    /\ crawl' = [IdleCrawl EXCEPT !.pc = "finish"]
    /\ UNCHANGED <<channel, allowed, upstreamVars>>

\* Mutant: without first_seen_at < started_at.
ApplyUnguarded == ApplyWith(live \ crawl.seen, crawl.seen)

Apply == ApplyWith(Unlisted, crawl.seen)

\* Whatever row has the channel's id now.
Row(changed) == channel' = IF Exists THEN changed ELSE NoChannel

Reschedule ==
    /\ CrawlAt("finish")
    /\ Row([channel EXCEPT !.status = "pending", !.errors = 0, !.due = FALSE, !.over = FALSE])
    /\ EndCrawl
    /\ UNCHANGED <<live, gone, allowed, upstreamVars>>

-----------------------------------------------------------------------------
(* record_failure.                                                         *)

ShelveAbsent ==
    /\ CrawlAt("absent")
    /\ Row([channel EXCEPT !.status = "shelved", !.due = FALSE, !.over = FALSE])
    /\ EndCrawl
    /\ UNCHANGED <<live, gone, allowed, upstreamVars>>

ReadErrors ==
    /\ CrawlAt("failed")
    /\ IF Exists
         THEN crawl' = [crawl EXCEPT !.pc = "backoff", !.attempt = channel.errors + 1]
         ELSE crawl' = IdleCrawl
    /\ UNCHANGED <<tableVars, upstreamVars>>

RecordFailure ==
    /\ CrawlAt("backoff")
    /\ LET counted == [channel EXCEPT !.errors = crawl.attempt, !.over = FALSE]
       IN Row(IF crawl.attempt >= Shelve
                THEN [counted EXCEPT !.status = "shelved"]
                ELSE [counted EXCEPT !.status = "pending", !.due = FALSE])
    /\ EndCrawl
    /\ UNCHANGED <<live, gone, allowed, upstreamVars>>

\* A statement fails: the channel is gone, the database is busy, or another
\* writer has committed between the SELECT of the transaction and its first
\* write.  The row stays running until its lease is over.
CrawlWriteFails ==
    /\ \/ CrawlAt("apply") /\ ~Accepted(crawl.seen)
       \/ crawl.pc \in {"apply", "finish", "absent", "failed", "backoff"} /\ ~settled
    /\ EndCrawl
    /\ UNCHANGED <<channel, live, gone, allowed, upstreamVars>>

CrawlStep ==
    \/ \E dropped \in SUBSET Videos : FlatPlaylist(dropped)
    \/ FlatPlaylistFails
    \/ Apply \/ Reschedule
    \/ ShelveAbsent \/ ReadErrors \/ RecordFailure \/ CrawlWriteFails
=============================================================================
