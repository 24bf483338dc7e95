-------------------------------- MODULE Feed --------------------------------
(***************************************************************************)
(* The crawler and the refresher at work on the same channel, with the     *)
(* children's allowlists, the administrator, the feed_gc job and the       *)
(* process's restarts in between.                                          *)
(***************************************************************************)
EXTENDS ChannelBackfill, FeedRefresher

vars == <<tableVars, upstreamVars, crawl, poll, ghostVars>>

Init ==
    /\ TablesInit
    /\ crawl = IdleCrawl
    /\ poll = IdlePoll
    /\ called = FALSE /\ astray = FALSE

\* What is remembered of a channel's row goes with it; a poll under way stays.
Forgotten ==
    IF Exists /\ channel' = NoChannel
    THEN /\ called' = FALSE /\ astray' = FALSE
         /\ poll' = IF PollAt("idle") THEN poll ELSE [poll EXCEPT !.orphan = poll.pc \notin {"failure", "dead"}]
    ELSE UNCHANGED <<poll, ghostVars>>

Administration ==
    /\ \/ \E k \in Children : AddChannel(k) \/ DeleteChannel(k)
       \/ MentionChannel \/ FeedGc \/ RunNow \/ Unshelve
    /\ Forgotten
    /\ UNCHANGED crawl

\* A claim makes every row, and a poll under way, older than the crawl.
Claim ==
    /\ ClaimOneDue
    /\ poll' = [poll EXCEPT !.young = FALSE]
    /\ UNCHANGED ghostVars

Crawl == CrawlStep /\ UNCHANGED <<poll, ghostVars>>

ClaimPoll == ClaimDueSource /\ UNCHANGED crawl

Poll == PollStep(Crawling) /\ UNCHANGED crawl

Uploads ==
    /\ UploadsChange
    /\ crawl' = [crawl EXCEPT !.steady = @ \cap tab']
    /\ UNCHANGED <<poll, ghostVars>>

\* The process dies, and with it both loops.
Crash ==
    /\ ~settled /\ ~(CrawlAt("idle") /\ PollAt("idle"))
    /\ EndCrawl /\ EndPoll
    /\ UNCHANGED <<channel, live, gone, allowed, upstreamVars, ghostVars>>

Clock == \/ TimePasses /\ UNCHANGED <<crawl, poll, ghostVars>>
         \/ HourOver /\ UNCHANGED crawl

Quiet == Settle /\ UNCHANGED <<crawl, poll, ghostVars>>

Next ==
    \/ Administration \/ Claim \/ Crawl \/ ClaimPoll \/ Poll
    \/ Uploads \/ Crash \/ Clock

Spec == Init /\ [][Next]_vars

\* Both loops run on while the process does, or does again; every request and
\* every yt-dlp has a timeout, and every moment comes.
Fairness ==
    /\ WF_vars(Claim) /\ WF_vars(Crawl)
    /\ WF_vars(ClaimPoll) /\ WF_vars(Poll)
    /\ WF_vars(CrawlDue /\ Clock) /\ WF_vars(LeaseOver /\ Clock)
    /\ WF_vars(PollDue /\ Clock) /\ WF_vars(HourOver /\ Clock)

LiveSpec == Init /\ [][Next \/ Quiet]_vars /\ Fairness

-----------------------------------------------------------------------------
TypeOK ==
    /\ TablesTypeOK
    /\ crawl \in Crawls /\ poll \in Polls
    /\ called \in BOOLEAN /\ astray \in BOOLEAN
    /\ newcomers # {} => Crawling

\* A crawl tombstones nothing that was on the tab all along, and nothing that
\* a poll begun after it was the first to see, listed or not.
TombstonesAreEarned ==
    [][\A v \in live : (v \in crawl.steady \/ v \in newcomers) /\ Exists /\ channel' # NoChannel
                          => v \in live']_vars

\* A row whose etag makes YouTube answer 304 has all that the answer leaves
\* out, unless the tag came from a poll of a row since deleted.
TagIsBacked == Exists /\ channel.tag # NoTag /\ ~astray => channel.tag \subseteq Stored

\* "a concurrent loop iteration or a fast restart sees the per-source cap in
\* effect": the sidecar is not asked twice within the hour for one row.
FallbacksAreSpaced == [][PollAt("reserve") /\ poll'.pc = "sidecar" => ~called]_vars

\* Once they are over, all that is listed gets back into the catalogue of a
\* channel that is not shelved, whatever has been tombstoned before.
CatalogueHeals ==
    <>settled => <>[](Exists /\ channel.status # "shelved" => tab \subseteq live)
=============================================================================
