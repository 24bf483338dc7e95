----------------------------- MODULE FeedProofs -----------------------------
(***************************************************************************)
(* What holds of a channel's catalogue for every number of videos and      *)
(* children, every shelving limit and every threshold: the types, that     *)
(* crawls tombstone only what they have earned, that an etag is backed by  *)
(* rows, and that fallbacks to the sidecar are an hour apart.              *)
(***************************************************************************)
EXTENDS Feed, TLAPS

\* A crawl's entries hold all that was listed throughout.
SteadyListed ==
    /\ CrawlAt("list") => crawl.steady \subseteq tab
    /\ CrawlAt("apply") => crawl.steady \subseteq crawl.seen

\* A poll's tag is backed as the row's is, or about to be.
TagsFollow ==
    /\ TagIsBacked
    /\ poll.pc \in {"ask", "success"} /\ poll.tag # NoTag /\ ~poll.orphan
          => Exists /\ poll.tag \subseteq Stored
    /\ PollAt("store") /\ poll.tag # NoTag => poll.tag = poll.items

\* The reservation is on the row for as long as the hour lasts, and a poll
\* that has seen none was claimed after the hour.
Reserved ==
    /\ called => Exists /\ channel.cooling
    /\ poll.pc \in {"ask", "caps"} /\ ~poll.cooling => ~called
    /\ PollAt("reserve") => ~called

\* Only a shelved row has used up its errors, and no crawl is under way for
\* a shelved row.
ErrorsLeft ==
    Exists => /\ channel.status = "shelved" \/ channel.errors < Shelve
              /\ CrawlAt("idle") \/ channel.status # "shelved"

-----------------------------------------------------------------------------
(* Types.                                                                  *)

\* What is inserted is a row, and there are rows and no-rows.
LEMMA FreshIsRow == FreshChannel \in Channels /\ FreshChannel # NoChannel
<1>1. FreshChannel \in Channels
  BY LimitAssumption DEF FreshChannel, Channels, Tags
<1> QED
  BY <1>1, NoChannelAssumption

\* An idle loop has its type.
LEMMA IdleTypes == IdleCrawl \in Crawls /\ IdlePoll \in Polls
  BY LimitAssumption DEF IdleCrawl, Crawls, CrawlPC, IdlePoll, Polls, PollPC, Tags

\* Everything starts out with its type.
LEMMA InitType == Init => TypeOK
<1> SUFFICES ASSUME Init PROVE TypeOK
  OBVIOUS
<1>1. TablesTypeOK
  BY DEF Init, TablesInit, TablesTypeOK, Exists, Stored
<1>2. crawl \in Crawls /\ poll \in Polls /\ newcomers = {}
  BY IdleTypes DEF Init, TablesInit
<1>3. called \in BOOLEAN /\ astray \in BOOLEAN
  BY Zenon DEF Init
<1> QED
  BY <1>1, <1>2, <1>3 DEF TypeOK

\* What the crawler and its administration write to a row leaves it a row.
LEMMA CrawledRow ==
  ASSUME NEW row \in Channels
  PROVE  /\ [row EXCEPT !.due = TRUE] \in Channels
         /\ [row EXCEPT !.over = TRUE] \in Channels
         /\ [row EXCEPT !.status = "running", !.over = FALSE] \in Channels
         /\ [row EXCEPT !.status = "pending", !.errors = 0,
                        !.due = TRUE, !.over = FALSE] \in Channels
         /\ [row EXCEPT !.status = "pending", !.errors = 0,
                        !.due = FALSE, !.over = FALSE] \in Channels
         /\ [row EXCEPT !.status = "shelved", !.due = FALSE, !.over = FALSE] \in Channels
<1> USE DEF Channels
<1>1. [row EXCEPT !.due = TRUE] \in Channels
  OBVIOUS
<1>2. [row EXCEPT !.over = TRUE] \in Channels
  OBVIOUS
<1>3. [row EXCEPT !.status = "running", !.over = FALSE] \in Channels
  OBVIOUS
<1>4. 0 \in 0 .. Shelve
  BY LimitAssumption
<1>5. [row EXCEPT !.status = "pending", !.errors = 0,
                 !.due = TRUE, !.over = FALSE] \in Channels
  BY <1>4
<1>6. [row EXCEPT !.status = "pending", !.errors = 0,
                 !.due = FALSE, !.over = FALSE] \in Channels
  BY <1>4
<1>7. [row EXCEPT !.status = "shelved", !.due = FALSE, !.over = FALSE] \in Channels
  OBVIOUS
<1> QED
  BY <1>1, <1>2, <1>3, <1>5, <1>6, <1>7

\* So does what record_failure writes, with the errors it has counted.
LEMMA CountedRow ==
  ASSUME NEW row \in Channels, NEW n \in 0 .. Shelve
  PROVE  LET counted == [row EXCEPT !.errors = n, !.over = FALSE]
         IN  /\ [counted EXCEPT !.status = "shelved"] \in Channels
             /\ [counted EXCEPT !.status = "pending", !.due = FALSE] \in Channels
<1>1. [row EXCEPT !.errors = n, !.over = FALSE] \in Channels
  BY DEF Channels
<1>2. \A r \in Channels : /\ [r EXCEPT !.status = "shelved"] \in Channels
                         /\ [r EXCEPT !.status = "pending", !.due = FALSE] \in Channels
  BY DEF Channels
<1> QED
  BY <1>1, <1>2

\* And so does what the refresher writes.
LEMMA PolledRow ==
  ASSUME NEW row \in Channels
  PROVE  /\ [row EXCEPT !.poll = TRUE] \in Channels
         /\ [row EXCEPT !.poll = FALSE] \in Channels
         /\ [row EXCEPT !.cooling = TRUE] \in Channels
         /\ [row EXCEPT !.cooling = FALSE] \in Channels
         /\ [row EXCEPT !.rssErrors = 0, !.poll = FALSE] \in Channels
         /\ [row EXCEPT !.rssErrors = UpTo(@ + 1, DeadAfter), !.poll = FALSE] \in Channels
         /\ \A tag \in Tags :
               [row EXCEPT !.tag = tag, !.rssErrors = 0, !.poll = FALSE] \in Channels
<1> USE DEF Channels
<1>1. [row EXCEPT !.poll = TRUE] \in Channels /\ [row EXCEPT !.poll = FALSE] \in Channels
  OBVIOUS
<1>2. [row EXCEPT !.cooling = TRUE] \in Channels /\ [row EXCEPT !.cooling = FALSE] \in Channels
  OBVIOUS
<1>3. 0 \in 0 .. DeadAfter
  BY LimitAssumption
<1>4. [row EXCEPT !.rssErrors = 0, !.poll = FALSE] \in Channels
  BY <1>3
<1>5. ASSUME NEW tag \in Tags
      PROVE  [row EXCEPT !.tag = tag, !.rssErrors = 0, !.poll = FALSE] \in Channels
  BY <1>3
<1>6. UpTo(row.rssErrors + 1, DeadAfter) \in 0 .. DeadAfter
  BY LimitAssumption DEF UpTo
<1>7. \A n \in 0 .. DeadAfter : [row EXCEPT !.rssErrors = n, !.poll = FALSE] \in Channels
  OBVIOUS
<1> HIDE DEF Channels
<1> QED
  BY <1>1, <1>2, <1>4, <1>5, <1>6, <1>7

\* Marking a poll leaves it one.
LEMMA MarkedPoll ==
  ASSUME NEW p \in Polls, NEW b \in BOOLEAN
  PROVE  [p EXCEPT !.orphan = b] \in Polls /\ [p EXCEPT !.young = b] \in Polls
  BY DEF Polls

\* The allowlist and the administrator keep the types; a poll that outlives
\* its channel keeps its own.
LEMMA AdministrationType == TypeOK /\ Administration => TypeOK'
<1> SUFFICES ASSUME TypeOK, Administration PROVE TypeOK'
  OBVIOUS
<1>1. poll' \in Polls /\ called' \in BOOLEAN /\ astray' \in BOOLEAN
  <2>1. CASE Exists /\ channel' = NoChannel
    <3>1. (poll.pc \notin {"failure", "dead"}) \in BOOLEAN
      BY Zenon
    <3>2. /\ called' = FALSE /\ astray' = FALSE
          /\ poll' \in {poll, [poll EXCEPT !.orphan = poll.pc \notin {"failure", "dead"}]}
      BY <2>1 DEF Administration, Forgotten
    <3>3. called' \in BOOLEAN /\ astray' \in BOOLEAN
      BY <3>2, Zenon
    <3>4. poll' \in Polls
      BY <3>1, <3>2, MarkedPoll DEF TypeOK
    <3> QED
      BY <3>2, <3>3, <3>4, LimitAssumption
  <2>2. CASE ~(Exists /\ channel' = NoChannel)
    BY <2>2 DEF Administration, Forgotten, ghostVars, TypeOK
  <2> QED
    BY <2>1, <2>2
<1>2. TablesTypeOK' /\ newcomers' \in {newcomers, {}}
  <2> USE FreshIsRow DEF TypeOK, TablesTypeOK, Exists, Stored, upstreamVars
  <2>1. ASSUME NEW k \in Children, AddChannel(k) PROVE <1>2
    BY <2>1 DEF AddChannel, Seed
  <2>2. ASSUME NEW k \in Children, DeleteChannel(k) PROVE <1>2
    BY <2>2 DEF DeleteChannel, DropChannel
  <2>3. CASE MentionChannel
    BY <2>3 DEF MentionChannel, Seed
  <2>4. CASE FeedGc
    BY <2>4 DEF FeedGc, DropChannel
  <2>5. CASE RunNow
    <3>1. channel \in Channels /\ channel' = [channel EXCEPT !.due = TRUE]
      BY <2>5 DEF RunNow
    <3>2. channel' \in Channels
      BY <3>1, CrawledRow
    <3> QED
      BY <2>5, <3>2, NoChannelAssumption DEF RunNow
  <2>6. CASE Unshelve
    <3>1. /\ channel \in Channels
          /\ channel' = [channel EXCEPT !.status = "pending", !.errors = 0,
                                        !.due = TRUE, !.over = FALSE]
      BY <2>6 DEF Unshelve
    <3>2. channel' \in Channels
      BY <3>1, CrawledRow
    <3> QED
      BY <2>6, <3>2, NoChannelAssumption DEF Unshelve
  <2> HIDE DEF TypeOK, TablesTypeOK, Exists, Stored, upstreamVars
  <2> QED
    BY <2>1, <2>2, <2>3, <2>4, <2>5, <2>6 DEF Administration
<1> QED
  BY <1>1, <1>2 DEF Administration, TypeOK, Crawling

\* The crawler keeps the types.
LEMMA CrawlerType == TypeOK /\ ErrorsLeft /\ (Claim \/ Crawl) => TypeOK'
<1> SUFFICES ASSUME TypeOK, ErrorsLeft, Claim \/ Crawl PROVE TypeOK'
  OBVIOUS
<1>1. /\ channel \in Channels \cup {NoChannel} /\ crawl \in Crawls
      /\ live \subseteq Videos /\ gone \subseteq Videos \ live /\ newcomers \subseteq live \cup gone
      /\ ~Exists => live = {} /\ gone = {} /\ allowed = {}
      /\ newcomers # {} => Crawling
      /\ tab \subseteq Videos
  BY DEF TypeOK, TablesTypeOK, Stored
<1> DEFINE Good ==
      /\ channel' \in Channels \cup {NoChannel} /\ (channel' = NoChannel <=> channel = NoChannel)
      /\ crawl' \in Crawls
      /\ live' \subseteq Videos /\ gone' \subseteq Videos \ live' /\ newcomers' \subseteq live' \cup gone'
      /\ ~Exists => live' = {} /\ gone' = {}
      /\ newcomers' # {} => Crawling'
      /\ UNCHANGED <<allowed, tab, feed, settled>>
<1>2. ASSUME ClaimOneDue PROVE Good
  <2>1. /\ channel' = [channel EXCEPT !.status = "running", !.over = FALSE]
        /\ crawl' = [IdleCrawl EXCEPT !.pc = "list", !.steady = tab]
        /\ newcomers' = {} /\ Exists
    BY <1>2 DEF ClaimOneDue, ClaimWhen
  <2>2. channel' \in Channels
    BY <1>1, <2>1, CrawledRow DEF Exists
  <2>3. crawl' \in Crawls
    BY <1>1, <2>1, IdleTypes DEF Crawls, CrawlPC
  <2> QED
    BY <1>1, <1>2, <2>1, <2>2, <2>3, NoChannelAssumption DEF ClaimOneDue, ClaimWhen, Exists, upstreamVars
<1>3. ASSUME CrawlStep PROVE Good
  <2>1. ASSUME NEW dropped \in SUBSET Videos, FlatPlaylist(dropped) PROVE Good
    <3>1. crawl' \in Crawls /\ crawl'.pc = "apply"
      BY <1>1, <2>1 DEF FlatPlaylist, Crawls, CrawlPC
    <3> QED
      BY <1>1, <2>1, <3>1 DEF FlatPlaylist, tableVars, upstreamVars, Crawling
  <2>2. CASE FlatPlaylistFails
    <3>1. crawl' \in Crawls
      BY <2>2, IdleTypes DEF FlatPlaylistFails, Crawls, CrawlPC
    <3> QED
      BY <1>1, <2>2, <3>1 DEF FlatPlaylistFails, upstreamVars
  <2>3. CASE Apply
    <3>1. crawl' \in Crawls
      BY <2>3, IdleTypes DEF Apply, ApplyWith, Crawls, CrawlPC
    <3>2. crawl.seen \subseteq Videos
      BY <1>1 DEF Crawls
    <3> QED
      BY <1>1, <2>3, <3>1, <3>2 DEF Apply, ApplyWith, Accepted, Unlisted, Exists, upstreamVars
  <2>4. CASE Reschedule
    BY <1>1, <2>4, CrawledRow, IdleTypes, NoChannelAssumption
       DEF Reschedule, Row, EndCrawl, Exists, upstreamVars
  <2>5. CASE ShelveAbsent
    BY <1>1, <2>5, CrawledRow, IdleTypes, NoChannelAssumption
       DEF ShelveAbsent, Row, EndCrawl, Exists, upstreamVars
  <2>6. CASE ReadErrors
    <3>1. CASE Exists
      <4>1. channel.errors + 1 \in 0 .. Shelve
        <5>1. channel \in Channels
          BY <1>1, <3>1 DEF Exists
        <5>2. channel.errors \in 0 .. Shelve
          BY <5>1 DEF Channels
        <5>3. channel.errors < Shelve
          BY <2>6, <3>1 DEF ErrorsLeft, ReadErrors, CrawlAt
        <5> QED
          BY <5>2, <5>3, LimitAssumption
      <4>2. crawl' \in Crawls
        BY <1>1, <2>6, <3>1, <4>1 DEF ReadErrors, Crawls, CrawlPC
      <4> QED
        BY <1>1, <2>6, <4>2 DEF ReadErrors, CrawlAt, Crawling, tableVars, upstreamVars
    <3>2. CASE ~Exists
      BY <1>1, <2>6, <3>2, IdleTypes DEF ReadErrors, CrawlAt, Crawling, tableVars, upstreamVars
    <3> QED
      BY <3>1, <3>2
  <2>7. CASE RecordFailure
    <3>1. crawl.attempt \in 0 .. Shelve
      BY <1>1 DEF Crawls
    <3>2. channel' \in Channels \cup {NoChannel} /\ (channel' = NoChannel <=> channel = NoChannel)
      BY <1>1, <2>7, <3>1, CountedRow, NoChannelAssumption DEF RecordFailure, Row, Exists
    <3> QED
      BY <1>1, <2>7, <3>2, IdleTypes DEF RecordFailure, EndCrawl, upstreamVars
  <2>8. CASE CrawlWriteFails
    BY <1>1, <2>8, IdleTypes DEF CrawlWriteFails, EndCrawl, upstreamVars
  <2> QED
    BY <1>3, <2>1, <2>2, <2>3, <2>4, <2>5, <2>6, <2>7, <2>8 DEF CrawlStep
<1>4. Good /\ poll' \in Polls /\ UNCHANGED ghostVars
  <2>1. poll' \in Polls /\ UNCHANGED ghostVars
    BY MarkedPoll, Zenon DEF Claim, Crawl, TypeOK
  <2> QED
    BY <1>2, <1>3, <2>1 DEF Claim, Crawl
<1> QED
  BY <1>1, <1>4 DEF TypeOK, TablesTypeOK, Stored, Exists, ghostVars

\* What an answer leaves of a poll is one.
LEMMA AnsweredPoll ==
  ASSUME poll \in Polls, NEW label \in PollPC, NEW items \in SUBSET Videos, NEW tag \in Tags,
         Answered(label, items, tag) \/ Failed(label)
  PROVE  poll' \in Polls /\ poll'.pc = label
<1>1. ASSUME NEW young \in BOOLEAN, NEW orphan \in BOOLEAN
      PROVE  /\ [IdlePoll EXCEPT !.pc = label, !.items = items, !.tag = tag,
                                 !.young = young, !.orphan = orphan] \in Polls
             /\ [IdlePoll EXCEPT !.pc = label] \in Polls
  BY IdleTypes DEF Polls
<1>2. /\ poll.young \in BOOLEAN /\ poll.orphan \in BOOLEAN
      /\ (poll.young /\ label = "store") \in BOOLEAN
  <2>1. poll.young \in BOOLEAN /\ poll.orphan \in BOOLEAN
    BY DEF Polls
  <2> QED
    BY <2>1, Zenon
<1>3. poll' \in Polls
  BY <1>1, <1>2, Zenon DEF Answered, Failed
<1> QED
  BY <1>3, IdleTypes DEF Answered, Failed, IdlePoll

\* And its fields are those it was given.
LEMMA AnsweredFields ==
  ASSUME NEW label, NEW items, NEW tag, Answered(label, items, tag)
  PROVE  /\ poll'.pc = label /\ poll'.items = items /\ poll'.tag = tag
         /\ poll'.orphan = poll.orphan
<1>1. \A young, orphan :
        LET p == [IdlePoll EXCEPT !.pc = label, !.items = items, !.tag = tag,
                                  !.young = young, !.orphan = orphan]
        IN  p.pc = label /\ p.items = items /\ p.tag = tag /\ p.orphan = orphan
  BY DEF IdlePoll
<1> QED
  BY <1>1, Zenon DEF Answered

\* A poll that failed is where it was sent.
LEMMA FailedLabel ==
  ASSUME NEW label, Failed(label)
  PROVE  poll'.pc = label
<1>1. \A orphan : [IdlePoll EXCEPT !.pc = label, !.orphan = orphan].pc = label
  BY DEF IdlePoll
<1> QED
  BY <1>1, Zenon DEF Failed

\* The refresher keeps the types.
LEMMA RefresherType == TypeOK /\ (ClaimPoll \/ Poll) => TypeOK'
<1> SUFFICES ASSUME TypeOK, ClaimPoll \/ Poll PROVE TypeOK'
  OBVIOUS
<1>1. /\ channel \in Channels \cup {NoChannel} /\ poll \in Polls
      /\ live \subseteq Videos /\ gone \subseteq Videos \ live /\ newcomers \subseteq live \cup gone
      /\ ~Exists => live = {} /\ gone = {} /\ allowed = {}
      /\ newcomers # {} => Crawling
      /\ tab \subseteq Videos /\ feed \subseteq Videos
      /\ poll.items \subseteq Videos /\ poll.tag \in Tags
      /\ called \in BOOLEAN /\ astray \in BOOLEAN
  BY DEF TypeOK, TablesTypeOK, Stored, Polls
<1> DEFINE Same == UNCHANGED <<live, gone, newcomers>>
           Row1 == channel' \in Channels \cup {NoChannel} /\ (channel' = NoChannel <=> channel = NoChannel)
           Ghosts == called' \in BOOLEAN /\ astray' \in BOOLEAN
           Good == Same /\ Row1 /\ Ghosts /\ poll' \in Polls /\ UNCHANGED <<allowed, upstreamVars>>
<1>2. ASSUME ClaimDueSource PROVE Good
  <2>1. channel \in Channels
    BY <1>1, <1>2 DEF ClaimDueSource, Exists
  <2>2. channel.tag \in Tags /\ channel.rssErrors \in 0 .. DeadAfter /\ channel.cooling \in BOOLEAN
    BY <2>1 DEF Channels
  <2>3. poll' \in Polls
    BY <1>1, <1>2, <2>2, IdleTypes DEF ClaimDueSource, Polls, PollPC
  <2>4. Row1
    BY <1>1, <1>2, <2>1, PolledRow, NoChannelAssumption DEF ClaimDueSource, Exists
  <2> QED
    BY <1>1, <1>2, <2>3, <2>4 DEF ClaimDueSource, ghostVars
<1>3. ASSUME PollStep(Crawling), ~UpsertChannelVideos(Crawling) PROVE Good
  <2>1. CASE NotModified
    <3>1. poll' \in Polls
      BY <1>1, <2>1, AnsweredPoll, Zenon DEF NotModified, PollPC
    <3> QED
      BY <1>1, <2>1, <3>1 DEF NotModified, tableVars, ghostVars
  <2>2. CASE Updated
    <3>1. feed \in Tags /\ NoTag \in Tags
      BY <1>1 DEF Tags
    <3>2. poll' \in Polls
      <4> PICK tag \in {feed, NoTag} : Answered("store", feed, tag)
        BY <2>2 DEF Updated
      <4>1. tag \in Tags /\ feed \in SUBSET Videos /\ "store" \in PollPC
        BY <1>1, <3>1 DEF PollPC
      <4> QED
        BY <1>1, <4>1, AnsweredPoll
    <3> QED
      BY <1>1, <2>2, <3>2 DEF Updated, tableVars, ghostVars
  <2>3. CASE PollErr
    <3>1. poll' \in Polls
      BY <1>1, <2>3 DEF PollErr, Polls, PollPC, Tags
    <3> QED
      BY <1>1, <2>3, <3>1 DEF PollErr, tableVars, ghostVars
  <2>4. CASE RecordPollSuccess
    <3>1. Row1
      BY <1>1, <2>4, PolledRow, NoChannelAssumption DEF RecordPollSuccess, Record, Exists
    <3>2. astray' \in BOOLEAN /\ called' \in BOOLEAN
      BY <1>1, <2>4, Zenon DEF RecordPollSuccess
    <3> QED
      BY <1>1, <2>4, <3>1, <3>2, IdleTypes, LimitAssumption DEF RecordPollSuccess, Record, EndPoll
  <2>5. CASE FallbackPermitted
    <3>1. poll' \in Polls
      BY <1>1, <2>5 DEF FallbackPermitted, Polls, PollPC, Tags
    <3> QED
      BY <1>1, <2>5, <3>1 DEF FallbackPermitted, tableVars, ghostVars
  <2>6. CASE FallbackRefused
    <3>1. poll' \in Polls
      BY <1>1, <2>6, AnsweredPoll DEF FallbackRefused, PollPC
    <3> QED
      BY <1>1, <2>6, <3>1 DEF FallbackRefused, tableVars, ghostVars
  <2>7. CASE DispatchFallback
    <3>1. Row1
      BY <1>1, <2>7, PolledRow, NoChannelAssumption DEF DispatchFallback, Exists
    <3>2. poll' \in Polls
      BY <1>1, <2>7 DEF DispatchFallback, PollTo, Polls, PollPC
    <3>3. called' \in BOOLEAN
      BY <2>7, Zenon DEF DispatchFallback, Exists
    <3> QED
      BY <1>1, <2>7, <3>1, <3>2, <3>3 DEF DispatchFallback
  <2>8. CASE SidecarItems
    <3>1. poll' \in Polls
      <4> PICK items \in {tab, {}} : Answered("store", items, NoTag)
        BY <2>8 DEF SidecarItems
      <4>1. NoTag \in Tags /\ items \in SUBSET Videos /\ "store" \in PollPC
        BY <1>1 DEF PollPC, Tags
      <4> QED
        BY <1>1, <4>1, AnsweredPoll
    <3> QED
      BY <1>1, <2>8, <3>1 DEF SidecarItems, tableVars, ghostVars
  <2>9. CASE SidecarNotFound
    <3>1. PICK label \in {"dead", "failure"} : Failed(label)
      BY <2>9 DEF SidecarNotFound
    <3>2. poll' \in Polls
      BY <1>1, <3>1, AnsweredPoll DEF PollPC
    <3> QED
      BY <1>1, <2>9, <3>2 DEF SidecarNotFound, tableVars, ghostVars
  <2>10. CASE SidecarError
    <3>1. poll' \in Polls
      BY <1>1, <2>10, AnsweredPoll DEF SidecarError, PollPC
    <3> QED
      BY <1>1, <2>10, <3>1 DEF SidecarError, tableVars, ghostVars
  <2>11. CASE RecordPollFailure
    <3>1. Row1
      BY <1>1, <2>11, PolledRow, NoChannelAssumption DEF RecordPollFailure, Record, Exists
    <3> QED
      BY <1>1, <2>11, <3>1, IdleTypes DEF RecordPollFailure, Record, EndPoll, ghostVars
  <2>12. CASE RecordSourceDead
    <3>1. Row1
      BY <1>1, <2>12, PolledRow, NoChannelAssumption DEF RecordSourceDead, Record, Exists
    <3> QED
      BY <1>1, <2>12, <3>1, IdleTypes DEF RecordSourceDead, Record, EndPoll, ghostVars
  <2>13. CASE PollWriteFails
    BY <1>1, <2>13, IdleTypes DEF PollWriteFails, EndPoll, tableVars, ghostVars
  <2> QED
    BY <1>3, <2>1, <2>2, <2>3, <2>4, <2>5, <2>6, <2>7, <2>8, <2>9, <2>10, <2>11, <2>12, <2>13
       DEF PollStep
<1>4. ASSUME UpsertChannelVideos(Crawling), UNCHANGED crawl PROVE TypeOK'
  <2>1. /\ live' = live \cup poll.items /\ gone' = gone \ poll.items
        /\ newcomers' \subseteq newcomers \cup poll.items
        /\ ~Crawling => newcomers' = newcomers
        /\ UNCHANGED <<channel, allowed, tab, feed, settled, called, astray>>
        /\ Exists \/ poll.items = {}
    BY <1>4 DEF UpsertChannelVideos, Accepted, upstreamVars, ghostVars
  <2>2. poll' \in Polls
    <3>1. (~Exists) \in BOOLEAN
      BY Zenon
    <3>2. \A orphan \in BOOLEAN :
            [IdlePoll EXCEPT !.pc = "success", !.tag = poll.tag, !.orphan = orphan] \in Polls
      BY <1>1, IdleTypes DEF Polls, PollPC
    <3> QED
      BY <1>4, <3>1, <3>2, Zenon DEF UpsertChannelVideos
  <2>3. newcomers' # {} => Crawling'
    BY <1>1, <1>4, <2>1 DEF Crawling
  <2> QED
    BY <1>1, <1>4, <2>1, <2>2, <2>3 DEF TypeOK, TablesTypeOK, Stored, Exists
<1>5. ASSUME Good, UNCHANGED crawl PROVE TypeOK'
  <2>1. Crawling' = Crawling
    BY <1>5 DEF Crawling
  <2> QED
    BY <1>1, <1>5, <2>1 DEF TypeOK, TablesTypeOK, Stored, Exists, upstreamVars
<1> QED
  BY <1>2, <1>3, <1>4, <1>5 DEF ClaimPoll, Poll

\* So do YouTube, the clock and a crash.
LEMMA EnvironmentType == TypeOK /\ (Uploads \/ Crash \/ Clock \/ UNCHANGED vars) => TypeOK'
<1> SUFFICES ASSUME TypeOK, Uploads \/ Crash \/ Clock \/ UNCHANGED vars PROVE TypeOK'
  OBVIOUS
<1> USE DEF TypeOK, TablesTypeOK, Exists, Stored
<1>1. CASE Uploads
  <2>1. crawl' \in Crawls /\ crawl'.pc = crawl.pc
    BY <1>1 DEF Uploads, Crawls
  <2> QED
    BY <1>1, <2>1 DEF Uploads, UploadsChange, tableVars, ghostVars, Crawling
<1>2. CASE Crash
  BY <1>2, IdleTypes DEF Crash, EndCrawl, EndPoll, upstreamVars, ghostVars
<1>3. CASE TimePasses /\ UNCHANGED <<crawl, poll, ghostVars>>
  <2>1. /\ channel # NoChannel
        /\ \/ channel' = [channel EXCEPT !.due = TRUE]
           \/ channel' = [channel EXCEPT !.over = TRUE]
           \/ channel' = [channel EXCEPT !.poll = TRUE]
    BY <1>3 DEF TimePasses, CrawlDue, LeaseOver, PollDue
  <2>2. channel' \in Channels
    BY <2>1, CrawledRow, PolledRow
  <2> QED
    BY <1>3, <2>1, <2>2, NoChannelAssumption DEF TimePasses, upstreamVars, ghostVars, Crawling
<1>4. CASE HourOver /\ UNCHANGED crawl
  <2>1. channel' \in Channels \cup {NoChannel} /\ (channel' = NoChannel <=> channel = NoChannel)
    BY <1>4, PolledRow, NoChannelAssumption DEF HourOver
  <2>2. called' \in BOOLEAN
    BY <1>4, Zenon DEF HourOver
  <2> QED
    BY <1>4, <2>1, <2>2 DEF HourOver, upstreamVars, Crawling
<1>5. CASE UNCHANGED vars
  BY <1>5 DEF vars, tableVars, upstreamVars, ghostVars, Crawling
<1> QED
  BY <1>1, <1>2, <1>3, <1>4, <1>5 DEF Clock

\* The last error shelves the row, and with it ends the crawl.
LEMMA ErrorsStep == TypeOK /\ ErrorsLeft /\ [Next]_vars => ErrorsLeft'
<1> SUFFICES ASSUME TypeOK, ErrorsLeft, [Next]_vars, Exists' PROVE ErrorsLeft'
  BY DEF ErrorsLeft
<1> DEFINE Kept == /\ Exists /\ channel'.status = channel.status /\ channel'.errors = channel.errors
                   /\ crawl'.pc = "idle" \/ crawl'.pc = crawl.pc
           Fresh == channel'.status # "shelved" /\ channel'.errors < Shelve
           Row2 == channel \in Channels \cup {NoChannel} /\ channel' \in Channels
<1>1. Kept => ErrorsLeft'
  BY DEF ErrorsLeft, CrawlAt
<1>2. Fresh => ErrorsLeft'
  BY DEF ErrorsLeft
<1>3. Exists => channel \in Channels
  BY DEF TypeOK, TablesTypeOK, Exists
<1>4. CASE Administration
  <2>1. (FreshChannel.status = "pending" /\ FreshChannel.errors = 0) /\ 0 < Shelve
    BY LimitAssumption DEF FreshChannel
  <2>2. UNCHANGED crawl
    BY <1>4 DEF Administration
  <2>3. CASE channel' = channel
    BY <1>1, <2>2, <2>3 DEF Exists
  <2>4. CASE channel' = FreshChannel
    BY <1>2, <2>1, <2>4
  <2>5. CASE RunNow
    BY <1>1, <1>3, <2>2, <2>5 DEF RunNow, Channels
  <2>6. CASE Unshelve
    <3>1. channel'.status = "pending" /\ channel'.errors = 0
      BY <1>3, <2>6 DEF Unshelve, Channels
    <3> QED
      BY <1>2, <2>1, <3>1
  <2> QED
    BY <1>4, <2>3, <2>4, <2>5, <2>6
       DEF Administration, AddChannel, DeleteChannel, MentionChannel, FeedGc, Seed, DropChannel, Exists
<1>5. CASE Claim
  <2>1. channel'.status = "running" /\ channel'.errors = channel.errors /\ Exists /\ channel.status # "shelved"
    BY <1>3, <1>5 DEF Claim, ClaimOneDue, ClaimWhen, Claimable, Channels
  <2> QED
    BY <1>2, <2>1 DEF ErrorsLeft
<1>6. CASE Crawl
  <2>1. CASE crawl'.pc # "idle"
    <3>0. IdleCrawl.pc = "idle"
      BY DEF IdleCrawl
    <3>1. crawl.pc # "idle" /\ UNCHANGED channel
      BY <1>6, <2>1, <3>0 DEF Crawl, CrawlStep, FlatPlaylist, FlatPlaylistFails, Apply, ApplyWith, Reschedule,
         ShelveAbsent, ReadErrors, RecordFailure, CrawlWriteFails, EndCrawl, CrawlAt, tableVars
    <3> QED
      BY <2>1, <3>1 DEF ErrorsLeft, CrawlAt, Exists
  <2>2. CASE crawl'.pc = "idle" /\ UNCHANGED channel
    BY <1>1, <2>2 DEF Exists
  <2>3. CASE Reschedule \/ ShelveAbsent \/ RecordFailure
    <3>1. channel \in Channels /\ crawl'.pc = "idle"
      BY <1>3, <2>3 DEF Reschedule, ShelveAbsent, RecordFailure, Row, EndCrawl, IdleCrawl, Exists
    <3>2. channel'.status = "shelved" \/ channel'.errors < Shelve
      <4>1. CASE Reschedule
        BY <3>1, <4>1, LimitAssumption DEF Reschedule, Row, Exists, Channels
      <4>2. CASE ShelveAbsent
        BY <3>1, <4>2 DEF ShelveAbsent, Row, Exists, Channels
      <4>3. CASE RecordFailure
        <5>1. crawl.attempt \in 0 .. Shelve
          BY DEF TypeOK, Crawls
        <5>2. CASE crawl.attempt >= Shelve
          BY <3>1, <4>3, <5>2 DEF RecordFailure, Row, Exists, Channels
        <5>3. CASE ~(crawl.attempt >= Shelve)
          <6>1. channel'.errors = crawl.attempt
            BY <3>1, <4>3, <5>3 DEF RecordFailure, Row, Exists, Channels
          <6> QED
            BY <5>1, <5>3, <6>1, LimitAssumption
        <5> QED
          BY <5>2, <5>3
      <4> QED
        BY <2>3, <4>1, <4>2, <4>3
    <3> QED
      BY <3>1, <3>2 DEF ErrorsLeft, CrawlAt
  <2> QED
    BY <1>6, <2>1, <2>2, <2>3 DEF Crawl, CrawlStep, FlatPlaylist, FlatPlaylistFails, Apply, ApplyWith,
       ReadErrors, CrawlWriteFails, tableVars
<1>7. CASE ClaimPoll \/ Poll \/ Uploads \/ Crash \/ Clock \/ UNCHANGED vars
  <2>1. crawl'.pc = "idle" \/ crawl'.pc = crawl.pc
    BY <1>7 DEF ClaimPoll, Poll, Uploads, Crash, EndCrawl, IdleCrawl, Clock, vars, TypeOK, Crawls
  <2>2. Exists
    BY <1>7 DEF ClaimPoll, ClaimDueSource, Poll, PollStep, NotModified, Updated, PollErr, UpsertChannelVideos,
       RecordPollSuccess, FallbackPermitted, FallbackRefused, DispatchFallback, SidecarItems,
       SidecarNotFound, SidecarError, RecordPollFailure, RecordSourceDead, PollWriteFails, Record,
       Uploads, UploadsChange, Crash, Clock, TimePasses, CrawlDue, LeaseOver, PollDue, HourOver,
       vars, tableVars, Exists
  <2>3. channel'.status = channel.status /\ channel'.errors = channel.errors
    <3>1. channel \in Channels
      BY <1>3, <2>2
    <3>2. CASE ClaimPoll
      BY <3>1, <3>2 DEF ClaimPoll, ClaimDueSource, Channels
    <3>3. CASE Poll
      BY <2>2, <3>1, <3>3 DEF Poll, PollStep, NotModified, Updated, PollErr, UpsertChannelVideos,
         RecordPollSuccess, FallbackPermitted, FallbackRefused, DispatchFallback, SidecarItems,
         SidecarNotFound, SidecarError, RecordPollFailure, RecordSourceDead, PollWriteFails, Record,
         tableVars, Channels
    <3>4. CASE Clock
      BY <2>2, <3>1, <3>4 DEF Clock, TimePasses, CrawlDue, LeaseOver, PollDue, HourOver, Channels
    <3>5. CASE Uploads \/ Crash \/ UNCHANGED vars
      BY <3>5 DEF Uploads, UploadsChange, Crash, vars, tableVars
    <3> QED
      BY <1>7, <3>2, <3>3, <3>4, <3>5
  <2> QED
    BY <1>1, <2>1, <2>2, <2>3
<1> QED
  BY <1>4, <1>5, <1>6, <1>7 DEF Next

TypeInv == TypeOK /\ ErrorsLeft

\* An invariant, and therefore the types are right.
LEMMA TypeInvariant == Spec => []TypeInv
<1>1. Init => TypeInv
  BY InitType DEF TypeInv, ErrorsLeft, Init, TablesInit, Exists
<1>2. TypeInv /\ [Next]_vars => TypeInv'
  BY AdministrationType, CrawlerType, RefresherType, EnvironmentType, ErrorsStep DEF TypeInv, Next
<1> QED
  BY <1>1, <1>2, PTL DEF Spec

\* The type invariant, for any number of videos and children, any shelving
\* limit and any threshold: rows have their types, the catalogue is split
\* into live rows and tombstones, and goes with the channel's row.
THEOREM FeedTypeCorrect == Spec => []TypeOK
  BY TypeInvariant, PTL DEF TypeInv

-----------------------------------------------------------------------------
(* Tombstones.                                                             *)

\* What was listed throughout is among the entries.
LEMMA SteadyStep == TypeOK /\ SteadyListed /\ [Next]_vars => SteadyListed'
<1> SUFFICES ASSUME TypeOK, SteadyListed, [Next]_vars PROVE SteadyListed'
  OBVIOUS
<1>1. CASE Claim
  <2>1. crawl'.pc = "list" /\ crawl'.steady = tab /\ tab' = tab
    BY <1>1 DEF Claim, ClaimOneDue, ClaimWhen, IdleCrawl, upstreamVars
  <2> QED
    BY <2>1 DEF SteadyListed, CrawlAt
<1>2. CASE Crawl
  <2>1. ASSUME NEW dropped \in SUBSET Videos, FlatPlaylist(dropped) PROVE SteadyListed'
    <3>1. /\ crawl'.pc = "apply" /\ crawl'.seen = tab \ dropped
          /\ crawl'.steady = crawl.steady \ dropped /\ crawl.steady \subseteq tab
      BY <2>1 DEF FlatPlaylist, SteadyListed, TypeOK, Crawls
    <3> QED
      BY <3>1 DEF SteadyListed, CrawlAt
  <2>2. CASE crawl'.pc \notin {"list", "apply"}
    BY <2>2 DEF SteadyListed, CrawlAt
  <2>3. IdleCrawl.pc = "idle"
    BY DEF IdleCrawl
  <2>4. ASSUME NEW label, crawl' = [IdleCrawl EXCEPT !.pc = label] PROVE crawl'.pc = label
    BY <2>4 DEF IdleCrawl
  <2>5. CASE ReadErrors
    BY <2>2, <2>3, <2>5 DEF ReadErrors, TypeOK, Crawls
  <2> QED
    BY <1>2, <2>1, <2>2, <2>3, <2>4, <2>5 DEF Crawl, CrawlStep, FlatPlaylistFails, Apply, ApplyWith,
       Reschedule, ShelveAbsent, RecordFailure, CrawlWriteFails, EndCrawl
<1>3. CASE Uploads
  BY <1>3 DEF Uploads, SteadyListed, CrawlAt, TypeOK, Crawls
<1>4. CASE Crash
  BY <1>4 DEF Crash, EndCrawl, IdleCrawl, SteadyListed, CrawlAt
<1>5. CASE Administration \/ ClaimPoll \/ Poll \/ Clock \/ UNCHANGED vars
  <2>1. UNCHANGED <<crawl, tab>>
    BY <1>5 DEF Administration, AddChannel, DeleteChannel, MentionChannel, FeedGc, RunNow, Unshelve,
       ClaimPoll, ClaimDueSource, Poll, PollStep, NotModified, Updated, PollErr, UpsertChannelVideos,
       RecordPollSuccess, FallbackPermitted, FallbackRefused, DispatchFallback, SidecarItems,
       SidecarNotFound, SidecarError, RecordPollFailure, RecordSourceDead, PollWriteFails, Record,
       Clock, TimePasses, HourOver, vars, upstreamVars
  <2> QED
    BY <2>1 DEF SteadyListed, CrawlAt
<1> QED
  BY <1>1, <1>2, <1>3, <1>4, <1>5 DEF Next

\* Rows are taken from the catalogue by a crawl's commit, which spares the
\* listed and the newcomers, and with the channel.
LEMMA TombstoneStep ==
  TypeOK /\ SteadyListed /\ [Next]_vars =>
    [\A v \in live : (v \in crawl.steady \/ v \in newcomers) /\ Exists /\ channel' # NoChannel
                        => v \in live']_vars
<1> SUFFICES ASSUME SteadyListed, [Next]_vars, Exists, channel' # NoChannel,
                    NEW v \in live, v \in crawl.steady \/ v \in newcomers
             PROVE  v \in live'
  OBVIOUS
<1>1. CASE Apply
  BY <1>1 DEF Apply, ApplyWith, Unlisted, SteadyListed
<1>2. CASE Poll
  BY <1>2 DEF Poll, PollStep, NotModified, Updated, PollErr, UpsertChannelVideos, RecordPollSuccess,
     FallbackPermitted, FallbackRefused, DispatchFallback, SidecarItems, SidecarNotFound,
     SidecarError, RecordPollFailure, RecordSourceDead, PollWriteFails, Record, tableVars
<1>3. CASE Administration
  BY <1>3 DEF Administration, AddChannel, DeleteChannel, MentionChannel, FeedGc, RunNow, Unshelve, DropChannel
<1>4. CASE Crawl /\ ~Apply
  BY <1>4 DEF Crawl, CrawlStep, FlatPlaylist, FlatPlaylistFails, Reschedule, ShelveAbsent, ReadErrors,
     RecordFailure, CrawlWriteFails, tableVars
<1>5. CASE Claim \/ ClaimPoll \/ Uploads \/ Crash \/ Clock \/ UNCHANGED vars
  BY <1>5 DEF Claim, ClaimOneDue, ClaimWhen, ClaimPoll, ClaimDueSource, Uploads, UploadsChange, Crash,
     Clock, TimePasses, HourOver, vars, tableVars
<1> QED
  BY <1>1, <1>2, <1>3, <1>4, <1>5 DEF Next, Crawl, CrawlStep

\* A crawl tombstones nothing that was on the tab all along, and nothing that
\* a poll begun after it was the first to see: for channels of any size.
THEOREM CrawlsTombstoneRightly == Spec => TombstonesAreEarned
<1>1. Init => SteadyListed
  BY DEF Init, IdleCrawl, SteadyListed, CrawlAt
<1>2. TypeInv /\ SteadyListed /\ [Next]_vars => SteadyListed'
  BY SteadyStep DEF TypeInv
<1> QED
  BY <1>1, <1>2, TypeInvariant, TombstoneStep, PTL DEF Spec, TombstonesAreEarned, TypeInv

-----------------------------------------------------------------------------
(* Tags.                                                                   *)

\* A row that stays, or stays away, with its tag and all its videos.
RowKept ==
    /\ Exists' <=> Exists
    /\ Exists => channel'.tag = channel.tag
    /\ Stored \subseteq Stored'

\* The crawler tombstones, but never deletes, and never writes a tag.
LEMMA CrawlerKeepsRow ==
  TypeInv /\ (Claim \/ Crawl) => RowKept /\ (Exists => channel'.cooling = channel.cooling)
<1> SUFFICES ASSUME TypeInv, Claim \/ Crawl
             PROVE  RowKept /\ (Exists => channel'.cooling = channel.cooling)
  OBVIOUS
<1>1. Exists => channel \in Channels
  BY DEF TypeInv, TypeOK, TablesTypeOK, Exists
<1>2. Exists' <=> Exists
  <2>1. channel' \in Channels \cup {NoChannel}
    BY CrawlerType DEF TypeInv, TypeOK, TablesTypeOK
  <2>2. CASE Claim
    BY <1>1, <2>2, CrawledRow, NoChannelAssumption DEF Claim, ClaimOneDue, ClaimWhen, Exists
  <2>3. CASE Crawl
    <3>1. crawl.attempt \in 0 .. Shelve
      BY DEF TypeInv, TypeOK, Crawls
    <3> QED
      <4>1. CASE UNCHANGED channel
        BY <4>1 DEF Exists
      <4>2. CASE Reschedule \/ ShelveAbsent
        BY <1>1, <4>2, CrawledRow, NoChannelAssumption DEF Reschedule, ShelveAbsent, Row, Exists
      <4>3. CASE RecordFailure
        <5>1. CASE Exists
          <6>1. channel \in Channels
            BY <1>1, <5>1
          <6>2. channel' \in Channels
            BY <3>1, <4>3, <5>1, <6>1, CountedRow DEF RecordFailure, Row
          <6> QED
            BY <5>1, <6>2, NoChannelAssumption DEF Exists
        <5>2. CASE ~Exists
          BY <4>3, <5>2 DEF RecordFailure, Row, Exists
        <5> QED
          BY <5>1, <5>2
      <4> QED
        BY <2>3, <4>1, <4>2, <4>3 DEF Crawl, CrawlStep, FlatPlaylist, FlatPlaylistFails, Apply,
           ApplyWith, ReadErrors, CrawlWriteFails, tableVars
  <2> QED
    BY <2>2, <2>3
<1>3. Exists => channel'.tag = channel.tag /\ channel'.cooling = channel.cooling
  BY <1>1 DEF Claim, ClaimOneDue, ClaimWhen, Crawl, CrawlStep, FlatPlaylist, FlatPlaylistFails, Apply,
     ApplyWith, Reschedule, ShelveAbsent, ReadErrors, RecordFailure, CrawlWriteFails, Row, tableVars,
     Channels
<1>4. Stored \subseteq Stored'
  BY DEF Claim, ClaimOneDue, ClaimWhen, Crawl, CrawlStep, FlatPlaylist, FlatPlaylistFails, Apply,
     ApplyWith, Reschedule, ShelveAbsent, ReadErrors, RecordFailure, CrawlWriteFails, tableVars, Stored
<1> QED
  BY <1>2, <1>3, <1>4 DEF RowKept

\* Neither YouTube nor the clock nor a crash touches the catalogue or a tag.
LEMMA EnvironmentKeepsRow ==
  TypeInv /\ (Uploads \/ Crash \/ Clock \/ UNCHANGED vars) => RowKept
<1> SUFFICES ASSUME TypeInv, Uploads \/ Crash \/ Clock \/ UNCHANGED vars PROVE RowKept
  OBVIOUS
<1>1. Exists => channel \in Channels
  BY DEF TypeInv, TypeOK, TablesTypeOK, Exists
<1>2. Exists' <=> Exists
  BY <1>1, CrawledRow, PolledRow, NoChannelAssumption DEF Uploads, UploadsChange, Crash, Clock, TimePasses,
     CrawlDue, LeaseOver, PollDue, HourOver, vars, tableVars, Exists
<1>3. Exists => channel'.tag = channel.tag
  BY <1>1 DEF Uploads, UploadsChange, Crash, Clock, TimePasses,
     CrawlDue, LeaseOver, PollDue, HourOver, vars, tableVars, Channels
<1>4. Stored \subseteq Stored'
  BY DEF Uploads, UploadsChange, Crash, Clock, TimePasses, HourOver, vars, tableVars, Stored
<1> QED
  BY <1>2, <1>3, <1>4 DEF RowKept

\* With its row and its catalogue kept, a poll that has not moved, or has
\* been dropped, has its tag still backed.
LEMMA KeptFollows ==
  ASSUME TagsFollow, RowKept, astray' = astray,
         \/ poll' = IdlePoll
         \/ /\ poll'.pc = poll.pc /\ poll'.tag = poll.tag
            /\ poll'.items = poll.items /\ poll'.orphan = poll.orphan
  PROVE  TagsFollow'
<1>1. IdlePoll.pc = "idle"
  BY DEF IdlePoll
<1> QED
  BY <1>1 DEF TagsFollow, TagIsBacked, RowKept, PollAt

\* Every step keeps the tags backed: what a poll records it has stored.
LEMMA TagsStep == TypeInv /\ TagsFollow /\ [Next]_vars => TagsFollow'
<1> SUFFICES ASSUME TypeInv, TagsFollow, [Next]_vars PROVE TagsFollow'
  OBVIOUS
<1>0. poll \in Polls /\ (Exists => channel \in Channels)
  BY DEF TypeInv, TypeOK, TablesTypeOK, Exists
<1>1. CASE Claim
  BY <1>0, <1>1, CrawlerKeepsRow, KeptFollows DEF Claim, ghostVars, Polls
<1>2. CASE Crawl
  BY <1>2, CrawlerKeepsRow, KeptFollows DEF Crawl, ghostVars
<1>3. CASE Uploads \/ Crash \/ Clock \/ UNCHANGED vars
  BY <1>3, EnvironmentKeepsRow, KeptFollows DEF Uploads, Crash, EndPoll, Clock, HourOver, vars, ghostVars
<1>4. CASE Administration
  <2>1. CASE Exists /\ channel' = NoChannel
    BY <1>0, <1>4, <2>1 DEF Administration, Forgotten, TagsFollow, TagIsBacked, Exists, PollAt, Polls
  <2>2. CASE ~Exists /\ channel' # NoChannel
    <3>1. channel' = FreshChannel /\ UNCHANGED <<poll, ghostVars>>
      BY <1>4, <2>2 DEF Administration, Forgotten, AddChannel, DeleteChannel, MentionChannel, FeedGc,
         RunNow, Unshelve, Seed, DropChannel, Exists
    <3>2. channel'.tag = NoTag
      BY <3>1 DEF FreshChannel
    <3> QED
      BY <2>2, <3>1, <3>2 DEF TagsFollow, TagIsBacked, PollAt, Exists, ghostVars
  <2>3. CASE ~(Exists /\ channel' = NoChannel) /\ ~(~Exists /\ channel' # NoChannel)
    <3>1. UNCHANGED <<poll, ghostVars>> /\ (Exists' <=> Exists)
      BY <1>4, <2>3 DEF Administration, Forgotten, Exists
    <3>2. Exists => channel'.tag = channel.tag
      BY <1>0, <1>4, <2>3 DEF Administration, AddChannel, DeleteChannel, MentionChannel, FeedGc,
         RunNow, Unshelve, Seed, DropChannel, Exists, Channels
    <3>3. Stored \subseteq Stored'
      <4>1. ~Exists => Stored = {}
        BY DEF TypeInv, TypeOK, TablesTypeOK
      <4> QED
        BY <1>4, <2>3, <4>1 DEF Administration, AddChannel, DeleteChannel, MentionChannel, FeedGc,
           RunNow, Unshelve, DropChannel, Exists, Stored
    <3> QED
      BY <3>1, <3>2, <3>3, KeptFollows DEF RowKept, ghostVars
  <2> QED
    BY <2>1, <2>2, <2>3
<1>5. CASE ClaimPoll
  <2>1. channel \in Channels /\ Exists /\ Exists'
    BY <1>0, <1>5, PolledRow, NoChannelAssumption DEF ClaimPoll, ClaimDueSource, Exists
  <2>2. /\ channel'.tag = channel.tag /\ poll'.tag = channel.tag /\ poll'.pc = "ask"
        /\ UNCHANGED <<live, gone, astray>>
    BY <1>5, <2>1 DEF ClaimPoll, ClaimDueSource, Channels, IdlePoll, ghostVars
  <2>3. poll'.orphan = astray
    BY <1>5 DEF ClaimPoll, ClaimDueSource, IdlePoll
  <2> QED
    BY <2>1, <2>2, <2>3 DEF TagsFollow, TagIsBacked, PollAt, Stored
<1>6. CASE Poll
  <2>1. CASE NotModified \/ Updated \/ SidecarItems
    <3>1. RowKept /\ astray' = astray
      BY <2>1 DEF NotModified, Updated, SidecarItems, RowKept, tableVars, ghostVars, Exists, Stored
    <3>2. \/ poll'.pc = "success" /\ poll.pc = "ask" /\ poll'.tag = poll.tag /\ poll'.orphan = poll.orphan
          \/ poll'.pc = "store" /\ (poll'.tag = poll'.items \/ poll'.tag = NoTag)
      BY <2>1, AnsweredFields DEF NotModified, Updated, SidecarItems, PollAt
    <3> QED
      BY <3>1, <3>2 DEF TagsFollow, TagIsBacked, RowKept, PollAt
  <2>2. CASE UpsertChannelVideos(Crawling)
    <3>1. /\ poll'.pc = "success" /\ poll'.tag = poll.tag /\ (~poll'.orphan => Exists)
          /\ poll.tag = NoTag \/ poll.tag = poll.items
          /\ live' \cup gone' = live \cup gone \cup poll.items
          /\ UNCHANGED <<channel, astray>>
      BY <2>2 DEF UpsertChannelVideos, IdlePoll, TagsFollow, PollAt, ghostVars
    <3> QED
      BY <3>1 DEF TagsFollow, TagIsBacked, Exists, Stored, PollAt
  <2>3. CASE RecordPollSuccess
    <3>1. /\ Exists => channel'.tag = poll.tag /\ (~astray' => ~poll.orphan)
          /\ UNCHANGED <<live, gone>> /\ poll'.pc = "idle" /\ PollAt("success")
          /\ ~Exists => ~Exists'
      BY <1>0, <2>3 DEF RecordPollSuccess, Record, EndPoll, IdlePoll, Exists, Channels
    <3> QED
      BY <3>1 DEF TagsFollow, TagIsBacked, Stored, PollAt
  <2>4. CASE \/ PollErr \/ FallbackPermitted \/ FallbackRefused \/ DispatchFallback
             \/ SidecarNotFound \/ SidecarError \/ RecordPollFailure \/ RecordSourceDead \/ PollWriteFails
    <3>1. astray' = astray /\ UNCHANGED <<live, gone>>
      BY <2>4 DEF PollErr, FallbackPermitted, FallbackRefused, DispatchFallback, SidecarNotFound,
         SidecarError, RecordPollFailure, RecordSourceDead, PollWriteFails, Record, tableVars, ghostVars
    <3>2. (Exists' => Exists) /\ (Exists' => channel'.tag = channel.tag)
      BY <1>0, <2>4 DEF PollErr, FallbackPermitted, FallbackRefused, DispatchFallback, SidecarNotFound,
         SidecarError, RecordPollFailure, RecordSourceDead, PollWriteFails, Record, tableVars, Exists,
         Channels
    <3>3. poll'.pc \notin {"ask", "success", "store"}
      <4>1. CASE FallbackRefused \/ SidecarNotFound \/ SidecarError
        BY <4>1, FailedLabel DEF FallbackRefused, SidecarNotFound, SidecarError
      <4>2. CASE PollErr \/ FallbackPermitted \/ DispatchFallback
        BY <1>0, <4>2 DEF PollErr, FallbackPermitted, DispatchFallback, PollTo, Polls
      <4>3. CASE RecordPollFailure \/ RecordSourceDead \/ PollWriteFails
        BY <4>3 DEF RecordPollFailure, RecordSourceDead, PollWriteFails, Record, EndPoll, IdlePoll
      <4> QED
        BY <2>4, <4>1, <4>2, <4>3
    <3> QED
      BY <3>1, <3>2, <3>3 DEF TagsFollow, TagIsBacked, Stored, PollAt
  <2> QED
    BY <1>6, <2>1, <2>2, <2>3, <2>4 DEF Poll, PollStep
<1> QED
  BY <1>1, <1>2, <1>3, <1>4, <1>5, <1>6 DEF Next

\* An etag on a row stands for nothing that the row's catalogue has never
\* had, so that a 304 never hides a video, unless the tag was earned by a
\* poll of a row since deleted.
THEOREM TagsAreBacked == Spec => []TagIsBacked
<1>1. Init => TagsFollow
  BY DEF Init, TablesInit, IdlePoll, TagsFollow, TagIsBacked, Exists, PollAt
<1>2. TypeInv /\ TagsFollow /\ [Next]_vars => TagsFollow'
  BY TagsStep
<1>3. TagsFollow => TagIsBacked
  BY DEF TagsFollow
<1> QED
  BY <1>1, <1>2, <1>3, TypeInvariant, PTL DEF Spec

-----------------------------------------------------------------------------
(* Fallbacks.                                                              *)

\* Steps that neither ask the sidecar nor touch the reservation, and leave
\* the poll where it was, or past its caps.
LEMMA ReservationKept ==
  ASSUME Reserved, called' = called,
         Exists => Exists' /\ channel'.cooling = channel.cooling,
         \/ poll'.pc = poll.pc /\ poll'.cooling = poll.cooling
         \/ poll'.pc \notin {"ask", "caps", "reserve"}
  PROVE  Reserved'
  BY DEF Reserved, PollAt

\* Every step keeps the reservation, until the hour is over.
LEMMA ReservedStep == TypeInv /\ Reserved /\ [Next]_vars => Reserved'
<1> SUFFICES ASSUME TypeInv, Reserved, [Next]_vars PROVE Reserved'
  OBVIOUS
<1>0. poll \in Polls /\ (Exists => channel \in Channels) /\ IdlePoll.pc = "idle"
  BY DEF TypeInv, TypeOK, TablesTypeOK, Exists, IdlePoll
<1>1. CASE Claim \/ Crawl
  <2>1. (Exists => Exists' /\ channel'.cooling = channel.cooling) /\ called' = called
    BY <1>1, CrawlerKeepsRow DEF RowKept, Claim, Crawl, ghostVars
  <2>2. poll'.pc = poll.pc /\ poll'.cooling = poll.cooling
    BY <1>0, <1>1 DEF Claim, Crawl, Polls
  <2> QED
    BY <2>1, <2>2, ReservationKept
<1>2. CASE Administration
  <2>1. CASE Exists /\ channel' = NoChannel
    <3>1. called' = FALSE
      BY <1>2, <2>1 DEF Administration, Forgotten
    <3> QED
      BY <3>1 DEF Reserved
  <2>2. CASE ~(Exists /\ channel' = NoChannel)
    <3>1. UNCHANGED <<poll, called>> /\ (Exists => Exists')
      BY <1>2, <2>2 DEF Administration, Forgotten, Exists, ghostVars
    <3>2. Exists => channel'.cooling = channel.cooling
      BY <1>0, <1>2, <2>2 DEF Administration, AddChannel, DeleteChannel, MentionChannel, FeedGc,
         RunNow, Unshelve, Seed, DropChannel, Exists, Channels
    <3> QED
      BY <3>1, <3>2, ReservationKept
  <2> QED
    BY <2>1, <2>2
<1>3. CASE \/ Uploads \/ Crash \/ UNCHANGED vars
           \/ TimePasses /\ UNCHANGED <<crawl, poll, ghostVars>>
  <2>1. called' = called /\ (poll' = poll \/ poll' = IdlePoll)
    BY <1>3 DEF Uploads, Crash, EndPoll, ghostVars, vars
  <2>2. Exists => Exists'
    BY <1>3, EnvironmentKeepsRow DEF RowKept, Clock
  <2>3. Exists => channel'.cooling = channel.cooling
    BY <1>0, <1>3 DEF Uploads, UploadsChange, Crash, TimePasses, CrawlDue, LeaseOver, PollDue, vars,
       tableVars, Channels
  <2> QED
    BY <1>0, <2>1, <2>2, <2>3, ReservationKept
<1>4. CASE HourOver /\ UNCHANGED crawl
  <2>1. called' = FALSE
    BY <1>4 DEF HourOver
  <2> QED
    BY <2>1 DEF Reserved
<1>5. CASE ClaimPoll
  <2>1. channel \in Channels /\ Exists /\ Exists' /\ channel'.cooling = channel.cooling /\ called' = called
    <3>1. channel \in Channels /\ channel' = [channel EXCEPT !.poll = FALSE]
      BY <1>0, <1>5 DEF ClaimPoll, ClaimDueSource
    <3>2. channel' \in Channels
      BY <3>1, PolledRow
    <3> QED
      BY <1>5, <3>1, <3>2, NoChannelAssumption DEF ClaimPoll, ClaimDueSource, Exists, Channels, ghostVars
  <2>2. poll'.pc = "ask"
    BY <1>5 DEF ClaimPoll, ClaimDueSource, IdlePoll
  <2>3. poll'.cooling = channel.cooling
    BY <1>5 DEF ClaimPoll, ClaimDueSource, IdlePoll
  <2>4. called => channel.cooling
    BY DEF Reserved
  <2> QED
    BY <2>1, <2>2, <2>3, <2>4 DEF Reserved, PollAt
<1>6. CASE Poll
  <2>1. CASE PollErr \/ FallbackPermitted
    <3>1. /\ channel' = channel /\ called' = called
          /\ \/ poll'.pc = "caps" /\ PollAt("ask") /\ poll'.cooling = poll.cooling
             \/ poll'.pc = "reserve" /\ PollAt("caps") /\ ~poll.cooling
      BY <1>0, <2>1 DEF PollErr, FallbackPermitted, Polls, tableVars, ghostVars
    <3> QED
      BY <3>1 DEF Reserved, PollAt, Exists
  <2>2. CASE DispatchFallback
    <3>1. poll'.pc = "sidecar"
      BY <1>0, <2>2 DEF DispatchFallback, PollTo, Polls
    <3>2. CASE Exists
      <4>1. channel \in Channels /\ channel' = [channel EXCEPT !.cooling = TRUE]
        BY <1>0, <2>2, <3>2 DEF DispatchFallback
      <4>2. channel' \in Channels /\ channel'.cooling
        BY <4>1, PolledRow DEF Channels
      <4> QED
        BY <3>1, <4>2, NoChannelAssumption DEF Reserved, PollAt, Exists
    <3>3. CASE ~Exists
      <4>1. called' = Exists
        BY <2>2 DEF DispatchFallback
      <4> QED
        BY <3>1, <3>3, <4>1 DEF Reserved, PollAt
    <3> QED
      BY <3>2, <3>3
  <2>3. CASE ~(PollErr \/ FallbackPermitted \/ DispatchFallback)
    <3>1. called' = called
      BY <1>6, <2>3 DEF Poll, PollStep, NotModified, Updated, UpsertChannelVideos, RecordPollSuccess,
         FallbackRefused, SidecarItems, SidecarNotFound, SidecarError, RecordPollFailure,
         RecordSourceDead, PollWriteFails, ghostVars
    <3>2. CASE RecordPollSuccess \/ RecordPollFailure \/ RecordSourceDead
      <4>1. poll' = IdlePoll
        BY <3>2 DEF RecordPollSuccess, RecordPollFailure, RecordSourceDead, Record, EndPoll
      <4>2. poll.tag \in Tags
        BY <1>0 DEF Polls
      <4>3. Exists => Exists'
        BY <1>0, <3>2, <4>2, PolledRow, NoChannelAssumption
           DEF RecordPollSuccess, RecordPollFailure, RecordSourceDead, Record, Exists
      <4>4. Exists => channel'.cooling = channel.cooling
        BY <1>0, <3>2 DEF RecordPollSuccess, RecordPollFailure, RecordSourceDead, Record, Channels
      <4> QED
        BY <1>0, <3>1, <4>1, <4>3, <4>4, ReservationKept
    <3>3. CASE ~(RecordPollSuccess \/ RecordPollFailure \/ RecordSourceDead)
      <4>1. channel' = channel
        BY <1>6, <2>3, <3>3 DEF Poll, PollStep, NotModified, Updated, UpsertChannelVideos,
           FallbackRefused, SidecarItems, SidecarNotFound, SidecarError, PollWriteFails, tableVars
      <4>2. poll'.pc \notin {"ask", "caps", "reserve"}
        <5>1. CASE FallbackRefused \/ SidecarNotFound \/ SidecarError
          BY <5>1, FailedLabel DEF FallbackRefused, SidecarNotFound, SidecarError
        <5>2. CASE NotModified \/ Updated \/ SidecarItems
          BY <5>2, AnsweredFields DEF NotModified, Updated, SidecarItems
        <5>3. CASE UpsertChannelVideos(Crawling) \/ PollWriteFails
          <6>1. \A orphan : [IdlePoll EXCEPT !.pc = "success", !.tag = poll.tag,
                                             !.orphan = orphan].pc = "success"
            BY DEF IdlePoll
          <6>2. poll'.pc \in {"success", "idle"}
            BY <1>0, <5>3, <6>1, Zenon DEF UpsertChannelVideos, PollWriteFails, EndPoll
          <6> QED
            BY <6>2
        <5> QED
          BY <1>6, <2>3, <3>3, <5>1, <5>2, <5>3 DEF Poll, PollStep
      <4> QED
        BY <3>1, <4>1, <4>2, ReservationKept DEF Exists
    <3> QED
      BY <3>2, <3>3
  <2> QED
    BY <2>1, <2>2, <2>3
<1> QED
  BY <1>1, <1>2, <1>3, <1>4, <1>5, <1>6 DEF Next, Clock

\* The sidecar is never asked twice within the hour for one row, whatever is
\* deleted, added again, crashes or fails in between.
THEOREM FallbacksStaySpaced == Spec => FallbacksAreSpaced
<1>1. Init => Reserved
  BY Zenon DEF Init, IdlePoll, Reserved
<1>2. TypeInv /\ Reserved /\ [Next]_vars => Reserved'
  BY ReservedStep
<1>3. Reserved => [PollAt("reserve") /\ poll'.pc = "sidecar" => ~called]_vars
  BY DEF Reserved
<1> QED
  BY <1>1, <1>2, <1>3, TypeInvariant, PTL DEF Spec, FallbacksAreSpaced
=============================================================================
