# HomeTube in TLA+

HomeTube is a self-hosted YouTube front end for families: a Rust server
(`src/src`, axum, sqlx and SQLite), a Lit single-page client (`src/frontend/src`)
and a small Node sidecar (`src/sidecar/discovery`) that reads YouTube's pages.
This directory holds TLA+ specifications of the parts of the server and of the
browser's download store whose correctness depends on the order in which things
happen, the TLC configurations that check them, and proofs checked by TLAPS.

Paths in the modules, in `PROJECT.json` and below are relative to the root of the
repository; `segment_store.rs`, `ytdlp.rs` and so on are `src/src/services/…`,
`videos.rs`, `allowlist.rs` and so on are `src/src/routes/…`.

## 1. The system

### Components, their state and what makes them correct

| component | state | operations | correct when |
|---|---|---|---|
| chunk cache (`segment_store.rs`, `get_format` in `videos.rs`) | files of 1 MiB under `cache_dir`, rows of `segment_cache`, 256 striped locks, the set of purges in flight | range status, read, store a chunk, purge the chunks of older encodes | a row never vouches for bytes of another encode; a hit never mixes encodes; the purge spares what is fresh |
| tee (`TeeStream`, `tee_writer_task`, `flush_complete_chunks`) | a bounded channel, a buffer and a chunk counter per stream | copy a body that is being served into aligned chunks | what is stored is exactly a chunk of the file, whatever is dropped, cut or short |
| chunk eviction (`video_cache.rs`: `cleanup_segment_cache`, `evict_video`, `clear_all`) | none of its own | LRU pass, eviction of one video, clearing all | limit kept, rows never lie, the audit entry counts what was removed |
| cookie jar (`ytdlp.rs`: `replace_cookies`, `extract`, `persist_cookies_if_safe`; `system.rs`) | `cookies.txt`, the row `youtube_cookies`, `COOKIE_FILE_LOCK`, the generation, the SABR-only verdict | upload, removal, extraction with a private copy, write-back of a rotated jar, start-up | file and row agree; verdicts and results belong to the jar they are held against |
| metadata cache (`video_cache.rs`: `get_or_extract`) | DashMap of entries, rows of `video_cache`, flights, one coordinator per video | look up, join a flight, extract once, publish | one extraction for many callers; filed under the configuration that made it; nobody waits for ever |
| yt-dlp updater (`ytdlp.rs`: `update_binary`) | the binary, its recorded version | download, verify, rename, record | the fingerprint never claims a newer yt-dlp than ran |
| channel crawler (`channel_backfill.rs`) | the `backfill_*` columns of `channels`, `channel_videos` | claim with a lease, list with yt-dlp, upsert and tombstone, back off, shelve | only what has gone is tombstoned; a crash costs a lease, not the channel |
| feed refresher (`feed_refresher.rs`, `feed_cache.rs`, `youtube_rss.rs`) | the `rss_*` and `last_sidecar_fallback_at` columns of `channels`, `channel_videos` | claim, conditional GET, sidecar fallback within caps, record | a 304 leaves out nothing that is not stored; fallbacks are spaced; only dead channels are given up |
| allowlist, blocklist, access (`allowlist.rs`, `blocked.rs`, `hidden.rs`, `access.rs`) | `allowlisted_*`, `blocked_videos`, `hidden_*` | grant, withdraw, the check before each view | a withdrawn video is not served from any path; the crawled tables follow the allowlist |
| cron (`cron.rs`) | `cron_jobs`, `cron_job_runs` | scheduled and manual runs, sweep of orphaned runs | every run ends in a final status; due times move on |
| offline downloads (`downloads.rs`; `offline-opfs.ts`, `opfs-bridge.ts`, `sw.ts`) | `offline_downloads`; the browser's files and manifest | request, store, remove, serve from a page for the service worker | manifest and files agree; a partial file is never offered |
| watch time and sleep timer (`usage.rs`, `timer.rs`) | `usage_log`, `watch_history`, `sleep_timers` | heartbeats, progress, one timer per child | time is counted once; at most one timer |
| accounts and sessions (`auth.rs`, `accounts.rs`, `session.rs`, `setup.rs`) | `accounts`, `sessions`, the first-run flag | switch with a PIN, log out, add and remove members, set up | the first account is created once; a session ends with its account |
| notifications (`notifications.rs`, `notification_forwarders.rs`) | `parent_notifications`, in-process dedup maps | dispatch once per window, forward | one open notification per cause and window |
| thumbnails (`thumbnail_store.rs`) | files and rows of `thumbnail_cache` | put, get, LRU pass | never a partial file; rows follow files |
| rate limiter (`rate_limit.rs`) | a token bucket per account or address | acquire | never more than capacity plus refill in any window |
| segment ranges and manifests (`segment_ranges.rs`, `dash.rs`, `videos.rs`) | the table `format_box_ranges`, a memo of what has been stored, signed cast tokens | resolve, store in a task of its own, synthesise a manifest, answer a session or a cast receiver | every playable height and language is offered; ranges belong to the file; a withdrawn permission ends the cast |
| discovery sidecar and client (`server.js`, `youtube.rs`) | none | translate pages of YouTube | external input |
| feed pages, search, likes, child settings (`feed.rs`, `search.rs`, `channels.rs`, `likes.rs`) | `liked_videos`, `search_log`, `child_settings`, rows others write | lists, the gate over their rows, marks | nothing shown that was not allowed, nothing left out that was |
| templates, web client | none | rendering | show what the server stores |

### How they interact

`get_format` asks the metadata cache for a format, looks the range up in the chunk
cache, and on a miss forwards upstream through the tee, whose writer task stores
chunks under the striped locks. A range with stale chunks schedules the purge.
The cleanup cron, an eviction of one video and the clearing of the cache remove
chunks from the same table without those locks. A metadata miss runs yt-dlp, which
reads the cookie jar that uploads replace and whose rotated jar may be written
back; what is cached is filed under a fingerprint of jar and yt-dlp version. The
crawler and the refresher are two endless loops over `channels`; both write
`channel_videos`, both take their channel by writing a time into its row, and the
allowlist, `feed_gc` and the administrator change the same rows meanwhile.

### What is hard

- Pairs that no transaction spans: chunk file and row, cookie file and row,
  yt-dlp binary and version, the crawl's transaction and its status update.
- State read and used after awaits: the list of an LRU pass, the rows a hit was
  judged by, the purge's list, the fingerprint of a flight's leader, the etag of a
  claimed poll, the tab listed minutes before it is applied.
- Process-wide state next to a database: the purge slots, flights, the generation
  and verdict of the jar. A restart forgets the one and keeps the other.
- Cancellation: hyper drops a handler whose client leaves, at any await.
- Leases and cooldowns instead of locks between loops, and writes keyed by a
  channel id that may by then belong to another row.
- Pages and gates that ask several tables one SELECT at a time, in no transaction,
  while parents change them; guards that count in one statement and act in another.
- Deferred transactions of SQLite: who reads first and is overtaken cannot commit.
- Pages that come and go: a browser's files and manifest are changed await by await,
  by tabs that may be closed, for a service worker that cannot look by itself.
- Byte positions: a stream of pieces of any size, cut into aligned chunks from any
  start, with pieces lost when the channel is full.

`PROJECT.json` lists these at their lines as hazards, each with the properties that
would catch it going wrong, or a note where none does yet.

## 2. The modules

| module | models | extends |
|---|---|---|
| `SegmentStore` | the chunk cache of one (video, format): requests with their tee writers, the purge, re-encodes | |
| `SegmentEviction` | the LRU pass, `evict_video`, `clear_all` over the same chunks | `SegmentStore` |
| `ChunkCopy` | abstract: whole chunks are copied in ascending order, each at most once | |
| `TeeStream` | one upstream body, the bounded channel, the writer and its buffer; implements `ChunkCopy` | |
| `CookieJar` | row, file, generation, verdict; replacements, extractions, write-back | |
| `VideoCache` | callers of `get_or_extract` for one video, flights, coordinator, updater | `CookieJar` |
| `ChannelTables` | one row of `channels`, its `channel_videos`, its allowlist, YouTube, time | |
| `ChannelBackfill` | the crawler's loop | `ChannelTables` |
| `FeedRefresher` | the refresher's loop | `ChannelTables` |
| `Feed` | both loops, administration, restarts, time together | the two above |
| `DashManifest` | which formats of an extraction a manifest offers, and their byte ranges: operators without state | |
| `Playback` | requests for a stream or a cast manifest, the memo and the task that stores ranges, settings | `DashManifest` |
| `Accounts` | accounts, sessions, cookies, the session middleware | |
| `Notices` | broadcasts to the parents, row by row | `Accounts` |
| `Family` | registration, switch and PIN, members, roles, deletion, set-up | `Notices` |
| `ChildRules` | blocks, grants, hidden and liked videos, subscriptions, downloads, the gate and the pages | `Notices` |
| `WatchTime` | heartbeats and progress | `ChildRules` |
| `Household` | all of these as concurrent requests of one server | `Family`, `WatchTime` |
| `OfflineStore` | the browser's downloads, the migration of the older cache, the service worker | |
| `SegmentProofs` | theorems about the chunk cache, alone and under eviction | `SegmentEviction` |
| `CookieJarProofs`, `TeeStreamProofs`, `FeedProofs`, `PlaybackProofs`, `HouseholdProofs`, `OfflineStoreProofs` | theorems | the module they are named for |
| `VideoCacheProofs` | theorems about the metadata cache, on top of those about the jar | `VideoCache`, `CookieJarProofs` |
| `MC…` | symmetry and constant functions for TLC | the module they are named for |

Names are those of the source wherever there is one. `PROJECT.json`, under `map`,
gives the lines of every definition.

### Chunk cache

`rows` and `files` give for each chunk the encode its row claims and its file was
copied from; an encode is both a fingerprint and the bytes behind it, and a
fingerprint that is NULL is one more encode because the SQL compares with `IS`.
`req[r].pc` follows `get_format`: `status` (`range_status`), `read` (one file per
step), `served`, `fetch` (upstream answers), then the tee's writer, for every chunk
of the range in order, `tee`, `write` (has the stripe) and `upsert` (has renamed).
`Advance` may skip chunks; which ones and why is `TeeStream`'s business, and
`CopiesInOrder` is the promise that connects the two modules. The purge is listed
without a lock, then for each chunk locks, deletes the row if it is still stale, and
unlinks only if a row was deleted. Its slot is `purge.pc # "idle"`.

### Eviction

Three kinds of evictor share one record: a list of rows (`todo`, and `listed`: those
that are still the row that was listed), the running `total` of the LRU pass, and
history that says what happened to the table since. The LRU order is left open,
because any request may have touched any chunk. All chunks have size 1; the limit is
what the configured size leaves to this video.

### Tee

A byte is its own offset in the upstream file, so misplaced bytes can be told from
right ones. The writer only ever counts from the start it was told, as in the code.
A message is a piece or end-of-file; `try_send` on a full channel poisons the tee.

### Cookie jar and metadata cache

A jar stands for a login. `change[c]` follows `replace_cookies`: `lock`, `write`
(file), `commit` (row), `restore`, `forget` (the closing advance of the generation).
`run[x]` follows `extract` through its first run, retries and the write-back of
the rotated copy (`persist` decides under the lock, `rename` publishes). Dropped
handlers, a failed restore and restarts are in `FaultySpec`.

In `VideoCache` `mem`, `db` and `flight` are the three places an entry may be in;
an entry carries, beside the fingerprint it is filed under, what it was really made
with. `caller[c].pc` follows `get_or_extract` await by await, which are the places
where other tasks can run and where the caller can be cancelled.

### Catalogue

`channel` is the row of `channels` with times as the comparisons the code makes:
`due` (`backfill_next_at`), `over` (the lease), `poll` (`rss_next_poll_at`), `cooling`
(less than an hour since `last_sidecar_fallback_at`). `live` and `gone` are the rows of
`channel_videos` by `is_deleted`; `newcomers` those whose `first_seen_at` is not before
the `started_at` of the crawl under way. An etag is the feed it was sent with.
`crawl` and `poll` are the locals of the two loops. There is one crawl at a time, and
one poll of a channel at a time, because each loop awaits its work before it
claims again; nothing excludes the one from the other but `cooling`.
`Forgotten` lets history go with the row while the locals of a poll stay. History
variables (`called`, `astray`, the `steady` of a crawl, the `orphan` and
`young` of a poll) are read by no guard of an action.

### Playback

`DashManifest` is the pure part: `UsableFormats` (only what has a URL and ranges),
`Deduplicate` by itag, the trim to one representation per height and codec family, the
languages and the main one. `Playback` runs it inside `get_stream` and
`get_stream_manifest`: a request takes the cached extraction (`GetOrExtract`), is
checked (`CheckCast`, `EnforceAccess`), resolves what lacks ranges from `rows` (the table
`format_box_ranges`) and hands its own ranges to a task nobody waits for
(`BeginPersist`, `StoreAll`, `CommitMemo`, `AbortMemo`). `memo` is the video's entry of
`RangePersistMemo`. A token is minted with the answer and runs out; a cast
receiver comes with the token alone.

### Household

A request is a record that moves from one database call to the next; what it has
read it carries along (`saw`, `row`, `rows`), and between two of its statements
any other request may take one. `Begins` is the middleware: it looks the session
up, and the role guard refuses. `stale` is what SQLite makes of a deferred transaction
whose snapshot another commit has overtaken. A page reads its list and then asks
the gate about each row, one SELECT at a time, in the order of the code. `memory` is
what was true at some time (`some`) and all the time (`all`) of a request, so that
a property can ask whether an answer was right at any moment, without asking of the
code an atomicity it does not have. What a sign-in is held against are its
`Credentials`, each by itself a fact of the present. `mishap` notes when two changes of
roles overlapped. `Possible` says what the tables can hold when the requests begin;
`StartsAssumption` holds every household of `Starts` to it.

### Downloads in the browser

`task` is what a page, or the worker on behalf of one, is at: it moves from await
to await and ends with its page. `files` says what the file of a video and quality
holds: nothing, emptiness (created, nothing written yet: a `createWritable` copy takes its
place at `close`), or the whole. `saw` is the manifest a task has read, `stale` that it
has been replaced since it was opened, which makes the read fail and count as empty, as
`readManifest`'s `catch` does. `ask` and `via` are the pages still to be asked and the one
that is being waited for. `broken` names the promises that need not hold any more,
and each place that sets it is a behaviour listed in section 5.

## 3. What the runs check

Twelve runs, each a question. The one with the expectation `violation` states what a
comment of the source says and shows that the code does something else.

| run | question | instance |
|---|---|---|
| `segment` | do the stripes, the conditional delete and the fingerprint test keep rows, files, hits and the purge right? | 1 chunk, 2 encodes, 2 requests, 1 stripe, unlink may fail |
| `eviction` | what survives evictors that take no stripe? | 2 chunks on stripes of their own, 2 encodes, 1 request, 1 evictor, limit 1 |
| `tee` | are chunks exact, complete, in order, and does the writer end? | 8 bytes, chunks of 3, pieces up to 4, channel of 2 |
| `jar` | do file, row, verdict and results belong together? | 2 jars, 2 replacements, 1 extraction, generation up to 4 |
| `cache_filing` | is metadata filed under what made it? | 1 jar, 1 replacement, 1 caller, 2 versions, generation up to 4 |
| `cache_live` | does everybody return and nobody extract twice? | 2 callers with cancellation, no cookie change |
| `feed` | tombstones, etags, fallbacks, tables | 1 video, 1 child, shelve after 2, dead after 1 |
| `feed_live` | does the catalogue heal? | 1 video, 1 child, shelve after 1, no sidecar |
| `playback` | is every manifest complete, do ranges fit the file, is the memo honest, does a withdrawal end the cast? | 2 requests, 2 encodes, every arrangement of 3 formats of a pool of 10 |
| `household` | are sessions proven, do pages keep to the rules and leave nothing out, is time counted, are searches announced? | 3 accounts, 2 PINs, 3 browsers, 3 requests, 2 videos, 2 channels |
| `offline` | do files and manifest keep in step, is nothing lost in the migration, is every fetch answered? | 2 qualities of a video, 2 tabs, 2 tasks |
| `jar_restart` (violation) | "re-derived from the database at next startup" | as `jar`, with faults |

### Why the bounds are enough

- *Chunks and requests.* No action of `SegmentStore` reads more than one chunk of
  storage but the range status and the reader's loop, and a stripe serialises all
  writers of a chunk. One chunk with two requests and the purge already has a
  writer between rename and upsert, a reader in its window, a second writer of
  another encode and a purge with a stale list. The theorems cover any number of
  chunks, requests, encodes and stripes. For eviction two chunks are needed: one
  listed and one inserted while the pass goes on.
- *Bytes.* 8 = 3 + 3 + 2: two whole chunks and a short last one, starts and ends at,
  before and after each boundary, pieces that span a boundary or a whole chunk, and a
  channel small enough to overflow.
- *Generation.* Each replacement advances it twice: 4 allows two whole changes, away
  and back, around an extraction. `JarInv` is proved for any bound.
- *Catalogue.* The statements treat each video by itself (an etag stands for a whole feed, and is proved about for any), so one
  video with all interleavings of both loops is the interesting instance; a second would
  only multiply it. The theorems hold for any set of videos and children. `Shelve`
  and `DeadAfter` are small so that shelving and giving up happen.
- *Playback.* A manifest depends on formats only through codec family, height,
  language, rate, size and DRC; the pool has a pair that differs in each, and three
  at a time show any one that displaces another wrongly. The interleavings use two
  extractions of one format each of video and audio, whose sets differ, with two
  requests, two re-extractions (`Refills`) and one change of a setting or overflow
  of the memo (`Changes`).
- *Household.* `Starts` pairs a situation (no account yet, one parent, two, a household
  without any PIN, rules of every kind, histories with known and unknown channels)
  with an agenda of up to three requests that touch the same rows: every pair of
  operations on roles, every page against every change of a rule, a switch among a
  change of role and a change of PIN. `cut` and `expire`
  on an agenda allow requests to be cut off and sessions to run out. The failures
  before the PIN throttle are cut to one (`MaxFailures`), the seconds of screen time to
  three (`MaxUsage`).
- *Offline.* Two qualities of one video share a directory, which removal prunes; one is
  kept, both are in the older cache, so that a migration meets a whole file.
  Two tasks give every overlap of two operations, and either may outlive its tab.
- *Symmetry* is used where constants are interchangeable (`Permutations` in the MC
  modules) and only in runs without liveness properties.
- *Deadlock* is checked everywhere but in `TeeStream`, where one stream really ends, and in
  `Household` and `OfflineStore`, where the requests and tasks there are get done.

### Fairness

- `SegmentStore`: Tokio polls every task that is ready, so each request and the purge
  are weakly fair; its mutex queues in order, so a purge that waits for a stripe
  gets it: strong fairness of `PurgeLock`. Requests need not begin.
- `TeeStream`: hyper polls a body to its end or drops it; the writer task is polled.
- `VideoCache`: callers that are not cancelled run on; tokio's mutex and the semaphore of
  `OnceCell` are first come, first served, hence strong fairness of `Lead` and
  `TakeCoordinator`; yt-dlp has a timeout. Cancellation is never required.
- `OfflineStore`: the worker's code runs on, its timers go off, and the network answers
  or fails: weak fairness of the worker's steps for each fetch. A page need not answer.
- `Playback` and `Household` are checked for safety only.
- `Feed`: both loops go on, every external call has a timeout, every moment comes.
  Faults, removals and uploads are not required to stop: `CatalogueHeals` says what
  follows *if* they do (`<>settled`). After `Settle` the code's own guards decide.

## 4. What is proved

Theorems hold for every value of the constants that meets the `ASSUME`s of the module
they are about, each of which TLC evaluates in some run. They concern `Spec`, `JarSpec`
and `EvictionSpec`; the last two of `CookieJarProofs` concern `FaultySpec`. Every specification restricted for
TLC (`MCSpec`) allows only behaviours of the one proved about.

**`SegmentProofs`** (any number of chunks, encodes, requests, stripes and evictors, any
`StripeOf`, any limit). For the store alone: `TypeCorrect`, `RowsMatchFiles`,
`HitsAreFresh`, `PurgeKeepsFresh`.
`RowMatchesFile` is not inductive: a writer about to upsert must already have its file
in place, a purge about to unlink must already have removed the row, and no second
party may come between. That is `PendingInv` and `LockInv` (whoever is between
lock and unlock of a chunk holds its stripe), with `StorageInv` put together from
them. `HitsAreFresh` needs `WindowInv`, what an unraced reader may still
find and has found, and `StartInv`. `PurgeKeepsFresh` follows from `SpareInv`:
the file that is about to be unlinked is not of the encode to spare. `IInv`
is their conjunction. Assumed: a function from chunks to stripes, and that holders
are distinct.

Under eviction: `EvictedRowsNeverLie`, `EvictionSparesHits`, `LruPassReachesLimit`,
`ClearDeletesWhatItCounts`. `EInv` keeps of the above what survives parties without
a lock: an evictor only ever takes (`Takes`), so wherever a file was promised it is now that
file or none (`WriterInv`). `Snapshot` says that a transaction nobody overtook still sees the
table. The limit needs bookkeeping: `Books` holds the running total of a pass
against the rows there are, the listed rows somebody else has deleted and the rows
inserted since, as cardinalities; or the count of insertions has reached its bound
(`Saturated`), beyond which the property asks nothing.

**`TeeStreamProofs`** (any sizes of chunk, file, piece and channel):
`ChunksAreAlwaysExact`, `NothingIsLeftOut`, and `TeeCopiesInOrder`, which shows step by step
that the tee implements `ChunkCopy`. All come from `TeeIsSound`: buffer and channel
together hold the file without a gap from the first byte not yet cut (`ChannelInv`: there
are marks between which the messages lie); the buffer is shorter than a chunk between two
flushes and unaligned only within the first (`BufferInv`); what lies before it is stored
(`StoredInv`). The `Frontier` of the refinement is the first chunk that begins at the buffer
or behind it. Nearly all of the work is division by a chunk size that is a variable.

**`CookieJarProofs`** (any jars, replacements, extractions, any bound of the
generation): `JarTypeCorrect`, `JarsStayTogether`, `VerdictsAreCurrent`,
`ResultsFitTheRow`. The invariant `JarInv` says where a replacement stands between
file and row (`PhaseOK`) and what a run knows (`Knows`): whatever it knows of the
jar it knows as of a generation, and no replacement that touches file or row lets the
generation stand still. The lock discipline is part of the type invariant.

With the faults of `FaultySpec` file and row may come apart. `FaultInv` is what stays: the lock
(`FaultsLeaveNoLock`), the order of the generations a run has noted (`Dated`), and that a
replacement whose row is written has written its file (`InStep`). By it `FaultsAreMended`:
a start with a stored jar, or the next replacement whose row is written, establishes `JarInv`
again from whatever state the faults have left, and `JarInv` carries the other theorems on
until the next fault. `jar_restart` shows the one start that does not mend.

**`VideoCacheProofs`** (any callers, jars, replacements and versions): `CacheTypeCorrect`,
`FiledUnderItsJar`, `NeverMadeByOlder`, `ExtractedOnce`. `CacheInv` puts on top of `JarInv`
what a caller holds (`Placed`: whoever works holds the coordinator, and whoever waits has a
cell) and knows (`Sound`): as long as the generation it noted stands, the jar it hashed is
the row's. Hence the leader's extraction is that of one caller at a time, and what
`ResultsFitTheRow` says of a run carries over to what is filed.

**`FeedProofs`** (any videos, children and thresholds): `FeedTypeCorrect` from
`TypeInv` (types, and only shelved rows have used up their errors);
`CrawlsTombstoneRightly` from `SteadyListed` (what was on the tab throughout is in the
list the crawl holds); `TagsAreBacked` from `TagsFollow` (the tag a poll carries is
backed already, or is that of the items it is about to store); `FallbacksStaySpaced`
from `Reserved` (a call in the last hour is on the row, and a poll that saw no
reservation was claimed after the hour).

**`PlaybackProofs`** (any extractions, requests and bounds): `PlaybackTypeCorrect`,
`MemoKeepsItsWord`, `WithdrawalEndsTheCast`, `EveryRungIsOffered` and `RangesAreOfTheFile`.
`MemoInv`: while no two tasks overlap, the
one at work has the memo's entry or nobody has, so a commit finds the table as
the memo will describe it; and an entry in flight has a task, whichever of two
equal sets began first. `SlotInv`: a request has no task before it resolves. `RuleInv`:
what is allowed now is remembered by every request under way, so a check that
passes proves the permission of some moment. What a manifest contains is a fold over a
list. The folds of `DashManifest` (`Keeping`, `DedupePreferWithRanges`) are recursive
functions of how much of the list is done, and what they compute is shown for any length by
`NatSetInduction`: a set that has 0, and with a number the next, has all numbers, since `Nat`
is well-founded. `KeepingKeeps`: a filter keeps what it is to keep and nothing else. With it `VideoLadder` and `AudioLadder`: what the filter, the
deduplication and the trim leave out never was a rung's or a language's only format.
`TakeServes` and `DedupeServes`: deduplication keeps, for whatever plays the same, a
format, and one with known ranges where there is one. Assumed: bounds and counts are
numbers; and `ExtractionsAssumption`, that the formats of an extraction have ids of their
own, which `yt-dlp` sees to and the code relies on when it keys its map and its table by
`format_id`.

**`HouseholdProofs`** (any accounts, browsers, requests, videos, channels, and any
households to start from): `HouseTypeCorrect`, `RulesReachEveryPage`, `LastParentStays`,
`NobodySignsInUnproven`, `NoPageLosesAllowed`, `ParentsHearOfSearches`,
`HeartbeatsAddUp`. Each step moves one request, so each invariant is a statement
about one request at a place of its handler, and every action is shown to leave the
others alone (`Turns`). `HouseTyped`: tables have their types, rows and sessions name
accounts that exist, and a request holds what it must hold where it stands (`Sound`; the rows
a page carries to the gate name channels the videos belong to, `PageRows`). `PagesKnow`:
what each SELECT of the gate has let pass was true at some time (`Knows`), and
whatever is true now is remembered by whoever is not done. `ParentInv`: without an
overlap at most one change of roles is under way, and past its count it spares a parent
(`Spared`); the steps of others add accounts but change no role (`Gentle`). For deletions it
needs `Owned`: a live session is somebody's. `SessionInv`: by the time a switch drops the old
session, or a registration creates one, the proof has been true (`LoginKnows`).
`PagesPromise`, the dual of `PagesKnow`: for every set of facts that held all the time, a
video that deserves a place on the page by these is shown, or is among the rows that are still
to be asked about, or is the row at the gate, at a stage that has not refused it
(`Underway`). The facts are quantified over, since what held all the time shrinks from step to
step. A channel the history looks up is the one the facts name (`OnlyChannel`, `ResolveFits`).
`SearchInv`: a search that has found no row of another tells (`Teller`), and as soon as there
is a row one of the searches tells or has been cut off; among parents who stay (`Calm`)
each is told already, or is on the list that the search goes through (`SearchKnows`).
`UsageInv`: the rows of a video add up to what was acknowledged, and a heartbeat about to write
that nobody has overtaken still sees the last row as it read it (`Beats`). That the sum has
the value its recursion says is shown by the same `NatSetInduction` (`SumsExist`).
Assumed: `StartsAssumption`; requests are no browsers; `Unborn` and `Gone` are no rows (ids are
not given twice, the table is AUTOINCREMENT); channels are numbers, and a set of them
has a largest, as `MAX(channel_id)` has.

Attempts at these proofs found three properties wrong that TLC had passed on too few
agendas, and all now say what the code does. `SessionsAreProven` had asked for PIN and
parenthood at one single moment; a child promoted between the lookup and the list of PINs,
of parents one of whom changes a PIN meanwhile, is a counterexample, which is now on the
agenda (`switch`, `updateMember`, `setPin`). `NothingAllowedIsLost` had counted a
listed video whose row names no channel as known to search and likes, which do not look
it up. `SearchIsAnnounced` had asked for the notices in the final state, which a parent
who has dismissed one refutes; it now says that each parent has the notice during one of
the searches, and `dismiss` is on the agenda with two of them.

**`OfflineStoreProofs`** (any items, pages and tasks): `StoreKeepsStep`,
`MigrationKeepsAll`. A task only ever touches the file of its own item (`Touches`), so as long
as no two work on one item (`Apart`) each finds what it left (`Careful`), and what nobody
touches is `Settled`; and the manifest is safe because nobody else is between reading and
writing it (`Current`). For the migration, every owed item has landed, is on the list of
the migration under way, or is in the older cache still (`NothingLost`).

**Only model-checked.** Liveness (`PurgeSlotReleased`, `WriterEnds`, `CallsReturn`,
`CatalogueHeals`, `FetchIsAnswered`), since it needs fairness and `ENABLED`, which the prover
does not handle. Every other property of the passing runs is a theorem. The divergence of `jar_restart` is a
counterexample, not a theorem.

## 5. What was found

`jar_restart` shows, and `PROJECT.json` quotes: start-up writes `cookies.txt` from the
row, but leaves a file alone for which there is no row.

Other observations, made while modelling, that no run claims. Where a property would
be false because of one, its premise or a history variable says so.

*Chunk cache, cookies, catalogue*

- `store_chunk` renames the file before it upserts the row. After a failed upsert, or a crash
  between the two, a row of the old encode vouches for a file of the new one, and nothing
  repairs it (`segment_store.rs:242-243`: "every chunk in this range was copied from
  the file identified by the current fingerprint").
- `get_format` passes the requested start to the tee when a success response has no
  `Content-Range`. An upstream that answers a range request with 200 and the whole file
  has its first byte stored as the first byte of the range (`segment_store.rs:604`, `videos.rs:919`).
- The threshold of consecutive 404s (`feed_refresher.rs:60-61`, `youtube.rs:379-384`) is compared
  with `rss_consecutive_errors`, which every failed poll raises: after two polls that a
  cap refused, or that failed otherwise, one 404 defers a channel for a year
  (`feed_refresher.rs:874`).
- The LRU pass unlinks a chunk and deletes its row without the stripe. A writer that
  replaces the chunk in between keeps the row's id, so the row of the fresh file
  goes and the file is on no list any more (`segment_store.rs:14` says the table
  tracks every chunk). `RowNeverLies` is what does survive.
- `begin_cookie_change` and `forget_sabr_only_session` are calls around an await, not a
  guard: a dropped handler leaves the bracket open and the lock free
  (`ChangeCancelled`).
- An extraction that begins and ends inside the bracket sees the same generation twice
  and is filed under the row of before with the file of after; `FiledUnlessInside`
  says so in its premise.
- A crawl spares videos that a poll *first* saw after the crawl began. A row that was
  already there, and was sighted again in the meantime, is still tombstoned, as
  is one whose poll began before `started_at`; shorts, which the tab does not list,
  are tombstoned by every crawl. The next poll that is not a 304 brings them back.
- A 304 does not clear tombstones, so a wrongly tombstoned video in an unchanged feed
  waits for the next crawl.
- The comment of `SIDECAR_FALLBACK_COOLDOWN_SECS` (`channel_backfill.rs:94-101`) says the two
  anti-bot paths are serialised per channel. The crawl waits for the fallback's
  cooldown, but a fallback does not look for a crawl under way.
- `upsert_channel_videos` relies on a caller's row in `channels` (`feed_cache.rs:284-290`); a
  channel deleted during a poll breaks that, and the foreign key refuses the items.
- A poll or a crawl that outlives its channel writes its outcome to whatever row has
  the id later: a channel removed and added again may get an etag that none of its
  videos stands behind. `TagIsBacked` excludes this by the history variable `astray`.
- The crawl's lease is 35 minutes and its timeout may be configured up to 4 hours. With one
  loop no second crawl can take the row meanwhile; the lease matters after a restart.
- `record_poll_deferred` and `record_poll_skipped` have no caller outside tests.

*Playback*

- An older task of `persist` may commit after a newer one; the memo then vouches for rows
  the older has overwritten (the premise `~overlap` of `MemoIsHonest`).
- The cap of `max_quality` filters the list of formats in the answer, while the manifest is
  made of all of them.
- `best_audio_format` asks for no URL, and `/stream` mints a cast URL even when it has no manifest.
- When an itag has one entry in the player's dump, it is used even if a known size contradicts it;
  ranges from the table may be those of an older encode.

*Accounts, rules, watch time*

- The guard of the last parent counts in one statement and acts in another: two
  demotions or deletions that overlap leave no parent (`overlap` in `AParentRemains`). A parent
  with the only PIN may be removed while another without one stays; nobody can sign in then.
- Registration writes the account and its PIN in two statements; a crash in between leaves an
  account nobody can enter, and a household that counts as set up.
- `delete_member` drops the sessions before it knows whether the account can be deleted, and
  `accounts::delete` fails while any session or other row refers to the account. A notification
  about a wrong PIN makes a parent undeletable until it is dismissed.
- A child that is promoted between the switch's lookup and the new session gets a
  parent's session with another parent's PIN; and that PIN need not have been a parent's
  at the moment the profile was still a child's (`SessionsAreProven` asks for each at some moment).
- Search and likes do not look up the channel of a row that names none, as the history
  does: a listed video may be missing from both (`known` in `NothingAllowedIsLost`).
- `record_failed_pin` says "every 5th failure emits" (`auth.rs:322-328`); the code alerts on the
  first ones and then no more in the window.
- `broadcast` stops at the first parent that is gone, and `broadcast_once_within` looks and inserts
  without a transaction. The deduplicating dispatchers claim their window before they
  insert, so a failed insert is silent for a day. A search that is cut off between its row in
  `search_log` and the broadcast is never announced.
- Single videos, hidden videos and likes seed a row in `channels` for a channel nobody
  allowlisted, which `downloads.rs` and `usage.rs` say they deliberately never do.
- The gate asks its tables one after the other, so what it lets through may never have
  been allowed at one moment; `PagesRespectRules` asks for some moment per rule.
- A video that two channels list is filed under the larger id by `MAX(channel_id)`: it may be
  listed and then refused, or not listed; `up_next` may be empty when the newest five of
  each channel have been watched.
- `unwrap_or(false)` turns a database error in the gate of a list into a video left out.
- `usage.rs:17-18`: when two heartbeats race, the overtaken transaction fails, and its seconds are
  not counted; they are not acknowledged either, which is what `AckedTimeCounted` says.
- A late `PUT` of a completed download may complete one that was deleted and asked for again.
- `notifications` pages by `id` but sorts by `is_read` first: pages lose rows.

*Downloads in the browser*

- The worker's `activate` deletes every `hometube-*` cache it does not know, the older
  downloads among them, while `sw-register.ts` has begun to copy them (`ActivateWorker`).
- The migration goes on after a copy failed, and then deletes the cache, although it is to do so
  "once all entries land" (`offline.ts:118-119`).
- Two manifest updates that overlap lose one entry; a manifest that is replaced while it is
  read counts as empty, and the next write makes it so.
- A tab closed during a download leaves an empty file, which `hasOfflineVideo` reports: the worker
  serves it as the video, and a new download of it saves that emptiness as complete.
- A second download of a video that fails removes the whole copy, whose entry stays.
- `bytes=-N` is answered as 0 to N, an open range with the whole file and 200, and "then
  anything" (`sw.ts:193`) is not done.

## 6. What is not modelled, and why

- Contents: JSON, XML and HTML parsing, thumbnails' bytes, notification texts.
- Durations: time is the answer to a comparison. Back-off lengths, jitter and
  intervals by activity only decide how long a row is not due.
- The cap of fallbacks over all channels and the batch of a refresher's tick: `Feed` is one
  channel, so the cap is a refusal that may come at any time.
- Power loss between `rename` and the disk: SQLite and the file system are taken at
  their word.
- That the blocking write of a cancelled `replace_cookies` may end later than its handler.
- Expiry policy of metadata: entries may expire at any time.
- Byte ranges of a downloaded file, and requests for it that name no quality.
- The XML of a manifest, signatures of tokens, hashes of PINs and session ids: each is
  modelled by whether it fits.
- The form of inputs (PIN length, names, ids) that handlers refuse before they touch any state.
- Components listed as `not_modelled` in `PROJECT.json`; each has its reason there.

## 7. Plan

Done since the first plan: `OfflineStore`, access and pages (`ChildRules`), sessions and
members (`Accounts`, `Family`), watch time, notifications as searches and wrong PINs
send them, playback. Left, most important first:

1. `ThumbnailStore` — put, get and LRU pass with the shared temporary path. Properties:
   no partial image behind a row; the pass reaches its limit.
2. `CronRuns` — scheduled and manual runs, kill and start, the sweep. Properties: every run
   ends in a final status; a final status is not overwritten.
3. `SleepTimer`, the forwarders' queues, the in-process deduplication of the extractor's errors.
4. `TokenBucket`, `CursorPaging` — pure algorithms against reference definitions.
5. `Cleanup` — expiry of metadata and the not-allowlisted pass over `SegmentEviction`; the
   settings of crawler and refresher.

The number of runs is kept at twelve: a new component's run replaces a run that shows
a divergence, whose finding then becomes an observation of section 5, or
joins a run of a related component.
