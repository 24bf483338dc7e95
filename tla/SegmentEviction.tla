-------------------------- MODULE SegmentEviction --------------------------
(***************************************************************************)
(* The chunk cache of SegmentStore together with the operations of         *)
(* services/video_cache.rs that take chunks out of it: the LRU pass of     *)
(* cleanup_segment_cache, evict_video and clear_all.                       *)
(*                                                                         *)
(* None of the three takes the striped locks.  The LRU pass and            *)
(* evict_video unlink files before they delete rows, clear_all deletes the *)
(* rows in a transaction and unlinks afterwards.  Each of them works from  *)
(* a list of rows that writers and the purge go on changing underneath.    *)
(*                                                                         *)
(* The video has the one format of SegmentStore and every chunk has the    *)
(* size 1.  Limit is what the configured cache size leaves to it: the      *)
(* other videos keep their size, and their chunks were used more recently. *)
(***************************************************************************)
EXTENDS SegmentStore, FiniteSets

CONSTANTS
    Evictors,  \* concurrent runs of one of the three operations
    Limit      \* the size the LRU pass evicts this video down to

ASSUME LimitAssumption == Limit \in Nat

VARIABLE evict  \* each evictor: where it stands and its locals

evars == <<vars, evict>>

\* "todo" are the chunks still to visit.  "listed" are the chunks whose row
\* still is the one that was listed (ids are never reused).  "total" is the
\* running size of the LRU pass.  "grown" and "dirty" are history: the rows
\* inserted since total was read, and whether the database was written since
\* the snapshot of clear_all.
LruPC == {"lruList", "lru", "lruDelete"}
IdleEvictor == [pc |-> "idle", total |-> 0, todo |-> {}, listed |-> {}, cur |-> 0,
                grown |-> 0, dirty |-> FALSE]

Tracked == {c \in Chunks : rows[c] # Absent}
Deleted == {c \in Chunks : rows[c] # Absent /\ rows'[c] = Absent}
Inserted == {c \in Chunks : rows[c] = Absent /\ rows'[c] # Absent}

EAt(e, label) == evict[e].pc = label

\* Bound: insertions that with Limit make up all the chunks are as good as more.
Capped(n) == IF Limit + n <= LastChunk + 1 THEN n ELSE LastChunk + 1 - Limit

\* What a change of the table does to the locals of an evictor.
Refreshed(local) ==
    [local EXCEPT !.listed = @ \ Deleted,
                  !.grown = IF local.pc \in LruPC THEN Capped(@ + Cardinality(Inserted)) ELSE 0,
                  !.dirty = @ \/ (local.pc = "clear" /\ rows' # rows)]

Proceed(e, locals) ==
    evict' = [x \in Evictors |-> IF x = e THEN locals ELSE Refreshed(evict[x])]

\* An evictor that deletes rows takes them off the list of the purge too.
DeleteRows(gone) ==
    /\ rows' = [c \in Chunks |-> IF c \in gone THEN Absent ELSE rows[c]]
    /\ purge' = [purge EXCEPT !.listed = @ \ gone]

-----------------------------------------------------------------------------
(* The LRU pass.                                                           *)

\* total_cache_bytes.
LruStart(e) ==
    /\ EAt(e, "idle")
    /\ Cardinality(Tracked) > Limit
    /\ UNCHANGED vars
    /\ Proceed(e, [IdleEvictor EXCEPT !.pc = "lruList", !.total = Cardinality(Tracked)])

\* A second query lists the rows.
LruList(e) ==
    /\ EAt(e, "lruList")
    /\ UNCHANGED vars
    /\ Proceed(e, [evict[e] EXCEPT !.pc = "lru", !.todo = Tracked, !.listed = Tracked])

\* The file goes first.  The order of last_accessed_at is left open: any
\* request may have touched any chunk.
LruUnlink(e) ==
    /\ EAt(e, "lru")
    /\ evict[e].total > Limit
    /\ UNCHANGED <<rows, lock, metadata, req, purge>>
    /\ \E c \in evict[e].todo :
          /\ Unlink(c)
          /\ Proceed(e, [evict[e] EXCEPT !.pc = "lruDelete", !.cur = c, !.todo = @ \ {c}])

\* Mutant: a failed DELETE is only logged, like a failed unlink.
LruDeleteIgnoresErrors(e) ==
    LET c == evict[e].cur
    IN  /\ EAt(e, "lruDelete")
        /\ DeleteRows(evict[e].listed \cap {c}) \/ UNCHANGED <<rows, purge>>
        /\ UNCHANGED <<files, lock, metadata, req>>
        /\ Proceed(e, [evict[e] EXCEPT !.pc = "lru", !.total = @ - 1,
                                    !.listed = @ \ {c}, !.cur = 0])

\* DELETE ... WHERE id = ?: no match when that very row is gone.  The running
\* size shrinks either way.
LruDelete(e) ==
    LET c == evict[e].cur
    IN  /\ EAt(e, "lruDelete")
        /\ DeleteRows(evict[e].listed \cap {c})
        /\ UNCHANGED <<files, lock, metadata, req>>
        /\ Proceed(e, [evict[e] EXCEPT !.pc = "lru", !.total = @ - 1,
                                    !.listed = @ \ {c}, !.cur = 0])

\* A failed query ends the whole pass, with the file already gone.
LruFails(e) ==
    /\ EAt(e, "lruList") \/ EAt(e, "lruDelete")
    /\ UNCHANGED vars
    /\ Proceed(e, IdleEvictor)

LruDone(e) == EAt(e, "lru") /\ (evict[e].total <= Limit \/ evict[e].todo = {})

LruEnd(e) ==
    /\ LruDone(e)
    /\ UNCHANGED vars
    /\ Proceed(e, IdleEvictor)

-----------------------------------------------------------------------------
(* evict_video: by hand, or because no child has the video allowlisted.    *)

EvictStart(e) ==
    /\ EAt(e, "idle")
    /\ UNCHANGED vars
    /\ Proceed(e, [IdleEvictor EXCEPT !.pc = "evict", !.todo = Tracked])

EvictUnlink(e) ==
    /\ EAt(e, "evict")
    /\ UNCHANGED <<rows, lock, metadata, req, purge>>
    /\ \E c \in evict[e].todo :
          /\ Unlink(c)
          /\ Proceed(e, [evict[e] EXCEPT !.todo = @ \ {c}])

\* DELETE ... WHERE video_id = ?, rows inserted since the listing included;
\* or the statement fails.
EvictDelete(e) ==
    /\ EAt(e, "evict")
    /\ evict[e].todo = {}
    /\ DeleteRows(Tracked) \/ UNCHANGED <<rows, purge>>
    /\ UNCHANGED <<files, lock, metadata, req>>
    /\ Proceed(e, IdleEvictor)

-----------------------------------------------------------------------------
(* clear_all: one deferred transaction, then the files.                    *)

\* The first SELECT fixes the snapshot all later SELECTs read.
ClearStart(e) ==
    /\ EAt(e, "idle")
    /\ UNCHANGED vars
    /\ Proceed(e, [IdleEvictor EXCEPT !.pc = "clear", !.todo = Tracked])

\* Mutant: the statements do not run in one transaction.
ClearCommitAnyway(e) ==
    /\ EAt(e, "clear")
    /\ DeleteRows(Tracked)
    /\ UNCHANGED <<files, lock, metadata, req>>
    /\ Proceed(e, [evict[e] EXCEPT !.pc = "clearFiles"])

\* The DELETE has to turn the read transaction into a write transaction,
\* which SQLite refuses (SQLITE_BUSY_SNAPSHOT) once anybody else has written.
ClearCommit(e) ==
    /\ EAt(e, "clear")
    /\ ~evict[e].dirty
    /\ DeleteRows(Tracked)
    /\ UNCHANGED <<files, lock, metadata, req>>
    /\ Proceed(e, [evict[e] EXCEPT !.pc = "clearFiles"])

\* Refused, or failed for another reason: everything is rolled back.
ClearAborts(e) ==
    /\ EAt(e, "clear")
    /\ UNCHANGED vars
    /\ Proceed(e, IdleEvictor)

ClearUnlink(e) ==
    /\ EAt(e, "clearFiles")
    /\ UNCHANGED <<rows, lock, metadata, req, purge>>
    /\ \E c \in evict[e].todo :
          /\ Unlink(c)
          /\ Proceed(e, [evict[e] EXCEPT !.todo = @ \ {c}])

ClearEnd(e) ==
    /\ EAt(e, "clearFiles")
    /\ evict[e].todo = {}
    /\ UNCHANGED vars
    /\ Proceed(e, IdleEvictor)

-----------------------------------------------------------------------------
EvictStep(e) ==
    \/ LruList(e) \/ LruUnlink(e) \/ LruDelete(e) \/ LruFails(e) \/ LruEnd(e)
    \/ EvictUnlink(e) \/ EvictDelete(e)
    \/ ClearCommit(e) \/ ClearAborts(e) \/ ClearUnlink(e) \/ ClearEnd(e)

EvictBegin(e) == LruStart(e) \/ EvictStart(e) \/ ClearStart(e)

EvictInit == Init /\ evict = [e \in Evictors |-> IdleEvictor]

\* A step of the chunk cache changes the table under the evictors' feet.
CacheStep == Next /\ evict' = [e \in Evictors |-> Refreshed(evict[e])]

EvictNext == CacheStep \/ \E e \in Evictors : EvictBegin(e) \/ EvictStep(e)

EvictionSpec == EvictInit /\ [][EvictNext]_evars

-----------------------------------------------------------------------------
\* Eviction takes no lock, so a row may be left without a file; the request
\* that trips over it goes upstream.  What must survive every interleaving is
\* that a row never vouches for a file of another encode.
RowNeverLies ==
    \A c \in Chunks :
        rows[c] # Absent /\ files[c] # Absent /\ ~Upserting(c) => files[c] = rows[c]

\* The LRU pass works from a size and a list it read once.  When it is done,
\* the table is within the limit but for the rows inserted meanwhile,
\* whatever the other evictors and the writers did.
LruReachesLimit ==
    \A e \in Evictors : LruDone(e) => Cardinality(Tracked) <= Limit + evict[e].grown

\* clear_all never wipes a row that its audit totals do not count ("a
\* concurrent TeeStream writer cannot slip a segment row in between the
\* aggregate snapshot and the delete and be wiped without an audit entry").
ClearIsAudited ==
    [][\A e \in Evictors : ClearCommit(e) => Tracked = evict[e].todo]_evars
=============================================================================
