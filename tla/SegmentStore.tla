---------------------------- MODULE SegmentStore ----------------------------
(***************************************************************************)
(* The chunk cache of one (video, format) pair: services/segment_store.rs  *)
(* as it is driven by the get_format handler of routes/videos.rs.          *)
(*                                                                         *)
(* A chunk lives in two places that no transaction spans: a row of the     *)
(* segment_cache table (which carries the fingerprint of the upstream file *)
(* the bytes were copied from) and a file at a path derived from the chunk *)
(* number alone.  Three kinds of activity interleave on them:              *)
(*   - a request looks at the rows, then reads the files, without a lock;  *)
(*   - the tee writer of a request replaces the file, then upserts the     *)
(*     row, under the chunk's striped lock;                                *)
(*   - the purge of stale chunks lists rows without a lock, then deletes   *)
(*     the row and unlinks the file, under the same lock.                  *)
(* Upstream may be re-encoded at any moment: requests that started earlier *)
(* go on with the encode they were given.                                  *)
(*                                                                         *)
(* An encode stands for a fingerprint and for the bytes copied from the    *)
(* file it identifies; "no fingerprint" (NULL) is one more encode, since   *)
(* SQL's IS / IS NOT compare it like any other value.                      *)
(***************************************************************************)
EXTENDS Naturals

CONSTANTS
    LastChunk,  \* the format consists of the chunks 0 .. LastChunk
    Encodes,    \* the upstream encodes of the format
    Requests,   \* concurrent get_format handlers, with their tee writers
    Stripes,    \* the striped locks
    StripeOf,   \* the stripe a chunk hashes to; two chunks may share one
    Absent,     \* no row, no file
    Purger,     \* the purge task, as a holder of a stripe
    Free,       \* the holder of a stripe nobody holds
    UnlinkFails \* whether remove_file may fail with an I/O error

Chunks == 0 .. LastChunk

ASSUME ChunksAssumption == LastChunk \in Nat
ASSUME StripesAssumption == StripeOf \in [Chunks -> Stripes]
ASSUME EncodesAssumption == Absent \notin Encodes /\ Encodes # {}
ASSUME HoldersAssumption ==
    Purger \notin Requests /\ Free \notin Requests /\ Purger # Free
ASSUME UnlinkAssumption == UnlinkFails \in BOOLEAN

VARIABLES
    rows,      \* segment_cache: the fingerprint recorded for each chunk
    files,     \* the chunk directory: the encode each file was copied from
    lock,      \* the holder of each stripe
    metadata,  \* the encode the metadata cache currently hands out
    req,       \* each request: where it stands and its locals
    purge      \* the purge task of the format; at most one is in flight

storage == <<rows, files>>
vars == <<rows, files, lock, metadata, req, purge>>

\* A request is given the encode enc, asks for the chunks first .. last, is
\* at chunk "at", and has read bytes of the encodes "got" from disk.  raced
\* is a history flag: a rename of another encode hit the window between its
\* status query and the end of its read.
RequestPC == {"idle", "status", "read", "served", "fetch", "tee", "write", "upsert"}
IdleRequest == [pc |-> "idle", enc |-> Absent, first |-> 0, last |-> 0,
                at |-> 0, got |-> {}, raced |-> FALSE]

PurgePC == {"idle", "list", "next", "delete", "unlink"}
IdlePurge == [pc |-> "idle", fp |-> Absent, listed |-> {}, todo |-> {}, cur |-> 0]

Span(r) == req[r].first .. req[r].last

\* A row of the chunk exists and its fingerprint IS NOT e.
StaleRow(c, e) == rows[c] \notin {Absent, e}

\* A tee writer has replaced the file of c but not yet upserted its row.
Upserting(c) == \E r \in Requests : req[r].pc = "upsert" /\ req[r].at = c

-----------------------------------------------------------------------------
Init ==
    /\ rows = [c \in Chunks |-> Absent]
    /\ files = [c \in Chunks |-> Absent]
    /\ lock = [s \in Stripes |-> Free]
    /\ metadata \in Encodes
    /\ req = [r \in Requests |-> IdleRequest]
    /\ purge = IdlePurge

\* A fresh extraction hands out the URLs of another encode.
Reextract ==
    /\ metadata' \in Encodes \ {metadata}
    /\ UNCHANGED <<storage, lock, req, purge>>

-----------------------------------------------------------------------------
(* The request: get_format.                                                *)

At(r, label) == req[r].pc = label
Become(r, locals) == req' = [req EXCEPT ![r] = locals]
Goto(r, label) == Become(r, [req[r] EXCEPT !.pc = label])
Finish(r) == Become(r, IdleRequest)

\* A handler with a bounded range resolves its metadata, hence its encode.
Begin(r) ==
    /\ At(r, "idle")
    /\ \E i, j \in Chunks :
          /\ i <= j
          /\ Become(r, [IdleRequest EXCEPT !.pc = "status", !.enc = metadata,
                                           !.first = i, !.last = j, !.at = i])
    /\ UNCHANGED <<storage, lock, metadata, purge>>

\* schedule_stale_purge: claim the format's purge slot unless it is taken.
SchedulePurge(e) ==
    IF purge.pc = "idle"
    THEN purge' = [purge EXCEPT !.pc = "list", !.fp = e]
    ELSE UNCHANGED purge

\* Mutant: a chunk cached from any encode counts.
FullyCachedAny(r) == \A c \in Span(r) : rows[c] # Absent
FullyCached(r) == \A c \in Span(r) : rows[c] = req[r].enc
HasStale(e) == \E c \in Chunks : StaleRow(c, e)
OtherEncodeUpserting(r) ==
    \E q \in Requests : At(q, "upsert") /\ req[q].at \in Span(r) /\ req[q].enc # req[r].enc

\* range_status, and what get_format makes of it: one SQL statement decides
\* both whether to schedule a purge and whether to read from disk.
CheckRange(r) ==
    /\ At(r, "status")
    /\ IF HasStale(req[r].enc) THEN SchedulePurge(req[r].enc) ELSE UNCHANGED purge
    /\ Become(r, [req[r] EXCEPT !.pc = IF FullyCached(r) THEN "read" ELSE "fetch",
                                !.raced = FullyCached(r) /\ OtherEncodeUpserting(r)])
    /\ UNCHANGED <<storage, lock, metadata>>

\* A failed query reads as "nothing cached, nothing stale".  A request whose
\* range has no end asks nothing and goes upstream likewise.
CheckRangeFails(r) ==
    /\ At(r, "status")
    /\ Goto(r, "fetch")
    /\ UNCHANGED <<storage, lock, metadata, purge>>

\* read_range_from_cache: the files are opened one by one, whatever their
\* rows say by now.
ReadChunk(r) ==
    /\ At(r, "read")
    /\ files[req[r].at] # Absent
    /\ LET found == [req[r] EXCEPT !.got = @ \cup {files[req[r].at]}]
       IN  IF req[r].at = req[r].last
           THEN Become(r, [found EXCEPT !.pc = "served"])
           ELSE Become(r, [found EXCEPT !.at = @ + 1])
    /\ UNCHANGED <<storage, lock, metadata, purge>>

\* A missing file (or an I/O error) sends the whole request upstream.
ReadFails(r) ==
    /\ At(r, "read")
    /\ Become(r, [req[r] EXCEPT !.pc = "fetch", !.at = req[r].first,
                                !.got = {}, !.raced = FALSE])
    /\ UNCHANGED <<storage, lock, metadata, purge>>

\* The 206 answer is sent.  touch_chunks only changes the LRU order.
Serve(r) ==
    /\ At(r, "served")
    /\ Finish(r)
    /\ UNCHANGED <<storage, lock, metadata, purge>>

\* Upstream answers: a success is teed into the cache, an error is not.
Fetch(r) ==
    /\ At(r, "fetch")
    /\ Goto(r, "tee") \/ Finish(r)
    /\ UNCHANGED <<storage, lock, metadata, purge>>

-----------------------------------------------------------------------------
(* The tee writer of a request: store_chunk for each complete chunk.       *)

\* Mutant: nobody waits for a stripe.
AcquireUnguarded(c, holder) == lock' = [lock EXCEPT ![StripeOf[c]] = holder]
Acquire(c, holder) ==
    /\ lock[StripeOf[c]] = Free
    /\ lock' = [lock EXCEPT ![StripeOf[c]] = holder]
Release(c) == lock' = [lock EXCEPT ![StripeOf[c]] = Free]

\* Mutant: one chunk too far.
AdvancePastEnd(r) ==
    IF req[r].at <= req[r].last
    THEN Become(r, [req[r] EXCEPT !.pc = "tee", !.at = @ + 1])
    ELSE Finish(r)

\* On to the next chunk of the stream, if the range has one.
Advance(r) ==
    IF req[r].at < req[r].last
    THEN Become(r, [req[r] EXCEPT !.pc = "tee", !.at = @ + 1])
    ELSE Finish(r)

\* The stream ends: end of body, client gone, upstream error, or a full
\* channel that made the tee give up.
TeeStop(r) ==
    /\ At(r, "tee")
    /\ Finish(r)
    /\ UNCHANGED <<storage, lock, metadata, purge>>

\* The chunk is not stored: it is a leading partial chunk, or its directory
\* could not be created.
TeeSkip(r) ==
    /\ At(r, "tee")
    /\ Advance(r)
    /\ UNCHANGED <<storage, lock, metadata, purge>>

LockChunk(r) ==
    /\ At(r, "tee")
    /\ Acquire(req[r].at, r)
    /\ Goto(r, "write")
    /\ UNCHANGED <<storage, metadata, purge>>

\* Mutant: the error path returns without dropping the lock guard.
WriteFailsLocked(r) ==
    /\ At(r, "write")
    /\ Advance(r)
    /\ UNCHANGED <<storage, lock, metadata, purge>>

\* Writing the temporary file or renaming it failed: the path is untouched.
WriteFails(r) ==
    /\ At(r, "write")
    /\ Release(req[r].at)
    /\ Advance(r)
    /\ UNCHANGED <<storage, metadata, purge>>

\* The staged file is renamed onto the chunk's path.
Rename(r) ==
    /\ At(r, "write")
    /\ files' = [files EXCEPT ![req[r].at] = req[r].enc]
    /\ req' = [q \in Requests |->
                 IF q = r THEN [req[q] EXCEPT !.pc = "upsert"]
                 ELSE IF At(q, "read") /\ req[r].at \in Span(q) /\ req[q].enc # req[r].enc
                 THEN [req[q] EXCEPT !.raced = TRUE]
                 ELSE req[q]]
    /\ UNCHANGED <<rows, lock, metadata, purge>>

\* Mutant: ON CONFLICT does not update the fingerprint.
UpsertKeepsFingerprint(r) ==
    /\ At(r, "upsert")
    /\ rows' = [rows EXCEPT ![req[r].at] = IF @ = Absent THEN req[r].enc ELSE @]
    /\ Release(req[r].at)
    /\ Advance(r)
    /\ UNCHANGED <<files, metadata, purge>>

\* INSERT ... ON CONFLICT DO UPDATE, then the lock guard is dropped.
Upsert(r) ==
    /\ At(r, "upsert")
    /\ rows' = [rows EXCEPT ![req[r].at] = req[r].enc]
    /\ Release(req[r].at)
    /\ Advance(r)
    /\ UNCHANGED <<files, metadata, purge>>

-----------------------------------------------------------------------------
(* The purge task: purge_stale_chunks, holding the format's purge slot.    *)

\* SELECT the stale rows (no lock held), or give up when the query fails.
PurgeList ==
    /\ purge.pc = "list"
    /\ \/ LET stale == {c \in Chunks : StaleRow(c, purge.fp)}
          IN  purge' = [purge EXCEPT !.pc = "next", !.listed = stale, !.todo = stale]
       \/ purge' = IdlePurge
    /\ UNCHANGED <<storage, lock, metadata, req>>

PurgeLock(c) ==
    /\ purge.pc = "next"
    /\ c \in purge.todo
    /\ Acquire(c, Purger)
    /\ purge' = [purge EXCEPT !.pc = "delete", !.cur = c, !.todo = @ \ {c}]
    /\ UNCHANGED <<storage, metadata, req>>

\* Mutant: DELETE ... WHERE id = ?, whatever the row says by now.
PurgeDeleteById ==
    /\ purge.pc = "delete"
    /\ purge.cur \in purge.listed
    /\ rows' = [rows EXCEPT ![purge.cur] = Absent]
    /\ purge' = [purge EXCEPT !.pc = "unlink", !.listed = @ \ {purge.cur}]
    /\ UNCHANGED <<files, lock, metadata, req>>

\* DELETE ... WHERE id = ? AND fingerprint IS NOT ?.  "listed" holds the
\* chunks whose row still is the one the SELECT returned: ids are never
\* reused, so a row deleted and inserted again is not matched.
PurgeDelete ==
    /\ purge.pc = "delete"
    /\ IF purge.cur \in purge.listed /\ StaleRow(purge.cur, purge.fp)
       THEN /\ rows' = [rows EXCEPT ![purge.cur] = Absent]
            /\ purge' = [purge EXCEPT !.pc = "unlink", !.listed = @ \ {purge.cur}]
            /\ UNCHANGED lock
       ELSE /\ purge' = [purge EXCEPT !.pc = "next"]
            /\ Release(purge.cur)
            /\ UNCHANGED rows
    /\ UNCHANGED <<files, metadata, req>>

\* The DELETE failed: the chunk is left as it is.
PurgeDeleteFails ==
    /\ purge.pc = "delete"
    /\ purge' = [purge EXCEPT !.pc = "next"]
    /\ Release(purge.cur)
    /\ UNCHANGED <<storage, metadata, req>>

\* remove_file: NotFound is as good as success, other errors are only logged.
Unlink(c) ==
    \/ files' = [files EXCEPT ![c] = Absent]
    \/ UnlinkFails /\ UNCHANGED files

PurgeUnlink ==
    /\ purge.pc = "unlink"
    /\ Unlink(purge.cur)
    /\ purge' = [purge EXCEPT !.pc = "next"]
    /\ Release(purge.cur)
    /\ UNCHANGED <<rows, metadata, req>>

\* The loop is done: the guard is dropped, the slot is free again.
PurgeEnd ==
    /\ purge.pc = "next"
    /\ purge.todo = {}
    /\ purge' = IdlePurge
    /\ UNCHANGED <<storage, lock, metadata, req>>

-----------------------------------------------------------------------------
StoreStep(r) == LockChunk(r) \/ WriteFails(r) \/ Rename(r) \/ Upsert(r)

RequestStep(r) ==
    \/ CheckRange(r) \/ CheckRangeFails(r)
    \/ ReadChunk(r) \/ ReadFails(r) \/ Serve(r) \/ Fetch(r)
    \/ TeeStop(r) \/ TeeSkip(r) \/ StoreStep(r)

PurgeStep ==
    \/ PurgeList
    \/ \E c \in Chunks : PurgeLock(c)
    \/ PurgeDelete \/ PurgeDeleteFails \/ PurgeUnlink
    \/ PurgeEnd

Next ==
    \/ Reextract
    \/ \E r \in Requests : Begin(r) \/ RequestStep(r)
    \/ PurgeStep

\* Tokio polls every ready task, so a task that can go on does; its mutex is
\* FIFO, so a task that keeps asking for a stripe gets it.
Fairness ==
    /\ \A r \in Requests : WF_vars(RequestStep(r))
    /\ WF_vars(PurgeStep)
    /\ \A c \in Chunks : SF_vars(PurgeLock(c))

Spec == Init /\ [][Next]_vars /\ Fairness

-----------------------------------------------------------------------------
RequestType ==
    [pc: RequestPC, enc: Encodes \cup {Absent}, first: Chunks, last: Chunks,
     at: Chunks, got: SUBSET Encodes, raced: BOOLEAN]

PurgeType ==
    [pc: PurgePC, fp: Encodes \cup {Absent}, listed: SUBSET Chunks,
     todo: SUBSET Chunks, cur: Chunks]

TypeOK ==
    /\ rows \in [Chunks -> Encodes \cup {Absent}]
    /\ files \in [Chunks -> Encodes \cup {Absent}]
    /\ lock \in [Stripes -> Requests \cup {Purger, Free}]
    /\ metadata \in Encodes
    /\ req \in [Requests -> RequestType]
    /\ purge \in PurgeType

\* A row never vouches for bytes it does not describe: outside the window
\* of a writer that has renamed but not yet upserted, a chunk with a row has
\* a file, copied from the encode the row names.  This is what the striped
\* locks are for ("leaving a current-fingerprint row with no file behind it").
RowMatchesFile ==
    \A c \in Chunks : rows[c] # Absent /\ ~Upserting(c) => files[c] = rows[c]

\* The exact promise of the unlocked cache hit: bytes of another encode can
\* only have been served if a writer of that encode renamed its file into
\* the window between the status query and the end of the read.
ServedFresh ==
    \A r \in Requests : At(r, "served") /\ ~req[r].raced => req[r].got = {req[r].enc}

\* The purge never unlinks a chunk of the encode it was asked to keep
\* (the hazard of the CHUNK_LOCKS comment).
PurgeSparesFresh ==
    [][PurgeUnlink /\ files' # files => files[purge.cur] # purge.fp]_vars

\* The purge slot of the format is always given back, so a later stale
\* detection can schedule another purge (the Drop of PurgeGuard).
PurgeSlotReleased == purge.pc # "idle" ~> purge.pc = "idle"
=============================================================================
