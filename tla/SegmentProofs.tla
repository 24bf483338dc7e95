---------------------------- MODULE SegmentProofs ----------------------------
(***************************************************************************)
(* The chunk cache, for every number of chunks, encodes, requests and      *)
(* stripes, whichever chunks share a stripe.                               *)
(*                                                                         *)
(* First SegmentStore alone: with the striped locks, the conditional       *)
(* DELETE and the fingerprint test a row never vouches for bytes it does   *)
(* not describe, a cache hit is fresh unless it was raced, and the purge   *)
(* never unlinks a fresh chunk.                                            *)
(*                                                                         *)
(* Then what is left of it once rows and files are also taken out without  *)
(* a lock, by any number of evictors and at any limit: a row may lose its  *)
(* file but never vouches for another encode's, clear_all removes what it  *)
(* has counted, and the LRU pass ends within its limit but for what was    *)
(* inserted meanwhile.                                                     *)
(***************************************************************************)
EXTENDS SegmentEviction, FiniteSetTheorems, TLAPS

\* Where a request stands in its range, and that it has an encode.
RequestInv ==
    \A r \in Requests :
        /\ req[r].first <= req[r].at
        /\ req[r].at <= req[r].last
        /\ req[r].pc # "idle" => req[r].enc \in Encodes

\* Whoever is between lock and unlock of a chunk holds the chunk's stripe.
LockInv ==
    /\ \A r \in Requests :
          req[r].pc \in {"write", "upsert"} => lock[StripeOf[req[r].at]] = r
    /\ purge.pc \in {"delete", "unlink"} => lock[StripeOf[purge.cur]] = Purger

\* Half-done operations: the file is in place before the row, and the row is
\* gone before the file.
PendingInv ==
    /\ \A r \in Requests : req[r].pc = "upsert" => files[req[r].at] = req[r].enc
    /\ purge.pc = "unlink" => rows[purge.cur] = Absent

\* What an unraced reader can still find, and what it has found so far.
WindowInv ==
    \A r \in Requests : ~req[r].raced =>
        /\ req[r].pc = "read" =>
              /\ \A c \in Span(r) : files[c] \in {req[r].enc, Absent}
              /\ req[r].got \subseteq {req[r].enc}
              /\ req[r].at # req[r].first => req[r].got = {req[r].enc}
        /\ req[r].pc = "served" => req[r].got = {req[r].enc}

\* A request that has not looked at the rows yet has read nothing.
StartInv ==
    \A r \in Requests :
        req[r].pc = "status" => req[r].got = {} /\ req[r].at = req[r].first

Placed == TypeOK /\ RequestInv

-----------------------------------------------------------------------------
(* Types, and where a request stands in its range.                         *)

\* Locals a request may hold, standing where it stands.
Local(v) ==
    /\ v \in RequestType
    /\ v.first <= v.at /\ v.at <= v.last
    /\ v.pc # "idle" => v.enc \in Encodes

LEMMA IdleLocal == Local(IdleRequest)
  BY ChunksAssumption DEF Local, IdleRequest, RequestType, RequestPC, Chunks

LEMMA StartLocal ==
  ASSUME NEW i \in Chunks, NEW j \in Chunks, i <= j, NEW e \in Encodes
  PROVE  Local([IdleRequest EXCEPT !.pc = "status", !.enc = e,
                                   !.first = i, !.last = j, !.at = i])
  <1>1. IdleRequest \in RequestType
    BY IdleLocal DEF Local
  <1>2. i <= i
    BY ChunksAssumption DEF Chunks
  <1> QED
    BY <1>1, <1>2 DEF Local, RequestType, RequestPC

LEMMA IdlePurgeType == IdlePurge \in PurgeType
  BY ChunksAssumption DEF IdlePurge, PurgeType, PurgePC, Chunks

LEMMA BecomePlaced ==
  ASSUME Placed, NEW r \in Requests, NEW v, Local(v), Become(r, v)
  PROVE  req' \in [Requests -> RequestType] /\ RequestInv'
  BY DEF Placed, TypeOK, RequestInv, Become, Local

LEMMA GotoLocal ==
  ASSUME Placed, NEW r \in Requests, req[r].pc # "idle",
         NEW label \in RequestPC, NEW hit \in BOOLEAN
  PROVE  /\ Local([req[r] EXCEPT !.pc = label])
         /\ Local([req[r] EXCEPT !.pc = label, !.raced = hit])
  BY DEF Placed, TypeOK, RequestInv, RequestType, Local

LEMMA MoveLocal ==
  ASSUME Placed, NEW r \in Requests, req[r].pc # "idle",
         NEW label \in RequestPC \ {"idle"},
         NEW i \in Chunks, req[r].first <= i, i <= req[r].last,
         NEW seen \in SUBSET Encodes
  PROVE  /\ Local([req[r] EXCEPT !.pc = label, !.at = i])
         /\ Local([req[r] EXCEPT !.pc = label, !.at = i, !.got = seen])
         /\ Local([req[r] EXCEPT !.pc = label, !.at = i, !.got = seen, !.raced = FALSE])
  BY DEF Placed, TypeOK, RequestInv, RequestType, Local

LEMMA AdvancePlaced ==
  ASSUME Placed, NEW r \in Requests, Advance(r), req[r].pc # "idle"
  PROVE  req' \in [Requests -> RequestType] /\ RequestInv'
  <1>1. CASE req[r].at < req[r].last
    <2>1. /\ req[r].at + 1 \in Chunks
          /\ req[r].first <= req[r].at + 1
          /\ req[r].at + 1 <= req[r].last
      BY <1>1, ChunksAssumption DEF Placed, TypeOK, RequestInv, RequestType, Chunks
    <2>2. Local([req[r] EXCEPT !.pc = "tee", !.at = req[r].at + 1])
      BY <2>1, MoveLocal DEF RequestPC, Placed, TypeOK, RequestType
    <2> QED
      BY <1>1, <2>2, BecomePlaced DEF Advance
  <1>2. CASE ~(req[r].at < req[r].last)
    BY <1>2, IdleLocal, BecomePlaced DEF Advance, Finish
  <1> QED
    BY <1>1, <1>2

LEMMA PlacedStep == Placed /\ [Next]_vars => Placed'
  <1> SUFFICES ASSUME Placed, [Next]_vars PROVE Placed'
    OBVIOUS
  <1>1. CASE UNCHANGED vars
    BY <1>1 DEF vars, Placed, TypeOK, RequestInv
  <1>2. CASE Reextract
    BY <1>2 DEF Reextract, storage, Placed, TypeOK, RequestInv
  <1>3. ASSUME NEW r \in Requests, Begin(r) PROVE Placed'
    <2>1. PICK i \in Chunks, j \in Chunks :
              /\ i <= j
              /\ Become(r, [IdleRequest EXCEPT !.pc = "status", !.enc = metadata,
                                               !.first = i, !.last = j, !.at = i])
      BY <1>3 DEF Begin
    <2>2. Local([IdleRequest EXCEPT !.pc = "status", !.enc = metadata,
                                    !.first = i, !.last = j, !.at = i])
      BY <2>1, StartLocal DEF Placed, TypeOK
    <2>3. req' \in [Requests -> RequestType] /\ RequestInv'
      BY <2>1, <2>2, BecomePlaced
    <2>4. UNCHANGED <<rows, files, lock, metadata, purge>>
      BY <1>3 DEF Begin, storage
    <2> QED
      BY <2>3, <2>4 DEF Placed, TypeOK
  <1>4. ASSUME NEW r \in Requests, RequestStep(r) PROVE Placed'
    <2> USE <1>4
    <2> DEFINE Fine == req' \in [Requests -> RequestType] /\ RequestInv'
    <2>1. CASE CheckRange(r)
      <3>1. Fine
        BY <2>1, GotoLocal, BecomePlaced
        DEF CheckRange, At, OtherEncodeUpserting, RequestPC
      <3>2. purge' \in PurgeType
        BY <2>1 DEF CheckRange, SchedulePurge, Placed, TypeOK, RequestInv, RequestType,
                    PurgeType, PurgePC, At
      <3> QED
        BY <2>1, <3>1, <3>2 DEF CheckRange, storage, Placed, TypeOK
    <2>2. CASE CheckRangeFails(r)
      <3>1. Fine
        BY <2>2, GotoLocal, BecomePlaced DEF CheckRangeFails, At, Goto, RequestPC
      <3> QED
        BY <2>2, <3>1 DEF CheckRangeFails, storage, Placed, TypeOK
    <2>3. CASE ReadChunk(r)
      <3> DEFINE seen == req[r].got \cup {files[req[r].at]}
                 here == req[r].at
      <3>1. /\ req[r] \in RequestType /\ here \in Chunks /\ seen \in SUBSET Encodes
            /\ req[r].first <= here /\ here <= req[r].last
        BY <2>3 DEF ReadChunk, Placed, TypeOK, RequestInv, RequestType
      <3>2. CASE here = req[r].last
        <4>1. Local([req[r] EXCEPT !.pc = "served", !.at = here, !.got = seen])
          BY <2>3, <3>1, MoveLocal DEF ReadChunk, At, RequestPC
        <4>2. Become(r, [req[r] EXCEPT !.pc = "served", !.at = here, !.got = seen])
          BY <2>3, <3>1, <3>2 DEF ReadChunk, RequestType
        <4> QED
          BY <2>3, <4>1, <4>2, BecomePlaced DEF ReadChunk, storage, Placed, TypeOK
      <3>3. CASE here # req[r].last
        <4>1. here + 1 \in Chunks /\ req[r].first <= here + 1 /\ here + 1 <= req[r].last
          BY <3>1, <3>3, ChunksAssumption DEF RequestType, Chunks
        <4>2. Local([req[r] EXCEPT !.pc = "read", !.at = here + 1, !.got = seen])
          BY <2>3, <3>1, <4>1, MoveLocal DEF ReadChunk, At, RequestPC
        <4>3. Become(r, [req[r] EXCEPT !.pc = "read", !.at = here + 1, !.got = seen])
          BY <2>3, <3>1, <3>3 DEF ReadChunk, At, RequestType
        <4> QED
          BY <2>3, <4>2, <4>3, BecomePlaced DEF ReadChunk, storage, Placed, TypeOK
      <3> QED
        BY <3>2, <3>3
    <2>4. CASE ReadFails(r)
      <3>1. /\ req[r].first \in Chunks
            /\ req[r].first <= req[r].first /\ req[r].first <= req[r].last
        BY ChunksAssumption DEF Placed, TypeOK, RequestInv, RequestType, Chunks
      <3>2. Local([req[r] EXCEPT !.pc = "fetch", !.at = req[r].first,
                                 !.got = {}, !.raced = FALSE])
        BY <2>4, <3>1, MoveLocal DEF ReadFails, At, RequestPC
      <3> QED
        BY <2>4, <3>2, BecomePlaced DEF ReadFails, storage, Placed, TypeOK
    <2>5. CASE Serve(r) \/ Fetch(r) \/ TeeStop(r)
      <3>1. Fine
        BY <2>5, IdleLocal, GotoLocal, BecomePlaced
        DEF Serve, Fetch, TeeStop, At, Goto, Finish, RequestPC
      <3> QED
        BY <2>5, <3>1 DEF Serve, Fetch, TeeStop, storage, Placed, TypeOK
    <2>6. CASE TeeSkip(r) \/ WriteFails(r) \/ Upsert(r)
      <3>1. Advance(r) /\ req[r].pc # "idle"
        BY <2>6 DEF TeeSkip, WriteFails, Upsert, At
      <3>2. Fine
        BY <3>1, AdvancePlaced
      <3>3. rows' \in [Chunks -> Encodes \cup {Absent}]
        BY <2>6 DEF TeeSkip, WriteFails, Upsert, storage, Placed, TypeOK, RequestInv, RequestType, At
      <3>4. lock' \in [Stripes -> Requests \cup {Purger, Free}]
        BY <2>6 DEF TeeSkip, WriteFails, Upsert, Release, Placed, TypeOK
      <3> QED
        BY <2>6, <3>2, <3>3, <3>4 DEF TeeSkip, WriteFails, Upsert, storage, Placed, TypeOK
    <2>7. CASE LockChunk(r)
      <3>1. Fine
        BY <2>7, GotoLocal, BecomePlaced DEF LockChunk, At, Goto, RequestPC
      <3> QED
        BY <2>7, <3>1 DEF LockChunk, Acquire, storage, Placed, TypeOK
    <2>8. CASE Rename(r)
      <3>1. ASSUME NEW q \in Requests PROVE Local(req'[q])
        <4>1. Local(req[q])
          BY DEF Placed, TypeOK, RequestInv, Local
        <4>2. CASE q = r
          BY <2>8, <4>2, GotoLocal DEF Rename, At, RequestPC
        <4>3. req[q].pc = "read" => Local([req[q] EXCEPT !.raced = TRUE])
          BY <4>1 DEF Local, RequestType
        <4> QED
          BY <2>8, <4>1, <4>2, <4>3 DEF Rename, At
      <3>2. Fine
        BY <2>8, <3>1 DEF Rename, Local, RequestInv
      <3>3. files' \in [Chunks -> Encodes \cup {Absent}]
        BY <2>8 DEF Rename, At, Placed, TypeOK, RequestInv, RequestType
      <3> QED
        BY <2>8, <3>2, <3>3 DEF Rename, Placed, TypeOK
    <2> QED
      BY <2>1, <2>2, <2>3, <2>4, <2>5, <2>6, <2>7, <2>8 DEF RequestStep, StoreStep
  <1>5. CASE PurgeStep
    <2> USE DEF storage, TypeOK, PurgeType, PurgePC
    <2>1. TypeOK /\ RequestInv
      BY DEF Placed
    <2>2. UNCHANGED <<req, metadata>>
      BY <1>5 DEF PurgeStep, PurgeList, PurgeLock, PurgeDelete, PurgeDeleteFails, PurgeUnlink, PurgeEnd
    <2>3. RequestInv'
      BY <2>1, <2>2 DEF RequestInv
    <2>4. CASE PurgeList
      <3>1. PICK stale \in SUBSET Chunks :
               \/ purge' = [purge EXCEPT !.pc = "next", !.listed = stale, !.todo = stale]
               \/ purge' = IdlePurge
        BY <2>4 DEF PurgeList
      <3>2. purge' \in PurgeType
        BY <2>1, <3>1, IdlePurgeType
      <3> QED
        BY <2>1, <2>3, <2>4, <3>2 DEF PurgeList, Placed
    <2>5. ASSUME NEW c \in Chunks, PurgeLock(c) PROVE Placed'
      <3>1. lock' \in [Stripes -> Requests \cup {Purger, Free}]
        BY <2>1, <2>5 DEF PurgeLock, Acquire
      <3>2. purge' \in PurgeType
        BY <2>1, <2>5 DEF PurgeLock
      <3> QED
        BY <2>1, <2>2, <2>3, <2>5, <3>1, <3>2 DEF PurgeLock, Placed
    <2>6. CASE PurgeDelete
      <3>1. lock' \in [Stripes -> Requests \cup {Purger, Free}]
        BY <2>1, <2>6 DEF PurgeDelete, Release
      <3>2. rows' \in [Chunks -> Encodes \cup {Absent}]
        BY <2>1, <2>6 DEF PurgeDelete
      <3>3. \/ purge' = [purge EXCEPT !.pc = "unlink", !.listed = @ \ {purge.cur}]
            \/ purge' = [purge EXCEPT !.pc = "next"]
        BY <2>6 DEF PurgeDelete
      <3>4. purge' \in PurgeType
        BY <2>1, <3>3
      <3> QED
        BY <2>1, <2>2, <2>3, <2>6, <3>1, <3>2, <3>4 DEF PurgeDelete, Placed
    <2>7. CASE PurgeDeleteFails
      BY <2>1, <2>3, <2>7 DEF PurgeDeleteFails, Release, Placed
    <2>8. CASE PurgeUnlink
      BY <2>1, <2>3, <2>8 DEF PurgeUnlink, Unlink, Release, Placed
    <2>9. CASE PurgeEnd
      BY <2>1, <2>3, <2>9, IdlePurgeType DEF PurgeEnd, Placed
    <2> QED
      BY <1>5, <2>4, <2>5, <2>6, <2>7, <2>8, <2>9 DEF PurgeStep
  <1> QED
    BY <1>1, <1>2, <1>3, <1>4, <1>5 DEF Next

-----------------------------------------------------------------------------
(* Mutual exclusion.                                                       *)

\* The stripe of the chunk a request is at.
StripeAt(r) == StripeOf[req[r].at]

\* A step of one request leaves the others where they are.
LEMMA OthersStay ==
  ASSUME Placed, NEW r \in Requests, Begin(r) \/ RequestStep(r),
         NEW q \in Requests, q # r
  PROVE  /\ req'[q].pc = req[q].pc /\ req'[q].at = req[q].at /\ req'[q].enc = req[q].enc
         /\ req'[q].first = req[q].first /\ req'[q].last = req[q].last
         /\ req'[q].got = req[q].got
         /\ req'[q] = req[q] \/ req'[q].raced
  <1>1. req[q] \in RequestType /\ req \in [Requests -> RequestType]
    BY DEF Placed, TypeOK
  <1>2. CASE Rename(r)
    BY <1>1, <1>2 DEF Rename, RequestType
  <1>3. CASE ~Rename(r)
    <2>1. \E v : Become(r, v)
      BY <1>3 DEF Begin, RequestStep, StoreStep, CheckRange, CheckRangeFails, ReadChunk,
            ReadFails, Serve, Fetch, TeeStop, TeeSkip, LockChunk, WriteFails, Upsert,
            Goto, Finish, Advance
    <2> QED
      BY <1>1, <2>1 DEF Become
  <1> QED
    BY <1>2, <1>3

\* What a step of a request does to the stripes: nothing, take the free
\* stripe of its chunk, or give that stripe back.
LEMMA RequestLocks ==
  ASSUME Placed, LockInv, NEW r \in Requests, Begin(r) \/ RequestStep(r)
  PROVE  \/ lock' = lock
         \/ lock[StripeAt(r)] = Free /\ lock' = [lock EXCEPT ![StripeAt(r)] = r]
         \/ lock[StripeAt(r)] = r /\ lock' = [lock EXCEPT ![StripeAt(r)] = Free]
  BY DEF Begin, RequestStep, StoreStep, CheckRange, CheckRangeFails, ReadChunk,
         ReadFails, Serve, Fetch, TeeStop, TeeSkip, LockChunk, WriteFails, Rename, Upsert,
         At, Acquire, Release, StripeAt, LockInv

LEMMA AdvanceOut ==
  ASSUME Placed, NEW r \in Requests, Advance(r)
  PROVE  req'[r].pc \in {"tee", "idle"}
  <1>1. req[r] \in RequestType /\ req \in [Requests -> RequestType]
    BY DEF Placed, TypeOK
  <1>2. CASE req[r].at < req[r].last
    BY <1>1, <1>2 DEF Advance, Become, RequestType
  <1>3. CASE ~(req[r].at < req[r].last)
    BY <1>1, <1>3 DEF Advance, Finish, Become, IdleRequest
  <1> QED
    BY <1>2, <1>3

\* A request is inside its critical section after its own step only if it
\* has just entered it, or has just renamed.
LEMMA RequestInside ==
  ASSUME Placed, NEW r \in Requests, Begin(r) \/ RequestStep(r),
         req'[r].pc \in {"write", "upsert"}
  PROVE  /\ LockChunk(r) \/ Rename(r)
         /\ req'[r].at = req[r].at
         /\ req'[r].enc = req[r].enc
         /\ req'[r].pc = "upsert" => Rename(r)
  <1>1. req[r] \in RequestType /\ req \in [Requests -> RequestType]
    BY DEF Placed, TypeOK
  <1>2. CASE Begin(r)
    BY <1>1, <1>2 DEF Begin, Become, IdleRequest
  <1>3. CASE CheckRange(r) \/ CheckRangeFails(r) \/ ReadFails(r)
    <2>1. req'[r].pc \in {"read", "fetch"}
      <3>1. CASE CheckRange(r)
        <4>1. PICK label \in {"read", "fetch"}, hit \in BOOLEAN :
                 Become(r, [req[r] EXCEPT !.pc = label, !.raced = hit])
          BY <3>1 DEF CheckRange, OtherEncodeUpserting
        <4> QED
          BY <1>1, <4>1 DEF Become, RequestType
      <3>2. CASE CheckRangeFails(r)
        BY <1>1, <3>2 DEF CheckRangeFails, Goto, Become, RequestType
      <3>3. CASE ReadFails(r)
        BY <1>1, <3>3 DEF ReadFails, Become, RequestType
      <3> QED
        BY <1>3, <3>1, <3>2, <3>3
    <2> QED
      BY <2>1
  <1>4. CASE ReadChunk(r)
    BY <1>1, <1>4 DEF ReadChunk, At, Become, RequestType
  <1>5. CASE Serve(r) \/ Fetch(r) \/ TeeStop(r)
    BY <1>1, <1>5 DEF Serve, Fetch, TeeStop, Goto, Finish, Become, IdleRequest, RequestType
  <1>6. CASE TeeSkip(r) \/ WriteFails(r) \/ Upsert(r)
    BY <1>1, <1>6, AdvanceOut DEF TeeSkip, WriteFails, Upsert
  <1>7. CASE LockChunk(r)
    BY <1>1, <1>7 DEF LockChunk, Goto, Become, RequestType
  <1>8. CASE Rename(r)
    BY <1>1, <1>8 DEF Rename, RequestType
  <1> QED
    BY <1>2, <1>3, <1>4, <1>5, <1>6, <1>7, <1>8 DEF RequestStep, StoreStep

\* Listing the stale rows, or ending, leaves the purge outside any chunk.
LEMMA ListOut ==
  ASSUME Placed,
         \/ \E S : purge' = [purge EXCEPT !.pc = "next", !.listed = S, !.todo = S]
         \/ purge' = IdlePurge
  PROVE  purge'.pc \in {"next", "idle"}
  <1>1. purge \in PurgeType
    BY DEF Placed, TypeOK
  <1>2. ASSUME NEW S, purge' = [purge EXCEPT !.pc = "next", !.listed = S, !.todo = S]
        PROVE  purge'.pc = "next"
    BY <1>1, <1>2 DEF PurgeType
  <1>3. purge' = IdlePurge => purge'.pc = "idle"
    BY DEF IdlePurge
  <1> QED
    BY <1>2, <1>3

LEMMA LockStep == Placed /\ LockInv /\ [Next]_vars => LockInv'
  <1> SUFFICES ASSUME Placed, LockInv, [Next]_vars PROVE LockInv'
    OBVIOUS
  <1> USE HoldersAssumption
  <1>1. CASE UNCHANGED vars \/ Reextract
    BY <1>1 DEF vars, Reextract, LockInv
  <1>2. ASSUME NEW r \in Requests, Begin(r) \/ RequestStep(r) PROVE LockInv'
    <2>1. ASSUME NEW q \in Requests, req'[q].pc \in {"write", "upsert"}
          PROVE  lock'[StripeOf[req'[q].at]] = q
      <3>1. CASE q = r
        <4>1. (LockChunk(r) \/ Rename(r)) /\ req'[r].at = req[r].at
          BY <1>2, <2>1, <3>1, RequestInside
        <4>2. StripeAt(r) \in Stripes /\ lock \in [Stripes -> Requests \cup {Purger, Free}]
          BY StripesAssumption DEF StripeAt, Placed, TypeOK, RequestType
        <4> QED
          BY <3>1, <4>1, <4>2 DEF LockChunk, Rename, At, Acquire, LockInv, StripeAt
      <3>2. CASE q # r
        <4>1. lock[StripeAt(q)] = q /\ req'[q].at = req[q].at
          BY <1>2, <2>1, <3>2, OthersStay DEF LockInv, StripeAt
        <4>2. StripeAt(q) \in Stripes /\ lock \in [Stripes -> Requests \cup {Purger, Free}]
          BY StripesAssumption DEF StripeAt, Placed, TypeOK, RequestType
        <4> QED
          BY <1>2, <3>2, <4>1, <4>2, RequestLocks DEF StripeAt
      <3> QED
        BY <3>1, <3>2
    <2>2. purge'.pc \in {"delete", "unlink"} =>
              purge.pc \in {"delete", "unlink"} /\ purge'.cur = purge.cur
      BY <1>2 DEF Begin, RequestStep, StoreStep, CheckRange, CheckRangeFails, ReadChunk,
            ReadFails, Serve, Fetch, TeeStop, TeeSkip, LockChunk, WriteFails, Rename, Upsert,
            SchedulePurge, Placed, TypeOK, PurgeType
    <2>3. purge'.pc \in {"delete", "unlink"} => lock'[StripeOf[purge'.cur]] = Purger
      <3>1. StripeOf[purge.cur] \in Stripes /\ lock \in [Stripes -> Requests \cup {Purger, Free}]
        BY StripesAssumption DEF Placed, TypeOK, PurgeType
      <3> QED
        BY <1>2, <2>2, <3>1, RequestLocks DEF LockInv
    <2> QED
      BY <2>1, <2>3 DEF LockInv
  <1>3. CASE PurgeStep
    <2>1. req' = req
      BY <1>3 DEF PurgeStep, PurgeList, PurgeLock, PurgeDelete, PurgeDeleteFails, PurgeUnlink, PurgeEnd
    <2>2. /\ \A q \in Requests : StripeAt(q) \in Stripes
          /\ StripeOf[purge.cur] \in Stripes
          /\ lock \in [Stripes -> Requests \cup {Purger, Free}]
      BY StripesAssumption DEF StripeAt, Placed, TypeOK, RequestType, PurgeType
    <2>3. CASE PurgeList \/ PurgeEnd
      <3>1. purge'.pc \in {"next", "idle"} /\ lock' = lock
        <4>1. \/ \E S : purge' = [purge EXCEPT !.pc = "next", !.listed = S, !.todo = S]
              \/ purge' = IdlePurge
          BY <2>3 DEF PurgeList, PurgeEnd
        <4>2. lock' = lock
          BY <2>3 DEF PurgeList, PurgeEnd
        <4> QED
          BY <4>1, <4>2, ListOut
      <3> QED
        BY <2>1, <3>1 DEF LockInv
    <2>4. ASSUME NEW c \in Chunks, PurgeLock(c) PROVE LockInv'
      <3>1. StripeOf[c] \in Stripes /\ purge'.cur = c
        BY <2>4, StripesAssumption DEF PurgeLock, Placed, TypeOK, PurgeType
      <3> QED
        BY <2>1, <2>2, <2>4, <3>1 DEF PurgeLock, Acquire, LockInv, StripeAt
    <2>5. CASE PurgeDelete \/ PurgeDeleteFails \/ PurgeUnlink
      <3>1. \/ lock' = lock
            \/ /\ lock[StripeOf[purge.cur]] = Purger
               /\ lock' = [lock EXCEPT ![StripeOf[purge.cur]] = Free]
        BY <2>5 DEF PurgeDelete, PurgeDeleteFails, PurgeUnlink, Release, LockInv
      <3>2. purge'.pc \in {"delete", "unlink"} => lock' = lock /\ purge'.cur = purge.cur
        BY <2>5 DEF PurgeDelete, PurgeDeleteFails, PurgeUnlink, Placed, TypeOK, PurgeType
      <3>3. purge.pc \in {"delete", "unlink"}
        BY <2>5 DEF PurgeDelete, PurgeDeleteFails, PurgeUnlink
      <3> QED
        BY <2>1, <2>2, <3>1, <3>2, <3>3 DEF LockInv, StripeAt
    <2> QED
      BY <1>3, <2>3, <2>4, <2>5 DEF PurgeStep
  <1> QED
    BY <1>1, <1>2, <1>3 DEF Next

-----------------------------------------------------------------------------
(* Rows and files agree.                                                   *)

\* Nobody else is inside the critical section of a chunk.
LEMMA Exclusion ==
  ASSUME LockInv, NEW r \in Requests, req[r].pc \in {"write", "upsert"}
  PROVE  /\ \A q \in Requests : req[q].pc \in {"write", "upsert"} /\ req[q].at = req[r].at => q = r
         /\ purge.pc \in {"delete", "unlink"} => purge.cur # req[r].at
  BY HoldersAssumption DEF LockInv

\* Only a rename and an unlink change files, only an upsert and the purge's
\* DELETE change rows.
LEMMA RequestStorage ==
  ASSUME NEW r \in Requests, Begin(r) \/ RequestStep(r)
  PROVE  /\ rows' = rows \/ Upsert(r)
         /\ files' = files \/ Rename(r)
  BY DEF Begin, RequestStep, StoreStep, CheckRange, CheckRangeFails, ReadChunk,
         ReadFails, Serve, Fetch, TeeStop, TeeSkip, LockChunk, WriteFails, Rename, Upsert, storage

StorageInv == PendingInv /\ RowMatchesFile

LEMMA StorageStep == Placed /\ LockInv /\ StorageInv /\ [Next]_vars => StorageInv'
  <1> SUFFICES ASSUME Placed, LockInv, StorageInv, [Next]_vars PROVE StorageInv'
    OBVIOUS
  <1>0. /\ rows \in [Chunks -> Encodes \cup {Absent}]
        /\ files \in [Chunks -> Encodes \cup {Absent}]
        /\ \A r \in Requests : req[r] \in RequestType /\ req[r].at \in Chunks
        /\ purge.cur \in Chunks
    BY DEF Placed, TypeOK, RequestType, PurgeType
  <1>1. CASE UNCHANGED vars \/ Reextract
    BY <1>1 DEF vars, Reextract, storage, StorageInv, PendingInv, RowMatchesFile, Upserting
  <1>2. ASSUME NEW r \in Requests, Begin(r) \/ RequestStep(r) PROVE StorageInv'
    <2>1. \A q \in Requests : q # r => req'[q].pc = req[q].pc /\ req'[q].at = req[q].at
                                        /\ req'[q].enc = req[q].enc
      BY <1>2, OthersStay
    <2>2. purge'.pc = "unlink" => purge.pc = "unlink" /\ purge'.cur = purge.cur
      BY <1>2 DEF Begin, RequestStep, StoreStep, CheckRange, CheckRangeFails, ReadChunk,
            ReadFails, Serve, Fetch, TeeStop, TeeSkip, LockChunk, WriteFails, Rename, Upsert,
            SchedulePurge, Placed, TypeOK, PurgeType
    <2>3. CASE Rename(r)
      <3>1. /\ req'[r].pc = "upsert" /\ req'[r].at = req[r].at /\ req'[r].enc = req[r].enc
            /\ rows' = rows /\ files' = [files EXCEPT ![req[r].at] = req[r].enc]
            /\ req[r].pc = "write"
        BY <1>0, <2>3 DEF Rename, At, RequestType
      <3>2. PendingInv'
        <4>1. ASSUME NEW q \in Requests, req'[q].pc = "upsert"
              PROVE  files'[req'[q].at] = req'[q].enc
          <5>1. CASE q = r
            BY <1>0, <3>1, <5>1
          <5>2. CASE q # r
            BY <1>0, <2>1, <3>1, <4>1, <5>2, Exclusion DEF StorageInv, PendingInv
          <5> QED
            BY <5>1, <5>2
        <4> QED
          BY <2>2, <3>1, <4>1 DEF StorageInv, PendingInv
      <3>3. RowMatchesFile'
        BY <1>0, <2>1, <3>1 DEF StorageInv, RowMatchesFile, Upserting
      <3> QED
        BY <3>2, <3>3 DEF StorageInv
    <2>4. CASE Upsert(r)
      <3>1. /\ req[r].pc = "upsert" /\ files' = files
            /\ rows' = [rows EXCEPT ![req[r].at] = req[r].enc]
            /\ files[req[r].at] = req[r].enc
            /\ purge' = purge
        BY <2>4 DEF Upsert, At, StorageInv, PendingInv
      <3>2. req'[r].pc # "upsert"
        BY <1>0, <2>4, AdvanceOut DEF Upsert
      <3>3. PendingInv'
        BY <1>0, <2>1, <2>2, <3>1, <3>2, Exclusion DEF StorageInv, PendingInv
      <3>4. RowMatchesFile'
        BY <1>0, <2>1, <3>1, <3>2, Exclusion DEF StorageInv, RowMatchesFile, Upserting
      <3> QED
        BY <3>3, <3>4 DEF StorageInv
    <2>5. CASE ~Rename(r) /\ ~Upsert(r)
      <3>1. rows' = rows /\ files' = files
        BY <1>2, <2>5, RequestStorage
      <3>2. req'[r].pc # "upsert"
        BY <1>2, <2>5, RequestInside
      <3>3. req[r].pc # "upsert"
        BY <1>2, <2>5 DEF Begin, RequestStep, StoreStep, CheckRange, CheckRangeFails, ReadChunk,
              ReadFails, Serve, Fetch, TeeStop, TeeSkip, LockChunk, WriteFails, At
      <3>4. PendingInv'
        BY <2>1, <2>2, <3>1, <3>2 DEF StorageInv, PendingInv
      <3>5. RowMatchesFile'
        BY <2>1, <3>1, <3>2, <3>3 DEF StorageInv, RowMatchesFile, Upserting
      <3> QED
        BY <3>4, <3>5 DEF StorageInv
    <2> QED
      BY <2>3, <2>4, <2>5
  <1>3. CASE PurgeStep
    <2>1. req' = req
      BY <1>3 DEF PurgeStep, PurgeList, PurgeLock, PurgeDelete, PurgeDeleteFails, PurgeUnlink, PurgeEnd
    <2>2. CASE PurgeDelete /\ purge'.pc = "unlink"
      <3>1. /\ purge.pc = "delete" /\ purge'.cur = purge.cur
            /\ rows' = [rows EXCEPT ![purge.cur] = Absent] /\ files' = files
        BY <2>2 DEF PurgeDelete, Placed, TypeOK, PurgeType
      <3> QED
        BY <1>0, <2>1, <3>1 DEF StorageInv, PendingInv, RowMatchesFile, Upserting
    <2>3. CASE PurgeUnlink
      <3>1. /\ purge.pc = "unlink" /\ purge'.pc = "next" /\ rows' = rows
            /\ files' = files \/ files' = [files EXCEPT ![purge.cur] = Absent]
        BY <2>3 DEF PurgeUnlink, Unlink, Placed, TypeOK, PurgeType
      <3>2. \A q \in Requests : req[q].pc = "upsert" => req[q].at # purge.cur
        BY <3>1, HoldersAssumption DEF LockInv
      <3>3. rows[purge.cur] = Absent
        BY <3>1 DEF StorageInv, PendingInv
      <3>4. PendingInv'
        BY <1>0, <2>1, <3>1, <3>2 DEF StorageInv, PendingInv
      <3>5. RowMatchesFile'
        BY <1>0, <2>1, <3>1, <3>3 DEF StorageInv, RowMatchesFile, Upserting
      <3> QED
        BY <3>4, <3>5 DEF StorageInv
    <2>4. CASE purge'.pc # "unlink" /\ ~PurgeUnlink
      <3>1. rows' = rows /\ files' = files
        BY <1>3, <2>4 DEF PurgeStep, PurgeList, PurgeLock, PurgeDelete, PurgeDeleteFails,
              PurgeEnd, storage, Placed, TypeOK, PurgeType
      <3> QED
        BY <2>1, <2>4, <3>1 DEF StorageInv, PendingInv, RowMatchesFile, Upserting
    <2>5. ~PurgeDelete /\ ~PurgeUnlink => purge'.pc # "unlink"
      <3>1. PurgeList \/ PurgeEnd => purge'.pc # "unlink"
        BY ListOut DEF PurgeList, PurgeEnd
      <3>2. ASSUME NEW c \in Chunks, PurgeLock(c) PROVE purge'.pc # "unlink"
        BY <3>2 DEF PurgeLock, Placed, TypeOK, PurgeType
      <3>3. PurgeDeleteFails => purge'.pc # "unlink"
        BY DEF PurgeDeleteFails, Placed, TypeOK, PurgeType
      <3> QED
        BY <1>3, <3>1, <3>2, <3>3 DEF PurgeStep
    <2> QED
      BY <2>2, <2>3, <2>4, <2>5
  <1> QED
    BY <1>1, <1>2, <1>3 DEF Next

-----------------------------------------------------------------------------
(* The window of an unlocked reader.                                       *)

ReaderInv == StartInv /\ WindowInv

\* What a reader needs of rows and files: a file may be missing, but if it is
\* there, it is its row's, or that of the writer about to upsert the row.
NoStranger ==
    /\ \A r \in Requests :
          req[r].pc = "upsert" => files[req[r].at] \in {req[r].enc, Absent}
    /\ \A c \in Chunks :
          rows[c] # Absent /\ ~Upserting(c) => files[c] \in {rows[c], Absent}

LEMMA StorageHasNoStranger == StorageInv => NoStranger
  BY DEF StorageInv, PendingInv, RowMatchesFile, NoStranger

LEMMA ReaderStep == Placed /\ NoStranger /\ ReaderInv /\ [Next]_vars => ReaderInv'
  <1> SUFFICES ASSUME Placed, NoStranger, ReaderInv, [Next]_vars PROVE ReaderInv'
    OBVIOUS
  <1>0. /\ rows \in [Chunks -> Encodes \cup {Absent}]
        /\ files \in [Chunks -> Encodes \cup {Absent}]
        /\ req \in [Requests -> RequestType]
        /\ \A r \in Requests : req[r] \in RequestType /\ req[r].at \in Chunks /\ Span(r) \subseteq Chunks
    BY ChunksAssumption DEF Placed, TypeOK, RequestType, Span, Chunks
  <1>1. CASE UNCHANGED vars \/ Reextract
    BY <1>1 DEF vars, Reextract, storage, ReaderInv, StartInv, WindowInv, Span
  <1>2. ASSUME NEW r \in Requests, Begin(r) \/ RequestStep(r) PROVE ReaderInv'
    \* What ReaderInv says of one request.
    <2> DEFINE Reads(q) ==
          /\ req[q].pc = "status" => req[q].got = {} /\ req[q].at = req[q].first
          /\ ~req[q].raced =>
                /\ req[q].pc = "read" =>
                      /\ \A c \in Span(q) : files[c] \in {req[q].enc, Absent}
                      /\ req[q].got \subseteq {req[q].enc}
                      /\ req[q].at # req[q].first => req[q].got = {req[q].enc}
                /\ req[q].pc = "served" => req[q].got = {req[q].enc}
    <2>0. \A q \in Requests : Reads(q)
      BY DEF ReaderInv, StartInv, WindowInv
    <2>1. ASSUME NEW q \in Requests, q # r PROVE Reads(q)'
      <3>1. /\ req'[q].pc = req[q].pc /\ req'[q].at = req[q].at /\ req'[q].enc = req[q].enc
            /\ req'[q].first = req[q].first /\ req'[q].last = req[q].last
            /\ req'[q].got = req[q].got
            /\ ~req'[q].raced => req'[q] = req[q]
        BY <1>2, <2>1, OthersStay
      <3>2. Span(q)' = Span(q)
        BY <3>1 DEF Span
      <3>3. CASE Rename(r)
        <4>1. files' = [files EXCEPT ![req[r].at] = req[r].enc] /\ req[r].at \in Chunks
          BY <1>0, <3>3 DEF Rename
        <4>2. req[q].pc = "read" /\ ~req'[q].raced =>
                  req[r].at \notin Span(q) \/ req[q].enc = req[r].enc
          BY <1>0, <2>1, <3>3 DEF Rename, At, RequestType
        <4> QED
          BY <1>0, <2>0, <2>1, <3>1, <3>2, <4>1, <4>2
      <3>4. CASE ~Rename(r)
        <4>1. files' = files
          BY <1>2, <3>4, RequestStorage
        <4> QED
          BY <2>0, <3>1, <3>2, <4>1
      <3> QED
        BY <3>3, <3>4
    <2>2. Reads(r)'
      <3>1. CASE Begin(r)
        <4>1. PICK i \in Chunks, j \in Chunks :
                  Become(r, [IdleRequest EXCEPT !.pc = "status", !.enc = metadata,
                                                !.first = i, !.last = j, !.at = i])
          BY <3>1 DEF Begin
        <4>2. /\ req'[r].pc = "status" /\ req'[r].got = {} /\ req'[r].at = req'[r].first
          BY <1>0, <4>1 DEF Become, IdleRequest
        <4> QED
          BY <4>2
      <3>2. CASE CheckRange(r)
        <4>1. PICK label \in {"read", "fetch"}, hit \in BOOLEAN :
                 /\ Become(r, [req[r] EXCEPT !.pc = label, !.raced = hit])
                 /\ label = "read" => FullyCached(r)
                 /\ label = "read" => hit = OtherEncodeUpserting(r)
          BY <3>2 DEF CheckRange, FullyCached, OtherEncodeUpserting
        <4>2. /\ req'[r].pc = label /\ req'[r].raced = hit
              /\ req'[r].enc = req[r].enc /\ req'[r].got = req[r].got /\ req'[r].at = req[r].at
              /\ req'[r].first = req[r].first /\ req'[r].last = req[r].last
          BY <1>0, <4>1 DEF Become, RequestType
        <4>3. req[r].got = {} /\ req[r].at = req[r].first /\ files' = files
          BY <2>0, <3>2 DEF CheckRange, At, storage
        <4>4. ASSUME label = "read", ~hit, NEW c \in Span(r)
              PROVE  files[c] \in {req[r].enc, Absent}
          <5>1. c \in Chunks /\ rows[c] = req[r].enc /\ req[r].enc \in Encodes
            BY <1>0, <3>2, <4>1, <4>4 DEF CheckRange, At, FullyCached, Placed, RequestInv
          <5>2. CASE Upserting(c)
            BY <4>1, <4>4, <5>2
            DEF Upserting, OtherEncodeUpserting, At, NoStranger
          <5>3. CASE ~Upserting(c)
            BY <5>1, <5>3, EncodesAssumption DEF NoStranger
          <5> QED
            BY <5>2, <5>3
        <4>5. Span(r)' = Span(r)
          BY <4>2 DEF Span
        <4> QED
          BY <4>1, <4>2, <4>3, <4>4, <4>5
      <3>3. CASE ReadChunk(r)
        <4> DEFINE here == req[r].at
        <4>1. /\ req[r].pc = "read" /\ files[here] # Absent /\ here \in Span(r) /\ files' = files
          BY <1>0, <3>3 DEF ReadChunk, At, Span, storage, Placed, RequestInv, RequestType, Chunks
        <4>2. /\ req'[r].enc = req[r].enc /\ req'[r].raced = req[r].raced
              /\ req'[r].first = req[r].first /\ req'[r].last = req[r].last
              /\ req'[r].got = req[r].got \cup {files[here]}
              /\ req'[r].pc \in {"read", "served"}
          <5>1. PICK seen : seen = req[r].got \cup {files[here]}
            OBVIOUS
          <5>2. \/ Become(r, [[req[r] EXCEPT !.got = seen] EXCEPT !.pc = "served"])
                \/ Become(r, [[req[r] EXCEPT !.got = seen] EXCEPT !.at = @ + 1])
            BY <3>3, <5>1 DEF ReadChunk
          <5>3. /\ req'[r].enc = req[r].enc /\ req'[r].raced = req[r].raced
                /\ req'[r].first = req[r].first /\ req'[r].last = req[r].last
                /\ req'[r].got = seen
                /\ req'[r].pc \in {"read", "served"}
            <6>1. req[r] \in RequestType /\ req \in [Requests -> RequestType]
              BY <1>0
            <6>2. CASE Become(r, [[req[r] EXCEPT !.got = seen] EXCEPT !.pc = "served"])
              <7>1. req'[r] = [[req[r] EXCEPT !.got = seen] EXCEPT !.pc = "served"]
                BY <6>1, <6>2 DEF Become
              <7> QED
                <8>1. PICK mid : mid = [req[r] EXCEPT !.got = seen]
                  OBVIOUS
                <8>2. /\ mid.enc = req[r].enc /\ mid.raced = req[r].raced
                      /\ mid.first = req[r].first /\ mid.last = req[r].last /\ mid.got = seen
                      /\ mid = [pc |-> mid.pc, enc |-> mid.enc, first |-> mid.first,
                                last |-> mid.last, at |-> mid.at, got |-> mid.got,
                                raced |-> mid.raced]
                  BY <6>1, <8>1 DEF RequestType
                <8>3. req'[r] = [mid EXCEPT !.pc = "served"]
                  BY <7>1, <8>1
                <8> QED
                  BY <8>2, <8>3
            <6>3. CASE Become(r, [[req[r] EXCEPT !.got = seen] EXCEPT !.at = @ + 1])
              <7>1. req'[r] = [[req[r] EXCEPT !.got = seen] EXCEPT !.at = @ + 1]
                BY <6>1, <6>3 DEF Become
              <7>2. PICK mid : mid = [req[r] EXCEPT !.got = seen]
                OBVIOUS
              <7>3. /\ mid.enc = req[r].enc /\ mid.raced = req[r].raced /\ mid.pc = req[r].pc
                    /\ mid.first = req[r].first /\ mid.last = req[r].last /\ mid.got = seen
                    /\ mid = [pc |-> mid.pc, enc |-> mid.enc, first |-> mid.first,
                              last |-> mid.last, at |-> mid.at, got |-> mid.got,
                              raced |-> mid.raced]
                BY <6>1, <7>2 DEF RequestType
              <7>4. PICK next : req'[r] = [mid EXCEPT !.at = next]
                BY <7>1, <7>2
              <7> QED
                BY <4>1, <7>3, <7>4
            <6> QED
              BY <5>2, <6>2, <6>3
          <5> QED
            BY <5>1, <5>3
        <4>3. ~req[r].raced => req'[r].got = {req[r].enc}
          <5>1. ~req[r].raced => files[here] = req[r].enc /\ req[r].got \subseteq {req[r].enc}
            BY <2>0, <4>1
          <5> QED
            BY <4>2, <5>1
        <4>4. Span(r)' = Span(r)
          BY <4>2 DEF Span
        <4>5. ~req[r].raced => \A c \in Span(r) : files[c] \in {req[r].enc, Absent}
          BY <2>0, <4>1
        <4> QED
          BY <4>1, <4>2, <4>3, <4>4, <4>5
      <3>4. CASE ~Begin(r) /\ ~CheckRange(r) /\ ~ReadChunk(r)
        <4>1. req'[r].pc \notin {"status", "read", "served"}
          <5>1. CASE CheckRangeFails(r) \/ LockChunk(r)
            BY <1>0, <5>1 DEF CheckRangeFails, LockChunk, Goto, Become, RequestType
          <5>4. CASE ReadFails(r)
            BY <1>0, <5>4 DEF ReadFails, Become, RequestType
          <5>5. CASE Rename(r)
            <6>1. req'[r] = [req[r] EXCEPT !.pc = "upsert"]
              BY <5>5 DEF Rename
            <6> QED
              BY <1>0, <6>1 DEF RequestType
          <5>2. CASE Serve(r) \/ Fetch(r) \/ TeeStop(r)
            BY <1>0, <5>2 DEF Serve, Fetch, TeeStop, Goto, Finish, Become, IdleRequest, RequestType
          <5>3. CASE TeeSkip(r) \/ WriteFails(r) \/ Upsert(r)
            BY <5>3, AdvanceOut DEF TeeSkip, WriteFails, Upsert
          <5> QED
            BY <1>2, <3>4, <5>1, <5>2, <5>3, <5>4, <5>5 DEF RequestStep, StoreStep
        <4> QED
          BY <4>1
      <3> QED
        BY <3>1, <3>2, <3>3, <3>4
    <2> QED
      BY <2>1, <2>2 DEF ReaderInv, StartInv, WindowInv
  <1>3. CASE PurgeStep
    <2>1. req' = req
      BY <1>3 DEF PurgeStep, PurgeList, PurgeLock, PurgeDelete, PurgeDeleteFails, PurgeUnlink, PurgeEnd
    <2>2. \A c \in Chunks : files'[c] \in {files[c], Absent}
      BY <1>0, <1>3 DEF PurgeStep, PurgeList, PurgeLock, PurgeDelete, PurgeDeleteFails,
            PurgeUnlink, PurgeEnd, Unlink, storage
    <2> QED
      BY <1>0, <2>1, <2>2 DEF ReaderInv, StartInv, WindowInv, Span
  <1> QED
    BY <1>1, <1>2, <1>3 DEF Next

-----------------------------------------------------------------------------
(* What the purge is about to unlink.                                      *)

SpareInv == purge.pc = "unlink" => files[purge.cur] # purge.fp

LEMMA SpareStep ==
    Placed /\ LockInv /\ StorageInv /\ SpareInv /\ [Next]_vars => SpareInv'
  <1> SUFFICES ASSUME Placed, LockInv, StorageInv, SpareInv, [Next]_vars,
                      purge'.pc = "unlink"
               PROVE  files'[purge'.cur] # purge'.fp
    BY DEF SpareInv
  <1>0. /\ files \in [Chunks -> Encodes \cup {Absent}] /\ purge.cur \in Chunks
        /\ \A r \in Requests : req[r].at \in Chunks
    BY DEF Placed, TypeOK, RequestType, PurgeType
  <1>1. CASE UNCHANGED vars \/ Reextract
    BY <1>1 DEF vars, Reextract, storage, SpareInv
  <1>2. ASSUME NEW r \in Requests, Begin(r) \/ RequestStep(r)
        PROVE  files'[purge'.cur] # purge'.fp
    <2>1. purge' = purge
      BY <1>2 DEF Begin, RequestStep, StoreStep, CheckRange, CheckRangeFails, ReadChunk,
            ReadFails, Serve, Fetch, TeeStop, TeeSkip, LockChunk, WriteFails, Rename, Upsert,
            SchedulePurge, Placed, TypeOK, PurgeType
    <2>2. CASE Rename(r)
      <3>1. files' = [files EXCEPT ![req[r].at] = req[r].enc] /\ req[r].at # purge.cur
        BY <2>1, <2>2, Exclusion DEF Rename, At
      <3> QED
        BY <1>0, <2>1, <3>1 DEF SpareInv
    <2>3. CASE ~Rename(r)
      BY <1>2, <2>1, <2>3, RequestStorage DEF SpareInv
    <2> QED
      BY <2>2, <2>3
  <1>3. CASE PurgeStep
    <2>1. CASE PurgeDelete
      <3>1. /\ purge.pc = "delete" /\ purge'.cur = purge.cur /\ purge'.fp = purge.fp
            /\ StaleRow(purge.cur, purge.fp) /\ files' = files
        BY <2>1 DEF PurgeDelete, Placed, TypeOK, PurgeType
      <3>2. ~Upserting(purge.cur)
        BY <3>1, HoldersAssumption DEF LockInv, Upserting
      <3> QED
        BY <1>0, <3>1, <3>2 DEF StaleRow, StorageInv, RowMatchesFile
    <2>2. ~PurgeDelete => purge'.pc # "unlink"
      <3>1. PurgeList \/ PurgeEnd => purge'.pc # "unlink"
        BY ListOut DEF PurgeList, PurgeEnd
      <3>2. ASSUME NEW c \in Chunks, PurgeLock(c) PROVE purge'.pc # "unlink"
        BY <3>2 DEF PurgeLock, Placed, TypeOK, PurgeType
      <3>3. PurgeDeleteFails \/ PurgeUnlink => purge'.pc # "unlink"
        BY DEF PurgeDeleteFails, PurgeUnlink, Placed, TypeOK, PurgeType
      <3> QED
        BY <1>3, <3>1, <3>2, <3>3 DEF PurgeStep
    <2> QED
      BY <2>1, <2>2
  <1> QED
    BY <1>1, <1>2, <1>3 DEF Next

-----------------------------------------------------------------------------
(* The theorems.                                                           *)

IInv == Placed /\ LockInv /\ StorageInv /\ ReaderInv /\ SpareInv

LEMMA InitIInv == Init => IInv
  <1> SUFFICES ASSUME Init PROVE IInv
    OBVIOUS
  <1>1. Placed
    BY IdleLocal, IdlePurgeType DEF Init, Placed, TypeOK, RequestInv, Local
  <1>2. \A r \in Requests : req[r].pc = "idle"
    BY DEF Init, IdleRequest
  <1>3. purge.pc = "idle" /\ rows = [c \in Chunks |-> Absent]
    BY DEF Init, IdlePurge
  <1> QED
    BY <1>1, <1>2, <1>3
    DEF IInv, LockInv, StorageInv, PendingInv, RowMatchesFile, ReaderInv, StartInv,
        WindowInv, SpareInv

LEMMA NextIInv == IInv /\ [Next]_vars => IInv'
  BY PlacedStep, LockStep, StorageStep, StorageHasNoStranger, ReaderStep, SpareStep DEF IInv

LEMMA Invariance == Spec => []IInv
  BY InitIInv, NextIInv, PTL DEF Spec

\* Every variable keeps its type.
THEOREM TypeCorrect == Spec => []TypeOK
  <1>1. IInv => TypeOK
    BY DEF IInv, Placed
  <1> QED
    BY <1>1, Invariance, PTL

\* A row never vouches for bytes it does not describe, however many writers,
\* encodes and chunks there are and however the chunks share stripes: the
\* striped locks and the conditional DELETE keep table and directory in step.
THEOREM RowsMatchFiles == Spec => []RowMatchesFile
  <1>1. IInv => RowMatchesFile
    BY DEF IInv, StorageInv
  <1> QED
    BY <1>1, Invariance, PTL

\* A cache hit that no rename of another encode raced returns only bytes of
\* the encode the request was given.
THEOREM HitsAreFresh == Spec => []ServedFresh
  <1>1. IInv => ServedFresh
    BY DEF IInv, ReaderInv, WindowInv, ServedFresh, At
  <1> QED
    BY <1>1, Invariance, PTL

\* The purge never unlinks a chunk of the encode it was asked to keep.
THEOREM PurgeKeepsFresh == Spec => PurgeSparesFresh
  <1>1. IInv /\ [Next]_vars => [PurgeUnlink /\ files' # files => files[purge.cur] # purge.fp]_vars
    BY DEF IInv, SpareInv, PurgeUnlink
  <1> QED
    BY <1>1, Invariance, PTL DEF Spec, PurgeSparesFresh

-----------------------------------------------------------------------------
(* Eviction.                                                               *)

EvictPC == {"idle", "lruList", "lru", "lruDelete", "evict", "clear", "clearFiles"}

EvictorType ==
    [pc: EvictPC, total: Nat, todo: SUBSET Chunks, listed: SUBSET Chunks,
     cur: Chunks, grown: Nat, dirty: BOOLEAN]

\* A writer that has renamed finds its file, or finds it evicted.
WriterInv ==
    \A r \in Requests :
        req[r].pc = "upsert" => files[req[r].at] \in {req[r].enc, Absent}

\* An LRU pass only begins above the limit, hence below all there can be; it
\* takes a row off the total only after it found the total above the limit.
Typed(e) ==
    /\ evict[e] \in EvictorType
    /\ evict[e].pc \in LruPC => Limit <= LastChunk + 1
    /\ evict[e].pc = "lruDelete" => evict[e].total > Limit

\* A transaction whose snapshot nobody overtook still sees the table.
Snapshot(e) == evict[e].pc = "clear" /\ ~evict[e].dirty => evict[e].todo = Tracked

\* The chunks an LRU pass has listed and not dealt with yet.
Pending(e) ==
    evict[e].todo \cup (IF evict[e].pc = "lruDelete" THEN {evict[e].cur} ELSE {})

Listed(e) ==
    /\ evict[e].pc \in {"lru", "lruDelete"} =>
          evict[e].listed \subseteq Tracked \cap Pending(e)
    /\ evict[e].pc = "lruDelete" => evict[e].cur \notin evict[e].todo

\* Insertions were counted up to the bound, where they are as good as any.
Saturated(e) == Limit + evict[e].grown = LastChunk + 1

\* The books of an LRU pass.  A listed row somebody else deleted is still to
\* be taken off the total, so it counts as if it was there; whatever is in
\* the table and is not a listed row was inserted since.
Books(e) ==
    /\ evict[e].pc = "lruList" =>
          Cardinality(Tracked) <= evict[e].total + evict[e].grown
    /\ evict[e].pc \in {"lru", "lruDelete"} =>
          /\ Cardinality(Tracked) + Cardinality(Pending(e) \ evict[e].listed)
                <= evict[e].total + evict[e].grown
          /\ Cardinality(Tracked \ evict[e].listed) <= evict[e].grown

Balanced(e) == evict[e].pc \in LruPC => Saturated(e) \/ Books(e)

EvictorOK(e) == Typed(e) /\ Snapshot(e) /\ Listed(e) /\ Balanced(e)

EInv ==
    /\ Placed /\ LockInv
    /\ WriterInv /\ RowNeverLies /\ ReaderInv
    /\ DOMAIN evict = Evictors
    /\ \A e \in Evictors : EvictorOK(e)

-----------------------------------------------------------------------------
(* The table and its changes, counted.                                     *)

\* What two sets cover has no more elements than they have.
LEMMA CoveredCount ==
  ASSUME NEW S, NEW T, NEW U, IsFiniteSet(S), IsFiniteSet(T), U \subseteq S \cup T
  PROVE  /\ IsFiniteSet(U)
         /\ Cardinality(U) \in Nat
         /\ Cardinality(U) <= Cardinality(S) + Cardinality(T)
  <1>1. /\ IsFiniteSet(S \cup T) /\ IsFiniteSet(S \cap T)
        /\ Cardinality(S \cup T) = Cardinality(S) + Cardinality(T) - Cardinality(S \cap T)
    BY FS_Union, FS_Intersection
  <1>2. IsFiniteSet(U) /\ Cardinality(U) <= Cardinality(S \cup T)
    BY <1>1, FS_Subset
  <1>3. /\ Cardinality(S) \in Nat /\ Cardinality(T) \in Nat /\ Cardinality(U) \in Nat
        /\ Cardinality(S \cap T) \in Nat
    BY <1>1, <1>2, FS_CardinalityType
  <1> QED
    BY <1>1, <1>2, <1>3

LEMMA TableChange ==
  ASSUME Placed, Placed'
  PROVE  /\ IsFiniteSet(Tracked) /\ Cardinality(Tracked) \in 0 .. LastChunk + 1
         /\ IsFiniteSet(Tracked') /\ Cardinality(Tracked') \in Nat
         /\ IsFiniteSet(Deleted) /\ Cardinality(Deleted) \in Nat
         /\ IsFiniteSet(Inserted) /\ Cardinality(Inserted) \in Nat
         /\ Tracked' = (Tracked \ Deleted) \cup Inserted
         /\ Cardinality(Tracked') =
               Cardinality(Tracked) - Cardinality(Deleted) + Cardinality(Inserted)
  <1>1. IsFiniteSet(Chunks) /\ Cardinality(Chunks) = LastChunk + 1
    BY ChunksAssumption, FS_Interval DEF Chunks
  <1>2. /\ Tracked \subseteq Chunks /\ Tracked' \subseteq Chunks
        /\ Deleted \subseteq Tracked /\ Inserted \subseteq Chunks
        /\ Tracked' = (Tracked \ Deleted) \cup Inserted
        /\ Tracked \cap Deleted = Deleted
        /\ (Tracked \ Deleted) \cap Inserted = {}
    BY DEF Tracked, Deleted, Inserted
  <1>3. /\ IsFiniteSet(Tracked) /\ IsFiniteSet(Tracked')
        /\ IsFiniteSet(Deleted) /\ IsFiniteSet(Inserted)
        /\ Cardinality(Tracked) <= LastChunk + 1
    <2>1. ASSUME NEW S, S \subseteq Chunks
          PROVE  IsFiniteSet(S) /\ Cardinality(S) <= LastChunk + 1
      BY <1>1, <2>1, FS_Subset
    <2> QED
      BY <1>2, <2>1
  <1>4. /\ Cardinality(Tracked) \in Nat /\ Cardinality(Tracked') \in Nat
        /\ Cardinality(Deleted) \in Nat /\ Cardinality(Inserted) \in Nat
    BY <1>3, FS_CardinalityType
  <1>5. /\ IsFiniteSet(Tracked \ Deleted)
        /\ Cardinality(Tracked \ Deleted) = Cardinality(Tracked) - Cardinality(Deleted)
    <2>1. /\ IsFiniteSet(Tracked \ Deleted)
          /\ Cardinality(Tracked \ Deleted) =
                Cardinality(Tracked) - Cardinality(Tracked \cap Deleted)
      BY <1>3, FS_Difference
    <2> QED
      BY <1>2, <2>1
  <1>6. Cardinality((Tracked \ Deleted) \cup Inserted) =
            Cardinality(Tracked \ Deleted) + Cardinality(Inserted) - Cardinality({})
    BY <1>2, <1>3, <1>5, FS_Union
  <1> QED
    BY <1>2, <1>3, <1>4, <1>5, <1>6, FS_EmptySet, ChunksAssumption

\* Counting insertions reaches the bound, or counts all of them.
LEMMA CappedCount ==
  ASSUME NEW n \in Nat, Limit <= LastChunk + 1
  PROVE  /\ Capped(n) \in Nat
         /\ Limit + Capped(n) = LastChunk + 1 \/ Capped(n) = n
         /\ Limit + n >= LastChunk + 1 => Limit + Capped(n) = LastChunk + 1
  BY LimitAssumption, ChunksAssumption DEF Capped

-----------------------------------------------------------------------------
(* What a step does to the evictors.                                       *)

\* A change of the table under an evictor that does not take the step.
LEMMA RefreshedLocals ==
  ASSUME Placed, Placed', NEW v \in EvictorType,
         v.pc \in LruPC => Limit <= LastChunk + 1
  PROVE  LET w == Refreshed(v)
         IN  /\ w \in EvictorType
             /\ w.pc = v.pc /\ w.total = v.total /\ w.todo = v.todo /\ w.cur = v.cur
             /\ w.listed = v.listed \ Deleted
             /\ v.pc \in LruPC => w.grown = Capped(v.grown + Cardinality(Inserted))
             /\ v.pc = "clear" /\ ~w.dirty => ~v.dirty /\ rows' = rows
  <1>1. PICK n : n = IF v.pc \in LruPC THEN Capped(v.grown + Cardinality(Inserted)) ELSE 0
    OBVIOUS
  <1>2. n \in Nat
    <2>1. Cardinality(Inserted) \in Nat
      BY TableChange
    <2>2. v.grown + Cardinality(Inserted) \in Nat
      BY <2>1 DEF EvictorType
    <2> QED
      BY <1>1, <2>2, CappedCount
  <1>3. PICK b \in BOOLEAN : b = (v.dirty \/ (v.pc = "clear" /\ rows' # rows))
    BY DEF EvictorType
  <1>4. Refreshed(v) = [v EXCEPT !.listed = @ \ Deleted, !.grown = n, !.dirty = b]
    BY <1>1, <1>3 DEF Refreshed, EvictorType
  <1>5. PICK L : L = v.listed \ Deleted
    OBVIOUS
  <1>6. L \subseteq Chunks
    BY <1>5 DEF EvictorType
  <1>7. Refreshed(v) = [v EXCEPT !.listed = L, !.grown = n, !.dirty = b]
    BY <1>4, <1>5 DEF EvictorType
  <1>8. LET w == [v EXCEPT !.listed = L, !.grown = n, !.dirty = b]
        IN  /\ w \in EvictorType
            /\ w.pc = v.pc /\ w.total = v.total /\ w.todo = v.todo /\ w.cur = v.cur
            /\ w.listed = L /\ w.grown = n /\ w.dirty = b
    BY <1>2, <1>6 DEF EvictorType
  <1> QED
    BY <1>1, <1>3, <1>5, <1>7, <1>8

\* Whatever the table becomes under it, an evictor's books stay in order.
LEMMA RefreshKeeps ==
  ASSUME Placed, Placed', NEW x \in Evictors, EvictorOK(x),
         evict'[x] = Refreshed(evict[x])
  PROVE  EvictorOK(x)'
  <1> DEFINE v == evict[x]
             w == evict'[x]
             ins == Cardinality(Inserted)
             del == Cardinality(Deleted)
  <1>1. /\ w \in EvictorType
        /\ w.pc = v.pc /\ w.total = v.total /\ w.todo = v.todo /\ w.cur = v.cur
        /\ w.listed = v.listed \ Deleted
        /\ v.pc \in LruPC => w.grown = Capped(v.grown + ins)
        /\ v.pc = "clear" /\ ~w.dirty => ~v.dirty /\ rows' = rows
    BY RefreshedLocals DEF EvictorOK, Typed
  <1>2. /\ v \in EvictorType
        /\ v.total \in Nat /\ v.grown \in Nat /\ w.grown \in Nat /\ ins \in Nat /\ del \in Nat
        /\ Cardinality(Tracked) \in 0 .. LastChunk + 1
        /\ Tracked' = (Tracked \ Deleted) \cup Inserted
        /\ Cardinality(Tracked') = Cardinality(Tracked) - del + ins
    BY <1>1, TableChange DEF EvictorOK, Typed, EvictorType
  <1>3. Typed(x)'
    BY <1>1 DEF EvictorOK, Typed
  <1>4. Snapshot(x)'
    BY <1>1 DEF EvictorOK, Snapshot, Tracked
  <1>5. Pending(x)' = Pending(x)
    BY <1>1 DEF Pending
  <1>6. Listed(x)'
    BY <1>1, <1>2, <1>5 DEF EvictorOK, Listed
  <1>7. ASSUME v.pc \in LruPC PROVE Saturated(x)' \/ Books(x)'
    <2>1. Limit <= LastChunk + 1 /\ v.grown + ins \in Nat
      BY <1>2, <1>7 DEF EvictorOK, Typed
    <2>2. /\ Limit + w.grown = LastChunk + 1 \/ w.grown = v.grown + ins
          /\ Limit + (v.grown + ins) >= LastChunk + 1 => Limit + w.grown = LastChunk + 1
      BY <1>1, <1>7, <2>1, CappedCount
    <2>3. CASE Limit + w.grown = LastChunk + 1
      BY <2>3 DEF Saturated
    <2>4. CASE Limit + w.grown # LastChunk + 1
      <3>1. w.grown = v.grown + ins /\ ~Saturated(x)
        BY <1>2, <2>2, <2>4, LimitAssumption, ChunksAssumption DEF Saturated
      <3>2. Books(x)
        BY <1>7, <3>1 DEF EvictorOK, Balanced
      <3>3. CASE v.pc = "lruList"
        BY <1>1, <1>2, <3>1, <3>2, <3>3 DEF Books
      <3>4. CASE v.pc \in {"lru", "lruDelete"}
        <4> DEFINE lost == Pending(x) \ v.listed
                   extra == Tracked \ v.listed
        <4>1. /\ IsFiniteSet(lost) /\ IsFiniteSet(extra) /\ IsFiniteSet(Deleted)
              /\ IsFiniteSet(Inserted)
          <5>1. /\ IsFiniteSet(Tracked) /\ IsFiniteSet(Deleted) /\ IsFiniteSet(Inserted)
            BY TableChange
          <5>2. IsFiniteSet(Chunks)
            BY ChunksAssumption, FS_Interval DEF Chunks
          <5>3. lost \subseteq Chunks /\ extra \subseteq Tracked
            BY <1>2 DEF Pending, EvictorType
          <5> QED
            BY <5>1, <5>2, <5>3, FS_Subset
        <4>2. /\ Cardinality(lost) \in Nat
              /\ Cardinality(Pending(x) \ w.listed) \in Nat
              /\ Cardinality(Pending(x) \ w.listed) <= Cardinality(lost) + del
          <5>1. (Pending(x) \ w.listed) \subseteq lost \cup Deleted
            BY <1>1
          <5> QED
            BY <4>1, <5>1, CoveredCount, FS_CardinalityType
        <4>3. /\ Cardinality(extra) \in Nat
              /\ Cardinality(Tracked' \ w.listed) \in Nat
              /\ Cardinality(Tracked' \ w.listed) <= Cardinality(extra) + ins
          <5>1. (Tracked' \ w.listed) \subseteq extra \cup Inserted
            BY <1>1, <1>2
          <5> QED
            BY <4>1, <5>1, CoveredCount, FS_CardinalityType
        <4>5. /\ Cardinality(Tracked) + Cardinality(lost) <= v.total + v.grown
              /\ Cardinality(extra) <= v.grown
          BY <3>2, <3>4 DEF Books
        <4>6. Cardinality(Tracked') + Cardinality(Pending(x) \ w.listed) <= w.total + w.grown
          BY <1>1, <1>2, <3>1, <4>2, <4>5
        <4>7. Cardinality(Tracked' \ w.listed) <= w.grown
          BY <1>2, <3>1, <4>3, <4>5
        <4> QED
          BY <1>1, <1>5, <3>4, <4>6, <4>7 DEF Books
      <3> QED
        BY <1>7, <3>3, <3>4 DEF LruPC
    <2> QED
      BY <2>3, <2>4
  <1>8. Balanced(x)'
    BY <1>1, <1>7 DEF Balanced
  <1> QED
    BY <1>3, <1>4, <1>6, <1>8 DEF EvictorOK

-----------------------------------------------------------------------------
(* What an evictor does to rows and files.                                 *)

\* It leaves requests and stripes alone, and of rows and files it only takes.
Takes ==
    /\ UNCHANGED <<lock, metadata, req>>
    /\ rows' \in [Chunks -> Encodes \cup {Absent}]
    /\ files' \in [Chunks -> Encodes \cup {Absent}]
    /\ purge' \in PurgeType /\ purge'.pc = purge.pc /\ purge'.cur = purge.cur
    /\ \A c \in Chunks : rows'[c] \in {rows[c], Absent} /\ files'[c] \in {files[c], Absent}

LEMMA NothingTaken == Placed /\ UNCHANGED vars => Takes
  BY DEF Placed, TypeOK, vars, Takes

LEMMA UnlinkTakes ==
  ASSUME Placed, NEW c \in Chunks, Unlink(c), UNCHANGED <<rows, lock, metadata, req, purge>>
  PROVE  Takes
  BY DEF Placed, TypeOK, Unlink, Takes

LEMMA DeleteTakes ==
  ASSUME Placed, NEW gone, DeleteRows(gone), UNCHANGED <<files, lock, metadata, req>>
  PROVE  Takes
  <1>1. /\ rows' \in [Chunks -> Encodes \cup {Absent}]
        /\ \A c \in Chunks : rows'[c] \in {rows[c], Absent}
    BY DEF Placed, TypeOK, DeleteRows
  <1>2. PICK left : left = purge.listed \ gone
    OBVIOUS
  <1>3. purge' = [purge EXCEPT !.listed = left]
    BY <1>2 DEF DeleteRows, Placed, TypeOK, PurgeType
  <1>4. left \subseteq Chunks
    BY <1>2 DEF Placed, TypeOK, PurgeType
  <1>5. purge' \in PurgeType /\ purge'.pc = purge.pc /\ purge'.cur = purge.cur
    BY <1>3, <1>4 DEF Placed, TypeOK, PurgeType
  <1> QED
    BY <1>1, <1>5 DEF Placed, TypeOK, Takes

\* Every step of an evictor takes something, or leaves everything as it is.
LEMMA EvictorTakes ==
  ASSUME Placed, NEW e \in Evictors, EvictorOK(e), EvictBegin(e) \/ EvictStep(e)
  PROVE  Takes
  <1>1. evict[e].todo \subseteq Chunks
    BY DEF EvictorOK, Typed, EvictorType
  <1>2. CASE LruStart(e) \/ EvictStart(e) \/ ClearStart(e)
    BY <1>2, NothingTaken DEF LruStart, EvictStart, ClearStart
  <1>3. CASE LruList(e) \/ LruFails(e) \/ LruEnd(e) \/ ClearAborts(e) \/ ClearEnd(e)
    BY <1>3, NothingTaken DEF LruList, LruFails, LruEnd, ClearAborts, ClearEnd
  <1>4. CASE LruUnlink(e) \/ EvictUnlink(e) \/ ClearUnlink(e)
    <2>1. /\ UNCHANGED <<rows, lock, metadata, req, purge>>
          /\ \E c \in evict[e].todo : Unlink(c)
      BY <1>4 DEF LruUnlink, EvictUnlink, ClearUnlink
    <2> QED
      BY <1>1, <2>1, UnlinkTakes
  <1>5. CASE LruDelete(e) \/ EvictDelete(e) \/ ClearCommit(e)
    <2>1. /\ UNCHANGED <<files, lock, metadata, req>>
          /\ (\E gone : DeleteRows(gone)) \/ UNCHANGED <<rows, purge>>
      BY <1>5 DEF LruDelete, EvictDelete, ClearCommit
    <2>2. UNCHANGED <<rows, purge>> => UNCHANGED vars
      BY <2>1 DEF vars
    <2> QED
      BY <2>1, <2>2, DeleteTakes, NothingTaken
  <1> QED
    BY <1>2, <1>3, <1>4, <1>5 DEF EvictBegin, EvictStep

\* Taking breaks nothing that is promised of rows and files.
LEMMA TakesKeeps ==
  ASSUME Placed, LockInv, WriterInv, RowNeverLies, Takes
  PROVE  Placed' /\ LockInv' /\ WriterInv' /\ RowNeverLies'
  <1>1. Placed'
    BY DEF Takes, Placed, TypeOK, RequestInv
  <1>2. LockInv'
    BY DEF Takes, LockInv
  <1>3. \A r \in Requests : req[r].at \in Chunks
    BY DEF Placed, TypeOK, RequestType
  <1>4. WriterInv'
    BY <1>3 DEF Takes, WriterInv
  <1>5. RowNeverLies'
    BY DEF Takes, RowNeverLies, Upserting
  <1> QED
    BY <1>1, <1>2, <1>4, <1>5

\* A reader that finds a file gone finds nothing wrong.
LEMMA TakesSparesReaders ==
  ASSUME Placed, ReaderInv, Takes
  PROVE  ReaderInv'
  <1>1. \A r \in Requests : Span(r)' = Span(r) /\ Span(r) \subseteq Chunks
    BY ChunksAssumption DEF Takes, Span, Placed, TypeOK, RequestType, Chunks
  <1> QED
    BY <1>1 DEF Takes, ReaderInv, StartInv, WindowInv

\* Nor do the steps of the chunk cache itself, which now finds files gone.
LEMMA CacheKeeps ==
  ASSUME Placed, LockInv, WriterInv, RowNeverLies, [Next]_vars
  PROVE  WriterInv' /\ RowNeverLies'
  <1>0. /\ rows \in [Chunks -> Encodes \cup {Absent}]
        /\ files \in [Chunks -> Encodes \cup {Absent}]
        /\ \A r \in Requests : req[r] \in RequestType /\ req[r].at \in Chunks
        /\ purge.cur \in Chunks
    BY DEF Placed, TypeOK, RequestType, PurgeType
  <1>1. CASE UNCHANGED vars \/ Reextract
    BY <1>1 DEF vars, Reextract, storage, WriterInv, RowNeverLies, Upserting
  <1>2. ASSUME NEW r \in Requests, Begin(r) \/ RequestStep(r)
        PROVE  WriterInv' /\ RowNeverLies'
    <2>1. \A q \in Requests : q # r => req'[q].pc = req[q].pc /\ req'[q].at = req[q].at
                                        /\ req'[q].enc = req[q].enc
      BY <1>2, OthersStay
    <2>2. CASE Rename(r)
      <3>1. /\ req'[r].pc = "upsert" /\ req'[r].at = req[r].at /\ req'[r].enc = req[r].enc
            /\ rows' = rows /\ files' = [files EXCEPT ![req[r].at] = req[r].enc]
            /\ req[r].pc = "write"
        BY <1>0, <2>2 DEF Rename, At, RequestType
      <3>2. ASSUME NEW q \in Requests, req'[q].pc = "upsert"
            PROVE  files'[req'[q].at] \in {req'[q].enc, Absent}
        <4>1. CASE q = r
          BY <1>0, <3>1, <4>1
        <4>2. CASE q # r
          BY <1>0, <2>1, <3>1, <3>2, <4>2, Exclusion DEF WriterInv
        <4> QED
          BY <4>1, <4>2
      <3>3. RowNeverLies'
        BY <1>0, <2>1, <3>1 DEF RowNeverLies, Upserting
      <3> QED
        BY <3>2, <3>3 DEF WriterInv
    <2>3. CASE Upsert(r)
      <3>1. /\ req[r].pc = "upsert" /\ files' = files
            /\ rows' = [rows EXCEPT ![req[r].at] = req[r].enc]
            /\ files[req[r].at] \in {req[r].enc, Absent}
        BY <2>3 DEF Upsert, At, WriterInv
      <3>2. req'[r].pc # "upsert"
        BY <1>0, <2>3, AdvanceOut DEF Upsert
      <3>3. WriterInv'
        BY <1>0, <2>1, <3>1, <3>2 DEF WriterInv
      <3>4. RowNeverLies'
        BY <1>0, <2>1, <3>1, <3>2 DEF RowNeverLies, Upserting
      <3> QED
        BY <3>3, <3>4
    <2>4. CASE ~Rename(r) /\ ~Upsert(r)
      <3>1. rows' = rows /\ files' = files
        BY <1>2, <2>4, RequestStorage
      <3>2. req'[r].pc # "upsert"
        BY <1>2, <2>4, RequestInside
      <3>3. req[r].pc # "upsert"
        BY <1>2, <2>4 DEF Begin, RequestStep, StoreStep, CheckRange, CheckRangeFails, ReadChunk,
              ReadFails, Serve, Fetch, TeeStop, TeeSkip, LockChunk, WriteFails, At
      <3> QED
        BY <2>1, <3>1, <3>2, <3>3 DEF WriterInv, RowNeverLies, Upserting
    <2> QED
      BY <2>2, <2>3, <2>4
  <1>3. CASE PurgeStep
    <2>1. req' = req
      BY <1>3 DEF PurgeStep, PurgeList, PurgeLock, PurgeDelete, PurgeDeleteFails, PurgeUnlink, PurgeEnd
    <2>2. \A c \in Chunks : rows'[c] \in {rows[c], Absent} /\ files'[c] \in {files[c], Absent}
      BY <1>0, <1>3 DEF PurgeStep, PurgeList, PurgeLock, PurgeDelete, PurgeDeleteFails,
            PurgeUnlink, PurgeEnd, Unlink, storage
    <2> QED
      BY <1>0, <2>1, <2>2 DEF WriterInv, RowNeverLies, Upserting
  <1> QED
    BY <1>1, <1>2, <1>3 DEF Next

-----------------------------------------------------------------------------
(* An evictor's own steps.                                                 *)

LEMMA IdleEvictorType == IdleEvictor \in EvictorType
  BY ChunksAssumption DEF IdleEvictor, EvictorType, EvictPC, Chunks

\* Where no books are kept and no snapshot is held, the type is all there is.
LEMMA AtEase ==
  ASSUME NEW e \in Evictors, evict'[e] \in EvictorType,
         evict'[e].pc \in {"idle", "evict", "clearFiles"}
  PROVE  EvictorOK(e)'
  BY DEF EvictorOK, Typed, Snapshot, Listed, Balanced, LruPC

LEMMA BeginKeeps ==
  ASSUME Placed, Placed', NEW e \in Evictors, DOMAIN evict = Evictors,
         EvictBegin(e)
  PROVE  EvictorOK(e)'
  <1>1. IdleEvictor \in EvictorType /\ IdleEvictor.grown = 0 /\ Tracked \subseteq Chunks
    BY IdleEvictorType DEF Tracked, IdleEvictor
  <1>2. Cardinality(Tracked) \in 0 .. LastChunk + 1
    BY TableChange
  <1>3. Tracked' = Tracked
    BY DEF EvictBegin, LruStart, EvictStart, ClearStart, vars, Tracked
  <1>4. CASE LruStart(e)
    <2>1. /\ evict'[e] = [IdleEvictor EXCEPT !.pc = "lruList", !.total = Cardinality(Tracked)]
          /\ Cardinality(Tracked) > Limit
      BY <1>4 DEF LruStart, Proceed
    <2>2. /\ evict'[e] \in EvictorType /\ evict'[e].pc = "lruList"
          /\ evict'[e].total = Cardinality(Tracked) /\ evict'[e].grown = 0
      <3>1. PICK n \in Nat : n = Cardinality(Tracked)
        BY <1>2, ChunksAssumption
      <3>2. evict'[e] = [IdleEvictor EXCEPT !.pc = "lruList", !.total = n]
        BY <2>1, <3>1
      <3>3. /\ evict'[e] \in EvictorType /\ evict'[e].pc = "lruList"
            /\ evict'[e].total = n /\ evict'[e].grown = 0
        BY <1>1, <3>2 DEF EvictorType, EvictPC
      <3> QED
        BY <3>1, <3>3
    <2>3. Typed(e)' /\ Snapshot(e)' /\ Listed(e)'
      BY <1>2, <2>1, <2>2, LimitAssumption, ChunksAssumption DEF Typed, Snapshot, Listed
    <2>4. Books(e)'
      BY <1>2, <1>3, <2>2 DEF Books
    <2> QED
      BY <2>3, <2>4 DEF EvictorOK, Balanced
  <1>5. CASE EvictStart(e)
    <2>1. evict'[e] = [IdleEvictor EXCEPT !.pc = "evict", !.todo = Tracked]
      BY <1>5 DEF EvictStart, Proceed
    <2> QED
      BY <1>1, <2>1, AtEase DEF EvictorType, EvictPC
  <1>6. CASE ClearStart(e)
    <2>1. evict'[e] = [IdleEvictor EXCEPT !.pc = "clear", !.todo = Tracked]
      BY <1>6 DEF ClearStart, Proceed
    <2>2. evict'[e] \in EvictorType /\ evict'[e].pc = "clear" /\ evict'[e].todo = Tracked
      BY <1>1, <2>1 DEF EvictorType, EvictPC
    <2> QED
      BY <1>3, <2>2 DEF EvictorOK, Typed, Snapshot, Listed, Balanced, LruPC
  <1> QED
    BY <1>4, <1>5, <1>6 DEF EvictBegin

\* The pass reads its list: what is in the table is on it, nothing is lost yet.
LEMMA LruListKeeps ==
  ASSUME Placed, Placed', NEW e \in Evictors, DOMAIN evict = Evictors, EvictorOK(e),
         LruList(e)
  PROVE  EvictorOK(e)'
  <1>1. /\ evict[e] \in EvictorType /\ evict[e].pc = "lruList"
        /\ Limit <= LastChunk + 1
        /\ Saturated(e) \/ Books(e)
    BY DEF LruList, EAt, EvictorOK, Typed, Balanced, LruPC
  <1>2. evict'[e] = [evict[e] EXCEPT !.pc = "lru", !.todo = Tracked, !.listed = Tracked]
    BY DEF LruList, Proceed
  <1>3. Tracked \subseteq Chunks /\ Tracked' = Tracked
    BY DEF Tracked, LruList, vars
  <1>4. /\ evict'[e] \in EvictorType /\ evict'[e].pc = "lru"
        /\ evict'[e].todo = Tracked /\ evict'[e].listed = Tracked
        /\ evict'[e].total = evict[e].total /\ evict'[e].grown = evict[e].grown
    <2>1. PICK all \in SUBSET Chunks : all = Tracked
      BY <1>3
    <2>2. evict'[e] = [evict[e] EXCEPT !.pc = "lru", !.todo = all, !.listed = all]
      BY <1>2, <2>1
    <2>3. evict'[e] \in EvictorType
      BY <1>1, <2>2 DEF EvictorType, EvictPC
    <2> QED
      BY <1>1, <2>1, <2>2, <2>3 DEF EvictorType
  <1>5. Pending(e)' = Tracked
    BY <1>4 DEF Pending
  <1>6. Typed(e)' /\ Snapshot(e)' /\ Listed(e)'
    BY <1>1, <1>3, <1>4, <1>5 DEF Typed, Snapshot, Listed
  <1>7. Saturated(e)' \/ Books(e)'
    <2>1. Tracked \ Tracked = {} /\ Cardinality({}) = 0
      BY FS_EmptySet
    <2>2. Cardinality(Tracked) \in Nat /\ evict[e].grown \in Nat
      BY <1>1, TableChange DEF EvictorType
    <2>3. Saturated(e) => Saturated(e)'
      BY <1>4 DEF Saturated
    <2>4. Books(e) => Books(e)'
      BY <1>1, <1>3, <1>4, <1>5, <2>1, <2>2 DEF Books
    <2> QED
      BY <1>1, <2>3, <2>4
  <1> QED
    BY <1>6, <1>7 DEF EvictorOK, Balanced

\* A chunk goes from the list to the hand; what is pending stays the same.
LEMMA LruUnlinkKeeps ==
  ASSUME Placed, Placed', NEW e \in Evictors, DOMAIN evict = Evictors, EvictorOK(e),
         LruUnlink(e)
  PROVE  EvictorOK(e)'
  <1>1. /\ evict[e] \in EvictorType /\ evict[e].pc = "lru" /\ evict[e].total > Limit
        /\ Limit <= LastChunk + 1
        /\ Saturated(e) \/ Books(e)
        /\ evict[e].listed \subseteq Tracked \cap Pending(e)
    BY DEF LruUnlink, EAt, EvictorOK, Typed, Listed, Balanced, LruPC
  <1>2. PICK c \in evict[e].todo :
            evict'[e] = [evict[e] EXCEPT !.pc = "lruDelete", !.cur = c, !.todo = @ \ {c}]
    BY DEF LruUnlink, Proceed
  <1>3. Tracked' = Tracked
    BY DEF Tracked, LruUnlink
  <1>4. PICK left : left = evict[e].todo \ {c}
    OBVIOUS
  <1>5. left \subseteq Chunks /\ c \in Chunks
    BY <1>1, <1>4 DEF EvictorType
  <1>6. evict'[e] = [evict[e] EXCEPT !.pc = "lruDelete", !.cur = c, !.todo = left]
    BY <1>1, <1>2, <1>4 DEF EvictorType
  <1>7. evict'[e] \in EvictorType
    BY <1>1, <1>5, <1>6 DEF EvictorType, EvictPC
  <1>8. /\ evict'[e].pc = "lruDelete" /\ evict'[e].todo = left /\ evict'[e].cur = c
        /\ evict'[e].listed = evict[e].listed
        /\ evict'[e].total = evict[e].total /\ evict'[e].grown = evict[e].grown
    BY <1>1, <1>6 DEF EvictorType
  <1>9. Pending(e)' = Pending(e) /\ c \notin left
    BY <1>1, <1>4, <1>8 DEF Pending
  <1>10. Typed(e)' /\ Snapshot(e)' /\ Listed(e)'
    BY <1>1, <1>3, <1>7, <1>8, <1>9 DEF Typed, Snapshot, Listed
  <1>11. Saturated(e)' \/ Books(e)'
    BY <1>1, <1>3, <1>8, <1>9 DEF Saturated, Books
  <1> QED
    BY <1>10, <1>11 DEF EvictorOK, Balanced

\* The row goes, or has gone before: either way the total loses what the
\* table and the lost rows together lose.
LEMMA LruDeleteKeeps ==
  ASSUME Placed, Placed', NEW e \in Evictors, DOMAIN evict = Evictors, EvictorOK(e),
         LruDelete(e)
  PROVE  EvictorOK(e)'
  <1> DEFINE v == evict[e]
             w == evict'[e]
             c == evict[e].cur
  <1>1. /\ v \in EvictorType /\ v.pc = "lruDelete" /\ v.total > Limit
        /\ Limit <= LastChunk + 1
        /\ Saturated(e) \/ Books(e)
        /\ v.listed \subseteq Tracked \cap Pending(e) /\ c \notin v.todo
        /\ c \in Chunks /\ v.total \in Nat /\ v.grown \in Nat
    BY DEF LruDelete, EAt, EvictorOK, Typed, Listed, Balanced, LruPC, EvictorType
  <1>2. w = [v EXCEPT !.pc = "lru", !.total = @ - 1, !.listed = @ \ {c}, !.cur = 0]
    BY DEF LruDelete, Proceed
  <1>3. PICK left, n : left = v.listed \ {c} /\ n = v.total - 1
    OBVIOUS
  <1>4. left \subseteq Chunks /\ n \in Nat /\ 0 \in Chunks
    BY <1>1, <1>3, LimitAssumption, ChunksAssumption DEF EvictorType, Chunks
  <1>5. w = [v EXCEPT !.pc = "lru", !.total = n, !.listed = left, !.cur = 0]
    BY <1>1, <1>2, <1>3 DEF EvictorType
  <1>6. /\ w \in EvictorType /\ w.pc = "lru" /\ w.todo = v.todo
        /\ w.listed = left /\ w.total = n /\ w.grown = v.grown
    BY <1>1, <1>4, <1>5 DEF EvictorType, EvictPC
  <1>7. Pending(e) = v.todo \cup {c} /\ Pending(e)' = v.todo
    BY <1>1, <1>6 DEF Pending
  <1>8. Tracked' = Tracked \ (v.listed \cap {c})
    BY DEF Tracked, LruDelete, DeleteRows
  <1>9. Typed(e)' /\ Snapshot(e)' /\ Listed(e)'
    BY <1>1, <1>3, <1>6, <1>7, <1>8 DEF Typed, Snapshot, Listed, LruPC
  <1>10. ASSUME Books(e) PROVE Books(e)'
    <2>1. /\ Cardinality(Tracked) + Cardinality(Pending(e) \ v.listed) <= v.total + v.grown
          /\ Cardinality(Tracked \ v.listed) <= v.grown
      BY <1>1, <1>10 DEF Books
    <2>2. IsFiniteSet(Tracked) /\ IsFiniteSet(v.todo)
      <3>1. IsFiniteSet(Chunks) /\ v.todo \subseteq Chunks
        BY <1>1, ChunksAssumption, FS_Interval DEF Chunks, EvictorType
      <3> QED
        BY <3>1, FS_Subset, TableChange
    <2>3. Tracked' \ left = Tracked \ v.listed
      BY <1>1, <1>3, <1>8
    <2>4. /\ Cardinality(Tracked') + Cardinality(v.todo \ left) \in Nat
          /\ Cardinality(Tracked) + Cardinality(Pending(e) \ v.listed) =
                Cardinality(Tracked') + Cardinality(v.todo \ left) + 1
      <3>1. PICK T, rest, kept, lost :
                /\ T = Tracked /\ rest = Tracked'
                /\ kept = v.todo \ left /\ lost = Pending(e) \ v.listed
        OBVIOUS
      <3>2. /\ IsFiniteSet(T) /\ IsFiniteSet(lost)
            /\ Cardinality(T) \in Nat /\ Cardinality(lost) \in Nat
        BY <1>7, <2>2, <3>1, FS_AddElement, FS_Difference, FS_CardinalityType
      <3>3. CASE c \in v.listed
        <4>1. rest = T \ {c} /\ c \in T
          BY <1>1, <1>8, <3>1, <3>3
        <4>2. IsFiniteSet(rest) /\ Cardinality(rest) = Cardinality(T) - 1
          BY <3>2, <4>1, FS_RemoveElement
        <4>3. Cardinality(rest) \in Nat
          BY <4>2, FS_CardinalityType
        <4>4. kept = lost
          BY <1>1, <1>3, <1>7, <3>1, <3>3
        <4>5. Cardinality(kept) = Cardinality(lost)
          BY <4>4
        <4> QED
          BY <3>1, <3>2, <4>2, <4>3, <4>5
      <3>4. CASE c \notin v.listed
        <4>1. rest = T
          BY <1>8, <3>1, <3>4
        <4>2. kept = lost \ {c} /\ c \in lost
          BY <1>1, <1>3, <1>7, <3>1, <3>4
        <4>3. IsFiniteSet(kept) /\ Cardinality(kept) = Cardinality(lost) - 1
          BY <3>2, <4>2, FS_RemoveElement
        <4>4. Cardinality(kept) \in Nat
          BY <4>3, FS_CardinalityType
        <4>5. Cardinality(rest) = Cardinality(T)
          BY <4>1
        <4> QED
          BY <3>1, <3>2, <4>3, <4>4, <4>5
      <3> QED
        BY <3>3, <3>4
    <2>5. Cardinality(Tracked') + Cardinality(v.todo \ left) <= n + v.grown
      BY <1>1, <1>3, <1>4, <2>1, <2>4
    <2> QED
      BY <1>6, <1>7, <2>1, <2>3, <2>5 DEF Books
  <1>11. Saturated(e) => Saturated(e)'
    BY <1>6 DEF Saturated
  <1> QED
    BY <1>1, <1>9, <1>10, <1>11 DEF EvictorOK, Balanced

LEMMA OwnStepKeeps ==
  ASSUME Placed, Placed', NEW e \in Evictors, DOMAIN evict = Evictors, EvictorOK(e),
         EvictBegin(e) \/ EvictStep(e)
  PROVE  EvictorOK(e)'
  <1>1. evict[e] \in EvictorType
    BY DEF EvictorOK, Typed
  <1>2. CASE EvictBegin(e)
    BY <1>2, BeginKeeps
  <1>3. CASE LruList(e) \/ LruUnlink(e) \/ LruDelete(e)
    BY <1>3, LruListKeeps, LruUnlinkKeeps, LruDeleteKeeps
  <1>4. CASE LruFails(e) \/ LruEnd(e) \/ EvictDelete(e) \/ ClearAborts(e) \/ ClearEnd(e)
    <2>1. evict'[e] = IdleEvictor
      BY <1>4 DEF LruFails, LruEnd, EvictDelete, ClearAborts, ClearEnd, Proceed
    <2> QED
      BY <2>1, IdleEvictorType, AtEase DEF IdleEvictor
  <1>5. CASE EvictUnlink(e) \/ ClearUnlink(e)
    <2>1. PICK left : /\ left \subseteq Chunks
                      /\ evict'[e] = [evict[e] EXCEPT !.todo = left]
      BY <1>1, <1>5 DEF EvictUnlink, ClearUnlink, Proceed, EvictorType
    <2>2. evict'[e] \in EvictorType /\ evict'[e].pc = evict[e].pc
      BY <1>1, <2>1 DEF EvictorType
    <2> QED
      BY <1>5, <2>2, AtEase DEF EvictUnlink, ClearUnlink, EAt
  <1>6. CASE ClearCommit(e)
    <2>1. evict'[e] = [evict[e] EXCEPT !.pc = "clearFiles"]
      BY <1>6 DEF ClearCommit, Proceed
    <2> QED
      BY <1>1, <2>1, AtEase DEF EvictorType, EvictPC
  <1> QED
    BY <1>2, <1>3, <1>4, <1>5, <1>6 DEF EvictStep

-----------------------------------------------------------------------------
(* The theorems.                                                           *)

LEMMA InitEInv == EvictInit => EInv
  <1> SUFFICES ASSUME EvictInit PROVE EInv
    OBVIOUS
  <1>1. Placed /\ LockInv
    BY InitIInv DEF EvictInit, IInv
  <1>2. (\A r \in Requests : req[r].pc = "idle") /\ rows = [c \in Chunks |-> Absent]
    BY DEF EvictInit, Init, IdleRequest
  <1>3. WriterInv /\ RowNeverLies
    BY <1>2 DEF WriterInv, RowNeverLies
  <1>4. ReaderInv
    BY InitIInv DEF EvictInit, IInv
  <1>5. \A e \in Evictors : EvictorOK(e)
    BY IdleEvictorType
    DEF EvictInit, IdleEvictor, EvictorOK, Typed, Snapshot, Listed, Balanced, LruPC
  <1> QED
    BY <1>1, <1>3, <1>4, <1>5 DEF EInv, EvictInit

LEMMA NextEInv == EInv /\ [EvictNext]_evars => EInv'
  <1> SUFFICES ASSUME EInv, [EvictNext]_evars PROVE EInv'
    OBVIOUS
  <1> USE DEF EInv
  <1>1. CASE UNCHANGED evars
    <2>1. UNCHANGED <<rows, files, lock, metadata, req, purge, evict>>
      BY <1>1 DEF evars, vars
    <2>2. Placed' /\ LockInv' /\ WriterInv' /\ RowNeverLies' /\ ReaderInv'
      BY <2>1, NothingTaken, TakesKeeps, TakesSparesReaders DEF vars
    <2>3. ASSUME NEW e \in Evictors PROVE EvictorOK(e)'
      <3>1. EvictorOK(e) /\ Tracked' = Tracked /\ evict'[e] = evict[e]
        BY <2>1 DEF Tracked
      <3>2. Pending(e)' = Pending(e)
        BY <3>1 DEF Pending
      <3>3. (Saturated(e) => Saturated(e)') /\ (Books(e) => Books(e)')
        BY <3>1, <3>2 DEF Saturated, Books
      <3> QED
        BY <3>1, <3>2, <3>3 DEF EvictorOK, Typed, Snapshot, Listed, Balanced
    <2> QED
      BY <2>1, <2>2, <2>3
  <1>2. CASE CacheStep
    <2>0. NoStranger
      BY DEF WriterInv, RowNeverLies, NoStranger
    <2>1. Placed' /\ LockInv' /\ WriterInv' /\ RowNeverLies' /\ ReaderInv'
      BY <1>2, <2>0, PlacedStep, LockStep, CacheKeeps, ReaderStep DEF CacheStep
    <2>2. \A e \in Evictors : evict'[e] = Refreshed(evict[e])
      BY <1>2 DEF CacheStep
    <2>3. \A e \in Evictors : EvictorOK(e)'
      BY <2>1, <2>2, RefreshKeeps
    <2> QED
      BY <1>2, <2>1, <2>3 DEF CacheStep
  <1>3. ASSUME NEW e \in Evictors, EvictBegin(e) \/ EvictStep(e) PROVE EInv'
    <2>1. Takes
      BY <1>3, EvictorTakes
    <2>2. Placed' /\ LockInv' /\ WriterInv' /\ RowNeverLies' /\ ReaderInv'
      BY <2>1, TakesKeeps, TakesSparesReaders
    <2>3. EvictorOK(e)'
      BY <1>3, <2>2, OwnStepKeeps
    <2>4. \E v : Proceed(e, v)
      BY <1>3 DEF EvictBegin, EvictStep, LruStart, EvictStart, ClearStart, LruList, LruUnlink,
            LruDelete, LruFails, LruEnd, EvictUnlink, EvictDelete, ClearCommit, ClearAborts,
            ClearUnlink, ClearEnd
    <2>5. \A x \in Evictors : x # e => evict'[x] = Refreshed(evict[x])
      BY <2>4 DEF Proceed
    <2>6. \A x \in Evictors : x # e => EvictorOK(x)'
      BY <2>2, <2>5, RefreshKeeps
    <2>7. DOMAIN evict' = Evictors
      BY <2>4 DEF Proceed
    <2> QED
      BY <2>2, <2>3, <2>6, <2>7
  <1> QED
    BY <1>1, <1>2, <1>3 DEF EvictNext

LEMMA EvictionInvariance == EvictionSpec => []EInv
  BY InitEInv, NextEInv, PTL DEF EvictionSpec

\* Eviction takes no stripe, so a row may lose its file under it, but however
\* evictors, writers and the purge meet, no row comes to vouch for a file of
\* another encode.
THEOREM EvictedRowsNeverLie == EvictionSpec => []RowNeverLies
  <1>1. EInv => RowNeverLies
    BY DEF EInv
  <1> QED
    BY <1>1, EvictionInvariance, PTL

\* Nor does a cache hit return bytes of another encode, unless a rename raced
\* it: eviction takes files from a reader, which then goes upstream, but never
\* gives it wrong ones.
THEOREM EvictionSparesHits == EvictionSpec => []ServedFresh
  <1>1. EInv => ServedFresh
    BY DEF EInv, ReaderInv, WindowInv, ServedFresh, At
  <1> QED
    BY <1>1, EvictionInvariance, PTL

\* When the LRU pass ends by itself the table is within the limit but for the
\* rows inserted since it read the total, although it works from a total and
\* a list that others make obsolete.
THEOREM LruPassReachesLimit == EvictionSpec => []LruReachesLimit
  <1>1. EInv => LruReachesLimit
    <2> SUFFICES ASSUME EInv, NEW e \in Evictors, LruDone(e)
                 PROVE  Cardinality(Tracked) <= Limit + evict[e].grown
      BY DEF LruReachesLimit
    <2>1. /\ evict[e] \in EvictorType /\ evict[e].pc = "lru"
          /\ Saturated(e) \/ Books(e)
          /\ evict[e].listed \subseteq Pending(e)
      BY DEF EInv, LruDone, EAt, EvictorOK, Typed, Listed, Balanced, LruPC
    <2>2. /\ IsFiniteSet(Tracked) /\ Cardinality(Tracked) \in 0 .. LastChunk + 1
      <3>1. IsFiniteSet(Chunks) /\ Cardinality(Chunks) = LastChunk + 1
        BY ChunksAssumption, FS_Interval DEF Chunks
      <3>2. Tracked \subseteq Chunks
        BY DEF Tracked
      <3>3. IsFiniteSet(Tracked) /\ Cardinality(Tracked) <= LastChunk + 1
        BY <3>1, <3>2, FS_Subset
      <3> QED
        BY <3>3, FS_CardinalityType, ChunksAssumption
    <2>3. CASE Saturated(e)
      BY <2>2, <2>3, ChunksAssumption DEF Saturated
    <2>4. CASE Books(e) /\ evict[e].total <= Limit
      <3>1. Cardinality(Tracked) + Cardinality(Pending(e) \ evict[e].listed)
               <= evict[e].total + evict[e].grown
        BY <2>1, <2>4 DEF Books
      <3>0. IsFiniteSet(Chunks)
        BY ChunksAssumption, FS_Interval DEF Chunks
      <3>2. IsFiniteSet(Chunks) /\ Pending(e) \ evict[e].listed \subseteq Chunks
        BY <2>1, <3>0 DEF Pending, EvictorType
      <3>3. Cardinality(Pending(e) \ evict[e].listed) \in Nat
        BY <3>2, FS_Subset, FS_CardinalityType
      <3>4. evict[e].total \in Nat /\ evict[e].grown \in Nat
        BY <2>1 DEF EvictorType
      <3> QED
        BY <2>2, <2>4, <3>1, <3>3, <3>4, LimitAssumption, ChunksAssumption
    <2>5. CASE Books(e) /\ evict[e].todo = {}
      <3>1. evict[e].listed = {}
        BY <2>1, <2>5 DEF Pending
      <3>2. Tracked \ evict[e].listed = Tracked
        BY <3>1
      <3>3. Cardinality(Tracked) <= evict[e].grown
        BY <2>1, <2>5, <3>2 DEF Books
      <3>4. evict[e].grown \in Nat
        BY <2>1 DEF EvictorType
      <3> QED
        BY <2>2, <3>3, <3>4, LimitAssumption, ChunksAssumption
    <2> QED
      BY <2>1, <2>3, <2>4, <2>5 DEF LruDone
  <1> QED
    BY <1>1, EvictionInvariance, PTL

\* clear_all deletes exactly the rows its totals count: a writer between the
\* aggregate and the DELETE makes SQLite refuse the DELETE.
THEOREM ClearDeletesWhatItCounts == EvictionSpec => ClearIsAudited
  <1>1. EInv /\ [EvictNext]_evars =>
            [\A e \in Evictors : ClearCommit(e) => Tracked = evict[e].todo]_evars
    BY DEF EInv, EvictorOK, Snapshot, ClearCommit, EAt
  <1> QED
    BY <1>1, EvictionInvariance, PTL DEF EvictionSpec, ClearIsAudited
=============================================================================
