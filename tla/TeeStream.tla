----------------------------- MODULE TeeStream -----------------------------
(***************************************************************************)
(* One upstream response on its way to the client, and the copy of it that *)
(* the tee writer turns into chunk files: TeeStream, tee_writer_task and   *)
(* flush_complete_chunks of services/segment_store.rs, with the part of    *)
(* get_format (routes/videos.rs) that says where the stream starts.        *)
(*                                                                         *)
(* A byte is the offset it has in the upstream file, so that a chunk file  *)
(* with bytes of the wrong place can be told from a good one.  The writer  *)
(* never sees offsets: it counts from the start it was told.               *)
(***************************************************************************)
EXTENDS Integers, Sequences

CONSTANTS
    ChunkSize,   \* bytes per chunk
    FileSize,    \* bytes in the upstream file
    Capacity,    \* messages the channel holds
    MaxPiece     \* bound: bytes upstream delivers at once

ASSUME SizesAssumption ==
    /\ ChunkSize \in Nat \ {0} /\ FileSize \in Nat \ {0}
    /\ Capacity \in Nat \ {0} /\ MaxPiece \in Nat \ {0}

chunk_index(offset) == offset \div ChunkSize
chunk_byte_start(n) == n * ChunkSize
Chunks == 0 .. chunk_index(FileSize - 1)

Least(a, b) == IF a <= b THEN a ELSE b

\* The bytes from offset lo up to, not including, hi.
Bytes(lo, hi) == [i \in 1 .. hi - lo |-> lo + i - 1]

\* What the file of chunk n must contain.
Copy(n) == Bytes(chunk_byte_start(n), Least(chunk_byte_start(n + 1), FileSize))

None == <<>>
Unknown == -1

VARIABLES
    stream,    \* the response body as the client polls it
    channel,   \* the bounded channel to the writer task
    writer,    \* the writer task
    chunks,    \* the chunk files written
    failed     \* history: the chunks whose store_chunk returned an error

vars == <<stream, channel, writer, chunks, failed>>

\* The body delivers the bytes next .. last of the file.  "sender" says
\* whether the TeeStream, with its half of the channel, is still alive.
Idle == [pc |-> "request", next |-> 0, last |-> 0, poisoned |-> FALSE,
         sender |-> TRUE, cut |-> FALSE]

\* The writer counts "position" from range_start; "total" is the file size it
\* was given, if any; "begun" is the start it was told.
Waiting == [pc |-> "none", buf |-> <<>>, position |-> 0, total |-> Unknown, begun |-> 0]

Init ==
    /\ stream = Idle
    /\ channel = <<>>
    /\ writer = Waiting
    /\ chunks = [n \in Chunks |-> None]
    /\ failed = {}

-----------------------------------------------------------------------------
(* get_format: the response arrives, and the tee is set up.                *)

Tee(first, last, start, total) ==
    /\ stream' = [stream EXCEPT !.pc = "streaming", !.next = first, !.last = last]
    /\ writer' = [Waiting EXCEPT !.pc = "recv", !.position = start, !.begun = start,
                                 !.total = total]
    /\ UNCHANGED <<channel, chunks, failed>>

\* A success for the range from .. to.  The start is that of Content-Range,
\* else that of the request, else 0; the size may be unknown.  Upstream is
\* taken to honour the range.
Respond ==
    /\ stream.pc = "request"
    /\ \E from, to \in 0 .. FileSize - 1, total \in {FileSize, Unknown} :
          /\ from <= to
          /\ Tee(from, to, from, total)

-----------------------------------------------------------------------------
(* TeeStream::poll_next, as hyper calls it, and its drop.                  *)

Sendable == Len(channel) < Capacity /\ writer.pc # "done"

Deliver(n) == [stream EXCEPT !.next = @ + n]

\* Mutant: a full channel loses the piece, and the tee goes on.
PollDataLossy ==
    /\ stream.pc = "streaming"
    /\ \E n \in 1 .. Least(MaxPiece, stream.last + 1 - stream.next) :
          /\ stream' = Deliver(n)
          /\ channel' = IF Sendable
                        THEN Append(channel, Bytes(stream.next, stream.next + n))
                        ELSE channel
    /\ UNCHANGED <<writer, chunks, failed>>

\* A piece of the body goes to the client, and a copy into the channel: a
\* channel without room, or without a receiver, ends the teeing for good.
PollData ==
    /\ stream.pc = "streaming"
    /\ \E n \in 1 .. Least(MaxPiece, stream.last + 1 - stream.next) :
          IF stream.poisoned THEN stream' = Deliver(n) /\ UNCHANGED channel
          ELSE IF Sendable
          THEN /\ stream' = Deliver(n)
               /\ channel' = Append(channel, Bytes(stream.next, stream.next + n))
          ELSE stream' = [Deliver(n) EXCEPT !.poisoned = TRUE] /\ UNCHANGED channel
    /\ UNCHANGED <<writer, chunks, failed>>

Eof == <<>>

\* The body ends, or breaks off: after an error reqwest's stream ends too.
\* An Eof that finds no room is simply lost.
PollEnd ==
    /\ stream.pc = "streaming"
    /\ stream' = [stream EXCEPT !.pc = "ended", !.cut = stream.next <= stream.last]
    /\ channel' = IF ~stream.poisoned /\ Sendable THEN Append(channel, Eof) ELSE channel
    /\ UNCHANGED <<writer, chunks, failed>>

\* hyper drops the body: at its end, or at any time when the client leaves.
Drop ==
    /\ stream.pc \in {"streaming", "ended"}
    /\ stream' = [stream EXCEPT !.pc = "dropped", !.sender = FALSE,
                                !.cut = @ \/ stream.next <= stream.last]
    /\ UNCHANGED <<channel, writer, chunks, failed>>

-----------------------------------------------------------------------------
(* tee_writer_task.                                                        *)

BufStart == writer.position - Len(writer.buf)

RecvData ==
    /\ writer.pc = "recv"
    /\ channel # <<>>
    /\ Head(channel) # Eof
    /\ writer' = [writer EXCEPT !.pc = "flush", !.buf = @ \o Head(channel),
                                !.position = @ + Len(Head(channel))]
    /\ channel' = Tail(channel)
    /\ UNCHANGED <<stream, chunks, failed>>

\* Mutant: only an Eof ends the writer.
RecvEofOnly ==
    /\ writer.pc = "recv"
    /\ channel # <<>> /\ Head(channel) = Eof /\ channel' = Tail(channel)
    /\ writer' = [writer EXCEPT !.pc = "rest"]
    /\ UNCHANGED <<stream, chunks, failed>>

\* Eof, or an empty channel whose sender is gone.
RecvEnd ==
    /\ writer.pc = "recv"
    /\ \/ channel # <<>> /\ Head(channel) = Eof /\ channel' = Tail(channel)
       \/ channel = <<>> /\ ~stream.sender /\ UNCHANGED channel
    /\ writer' = [writer EXCEPT !.pc = "rest"]
    /\ UNCHANGED <<stream, chunks, failed>>

\* store_chunk, which may fail; the writer goes on either way.
Store(n, bytes) ==
    \/ chunks' = [chunks EXCEPT ![n] = bytes] /\ UNCHANGED failed
    \/ failed' = failed \cup {n} /\ UNCHANGED chunks

\* Mutant: only what does not fit the chunk size is thrown away.
FlushDiscardWhole ==
    /\ writer.pc = "flush"
    /\ writer.buf # <<>>
    /\ BufStart # chunk_byte_start(chunk_index(BufStart))
    /\ writer' = [writer EXCEPT !.buf = <<>>]
    /\ UNCHANGED <<stream, channel, chunks, failed>>

\* One round of flush_complete_chunks: the leading partial chunk of the
\* stream is thrown away ...
FlushDiscard ==
    LET boundary == chunk_byte_start(chunk_index(BufStart) + 1)
        discard  == Least(boundary - BufStart, Len(writer.buf))
    IN  /\ writer.pc = "flush"
        /\ writer.buf # <<>>
        /\ BufStart # chunk_byte_start(chunk_index(BufStart))
        /\ writer' = [writer EXCEPT !.buf = SubSeq(@, discard + 1, Len(@))]
        /\ UNCHANGED <<stream, channel, chunks, failed>>

\* Mutant: a chunk that could not be stored stays in the buffer, to be tried again.
FlushChunkRetry ==
    /\ writer.pc = "flush"
    /\ Len(writer.buf) >= ChunkSize
    /\ BufStart = chunk_byte_start(chunk_index(BufStart))
    /\ \/ Store(chunk_index(BufStart), SubSeq(writer.buf, 1, ChunkSize)) /\ UNCHANGED writer
       \/ /\ writer' = [writer EXCEPT !.buf = SubSeq(@, ChunkSize + 1, Len(@))]
          /\ Store(chunk_index(BufStart), SubSeq(writer.buf, 1, ChunkSize))
    /\ UNCHANGED <<stream, channel>>

\* ... a full chunk is stored ...
FlushChunk ==
    /\ writer.pc = "flush"
    /\ Len(writer.buf) >= ChunkSize
    /\ BufStart = chunk_byte_start(chunk_index(BufStart))
    /\ writer' = [writer EXCEPT !.buf = SubSeq(@, ChunkSize + 1, Len(@))]
    /\ Store(chunk_index(BufStart), SubSeq(writer.buf, 1, ChunkSize))
    /\ UNCHANGED <<stream, channel>>

\* ... and anything less waits for more.
FlushDone ==
    /\ writer.pc = "flush"
    /\ \/ writer.buf = <<>>
       \/ /\ Len(writer.buf) < ChunkSize
          /\ BufStart = chunk_byte_start(chunk_index(BufStart))
    /\ writer' = [writer EXCEPT !.pc = "recv"]
    /\ UNCHANGED <<stream, channel, chunks, failed>>

\* The rest of the buffer is the last chunk of the file, from its start.
LastChunk ==
    /\ writer.buf # <<>>
    /\ writer.total # Unknown
    /\ writer.position >= writer.total
    /\ BufStart = chunk_byte_start(chunk_index(BufStart))

\* The writer's last act, before its half of the channel is dropped.
Rest ==
    /\ writer.pc = "rest"
    /\ IF LastChunk THEN Store(chunk_index(BufStart), writer.buf)
                    ELSE UNCHANGED <<chunks, failed>>
    /\ writer' = [writer EXCEPT !.pc = "done", !.buf = <<>>]
    /\ UNCHANGED <<stream, channel>>

-----------------------------------------------------------------------------
WriterStep == RecvData \/ RecvEnd \/ FlushDiscard \/ FlushChunk \/ FlushDone \/ Rest

Next == Respond \/ PollData \/ PollEnd \/ Drop \/ WriterStep

\* hyper polls a body until it ends and then drops it, and Tokio runs the
\* writer.
Fairness == WF_vars(PollData \/ PollEnd) /\ WF_vars(Drop) /\ WF_vars(WriterStep)

Spec == Init /\ [][Next]_vars /\ Fairness

-----------------------------------------------------------------------------
\* The key invariant of flush_complete_chunks ("The buffer starts at that
\* chunk's aligned boundary, AND we have accumulated CHUNK_SIZE bytes"):
\* whatever is lost, cut off or delivered in odd pieces, a chunk file is a
\* whole, aligned chunk of the upstream file.
ChunksAreExact == \A n \in Chunks : chunks[n] \in {None, Copy(n)}

\* The tee implements ChunkCopy: it moves on chunk by chunk, never writes one
\* twice and never goes back.
Copies == INSTANCE ChunkCopy
            WITH frontier <- chunk_index(BufStart + ChunkSize - 1)
CopiesInOrder == Copies!Spec

\* Nothing is cached less than it could be: a body that was delivered to its
\* end without poisoning the tee leaves every chunk it covers on disk (the
\* short last chunk only when the size of the file was known).
Covered(n) ==
    /\ writer.begun <= chunk_byte_start(n)
    /\ chunk_byte_start(n) + Len(Copy(n)) - 1 <= stream.last
    /\ Len(Copy(n)) = ChunkSize \/ writer.total # Unknown
WholeBodyIsCached ==
    writer.pc = "done" /\ ~stream.cut /\ ~stream.poisoned
        => \A n \in Chunks \ failed : Covered(n) => chunks[n] = Copy(n)

\* The writer task never outlives its stream for good, and never waits for a
\* message that cannot come, Eof or not.
WriterEnds == stream.pc = "streaming" ~> writer.pc = "done"
=============================================================================
