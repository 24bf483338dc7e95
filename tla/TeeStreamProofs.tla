--------------------------- MODULE TeeStreamProofs ---------------------------
(***************************************************************************)
(* What the tee writes, for every size of chunks, files, pieces and        *)
(* channel: whatever pieces the body comes in, whichever are dropped and   *)
(* wherever it breaks off, a chunk file is an exact chunk of the upstream  *)
(* file, chunks are written in order and at most once, and a body that     *)
(* came through whole leaves every chunk it covers.                        *)
(***************************************************************************)
EXTENDS TeeStream, SequenceTheorems, TLAPS

StreamType ==
    [pc: {"request", "streaming", "ended", "dropped"}, next: Nat, last: Nat,
     poisoned: BOOLEAN, sender: BOOLEAN, cut: BOOLEAN]

WriterType ==
    [pc: {"none", "recv", "flush", "rest", "done"}, buf: Seq(Nat), position: Nat,
     total: {FileSize, Unknown}, begun: Nat]

TypeInv ==
    /\ stream \in StreamType
    /\ channel \in Seq(Seq(Nat))
    /\ writer \in WriterType
    /\ chunks \in [Chunks -> Seq(Nat)]
    /\ failed \subseteq Chunks

\* The body delivers a part of the file; one that was not cut, all of it.
StreamInv ==
    /\ stream.next <= FileSize /\ stream.last < FileSize
    /\ stream.pc = "request" => stream.next = 0 /\ channel = <<>> /\ writer = Waiting
    /\ stream.pc # "request" => stream.next <= stream.last + 1
    /\ stream.pc \in {"ended", "dropped"} /\ ~stream.cut => stream.next = stream.last + 1
    /\ stream.pc \in {"request", "streaming"} => stream.sender

\* The channel holds the file from where the writer is, without a gap: the
\* message i from marks[i] to marks[i + 1].  An Eof is a message without
\* bytes.  Unless poisoned, the tee has sent all that was delivered.
Contiguous(marks) ==
    /\ marks[1] = writer.position
    /\ \A i \in 1 .. Len(channel) :
          marks[i] <= marks[i + 1] /\ channel[i] = Bytes(marks[i], marks[i + 1])
    /\ ~stream.poisoned => marks[Len(channel) + 1] = stream.next

Marks == [1 .. Len(channel) + 1 -> 0 .. FileSize]
ChannelInv == \E marks \in Marks : Contiguous(marks)

\* Nothing follows an Eof, and a writer that stops has emptied the channel.
EofInv ==
    /\ \A i \in 1 .. Len(channel) :
          channel[i] = Eof => i = Len(channel) /\ stream.pc # "streaming"
    /\ writer.pc \in {"rest", "done"} =>
          channel = <<>> /\ stream.pc \in {"ended", "dropped"}

Aligned(offset) == offset = chunk_byte_start(chunk_index(offset))

\* The buffer is the file from BufStart to the position.  Between two flushes
\* it is less than a chunk; it is only ever unaligned in the first chunk, when
\* the stream began within it.
BufferInv ==
    /\ BufStart \in Nat /\ writer.begun <= BufStart
    /\ writer.buf = Bytes(BufStart, writer.position)
    /\ writer.pc # "flush" =>
          writer.buf = <<>> \/ (Len(writer.buf) < ChunkSize /\ Aligned(BufStart))
    /\ writer.pc # "done" =>
          Aligned(BufStart) \/ chunk_byte_start(chunk_index(BufStart)) < writer.begun

\* What of the chunks in reach of the stream has been stored so far: those
\* before the buffer, and in the end those before the end of the body.
StoredInv ==
    \A n \in Chunks \ failed :
        writer.begun <= chunk_byte_start(n) =>
            /\ writer.pc # "done" /\ chunk_byte_start(n + 1) <= BufStart => chunks[n] = Copy(n)
            /\ /\ writer.pc = "done"
               /\ chunk_byte_start(n) + Len(Copy(n)) <= writer.position
               /\ Len(Copy(n)) = ChunkSize \/ writer.total # Unknown
               => chunks[n] = Copy(n)

\* The first chunk that starts at the buffer or behind it: the frontier of
\* ChunkCopy.
Frontier == chunk_index(BufStart + ChunkSize - 1)

TeeInv ==
    /\ TypeInv /\ StreamInv /\ ChannelInv /\ EofInv
    /\ BufferInv /\ ChunksAreExact /\ StoredInv

-----------------------------------------------------------------------------
(* Chunks and offsets.                                                     *)

LEMMA Sizes == ChunkSize \in Nat /\ ChunkSize > 0 /\ FileSize \in Nat /\ FileSize > 0
  BY SizesAssumption

LEMMA ByteStart ==
  ASSUME NEW n \in Nat
  PROVE  /\ chunk_byte_start(n) \in Nat
         /\ chunk_byte_start(n + 1) = chunk_byte_start(n) + ChunkSize
  BY Sizes DEF chunk_byte_start

\* Another chunk starts at least a chunk later.
LEMMA ByteStartGrows ==
  ASSUME NEW n \in Nat, NEW m \in Nat, n < m
  PROVE  chunk_byte_start(n) + ChunkSize <= chunk_byte_start(m)
  <1>1. PICK d \in Nat : m = n + 1 + d
    <2>1. m - (n + 1) \in Nat /\ m = n + 1 + (m - (n + 1))
      OBVIOUS
    <2> QED
      BY <2>1
  <1>2. m * ChunkSize = n * ChunkSize + ChunkSize + d * ChunkSize
    BY <1>1, Sizes
  <1>3. d * ChunkSize >= 0
    BY Sizes
  <1>4. n * ChunkSize \in Nat
    BY Sizes
  <1> QED
    BY <1>2, <1>3, <1>4, Sizes DEF chunk_byte_start

LEMMA IndexBounds ==
  ASSUME NEW a \in Nat
  PROVE  /\ chunk_index(a) \in Nat
         /\ chunk_byte_start(chunk_index(a)) <= a
         /\ a < chunk_byte_start(chunk_index(a)) + ChunkSize
  BY Sizes DEF chunk_index, chunk_byte_start

\* The chunk of an offset is the one whose bytes it is among.
LEMMA IndexIs ==
  ASSUME NEW a \in Nat, NEW n \in Nat,
         chunk_byte_start(n) <= a, a < chunk_byte_start(n) + ChunkSize
  PROVE  chunk_index(a) = n
  <1>1. /\ chunk_index(a) \in Nat
        /\ chunk_byte_start(chunk_index(a)) <= a
        /\ a < chunk_byte_start(chunk_index(a)) + ChunkSize
    BY IndexBounds
  <1>2. chunk_byte_start(n) \in Nat /\ chunk_byte_start(chunk_index(a)) \in Nat
    BY <1>1, ByteStart
  <1>3. ~(chunk_index(a) < n)
    BY <1>1, <1>2, ByteStartGrows, Sizes
  <1>4. ~(n < chunk_index(a))
    BY <1>1, <1>2, ByteStartGrows, Sizes
  <1> QED
    BY <1>1, <1>3, <1>4

\* The chunks of the file are those that start in it.
LEMMA ChunkOfFile ==
  ASSUME NEW n
  PROVE  n \in Chunks <=> n \in Nat /\ chunk_byte_start(n) < FileSize
  <1> DEFINE last == chunk_index(FileSize - 1)
  <1>1. /\ last \in Nat /\ chunk_byte_start(last) <= FileSize - 1
        /\ FileSize - 1 < chunk_byte_start(last) + ChunkSize
        /\ chunk_byte_start(last) \in Nat
    BY Sizes, IndexBounds, ByteStart
  <1> HIDE DEF last
  <1>2. ASSUME n \in Nat, n <= last PROVE chunk_byte_start(n) < FileSize
    <2>1. CASE n = last
      BY <1>1, <2>1, Sizes
    <2>2. CASE n < last
      BY <1>1, <1>2, <2>2, ByteStartGrows, ByteStart, Sizes
    <2> QED
      BY <1>1, <1>2, <2>1, <2>2
  <1>3. ASSUME n \in Nat, last < n PROVE FileSize <= chunk_byte_start(n)
    BY <1>1, <1>3, ByteStartGrows, ByteStart, Sizes
  <1>4. n \in Chunks <=> n \in Nat /\ n <= last
    BY <1>1 DEF Chunks, last
  <1> QED
    BY <1>1, <1>2, <1>3, <1>4, ByteStart, Sizes

-----------------------------------------------------------------------------
(* Runs of bytes.                                                          *)

LEMMA BytesSeq ==
  ASSUME NEW lo \in Nat, NEW hi \in Nat, lo <= hi
  PROVE  /\ Bytes(lo, hi) \in Seq(Nat)
         /\ Len(Bytes(lo, hi)) = hi - lo
         /\ \A i \in 1 .. hi - lo : Bytes(lo, hi)[i] = lo + i - 1
         /\ Bytes(lo, hi) = <<>> <=> lo = hi
  <1>1. hi - lo \in Nat
    OBVIOUS
  <1>2. Bytes(lo, hi) \in [1 .. hi - lo -> Nat]
    BY DEF Bytes
  <1>3. Bytes(lo, hi) \in Seq(Nat) /\ Len(Bytes(lo, hi)) = hi - lo
    BY <1>1, <1>2, LenProperties, SeqDef
  <1>4. Bytes(lo, hi) = <<>> <=> lo = hi
    BY <1>3, EmptySeq
  <1> QED
    BY <1>3, <1>4 DEF Bytes

\* Adjacent runs make one.
LEMMA BytesConcat ==
  ASSUME NEW a \in Nat, NEW b \in Nat, NEW c \in Nat, a <= b, b <= c
  PROVE  Bytes(a, b) \o Bytes(b, c) = Bytes(a, c)
  <1> DEFINE s == Bytes(a, b)
             t == Bytes(b, c)
             u == Bytes(a, c)
  <1>1. /\ s \in Seq(Nat) /\ Len(s) = b - a
        /\ \A i \in 1 .. b - a : s[i] = a + i - 1
    BY BytesSeq
  <1>2. /\ t \in Seq(Nat) /\ Len(t) = c - b
        /\ \A i \in 1 .. c - b : t[i] = b + i - 1
    BY BytesSeq
  <1>3. /\ u \in Seq(Nat) /\ Len(u) = c - a
        /\ \A i \in 1 .. c - a : u[i] = a + i - 1
    BY BytesSeq
  <1> HIDE DEF s, t, u
  <1>4. /\ s \o t \in Seq(Nat) /\ Len(s \o t) = Len(s) + Len(t)
        /\ \A i \in 1 .. Len(s) + Len(t) :
              (s \o t)[i] = IF i <= Len(s) THEN s[i] ELSE t[i - Len(s)]
    BY <1>1, <1>2, ConcatProperties
  <1>5. Len(s \o t) = Len(u)
    BY <1>1, <1>2, <1>3, <1>4
  <1>6. ASSUME NEW i \in 1 .. Len(s \o t) PROVE (s \o t)[i] = u[i]
    <2>1. i \in 1 .. c - a /\ u[i] = a + i - 1
      BY <1>3, <1>5
    <2>2. CASE i <= b - a
      BY <2>1, <2>2, <1>1, <1>2, <1>4
    <2>3. CASE b - a < i
      <3>1. PICK j \in Int : j = i - (b - a)
        OBVIOUS
      <3>2. j \in 1 .. c - b /\ t[j] = b + j - 1
        BY <2>1, <2>3, <3>1, <1>2
      <3>3. (s \o t)[i] = t[j]
        BY <2>1, <2>3, <3>1, <1>1, <1>2, <1>4
      <3> QED
        BY <2>1, <3>1, <3>2, <3>3
    <2> QED
      BY <2>1, <2>2, <2>3
  <1>7. s \o t = u
    BY <1>3, <1>4, <1>5, <1>6, SeqEqual
  <1> QED
    BY <1>7 DEF s, t, u

\* A part of a run is a run.
LEMMA BytesSub ==
  ASSUME NEW a \in Nat, NEW b \in Nat, NEW lo \in Nat, NEW hi \in Nat,
         a <= lo, lo <= hi, hi <= b
  PROVE  SubSeq(Bytes(a, b), lo - a + 1, hi - a) = Bytes(lo, hi)
  <1> DEFINE s == Bytes(a, b)
             t == SubSeq(s, lo - a + 1, hi - a)
             u == Bytes(lo, hi)
  <1>1. /\ s \in Seq(Nat) /\ Len(s) = b - a
        /\ \A i \in 1 .. b - a : s[i] = a + i - 1
    BY BytesSeq
  <1>2. /\ u \in Seq(Nat) /\ Len(u) = hi - lo
        /\ \A i \in 1 .. hi - lo : u[i] = lo + i - 1
    BY BytesSeq
  <1> HIDE DEF s, u
  <1>3. PICK m \in Int : m = lo - a + 1
    OBVIOUS
  <1>4. PICK n \in Int : n = hi - a
    OBVIOUS
  <1>5. \A i \in m .. n : s[i] \in Nat
    BY <1>1, <1>3, <1>4
  <1>6. /\ SubSeq(s, m, n) \in Seq(Nat)
        /\ Len(SubSeq(s, m, n)) = IF m <= n THEN n - m + 1 ELSE 0
        /\ \A i \in 1 .. n - m + 1 : SubSeq(s, m, n)[i] = s[m + i - 1]
    BY <1>5, SubSeqProperties
  <1>7. t = SubSeq(s, m, n)
    BY <1>3, <1>4
  <1> HIDE DEF t
  <1>8. t \in Seq(Nat) /\ Len(t) = Len(u)
    BY <1>2, <1>3, <1>4, <1>6, <1>7
  <1>9. ASSUME NEW i \in 1 .. Len(t) PROVE t[i] = u[i]
    <2>1. i \in 1 .. n - m + 1 /\ m + i - 1 = lo - a + i /\ lo - a + i \in 1 .. b - a
      BY <1>2, <1>3, <1>4, <1>8
    <2>2. t[i] = s[lo - a + i]
      BY <2>1, <1>6, <1>7
    <2> QED
      BY <2>1, <2>2, <1>1, <1>2, <1>8
  <1>10. t = u
    BY <1>2, <1>8, <1>9, SeqEqual
  <1> QED
    BY <1>10 DEF s, t, u

\* The copy of a chunk is a run of one to ChunkSize bytes.
LEMMA CopySeq ==
  ASSUME NEW n \in Chunks
  PROVE  LET end == Least(chunk_byte_start(n + 1), FileSize)
         IN  /\ n \in Nat /\ chunk_byte_start(n) \in Nat /\ end \in Nat
             /\ chunk_byte_start(n) < end /\ end <= FileSize
             /\ end <= chunk_byte_start(n) + ChunkSize
             /\ Copy(n) \in Seq(Nat)
             /\ Len(Copy(n)) = end - chunk_byte_start(n)
  <1> DEFINE start == chunk_byte_start(n)
             next == chunk_byte_start(n + 1)
             end == Least(next, FileSize)
  <1>1. n \in Nat /\ start < FileSize
    BY ChunkOfFile
  <1>2. start \in Nat /\ next = start + ChunkSize
    BY <1>1, ByteStart
  <1>3. Copy(n) = Bytes(start, end)
    BY DEF Copy
  <1> HIDE DEF start, next
  <1>4. end \in Nat /\ start < end /\ end <= FileSize /\ end <= start + ChunkSize
    BY <1>1, <1>2, Sizes DEF Least
  <1> HIDE DEF end
  <1>5. Bytes(start, end) \in Seq(Nat) /\ Len(Bytes(start, end)) = end - start
    BY <1>2, <1>4, BytesSeq
  <1> QED
    BY <1>1, <1>2, <1>3, <1>4, <1>5 DEF start, next, end

-----------------------------------------------------------------------------
(* What an action leaves alone.                                            *)

LEMMA WriterAlone ==
  ASSUME BufferInv, ChunksAreExact, StoredInv, UNCHANGED <<writer, chunks, failed>>
  PROVE  BufferInv' /\ ChunksAreExact' /\ StoredInv'
  <1>1. BufStart' = BufStart
    BY DEF BufStart
  <1>2. BufferInv'
    BY <1>1 DEF BufferInv, Aligned
  <1>3. ChunksAreExact' /\ StoredInv'
    BY <1>1 DEF ChunksAreExact, StoredInv
  <1> QED
    BY <1>2, <1>3

\* The buffer ends at the position, within the file.
LEMMA BufferBounds ==
  ASSUME TypeInv, ChannelInv, BufferInv
  PROVE  /\ BufStart \in Nat /\ writer.position \in Nat
         /\ BufStart <= writer.position /\ writer.position <= FileSize
         /\ writer.buf \in Seq(Nat) /\ Len(writer.buf) = writer.position - BufStart
  <1>1. writer.position \in Nat /\ writer.buf \in Seq(Nat) /\ BufStart \in Nat
    BY DEF TypeInv, WriterType, BufferInv
  <1>2. Len(writer.buf) \in Nat /\ BufStart = writer.position - Len(writer.buf)
    BY <1>1, LenProperties DEF BufStart
  <1>3. PICK marks \in Marks : Contiguous(marks)
    BY DEF ChannelInv
  <1>4. Len(channel) \in Nat
    BY LenProperties DEF TypeInv
  <1>5. marks[1] \in 0 .. FileSize /\ marks[1] = writer.position
    BY <1>3, <1>4 DEF Marks, Contiguous
  <1> QED
    BY <1>1, <1>2, <1>5, Sizes

-----------------------------------------------------------------------------
(* The body.                                                               *)

LEMMA RespondKeeps ==
  ASSUME TeeInv, Respond
  PROVE  TeeInv'
  <1>0. /\ TypeInv /\ StreamInv /\ ChannelInv /\ EofInv
        /\ BufferInv /\ ChunksAreExact /\ StoredInv
    BY DEF TeeInv
  <1>1. PICK from, to \in 0 .. FileSize - 1, total \in {FileSize, Unknown} :
          from <= to /\ Tee(from, to, from, total)
    BY DEF Respond
  <1>2. /\ from \in Nat /\ to \in Nat /\ from <= to /\ to < FileSize
        /\ stream.pc = "request" /\ stream.next = 0 /\ channel = <<>> /\ writer = Waiting
    BY <1>0, <1>1, Sizes DEF Respond, StreamInv
  <1>3. /\ stream' = [stream EXCEPT !.pc = "streaming", !.next = from, !.last = to]
        /\ writer' = [pc |-> "recv", buf |-> <<>>, position |-> from, total |-> total,
                      begun |-> from]
        /\ channel' = <<>> /\ chunks' = chunks /\ failed' = failed
    BY <1>1, <1>2 DEF Tee, Waiting
  <1>a. /\ stream'.pc = "streaming" /\ stream'.next = from /\ stream'.last = to
        /\ stream'.sender = stream.sender
    BY <1>0, <1>3 DEF TypeInv, StreamType
  <1>b. stream' \in StreamType
    BY <1>0, <1>2, <1>3 DEF TypeInv, StreamType
  <1>c. writer' \in WriterType
    BY <1>1, <1>2, <1>3, EmptySeq DEF WriterType
  <1>4. TypeInv'
    BY <1>0, <1>3, <1>b, <1>c, EmptySeq DEF TypeInv
  <1>d. stream.sender
    BY <1>0, <1>2 DEF StreamInv
  <1>5. StreamInv'
    BY <1>2, <1>a, <1>d, Sizes DEF StreamInv
  <1>6. ChannelInv'
    <2> DEFINE marks == [i \in 1 .. 1 |-> from]
    <2>1. Len(channel') = 0 /\ 1 .. Len(channel') = {} /\ Len(channel') + 1 = 1
      BY <1>3, EmptySeq
    <2>2. marks \in Marks' /\ marks[1] = from
      BY <1>2, <2>1, Sizes DEF Marks
    <2> HIDE DEF marks
    <2>3. writer'.position = from /\ stream'.next = from
      BY <1>3, <1>a
    <2>4. Contiguous(marks)'
      BY <2>1, <2>2, <2>3 DEF Contiguous
    <2> QED
      BY <2>2, <2>4 DEF ChannelInv
  <1>7. EofInv'
    BY <1>3, EmptySeq DEF EofInv
  <1>8. /\ writer'.begun = from /\ writer'.position = from /\ writer'.buf = <<>>
        /\ writer'.pc = "recv" /\ BufStart' = from
    BY <1>2, <1>3, EmptySeq DEF BufStart
  <1>9. BufferInv'
    <2>1. Bytes(from, from) = <<>>
      BY <1>2, BytesSeq
    <2>2. Aligned(from) \/ chunk_byte_start(chunk_index(from)) < from
      <3>1. chunk_byte_start(chunk_index(from)) <= from
        BY <1>2, IndexBounds
      <3>2. chunk_byte_start(chunk_index(from)) \in Nat
        BY <1>2, IndexBounds, ByteStart
      <3> QED
        BY <1>2, <3>1, <3>2 DEF Aligned
    <2> QED
      BY <1>2, <1>8, <2>1, <2>2 DEF BufferInv, Aligned
  <1>10. ChunksAreExact'
    BY <1>0, <1>3 DEF ChunksAreExact
  <1>11. StoredInv'
    <2> SUFFICES ASSUME NEW n \in Chunks, from <= chunk_byte_start(n),
                        chunk_byte_start(n + 1) <= from
                 PROVE  FALSE
      BY <1>3, <1>8 DEF StoredInv
    <2>1. n \in Nat
      BY ChunkOfFile
    <2>2. chunk_byte_start(n) \in Nat /\ chunk_byte_start(n + 1) = chunk_byte_start(n) + ChunkSize
      BY <2>1, ByteStart
    <2> QED
      BY <1>2, <2>2, Sizes
  <1> QED
    BY <1>4, <1>5, <1>6, <1>7, <1>9, <1>10, <1>11 DEF TeeInv

LEMMA DropKeeps ==
  ASSUME TeeInv, Drop
  PROVE  TeeInv'
  <1>0. /\ TypeInv /\ StreamInv /\ ChannelInv /\ EofInv
        /\ BufferInv /\ ChunksAreExact /\ StoredInv
    BY DEF TeeInv
  <1>a. PICK cut \in BOOLEAN : cut = (stream.cut \/ stream.next <= stream.last)
    OBVIOUS
  <1>1. /\ stream.pc \in {"streaming", "ended"}
        /\ stream' = [stream EXCEPT !.pc = "dropped", !.sender = FALSE, !.cut = cut]
        /\ UNCHANGED <<channel, writer, chunks, failed>>
    BY <1>a DEF Drop
  <1>b. stream' \in StreamType
    BY <1>0, <1>1 DEF TypeInv, StreamType
  <1>2. TypeInv'
    BY <1>0, <1>1, <1>b DEF TypeInv
  <1>3. /\ stream'.pc = "dropped" /\ stream'.next = stream.next /\ stream'.last = stream.last
        /\ stream'.poisoned = stream.poisoned
        /\ stream.next \in Nat /\ stream.last \in Nat
    BY <1>0, <1>1 DEF TypeInv, StreamType
  <1>c. stream'.cut = cut
    BY <1>0, <1>1 DEF TypeInv, StreamType
  <1>e. ~stream'.cut => ~(stream.next <= stream.last)
    BY <1>a, <1>c, Zenon
  <1>d. ~stream'.cut => stream.next > stream.last
    BY <1>3, <1>e
  <1>4. StreamInv'
    BY <1>0, <1>1, <1>3, <1>d DEF StreamInv
  <1>5. ChannelInv'
    BY <1>0, <1>1, <1>3 DEF ChannelInv, Marks, Contiguous
  <1>6. EofInv'
    BY <1>0, <1>1, <1>3 DEF EofInv
  <1> QED
    BY <1>0, <1>1, <1>2, <1>4, <1>5, <1>6, WriterAlone DEF TeeInv

\* A piece that is sent extends what the channel holds.
LEMMA Sending ==
  ASSUME TypeInv, ChannelInv, ~stream.poisoned,
         NEW m \in 0 .. FileSize, stream.next <= m, stream'.next = m,
         channel' = Append(channel, Bytes(stream.next, m)), writer' = writer
  PROVE  /\ ChannelInv'
         /\ channel' \in Seq(Seq(Nat)) /\ Len(channel') = Len(channel) + 1
         /\ \A i \in 1 .. Len(channel) : channel'[i] = channel[i]
         /\ channel'[Len(channel) + 1] = Bytes(stream.next, m)
  <1>1. stream.next \in Nat /\ m \in Nat
    BY Sizes DEF TypeInv, StreamType
  <1>2. channel \in Seq(Seq(Nat)) /\ Bytes(stream.next, m) \in Seq(Nat)
    BY <1>1, BytesSeq DEF TypeInv
  <1>3. Len(channel) \in Nat
    BY <1>2, LenProperties
  <1>4. /\ channel' \in Seq(Seq(Nat)) /\ Len(channel') = Len(channel) + 1
        /\ \A i \in 1 .. Len(channel) : channel'[i] = channel[i]
        /\ channel'[Len(channel) + 1] = Bytes(stream.next, m)
    BY <1>2, AppendProperties
  <1>5. PICK marks \in Marks : Contiguous(marks)
    BY DEF ChannelInv
  <1>6. PICK more : more = [i \in 1 .. Len(channel) + 2 |->
                              IF i <= Len(channel) + 1 THEN marks[i] ELSE m]
    OBVIOUS
  <1>7. more \in [1 .. Len(channel) + 2 -> 0 .. FileSize]
    BY <1>3, <1>5, <1>6 DEF Marks
  <1>8. /\ \A i \in 1 .. Len(channel) + 1 : more[i] = marks[i]
        /\ more[Len(channel) + 2] = m
    BY <1>3, <1>6
  <1>9. marks[Len(channel) + 1] = stream.next
    BY <1>5 DEF Contiguous
  <1>10. more[1] = writer'.position
    BY <1>3, <1>5, <1>8 DEF Contiguous
  <1>11. ASSUME NEW i \in 1 .. Len(channel')
         PROVE  more[i] <= more[i + 1] /\ channel'[i] = Bytes(more[i], more[i + 1])
    <2>1. CASE i <= Len(channel)
      <3>1. /\ i \in 1 .. Len(channel) /\ i \in 1 .. Len(channel) + 1
            /\ i + 1 \in 1 .. Len(channel) + 1
        BY <1>3, <2>1
      <3>2. channel'[i] = channel[i] /\ more[i] = marks[i] /\ more[i + 1] = marks[i + 1]
        BY <1>4, <1>8, <3>1
      <3> QED
        BY <1>5, <3>1, <3>2 DEF Contiguous
    <2>2. CASE i = Len(channel) + 1
      BY <1>3, <1>4, <1>8, <1>9, <2>2
    <2> QED
      BY <2>1, <2>2, <1>3, <1>4
  <1>12. Len(channel') + 1 = Len(channel) + 2
    BY <1>3, <1>4
  <1>13. Contiguous(more)'
    BY <1>8, <1>10, <1>11, <1>12 DEF Contiguous
  <1>14. more \in Marks'
    BY <1>7, <1>12 DEF Marks
  <1> QED
    BY <1>4, <1>13, <1>14 DEF ChannelInv

LEMMA PollDataKeeps ==
  ASSUME TeeInv, PollData
  PROVE  TeeInv'
  <1>0. /\ TypeInv /\ StreamInv /\ ChannelInv /\ EofInv
        /\ BufferInv /\ ChunksAreExact /\ StoredInv
    BY DEF TeeInv
  <1>1. stream.pc = "streaming" /\ UNCHANGED <<writer, chunks, failed>>
    BY DEF PollData
  <1>2. /\ stream.next \in Nat /\ stream.last \in Nat /\ stream.next <= stream.last + 1
        /\ stream.last < FileSize
    BY <1>0, <1>1 DEF TypeInv, StreamType, StreamInv
  <1>3. PICK n \in 1 .. Least(MaxPiece, stream.last + 1 - stream.next), p \in BOOLEAN :
          /\ stream' = [stream EXCEPT !.next = stream.next + n, !.poisoned = p]
          /\ \/ p /\ channel' = channel
             \/ /\ ~stream.poisoned /\ Sendable
                /\ channel' = Append(channel, Bytes(stream.next, stream.next + n))
    <2>1. PICK n \in 1 .. Least(MaxPiece, stream.last + 1 - stream.next) :
            IF stream.poisoned THEN stream' = Deliver(n) /\ UNCHANGED channel
            ELSE IF Sendable
            THEN /\ stream' = Deliver(n)
                 /\ channel' = Append(channel, Bytes(stream.next, stream.next + n))
            ELSE stream' = [Deliver(n) EXCEPT !.poisoned = TRUE] /\ UNCHANGED channel
      BY DEF PollData
    <2>2. stream.poisoned \in BOOLEAN /\ stream \in StreamType
      BY <1>0 DEF TypeInv, StreamType
    <2>3. Deliver(n) = [stream EXCEPT !.next = stream.next + n, !.poisoned = stream.poisoned]
      BY <2>2 DEF Deliver, StreamType
    <2>4. [Deliver(n) EXCEPT !.poisoned = TRUE]
            = [stream EXCEPT !.next = stream.next + n, !.poisoned = TRUE]
      BY <2>2 DEF Deliver, StreamType
    <2> QED
      BY <2>1, <2>2, <2>3, <2>4
  <1>4. PICK m \in Nat : m = stream.next + n
    BY <1>2, SizesAssumption DEF Least
  <1>5. stream.next < m /\ m <= stream.last + 1 /\ m \in 0 .. FileSize
    <2>1. PICK a \in Nat, b \in Nat : a = stream.next /\ b = stream.last + 1
      BY <1>2
    <2>2. PICK k : k = Least(MaxPiece, b - a)
      OBVIOUS
    <2>3. k \in Int /\ k <= b - a
      BY <2>2, SizesAssumption DEF Least
    <2>4. n \in 1 .. k
      <3>1. stream.last + 1 - stream.next = b - a
        BY <1>2, <2>1
      <3> QED
        BY <1>3, <2>2, <3>1, Zenon
    <2>5. n \in Int /\ 1 <= n /\ n <= b - a
      BY <2>3, <2>4
    <2> QED
      BY <1>2, <1>4, <2>1, <2>5, Sizes
  <1>6. stream' = [stream EXCEPT !.next = m, !.poisoned = p]
    BY <1>3, <1>4
  <1>7. /\ stream'.pc = "streaming" /\ stream'.next = m /\ stream'.last = stream.last
        /\ stream'.sender = stream.sender
    BY <1>0, <1>1, <1>6 DEF TypeInv, StreamType
  <1>8. stream'.poisoned = p
    BY <1>0, <1>6 DEF TypeInv, StreamType
  <1>9. stream' \in StreamType
    BY <1>0, <1>6 DEF TypeInv, StreamType
  <1>10. StreamInv'
    BY <1>0, <1>1, <1>2, <1>5, <1>7 DEF StreamInv
  <1>11. /\ \A i \in 1 .. Len(channel) : channel[i] # Eof
         /\ writer'.pc \notin {"rest", "done"}
    BY <1>0, <1>1 DEF EofInv
  <1>12. CASE p /\ channel' = channel
    <2>1. TypeInv'
      BY <1>0, <1>1, <1>9, <1>12 DEF TypeInv
    <2>2. ChannelInv'
      BY <1>0, <1>1, <1>8, <1>12 DEF ChannelInv, Marks, Contiguous
    <2>3. EofInv'
      BY <1>11, <1>12 DEF EofInv
    <2> QED
      BY <1>0, <1>1, <1>10, <2>1, <2>2, <2>3, WriterAlone DEF TeeInv
  <1>13. CASE ~stream.poisoned /\ channel' = Append(channel, Bytes(stream.next, stream.next + n))
    <2>1. /\ ChannelInv'
          /\ channel' \in Seq(Seq(Nat)) /\ Len(channel') = Len(channel) + 1
          /\ \A i \in 1 .. Len(channel) : channel'[i] = channel[i]
          /\ channel'[Len(channel) + 1] = Bytes(stream.next, m)
      <3>1. channel' = Append(channel, Bytes(stream.next, m))
        BY <1>4, <1>13
      <3>2. stream.next <= m /\ stream'.next = m /\ writer' = writer /\ ~stream.poisoned
        BY <1>1, <1>2, <1>5, <1>7, <1>13
      <3> QED
        BY <1>0, <1>5, <3>1, <3>2, Sending
    <2>2. TypeInv'
      BY <1>0, <1>1, <1>9, <2>1 DEF TypeInv
    <2>3. Bytes(stream.next, m) # Eof
      <3>1. PICK a \in Nat : a = stream.next
        BY <1>2
      <3>2. a < m
        BY <1>5, <3>1
      <3>3. PICK c \in Nat : c = m
        BY <1>4
      <3>4. Bytes(a, c) # <<>>
        BY <3>2, <3>3, BytesSeq
      <3> QED
        BY <3>1, <3>3, <3>4 DEF Eof
    <2>4. Len(channel) \in Nat
      BY <1>0, LenProperties DEF TypeInv
    <2>5. \A i \in 1 .. Len(channel') : channel'[i] # Eof
      <3> SUFFICES ASSUME NEW i \in 1 .. Len(channel') PROVE channel'[i] # Eof
        OBVIOUS
      <3>1. CASE i \in 1 .. Len(channel)
        BY <1>11, <2>1, <3>1
      <3>2. CASE i = Len(channel) + 1
        BY <2>1, <2>3, <3>2
      <3> QED
        BY <2>1, <2>4, <3>1, <3>2
    <2>6. EofInv'
      BY <1>11, <2>5 DEF EofInv
    <2> QED
      BY <1>0, <1>1, <1>10, <2>1, <2>2, <2>6, WriterAlone DEF TeeInv
  <1> QED
    BY <1>3, <1>12, <1>13

LEMMA PollEndKeeps ==
  ASSUME TeeInv, PollEnd
  PROVE  TeeInv'
  <1>0. /\ TypeInv /\ StreamInv /\ ChannelInv /\ EofInv
        /\ BufferInv /\ ChunksAreExact /\ StoredInv
    BY DEF TeeInv
  <1>1. PICK cut \in BOOLEAN : cut = (stream.next <= stream.last)
    <2>1. (stream.next <= stream.last) \in BOOLEAN
      OBVIOUS
    <2> QED
      BY <2>1, Zenon
  <1>2. /\ stream.pc = "streaming"
        /\ stream' = [stream EXCEPT !.pc = "ended", !.cut = cut]
        /\ UNCHANGED <<writer, chunks, failed>>
        /\ \/ channel' = channel
           \/ ~stream.poisoned /\ Sendable /\ channel' = Append(channel, Eof)
    BY <1>1 DEF PollEnd
  <1>3. /\ stream'.pc = "ended" /\ stream'.next = stream.next /\ stream'.last = stream.last
        /\ stream'.poisoned = stream.poisoned /\ stream'.sender = stream.sender
        /\ stream.next \in Nat /\ stream.last \in Nat
    BY <1>0, <1>2 DEF TypeInv, StreamType
  <1>4. stream' \in StreamType
    BY <1>0, <1>2 DEF TypeInv, StreamType
  <1>5. ~stream'.cut => stream.next > stream.last
    <2>1. stream'.cut = cut
      BY <1>0, <1>2 DEF TypeInv, StreamType
    <2>2. ~stream'.cut => ~(stream.next <= stream.last)
      BY <1>1, <2>1, Zenon
    <2> QED
      BY <1>3, <2>2
  <1>6. StreamInv'
    BY <1>0, <1>2, <1>3, <1>5 DEF StreamInv
  <1>7. /\ \A i \in 1 .. Len(channel) : channel[i] # Eof
        /\ writer'.pc \notin {"rest", "done"}
    BY <1>0, <1>2 DEF EofInv
  <1>8. CASE channel' = channel
    <2>1. TypeInv'
      BY <1>0, <1>2, <1>4, <1>8 DEF TypeInv
    <2>2. ChannelInv'
      BY <1>0, <1>2, <1>3, <1>8 DEF ChannelInv, Marks, Contiguous
    <2>3. EofInv'
      BY <1>7, <1>8 DEF EofInv
    <2> QED
      BY <1>0, <1>2, <1>6, <2>1, <2>2, <2>3, WriterAlone DEF TeeInv
  <1>9. CASE ~stream.poisoned /\ channel' = Append(channel, Eof)
    <2>1. Eof = Bytes(stream.next, stream.next)
      <3>1. PICK a \in Nat : a = stream.next
        BY <1>3
      <3>2. Bytes(a, a) = <<>>
        BY BytesSeq
      <3> QED
        BY <3>1, <3>2 DEF Eof
    <2>2. stream.next \in 0 .. FileSize
      BY <1>0, <1>3, Sizes DEF StreamInv
    <2>3. /\ ChannelInv'
          /\ channel' \in Seq(Seq(Nat)) /\ Len(channel') = Len(channel) + 1
          /\ \A i \in 1 .. Len(channel) : channel'[i] = channel[i]
      BY <1>0, <1>2, <1>3, <1>9, <2>1, <2>2, Sending
    <2>4. TypeInv'
      BY <1>0, <1>2, <1>4, <2>3 DEF TypeInv
    <2>5. Len(channel) \in Nat
      BY <1>0, LenProperties DEF TypeInv
    <2>6. EofInv'
      <3> SUFFICES ASSUME NEW i \in 1 .. Len(channel'), channel'[i] = Eof
                   PROVE  i = Len(channel')
        BY <1>3, <1>7 DEF EofInv, Eof
      <3>1. i \notin 1 .. Len(channel)
        BY <1>7, <2>3
      <3> QED
        BY <2>3, <2>5, <3>1
    <2> QED
      BY <1>0, <1>2, <1>6, <2>3, <2>4, <2>6, WriterAlone DEF TeeInv
  <1> QED
    BY <1>2, <1>8, <1>9

-----------------------------------------------------------------------------
(* The writer takes from the channel.                                      *)

\* A writer at work has been told where its stream begins.
LEMMA BodyAlone ==
  ASSUME TypeInv, StreamInv, writer.pc # "none", UNCHANGED stream
  PROVE  StreamInv'
  BY DEF StreamInv, Waiting

LEMMA ChannelAlone ==
  ASSUME ChannelInv, EofInv, UNCHANGED <<stream, channel>>,
         writer'.position = writer.position,
         writer'.pc \in {"rest", "done"} => writer.pc \in {"rest", "done"}
  PROVE  ChannelInv' /\ EofInv'
  <1>1. ChannelInv'
    BY DEF ChannelInv, Marks, Contiguous
  <1>2. EofInv'
    BY DEF EofInv
  <1> QED
    BY <1>1, <1>2

\* The first message is the piece of the file at the writer's position; what
\* is left behind it holds the file from its end.
LEMMA Receiving ==
  ASSUME TypeInv, ChannelInv, channel # <<>>
  PROVE  \E m \in 0 .. FileSize :
            /\ writer.position <= m /\ Head(channel) = Bytes(writer.position, m)
            /\ channel' = Tail(channel) /\ UNCHANGED stream /\ writer'.position = m
                  => ChannelInv'
  <1>1. channel \in Seq(Seq(Nat))
    BY DEF TypeInv
  <1>2. PICK k \in Nat : k + 1 = Len(channel)
    <2>1. Len(channel) \in Nat \ {0}
      BY <1>1, EmptySeq
    <2>2. Len(channel) - 1 \in Nat /\ Len(channel) - 1 + 1 = Len(channel)
      BY <2>1
    <2> QED
      BY <2>2
  <1>3. Head(channel) = channel[1]
    BY <1>1, <1>2
  <1>4. Len(Tail(channel)) = k /\ \A i \in 1 .. k : Tail(channel)[i] = channel[i + 1]
    BY <1>1, <1>2, HeadTailProperties
  <1>5. PICK marks \in Marks : Contiguous(marks)
    BY DEF ChannelInv
  <1>6. marks \in [1 .. k + 2 -> 0 .. FileSize]
    <2>1. Len(channel) + 1 = k + 2
      BY <1>2
    <2> QED
      BY <1>5, <2>1 DEF Marks
  <1>7. /\ marks[1] = writer.position
        /\ \A i \in 1 .. k + 1 :
              marks[i] <= marks[i + 1] /\ channel[i] = Bytes(marks[i], marks[i + 1])
    BY <1>2, <1>5 DEF Contiguous
  <1>8. ~stream.poisoned => marks[k + 2] = stream.next
    <2>1. Len(channel) + 1 = k + 2
      BY <1>2
    <2> QED
      BY <1>5, <2>1 DEF Contiguous
  <1>9. PICK rest : rest = [i \in 1 .. k + 1 |-> marks[i + 1]]
    OBVIOUS
  <1>10. rest \in [1 .. k + 1 -> 0 .. FileSize] /\ \A i \in 1 .. k + 1 : rest[i] = marks[i + 1]
    BY <1>6, <1>9
  <1>11. ASSUME channel' = Tail(channel), UNCHANGED stream, writer'.position = marks[2]
         PROVE  ChannelInv'
    <2>1. Len(channel') = k /\ \A i \in 1 .. k : channel'[i] = channel[i + 1]
      BY <1>4, <1>11
    <2>2. rest[1] = writer'.position
      BY <1>10, <1>11
    <2>3. ASSUME NEW i \in 1 .. k
          PROVE  rest[i] <= rest[i + 1] /\ channel'[i] = Bytes(rest[i], rest[i + 1])
      <3>1. PICK j \in 1 .. k + 1 : j = i + 1
        OBVIOUS
      <3>2. i \in 1 .. k + 1 /\ rest[i] = marks[j] /\ rest[j] = marks[j + 1]
        BY <1>10, <3>1
      <3>3. channel'[i] = channel[j]
        BY <2>1, <3>1
      <3> QED
        BY <1>7, <3>1, <3>2, <3>3
    <2>4. ~stream.poisoned => rest[k + 1] = stream.next
      <3>1. k + 1 \in 1 .. k + 1 /\ k + 1 + 1 = k + 2
        OBVIOUS
      <3> QED
        BY <1>8, <1>10, <3>1
    <2>5. Contiguous(rest)'
      BY <1>11, <2>1, <2>2, <2>3, <2>4 DEF Contiguous
    <2>6. rest \in Marks'
      BY <1>10, <2>1 DEF Marks
    <2> QED
      BY <2>5, <2>6 DEF ChannelInv
  <1>12. PICK m \in 0 .. FileSize : m = marks[2]
    BY <1>6
  <1>13. writer.position <= m /\ Head(channel) = Bytes(writer.position, m)
    <2>1. 1 \in 1 .. k + 1 /\ 1 + 1 = 2
      OBVIOUS
    <2> QED
      BY <1>3, <1>7, <1>12, <2>1
  <1> QED
    BY <1>11, <1>12, <1>13

LEMMA RecvDataKeeps ==
  ASSUME TeeInv, RecvData
  PROVE  TeeInv' /\ BufStart' = BufStart
  <1>0. /\ TypeInv /\ StreamInv /\ ChannelInv /\ EofInv
        /\ BufferInv /\ ChunksAreExact /\ StoredInv
    BY DEF TeeInv
  <1>1. /\ writer.pc = "recv" /\ channel # <<>> /\ Head(channel) # Eof
        /\ channel' = Tail(channel) /\ UNCHANGED <<stream, chunks, failed>>
    BY DEF RecvData
  <1>2. PICK m \in 0 .. FileSize :
          /\ writer.position <= m /\ Head(channel) = Bytes(writer.position, m)
          /\ channel' = Tail(channel) /\ UNCHANGED stream /\ writer'.position = m
                => ChannelInv'
    BY <1>0, <1>1, Receiving
  <1>3. PICK a \in Nat, b \in Nat : a = BufStart /\ b = writer.position /\ a <= b
    BY <1>0, BufferBounds
  <1>4. m \in Nat /\ b <= m /\ m <= FileSize
    BY <1>2, <1>3, Sizes
  <1>5. /\ writer.buf = Bytes(a, b) /\ Head(channel) = Bytes(b, m)
        /\ Bytes(a, b) \o Bytes(b, m) = Bytes(a, m)
    BY <1>0, <1>2, <1>3, <1>4, BytesConcat DEF BufferInv
  <1>6. /\ Len(Bytes(b, m)) = m - b
        /\ Bytes(a, m) \in Seq(Nat) /\ Len(Bytes(a, m)) = m - a
    <2>1. a <= m
      BY <1>3, <1>4
    <2> QED
      BY <1>4, <2>1, BytesSeq
  <1>7. writer.position + Len(Head(channel)) = m
    BY <1>3, <1>4, <1>5, <1>6
  <1>8. writer' = [writer EXCEPT !.pc = "flush", !.buf = Bytes(a, m), !.position = m]
    BY <1>5, <1>7 DEF RecvData
  <1>9. /\ writer'.pc = "flush" /\ writer'.buf = Bytes(a, m) /\ writer'.position = m
        /\ writer'.total = writer.total /\ writer'.begun = writer.begun
    BY <1>0, <1>8 DEF TypeInv, WriterType
  <1>10. writer' \in WriterType
    BY <1>0, <1>4, <1>6, <1>8 DEF TypeInv, WriterType
  <1>11. channel' \in Seq(Seq(Nat)) /\ channel \in Seq(Seq(Nat))
    BY <1>0, <1>1, HeadTailProperties DEF TypeInv
  <1>12. TypeInv'
    BY <1>0, <1>1, <1>10, <1>11 DEF TypeInv
  <1>13. StreamInv'
    BY <1>0, <1>1, BodyAlone
  <1>14. ChannelInv'
    BY <1>1, <1>2, <1>9
  <1>15. EofInv'
    <2>1. /\ Len(channel') = Len(channel) - 1 /\ Len(channel) \in Nat
          /\ \A i \in 1 .. Len(channel') : channel'[i] = channel[i + 1]
      BY <1>1, <1>11, HeadTailProperties, LenProperties
    <2> SUFFICES ASSUME NEW i \in 1 .. Len(channel'), channel'[i] = Eof
                 PROVE  i = Len(channel') /\ stream.pc # "streaming"
      BY <1>1, <1>9 DEF EofInv
    <2>2. i + 1 \in 1 .. Len(channel) /\ channel[i + 1] = Eof
      BY <2>1
    <2>3. i + 1 = Len(channel) /\ stream.pc # "streaming"
      BY <1>0, <2>2 DEF EofInv
    <2> QED
      BY <2>1, <2>3
  <1>16. BufStart' = a
    <2>1. BufStart' = m - Len(Bytes(a, m))
      BY <1>9 DEF BufStart
    <2> QED
      BY <1>3, <1>4, <1>6, <2>1
  <1>17. BufferInv'
    BY <1>0, <1>1, <1>3, <1>9, <1>16 DEF BufferInv, Aligned
  <1>18. ChunksAreExact'
    BY <1>0, <1>1 DEF ChunksAreExact
  <1>19. StoredInv'
    BY <1>0, <1>1, <1>3, <1>9, <1>16 DEF StoredInv
  <1> QED
    BY <1>12, <1>13, <1>14, <1>15, <1>17, <1>18, <1>19, <1>3, <1>16 DEF TeeInv

LEMMA RecvEndKeeps ==
  ASSUME TeeInv, RecvEnd
  PROVE  TeeInv' /\ BufStart' = BufStart
  <1>0. /\ TypeInv /\ StreamInv /\ ChannelInv /\ EofInv
        /\ BufferInv /\ ChunksAreExact /\ StoredInv
    BY DEF TeeInv
  <1>1. /\ writer.pc = "recv" /\ writer' = [writer EXCEPT !.pc = "rest"]
        /\ UNCHANGED <<stream, chunks, failed>>
        /\ \/ channel # <<>> /\ Head(channel) = Eof /\ channel' = Tail(channel)
           \/ channel = <<>> /\ ~stream.sender /\ channel' = channel
    BY DEF RecvEnd
  <1>2. /\ writer' \in WriterType /\ writer'.pc = "rest" /\ writer'.buf = writer.buf
        /\ writer'.position = writer.position /\ writer'.total = writer.total
        /\ writer'.begun = writer.begun /\ BufStart' = BufStart
    BY <1>0, <1>1 DEF TypeInv, WriterType, BufStart
  <1>3. channel \in Seq(Seq(Nat))
    BY <1>0 DEF TypeInv
  <1>4. stream.pc \in {"request", "streaming", "ended", "dropped"} /\ stream.pc # "request"
    BY <1>0, <1>1 DEF TypeInv, StreamType, StreamInv, Waiting
  \* Eof is the last message, and without it the sender is gone.
  <1>5. channel' = <<>> /\ stream.pc # "streaming"
    <2>1. CASE channel # <<>> /\ Head(channel) = Eof /\ channel' = Tail(channel)
      <3>1. Len(channel) \in Nat \ {0} /\ channel[1] = Eof
        BY <1>3, <2>1, EmptySeq
      <3>2. Len(channel) = 1 /\ stream.pc # "streaming"
        <4>1. 1 \in 1 .. Len(channel)
          BY <3>1
        <4> QED
          BY <1>0, <3>1, <4>1 DEF EofInv
      <3>3. Tail(channel) \in Seq(Seq(Nat)) /\ Len(Tail(channel)) = 0
        BY <1>3, <2>1, <3>2, HeadTailProperties
      <3> QED
        BY <2>1, <3>2, <3>3, EmptySeq
    <2>2. CASE channel = <<>> /\ ~stream.sender /\ channel' = channel
      BY <1>0, <2>2 DEF StreamInv
    <2> QED
      BY <1>1, <2>1, <2>2
  <1>6. TypeInv'
    BY <1>0, <1>1, <1>2, <1>5, EmptySeq DEF TypeInv
  <1>7. StreamInv'
    BY <1>0, <1>1, BodyAlone
  <1>8. ChannelInv'
    <2>1. CASE channel # <<>>
      <3>1. PICK m \in 0 .. FileSize :
              /\ writer.position <= m /\ Head(channel) = Bytes(writer.position, m)
              /\ channel' = Tail(channel) /\ UNCHANGED stream /\ writer'.position = m
                    => ChannelInv'
        BY <1>0, <2>1, Receiving
      <3>2. PICK b \in Nat : b = writer.position
        BY <1>0 DEF TypeInv, WriterType
      <3>3. PICK c \in Nat : c = m
        BY Sizes
      <3>4. b <= c /\ Bytes(b, c) = <<>>
        BY <1>1, <2>1, <3>1, <3>2, <3>3 DEF Eof
      <3>5. m = writer.position
        BY <3>2, <3>3, <3>4, BytesSeq
      <3> QED
        BY <1>1, <1>2, <2>1, <3>1, <3>5
    <2>2. CASE channel = <<>>
      BY <1>0, <1>1, <1>2, <2>2 DEF ChannelInv, Marks, Contiguous
    <2> QED
      BY <2>1, <2>2
  <1>9. EofInv'
    BY <1>1, <1>4, <1>5, EmptySeq DEF EofInv
  <1>10. BufferInv'
    BY <1>0, <1>1, <1>2 DEF BufferInv, Aligned
  <1>11. ChunksAreExact'
    BY <1>0, <1>1 DEF ChunksAreExact
  <1>12. StoredInv'
    BY <1>0, <1>1, <1>2 DEF StoredInv
  <1> QED
    BY <1>6, <1>7, <1>8, <1>9, <1>10, <1>11, <1>12, <1>2 DEF TeeInv

-----------------------------------------------------------------------------
(* The writer cuts its buffer into chunks.                                 *)

\* The chunk the buffer starts in.
LEMMA BufferChunk ==
  ASSUME TypeInv, ChannelInv, BufferInv
  PROVE  LET a == BufStart
             b == writer.position
             k == chunk_index(BufStart)
             s == chunk_byte_start(chunk_index(BufStart))
         IN  /\ a \in Nat /\ b \in Nat /\ k \in Nat /\ s \in Nat
             /\ a <= b /\ b <= FileSize /\ s <= a /\ a < s + ChunkSize
             /\ chunk_byte_start(k + 1) = s + ChunkSize
             /\ writer.buf = Bytes(a, b) /\ Len(writer.buf) = b - a
             /\ a < b => k \in Chunks
  <1>1. /\ BufStart \in Nat /\ writer.position \in Nat
        /\ BufStart <= writer.position /\ writer.position <= FileSize
        /\ Len(writer.buf) = writer.position - BufStart
    BY BufferBounds
  <1>2. PICK k : k = chunk_index(BufStart)
    OBVIOUS
  <1>3. /\ k \in Nat /\ chunk_byte_start(k) <= BufStart
        /\ BufStart < chunk_byte_start(k) + ChunkSize
    BY <1>1, <1>2, IndexBounds
  <1>4. chunk_byte_start(k) \in Nat /\ chunk_byte_start(k + 1) = chunk_byte_start(k) + ChunkSize
    BY <1>3, ByteStart
  <1>5. writer.buf = Bytes(BufStart, writer.position)
    BY DEF BufferInv
  <1>6. BufStart < writer.position => k \in Chunks
    BY <1>1, <1>3, <1>4, ChunkOfFile, Sizes
  <1> QED
    BY <1>1, <1>2, <1>3, <1>4, <1>5, <1>6

LEMMA FlushDoneKeeps ==
  ASSUME TeeInv, FlushDone
  PROVE  TeeInv' /\ BufStart' = BufStart
  <1>0. /\ TypeInv /\ StreamInv /\ ChannelInv /\ EofInv
        /\ BufferInv /\ ChunksAreExact /\ StoredInv
    BY DEF TeeInv
  <1>1. /\ writer.pc = "flush" /\ writer' = [writer EXCEPT !.pc = "recv"]
        /\ UNCHANGED <<stream, channel, chunks, failed>>
        /\ writer.buf = <<>> \/ (Len(writer.buf) < ChunkSize /\ Aligned(BufStart))
    BY DEF FlushDone, Aligned
  <1>2. /\ writer' \in WriterType /\ writer'.pc = "recv" /\ writer'.buf = writer.buf
        /\ writer'.position = writer.position /\ writer'.total = writer.total
        /\ writer'.begun = writer.begun /\ BufStart' = BufStart
    BY <1>0, <1>1 DEF TypeInv, WriterType, BufStart
  <1>3. TypeInv'
    BY <1>0, <1>1, <1>2 DEF TypeInv
  <1>4. StreamInv' /\ ChannelInv' /\ EofInv'
    BY <1>0, <1>1, <1>2, BodyAlone, ChannelAlone
  <1>5. BufferInv'
    BY <1>0, <1>1, <1>2 DEF BufferInv, Aligned
  <1>6. ChunksAreExact'
    BY <1>0, <1>1 DEF ChunksAreExact
  <1>7. StoredInv'
    BY <1>0, <1>1, <1>2 DEF StoredInv
  <1> QED
    BY <1>3, <1>4, <1>5, <1>6, <1>7, <1>2 DEF TeeInv

LEMMA FlushDiscardKeeps ==
  ASSUME TeeInv, FlushDiscard
  PROVE  TeeInv' /\ Frontier' = Frontier
  <1>0. /\ TypeInv /\ StreamInv /\ ChannelInv /\ EofInv
        /\ BufferInv /\ ChunksAreExact /\ StoredInv
    BY DEF TeeInv
  <1>1. PICK a, b, k, s : /\ a = BufStart /\ b = writer.position /\ k = chunk_index(a)
                          /\ s = chunk_byte_start(k)
    OBVIOUS
  <1>2. /\ a \in Nat /\ b \in Nat /\ k \in Nat /\ s \in Nat
        /\ a <= b /\ b <= FileSize /\ s <= a /\ a < s + ChunkSize
        /\ chunk_byte_start(k + 1) = s + ChunkSize
        /\ writer.buf = Bytes(a, b) /\ Len(writer.buf) = b - a
    BY <1>0, <1>1, BufferChunk
  <1>3. /\ writer.pc = "flush" /\ writer.buf # <<>> /\ a # s
        /\ UNCHANGED <<stream, channel, chunks, failed>>
    BY <1>1 DEF FlushDiscard
  <1>4. PICK c : c = a + Least(s + ChunkSize - a, b - a)
    OBVIOUS
  <1>5. c \in Nat /\ a <= c /\ c <= b /\ c <= s + ChunkSize /\ (c = b \/ c = s + ChunkSize)
    BY <1>2, <1>4, Sizes DEF Least
  <1>6. writer' = [writer EXCEPT !.buf = Bytes(c, b)]
    <2>1. writer' = [writer EXCEPT !.buf =
                       SubSeq(writer.buf, Least(s + ChunkSize - a, b - a) + 1, b - a)]
      <3>1. chunk_byte_start(chunk_index(BufStart) + 1) - BufStart = s + ChunkSize - a
        BY <1>1, <1>2, Sizes
      <3> QED
        BY <1>2, <3>1, Zenon DEF FlushDiscard
    <2>2. Least(s + ChunkSize - a, b - a) + 1 = c - a + 1
      BY <1>2, <1>4, Sizes DEF Least
    <2>3. SubSeq(Bytes(a, b), c - a + 1, b - a) = Bytes(c, b)
      BY <1>2, <1>5, BytesSub
    <2> QED
      BY <1>2, <2>1, <2>2, <2>3
  <1>7. Bytes(c, b) \in Seq(Nat) /\ Len(Bytes(c, b)) = b - c /\ (c = b => Bytes(c, b) = <<>>)
    BY <1>2, <1>5, BytesSeq
  <1>8. /\ writer'.pc = "flush" /\ writer'.buf = Bytes(c, b) /\ writer'.position = b
        /\ writer'.total = writer.total /\ writer'.begun = writer.begun
    BY <1>0, <1>1, <1>3, <1>6 DEF TypeInv, WriterType
  <1>9. writer' \in WriterType
    BY <1>0, <1>6, <1>7 DEF TypeInv, WriterType
  <1>10. BufStart' = c
    <2>1. BufStart' = b - Len(Bytes(c, b))
      BY <1>8 DEF BufStart
    <2> QED
      BY <1>2, <1>5, <1>7, <2>1
  <1>11. TypeInv'
    BY <1>0, <1>3, <1>9 DEF TypeInv
  <1>12. StreamInv' /\ ChannelInv' /\ EofInv'
    BY <1>0, <1>1, <1>3, <1>8, BodyAlone, ChannelAlone
  \* The stream began in this chunk, which is what makes it partial.
  <1>13. s < writer.begun /\ writer.begun <= c /\ writer.begun \in Nat
    BY <1>0, <1>1, <1>2, <1>3, <1>5 DEF BufferInv, Aligned, TypeInv, WriterType
  <1>14. Aligned(c) \/ chunk_byte_start(chunk_index(c)) < writer.begun
    <2>1. CASE c = s + ChunkSize
      <3>1. k + 1 \in Nat /\ chunk_byte_start(k + 1) = c /\ c < c + ChunkSize
        BY <1>2, <1>5, <2>1, Sizes
      <3>2. chunk_index(c) = k + 1
        BY <1>5, <3>1, IndexIs
      <3> QED
        BY <3>1, <3>2 DEF Aligned
    <2>2. CASE c < s + ChunkSize
      <3>1. chunk_byte_start(k) <= c /\ c < chunk_byte_start(k) + ChunkSize
        BY <1>1, <1>2, <1>5, <2>2
      <3>2. chunk_index(c) = k
        BY <1>2, <1>5, <3>1, IndexIs
      <3> QED
        BY <1>1, <1>13, <3>2
    <2> QED
      BY <1>2, <1>5, <2>1, <2>2, Sizes
  <1>15. BufferInv'
    BY <1>5, <1>8, <1>10, <1>13, <1>14 DEF BufferInv, Aligned
  <1>16. ChunksAreExact'
    BY <1>0, <1>3 DEF ChunksAreExact
  <1>17. StoredInv'
    <2> SUFFICES ASSUME NEW n \in Chunks, writer.begun <= chunk_byte_start(n),
                        chunk_byte_start(n + 1) <= c
                 PROVE  FALSE
      BY <1>3, <1>8, <1>10 DEF StoredInv
    <2>1. n \in Nat
      BY ChunkOfFile
    <2>2. chunk_byte_start(n) \in Nat /\ chunk_byte_start(n + 1) = chunk_byte_start(n) + ChunkSize
      BY <2>1, ByteStart
    <2>3. s < chunk_byte_start(n) /\ chunk_byte_start(n) <= s
      BY <1>2, <1>5, <1>13, <2>2, Sizes
    <2> QED
      BY <1>2, <2>2, <2>3
  <1>18. Frontier' = Frontier
    <2>1. a + ChunkSize - 1 \in Nat /\ c + ChunkSize - 1 \in Nat /\ k + 1 \in Nat
      BY <1>2, <1>5, Sizes
    <2>2. /\ chunk_byte_start(k + 1) <= a + ChunkSize - 1
          /\ a + ChunkSize - 1 < chunk_byte_start(k + 1) + ChunkSize
          /\ chunk_byte_start(k + 1) <= c + ChunkSize - 1
          /\ c + ChunkSize - 1 < chunk_byte_start(k + 1) + ChunkSize
      BY <1>2, <1>3, <1>5, Sizes
    <2>3. chunk_index(a + ChunkSize - 1) = k + 1 /\ chunk_index(c + ChunkSize - 1) = k + 1
      BY <2>1, <2>2, IndexIs
    <2> QED
      BY <1>1, <1>10, <2>3 DEF Frontier
  <1> QED
    BY <1>11, <1>12, <1>15, <1>16, <1>17, <1>18 DEF TeeInv

LEMMA FlushChunkKeeps ==
  ASSUME TeeInv, FlushChunk
  PROVE  TeeInv' /\ BufStart' = BufStart + ChunkSize
  <1>0. /\ TypeInv /\ StreamInv /\ ChannelInv /\ EofInv
        /\ BufferInv /\ ChunksAreExact /\ StoredInv
    BY DEF TeeInv
  <1>1. PICK a, b, k, s : /\ a = BufStart /\ b = writer.position /\ k = chunk_index(a)
                          /\ s = chunk_byte_start(k)
    OBVIOUS
  <1>2. /\ a \in Nat /\ b \in Nat /\ k \in Nat /\ s \in Nat
        /\ a <= b /\ b <= FileSize
        /\ chunk_byte_start(k + 1) = s + ChunkSize
        /\ writer.buf = Bytes(a, b) /\ Len(writer.buf) = b - a
        /\ a < b => k \in Chunks
    BY <1>0, <1>1, BufferChunk
  <1>3. /\ writer.pc = "flush" /\ a = s /\ Len(writer.buf) >= ChunkSize
        /\ UNCHANGED <<stream, channel>>
    BY <1>1 DEF FlushChunk
  <1>4. PICK c \in Nat : c = s + ChunkSize
    BY <1>2, Sizes
  <1>5. c <= b /\ a < c /\ k \in Chunks /\ c - a = ChunkSize
    BY <1>2, <1>3, <1>4, Sizes
  <1>b. a \in Nat /\ b \in Nat /\ c \in Nat /\ a <= c /\ c <= b
    BY <1>2, <1>4, <1>5
  \* The head of the buffer is the chunk.
  <1>6. SubSeq(writer.buf, 1, ChunkSize) = Copy(k)
    <2>1. SubSeq(Bytes(a, b), a - a + 1, c - a) = Bytes(a, c)
      BY <1>b, BytesSub
    <2>2. a - a + 1 = 1
      BY <1>2
    <2>3. Copy(k) = Bytes(a, c)
      <3>1. Copy(k) = Bytes(s, Least(s + ChunkSize, FileSize))
        BY <1>1, <1>2 DEF Copy
      <3>2. Least(s + ChunkSize, FileSize) = c
        BY <1>2, <1>4, <1>5, Sizes DEF Least
      <3> QED
        BY <1>3, <3>1, <3>2
    <2> QED
      BY <1>2, <1>5, <2>1, <2>2, <2>3
  <1>7. writer' = [writer EXCEPT !.buf = Bytes(c, b)]
    <2>1. writer' = [writer EXCEPT !.buf = SubSeq(writer.buf, ChunkSize + 1, b - a)]
      BY <1>2 DEF FlushChunk
    <2>2. ChunkSize + 1 = c - a + 1
      BY <1>5
    <2>3. SubSeq(Bytes(a, b), c - a + 1, b - a) = Bytes(c, b)
      BY <1>b, BytesSub
    <2> QED
      BY <1>2, <2>1, <2>2, <2>3
  <1>8. Bytes(c, b) \in Seq(Nat) /\ Len(Bytes(c, b)) = b - c
    BY <1>2, <1>4, <1>5, BytesSeq
  <1>9. /\ writer'.pc = "flush" /\ writer'.buf = Bytes(c, b) /\ writer'.position = b
        /\ writer'.total = writer.total /\ writer'.begun = writer.begun
    BY <1>0, <1>1, <1>3, <1>7 DEF TypeInv, WriterType
  <1>10. writer' \in WriterType
    BY <1>0, <1>7, <1>8 DEF TypeInv, WriterType
  <1>11. BufStart' = c
    <2>1. BufStart' = b - Len(Bytes(c, b))
      BY <1>9 DEF BufStart
    <2> QED
      BY <1>2, <1>4, <1>5, <1>8, <2>1
  <1>12. \/ chunks' = [chunks EXCEPT ![k] = Copy(k)] /\ failed' = failed
         \/ failed' = failed \cup {k} /\ chunks' = chunks
    BY <1>1, <1>6 DEF FlushChunk, Store
  <1>13. TypeInv'
    <2>1. Copy(k) \in Seq(Nat)
      BY <1>5, CopySeq
    <2> QED
      BY <1>0, <1>3, <1>5, <1>10, <1>12, <2>1 DEF TypeInv
  <1>14. StreamInv' /\ ChannelInv' /\ EofInv'
    BY <1>0, <1>1, <1>3, <1>9, BodyAlone, ChannelAlone
  <1>15. BufferInv'
    <2>1. chunk_index(c) = k + 1
      <3>1. k + 1 \in Nat /\ chunk_byte_start(k + 1) <= c
            /\ c < chunk_byte_start(k + 1) + ChunkSize
        BY <1>2, <1>4, Sizes
      <3> QED
        BY <1>4, <3>1, IndexIs
    <2>2. Aligned(c)
      BY <1>2, <1>4, <2>1 DEF Aligned
    <2>3. writer.begun <= c
      <3>1. writer.begun \in Nat /\ writer.begun <= a
        BY <1>0, <1>1 DEF BufferInv, TypeInv, WriterType
      <3> QED
        BY <1>b, <1>5, <3>1
    <2> QED
      BY <1>4, <1>9, <1>11, <2>2, <2>3 DEF BufferInv, Aligned
  <1>16. ASSUME NEW n \in Chunks
         PROVE  chunks'[n] = chunks[n] \/ (n = k /\ chunks'[n] = Copy(k))
    BY <1>0, <1>12 DEF TypeInv
  <1>17. ChunksAreExact'
    BY <1>0, <1>16 DEF ChunksAreExact
  <1>18. StoredInv'
    <2> SUFFICES ASSUME NEW n \in Chunks \ failed', writer.begun <= chunk_byte_start(n),
                        chunk_byte_start(n + 1) <= c
                 PROVE  chunks'[n] = Copy(n)
      BY <1>9, <1>11 DEF StoredInv
    <2>1. CASE n = k
      BY <1>0, <1>12, <2>1 DEF TypeInv
    <2>2. CASE n # k
      <3>1. n \in Nat /\ n \in Chunks \ failed
        BY <1>12, ChunkOfFile
      <3>2. chunk_byte_start(n) \in Nat /\ chunk_byte_start(n + 1) = chunk_byte_start(n) + ChunkSize
        BY <3>1, ByteStart
      <3>3. ~(k < n)
        BY <1>1, <1>2, <1>4, <3>1, <3>2, ByteStartGrows, Sizes
      <3>4. n < k
        BY <1>2, <2>2, <3>1, <3>3
      <3>5. chunk_byte_start(n) + ChunkSize <= s
        BY <1>1, <1>2, <3>1, <3>4, ByteStartGrows
      <3>6. chunk_byte_start(n + 1) <= BufStart
        BY <1>1, <1>3, <3>2, <3>5
      <3>7. chunks[n] = Copy(n)
        BY <1>0, <1>3, <3>1, <3>6 DEF StoredInv
      <3> QED
        BY <1>16, <2>2, <3>7
    <2> QED
      BY <2>1, <2>2
  <1> QED
    BY <1>13, <1>14, <1>15, <1>17, <1>18, <1>1, <1>3, <1>4, <1>11 DEF TeeInv

LEMMA RestKeeps ==
  ASSUME TeeInv, Rest
  PROVE  TeeInv' /\ BufStart' = writer.position
  <1>0. /\ TypeInv /\ StreamInv /\ ChannelInv /\ EofInv
        /\ BufferInv /\ ChunksAreExact /\ StoredInv
    BY DEF TeeInv
  <1>1. PICK a, b, k, s : /\ a = BufStart /\ b = writer.position /\ k = chunk_index(a)
                          /\ s = chunk_byte_start(k)
    OBVIOUS
  <1>2. /\ a \in Nat /\ b \in Nat /\ k \in Nat /\ s \in Nat
        /\ a <= b /\ b <= FileSize /\ s <= a /\ a < s + ChunkSize
        /\ chunk_byte_start(k + 1) = s + ChunkSize
        /\ writer.buf = Bytes(a, b) /\ Len(writer.buf) = b - a
        /\ a < b => k \in Chunks
    BY <1>0, <1>1, BufferChunk
  <1>3. /\ writer.pc = "rest" /\ UNCHANGED <<stream, channel>>
        /\ writer' = [writer EXCEPT !.pc = "done", !.buf = <<>>]
        /\ IF LastChunk THEN Store(k, writer.buf) ELSE UNCHANGED <<chunks, failed>>
    BY <1>1 DEF Rest
  <1>4. /\ writer' \in WriterType /\ writer'.pc = "done" /\ writer'.buf = <<>>
        /\ writer'.position = b /\ writer'.total = writer.total /\ writer'.begun = writer.begun
    BY <1>0, <1>1, <1>3, EmptySeq DEF TypeInv, WriterType
  <1>5. BufStart' = b
    BY <1>2, <1>4, EmptySeq DEF BufStart
  <1>6. writer.buf = <<>> <=> a = b
    BY <1>2, BytesSeq
  <1>7. a < b => a = s /\ b < s + ChunkSize
    <2>1. writer.buf = <<>> \/ (Len(writer.buf) < ChunkSize /\ Aligned(BufStart))
      BY <1>0, <1>3 DEF BufferInv
    <2>2. Aligned(BufStart) => a = s
      BY <1>1 DEF Aligned
    <2>3. a < b => Aligned(BufStart) /\ b - a < ChunkSize
      BY <1>2, <1>6, <2>1
    <2> QED
      BY <1>2, <2>2, <2>3, Sizes
  \* A rest that is stored is the file from the chunk's start to its end.
  <1>8. ASSUME a < b, writer.total # Unknown, b >= writer.total
        PROVE  LastChunk /\ writer.buf = Copy(k)
    <2>1. writer.total = FileSize
      BY <1>0, <1>8 DEF TypeInv, WriterType
    <2>2. b = FileSize
      BY <1>2, <1>8, <2>1, Sizes
    <2>3. Copy(k) = Bytes(s, Least(s + ChunkSize, FileSize))
      BY <1>1, <1>2 DEF Copy
    <2>4. Least(s + ChunkSize, FileSize) = b
      BY <1>2, <1>7, <1>8, <2>2, Sizes DEF Least
    <2>5. LastChunk
      BY <1>1, <1>6, <1>7, <1>8, <1>2 DEF LastChunk
    <2> QED
      BY <1>2, <1>7, <1>8, <2>3, <2>4, <2>5
  <1>9. LastChunk => a < b /\ writer.total # Unknown /\ b >= writer.total
    BY <1>1, <1>2, <1>6 DEF LastChunk
  <1>10. \/ chunks' = chunks /\ failed' = failed /\ ~LastChunk
         \/ k \in Chunks /\ chunks' = [chunks EXCEPT ![k] = Copy(k)] /\ failed' = failed
         \/ k \in Chunks /\ failed' = failed \cup {k} /\ chunks' = chunks
    BY <1>2, <1>3, <1>8, <1>9 DEF Store
  <1>11. TypeInv'
    <2>1. k \in Chunks => Copy(k) \in Seq(Nat)
      BY CopySeq
    <2> QED
      BY <1>0, <1>3, <1>4, <1>10, <2>1 DEF TypeInv
  <1>12. StreamInv' /\ ChannelInv' /\ EofInv'
    BY <1>0, <1>1, <1>3, <1>4, BodyAlone, ChannelAlone
  <1>13. BufferInv'
    <2>1. Bytes(b, b) = <<>>
      BY <1>2, BytesSeq
    <2>2. writer.begun \in Nat /\ writer.begun <= a
      BY <1>0, <1>1 DEF BufferInv, TypeInv, WriterType
    <2>3. writer.begun <= b
      BY <1>2, <2>2
    <2> QED
      BY <1>2, <1>4, <1>5, <2>1, <2>3 DEF BufferInv
  <1>14. ASSUME NEW n \in Chunks
         PROVE  chunks'[n] = chunks[n] \/ chunks'[n] = Copy(n)
    BY <1>0, <1>10 DEF TypeInv
  <1>15. ChunksAreExact'
    BY <1>0, <1>14 DEF ChunksAreExact
  <1>16. StoredInv'
    <2> SUFFICES ASSUME NEW n \in Chunks \ failed', writer.begun <= chunk_byte_start(n),
                        chunk_byte_start(n) + Len(Copy(n)) <= b,
                        Len(Copy(n)) = ChunkSize \/ writer.total # Unknown
                 PROVE  chunks'[n] = Copy(n)
      BY <1>4 DEF StoredInv
    <2>1. PICK t, e : t = chunk_byte_start(n) /\ e = chunk_byte_start(n + 1)
      OBVIOUS
    <2>2. /\ n \in Nat /\ t \in Nat /\ t < FileSize /\ e = t + ChunkSize
          /\ \/ Len(Copy(n)) = ChunkSize
             \/ Len(Copy(n)) = FileSize - t
      <3>1. n \in Nat /\ t < FileSize
        BY <2>1, ChunkOfFile
      <3>2. t \in Nat /\ e = t + ChunkSize
        BY <2>1, <3>1, ByteStart
      <3>3. Len(Copy(n)) = Least(e, FileSize) - t
        BY <2>1, CopySeq
      <3> QED
        BY <3>1, <3>2, <3>3, Sizes DEF Least
    <2>a. PICK l \in Nat : /\ l = Len(Copy(n)) /\ l > 0 /\ t + l <= b
                           /\ l = ChunkSize \/ l = FileSize - t
      BY <2>1, <2>2, Sizes
    <2>3. CASE e <= a
      <3>1. chunks[n] = Copy(n)
        BY <1>0, <1>1, <1>3, <1>10, <2>1, <2>3 DEF StoredInv
      <3> QED
        BY <1>14, <3>1
    \* The chunk of the rest is the only one left.
    <2>4. CASE a < e
      <3>1. CASE a = b
        <4>1. b = FileSize /\ t < a /\ a < e
          BY <1>2, <2>2, <2>4, <2>a, <3>1, Sizes
        <4>2. k = n
          <5>1. chunk_byte_start(n) <= a /\ a < chunk_byte_start(n) + ChunkSize
            BY <1>2, <2>1, <2>2, <4>1
          <5> QED
            BY <1>1, <1>2, <2>2, <5>1, IndexIs
        <4>3. ~Aligned(a) /\ s < writer.begun
          BY <1>0, <1>1, <1>3, <2>1, <2>2, <4>1, <4>2, <1>2 DEF BufferInv, Aligned
        <4>4. s = t /\ writer.begun <= t
          BY <1>1, <2>1, <4>2
        <4>5. writer.begun \in Nat
          BY <1>0 DEF TypeInv, WriterType
        <4> QED
          BY <1>2, <4>3, <4>4, <4>5
      <3>2. CASE a < b
        <4>1. t < b /\ b < s + ChunkSize
          BY <1>2, <1>7, <2>2, <2>a, <3>2, Sizes
        <4>2. k = n
          <5>1. ~(k < n)
            <6>1. k < n => s + ChunkSize <= t
              BY <1>1, <1>2, <2>1, <2>2, ByteStartGrows
            <6> QED
              BY <1>2, <2>2, <4>1, <6>1, Sizes
          <5>2. ~(n < k)
            <6>1. n < k => t + ChunkSize <= s
              BY <1>1, <1>2, <2>1, <2>2, ByteStartGrows
            <6> QED
              BY <1>2, <1>7, <2>2, <2>4, <3>2, <6>1, Sizes
          <5> QED
            BY <1>2, <2>2, <5>1, <5>2
        <4>3. t = s /\ b = FileSize /\ writer.total # Unknown
          <5>1. t = s
            BY <1>1, <2>1, <4>2
          <5>2. l # ChunkSize
            BY <1>2, <2>a, <4>1, <5>1, Sizes
          <5>3. l = FileSize - t
            BY <2>a, <5>2
          <5> QED
            BY <1>2, <2>2, <2>a, <5>1, <5>2, <5>3, Sizes
        <4>4. b >= writer.total
          BY <1>0, <1>2, <4>3, Sizes DEF TypeInv, WriterType
        <4>5. LastChunk
          BY <1>8, <3>2, <4>3, <4>4
        <4> QED
          BY <1>0, <1>10, <4>2, <4>5 DEF TypeInv
      <3> QED
        BY <1>2, <3>1, <3>2
    <2> QED
      BY <1>2, <2>2, <2>3, <2>4, Sizes
  <1> QED
    BY <1>1, <1>5, <1>11, <1>12, <1>13, <1>15, <1>16 DEF TeeInv

-----------------------------------------------------------------------------
(* The invariant, and what it says.                                        *)

LEMMA InitIsSound ==
  ASSUME Init
  PROVE  TeeInv
  <1>1. /\ stream = Idle /\ channel = <<>> /\ writer = Waiting
        /\ chunks = [n \in Chunks |-> None] /\ failed = {}
    BY DEF Init
  <1>2. stream \in StreamType /\ writer \in WriterType
    BY <1>1, EmptySeq DEF Idle, Waiting, StreamType, WriterType
  <1>3. TypeInv
    BY <1>1, <1>2, EmptySeq DEF TypeInv, None
  <1>4. /\ stream.pc = "request" /\ stream.next = 0 /\ stream.last = 0 /\ stream.sender
        /\ writer.pc = "none" /\ writer.buf = <<>> /\ writer.position = 0 /\ writer.begun = 0
    BY <1>1 DEF Idle, Waiting
  <1>5. StreamInv
    BY <1>1, <1>4, Sizes DEF StreamInv
  <1>6. ChannelInv
    <2>1. Len(channel) = 0 /\ 1 .. Len(channel) = {} /\ Len(channel) + 1 = 1
      BY <1>1, EmptySeq
    <2>2. PICK marks : marks = [i \in 1 .. 1 |-> 0]
      OBVIOUS
    <2>3. marks \in Marks /\ marks[1] = 0
      BY <2>1, <2>2, Sizes DEF Marks
    <2>4. Contiguous(marks)
      BY <1>4, <2>1, <2>3 DEF Contiguous
    <2> QED
      BY <2>3, <2>4 DEF ChannelInv
  <1>7. EofInv
    BY <1>1, <1>4, EmptySeq DEF EofInv
  <1>8. BufStart = 0
    <2>1. Len(writer.buf) = 0 /\ writer.position = 0
      BY <1>4
    <2> QED
      BY <2>1 DEF BufStart
  <1>9. chunk_index(0) = 0 /\ chunk_byte_start(0) = 0
    BY Sizes DEF chunk_index, chunk_byte_start
  <1>10. BufferInv
    <2>1. Bytes(0, 0) = <<>>
      BY BytesSeq
    <2> QED
      BY <1>4, <1>8, <1>9, <2>1 DEF BufferInv, Aligned
  <1>11. ChunksAreExact
    BY <1>1 DEF ChunksAreExact
  <1>12. StoredInv
    <2> SUFFICES ASSUME NEW n \in Chunks PROVE ~(chunk_byte_start(n + 1) <= BufStart)
      BY <1>4 DEF StoredInv
    <2>1. n \in Nat
      BY ChunkOfFile
    <2> QED
      BY <1>8, <2>1, ByteStart, Sizes
  <1> QED
    BY <1>3, <1>5, <1>6, <1>7, <1>10, <1>11, <1>12 DEF TeeInv

LEMMA StepIsSound ==
  ASSUME TeeInv, [Next]_vars
  PROVE  TeeInv'
  <1>1. CASE Respond
    BY <1>1, RespondKeeps
  <1>2. CASE PollData
    BY <1>2, PollDataKeeps
  <1>3. CASE PollEnd
    BY <1>3, PollEndKeeps
  <1>4. CASE Drop
    BY <1>4, DropKeeps
  <1>5. CASE RecvData
    BY <1>5, RecvDataKeeps
  <1>6. CASE RecvEnd
    BY <1>6, RecvEndKeeps
  <1>7. CASE FlushDiscard
    BY <1>7, FlushDiscardKeeps
  <1>8. CASE FlushChunk
    BY <1>8, FlushChunkKeeps
  <1>9. CASE FlushDone
    BY <1>9, FlushDoneKeeps
  <1>10. CASE Rest
    BY <1>10, RestKeeps
  <1>11. CASE UNCHANGED vars
    <2>1. TypeInv' /\ StreamInv' /\ EofInv'
      BY <1>11 DEF TeeInv, vars, TypeInv, StreamInv, EofInv
    <2>2. ChannelInv'
      BY <1>11 DEF TeeInv, vars, ChannelInv, Marks, Contiguous
    <2>3. BufferInv' /\ ChunksAreExact' /\ StoredInv'
      BY <1>11, WriterAlone DEF TeeInv, vars
    <2> QED
      BY <2>1, <2>2, <2>3 DEF TeeInv
  <1> QED
    BY <1>1, <1>2, <1>3, <1>4, <1>5, <1>6, <1>7, <1>8, <1>9, <1>10, <1>11
       DEF Next, WriterStep

\* In every reachable state the writer's buffer and the channel together hold
\* the upstream file without a gap, from the first byte not yet cut into
\* chunks.
THEOREM TeeIsSound == Spec => []TeeInv
  <1>1. Init => TeeInv
    BY InitIsSound
  <1>2. TeeInv /\ [Next]_vars => TeeInv'
    BY StepIsSound
  <1> QED
    BY <1>1, <1>2, PTL DEF Spec

\* flush_complete_chunks and the end of tee_writer_task only ever store a
\* whole, aligned chunk of the upstream file, for every size of chunk, file,
\* piece and channel.
THEOREM ChunksAreAlwaysExact == Spec => []ChunksAreExact
  <1>1. TeeInv => ChunksAreExact
    BY DEF TeeInv
  <1> QED
    BY <1>1, TeeIsSound, PTL

\* A body that came through to its end without poisoning the tee leaves every
\* chunk it covers on disk, unless store_chunk failed.
THEOREM NothingIsLeftOut == Spec => []WholeBodyIsCached
  <1>1. ASSUME TeeInv PROVE WholeBodyIsCached
    <2> SUFFICES ASSUME writer.pc = "done", ~stream.cut, ~stream.poisoned,
                        NEW n \in Chunks \ failed, Covered(n)
                 PROVE  chunks[n] = Copy(n)
      BY DEF WholeBodyIsCached
    <2>1. TypeInv /\ StreamInv /\ ChannelInv /\ EofInv /\ StoredInv
      BY <1>1 DEF TeeInv
    <2>2. channel = <<>> /\ stream.next = stream.last + 1
      BY <2>1 DEF EofInv, StreamInv
    <2>3. PICK marks \in Marks : Contiguous(marks)
      BY <2>1 DEF ChannelInv
    <2>4. Len(channel) + 1 = 1
      BY <2>2, EmptySeq
    <2>5. writer.position = stream.last + 1 /\ stream.last \in Nat
      BY <2>1, <2>2, <2>3, <2>4 DEF Contiguous, TypeInv, StreamType
    <2>6. chunk_byte_start(n) \in Nat /\ Len(Copy(n)) \in Nat
      BY CopySeq, LenProperties
    <2>7. /\ writer.begun <= chunk_byte_start(n)
          /\ chunk_byte_start(n) + Len(Copy(n)) <= writer.position
          /\ Len(Copy(n)) = ChunkSize \/ writer.total # Unknown
      BY <2>5, <2>6 DEF Covered
    <2> QED
      BY <2>1, <2>7 DEF StoredInv
  <1> QED
    BY <1>1, TeeIsSound, PTL

-----------------------------------------------------------------------------
(* Refinement: the tee copies chunk by chunk, and only forwards.           *)

LEMMA FrontierIs ==
  ASSUME NEW a \in Nat
  PROVE  chunk_index(a + ChunkSize - 1)
           = IF Aligned(a) THEN chunk_index(a) ELSE chunk_index(a) + 1
  <1>1. PICK k, s : k = chunk_index(a) /\ s = chunk_byte_start(k)
    OBVIOUS
  <1>2. /\ k \in Nat /\ k + 1 \in Nat /\ s \in Nat /\ s <= a /\ a < s + ChunkSize
        /\ chunk_byte_start(k + 1) = s + ChunkSize
    BY <1>1, IndexBounds, ByteStart
  <1>3. a + ChunkSize - 1 \in Nat
    BY Sizes
  <1>4. CASE a = s
    <2>1. /\ chunk_byte_start(k) <= a + ChunkSize - 1
          /\ a + ChunkSize - 1 < chunk_byte_start(k) + ChunkSize
      BY <1>1, <1>2, <1>4, Sizes
    <2>2. chunk_index(a + ChunkSize - 1) = k
      BY <1>2, <1>3, <2>1, IndexIs
    <2> QED
      BY <1>1, <1>4, <2>2 DEF Aligned
  <1>5. CASE a # s
    <2>1. /\ chunk_byte_start(k + 1) <= a + ChunkSize - 1
          /\ a + ChunkSize - 1 < chunk_byte_start(k + 1) + ChunkSize
      BY <1>2, <1>5, Sizes
    <2>2. chunk_index(a + ChunkSize - 1) = k + 1
      BY <1>2, <1>3, <2>1, IndexIs
    <2> QED
      BY <1>1, <1>5, <2>2 DEF Aligned
  <1> QED
    BY <1>4, <1>5

\* A stream that begins within the file leaves out the chunks before it.
LEMMA RespondCopies ==
  ASSUME TeeInv, Respond
  PROVE  /\ chunks' = chunks
         /\ Frontier = 0
         /\ Frontier' = 0 \/ \E n \in Chunks : Frontier' = n + 1
  <1>1. PICK from, to \in 0 .. FileSize - 1, total \in {FileSize, Unknown} :
          from <= to /\ Tee(from, to, from, total)
    BY DEF Respond
  <1>2. /\ chunks' = chunks
        /\ writer' = [pc |-> "recv", buf |-> <<>>, position |-> from, total |-> total,
                      begun |-> from]
    BY <1>1 DEF Tee, Waiting
  <1>3. writer = Waiting
    BY DEF Respond, TeeInv, StreamInv
  <1>4. BufStart = 0 /\ BufStart' = from
    <2>1. /\ Len(writer.buf) = 0 /\ writer.position = 0
          /\ Len(writer'.buf) = 0 /\ writer'.position = from
      BY <1>2, <1>3 DEF Waiting
    <2>2. from \in Nat
      BY Sizes
    <2> QED
      BY <2>1, <2>2 DEF BufStart
  <1>5. from \in Nat /\ from < FileSize
    BY Sizes
  <1>6. Frontier = 0
    <2>1. chunk_byte_start(0) <= ChunkSize - 1 /\ ChunkSize - 1 < chunk_byte_start(0) + ChunkSize
      BY Sizes DEF chunk_byte_start
    <2>2. chunk_index(ChunkSize - 1) = 0
      BY <2>1, Sizes, IndexIs
    <2>3. 0 + ChunkSize - 1 = ChunkSize - 1
      BY Sizes
    <2> QED
      BY <1>4, <2>2, <2>3 DEF Frontier
  <1>7. PICK k : k = chunk_index(from)
    OBVIOUS
  <1>8. k \in Nat /\ chunk_byte_start(k) <= from
    BY <1>5, <1>7, IndexBounds
  <1>9. Frontier' = k \/ Frontier' = k + 1
    BY <1>4, <1>5, <1>7, FrontierIs DEF Frontier
  <1>10. ASSUME NEW n \in Nat, n <= k PROVE n \in Chunks
    <2>1. chunk_byte_start(n) \in Nat /\ chunk_byte_start(k) \in Nat
      BY <1>8, ByteStart
    <2>2. chunk_byte_start(n) <= chunk_byte_start(k)
      BY <1>8, <1>10, <2>1, ByteStartGrows, Sizes
    <2> QED
      BY <1>5, <1>8, <2>1, <2>2, ChunkOfFile, Sizes
  <1>11. CASE k = 0
    BY <1>2, <1>6, <1>8, <1>9, <1>10, <1>11
  <1>12. CASE k # 0
    <2>1. PICK j \in Nat : j + 1 = k
      <3>1. k - 1 \in Nat /\ k - 1 + 1 = k
        BY <1>8, <1>12
      <3> QED
        BY <3>1
    <2>2. k \in Chunks /\ j \in Chunks
      BY <1>8, <1>10, <2>1
    <2>3. Frontier' = j + 1 \/ Frontier' = k + 1
      BY <1>9, <2>1
    <2> QED
      BY <1>2, <1>6, <2>2, <2>3
  <1> QED
    BY <1>11, <1>12

\* A full chunk is written or, when the store fails, left out.
LEMMA FlushChunkCopies ==
  ASSUME TeeInv, FlushChunk
  PROVE  /\ Frontier \in Chunks /\ Frontier' = Frontier + 1
         /\ chunks' = chunks \/ chunks' = [chunks EXCEPT ![Frontier] = Copy(Frontier)]
  <1>1. PICK a, b, k : a = BufStart /\ b = writer.position /\ k = chunk_index(a)
    OBVIOUS
  <1>2. /\ a \in Nat /\ b \in Nat /\ k \in Nat /\ a <= b /\ b <= FileSize
        /\ chunk_byte_start(k + 1) = chunk_byte_start(k) + ChunkSize
        /\ writer.buf = Bytes(a, b) /\ Len(writer.buf) = b - a
        /\ a < b => k \in Chunks
    BY <1>1, BufferChunk DEF TeeInv
  <1>3. Len(writer.buf) >= ChunkSize /\ Aligned(a) /\ a = chunk_byte_start(k)
    BY <1>1 DEF FlushChunk, Aligned
  <1>4. Frontier = k
    BY <1>1, <1>2, <1>3, FrontierIs DEF Frontier
  <1>5. PICK c \in Nat : c = a + ChunkSize
    BY <1>2, Sizes
  <1>6. c <= b /\ a < c /\ c - a = ChunkSize /\ k \in Chunks
    BY <1>2, <1>3, <1>5, Sizes
  <1>7. Frontier' = k + 1
    <2>1. k + 1 \in Nat /\ c = chunk_byte_start(k + 1)
      BY <1>2, <1>3, <1>5
    <2>2. chunk_index(c) = k + 1
      BY <1>5, <2>1, Sizes, IndexIs
    <2>3. chunk_index(c + ChunkSize - 1) = k + 1
      BY <1>5, <2>1, <2>2, FrontierIs DEF Aligned
    <2>4. BufStart' = c
      BY <1>1, <1>5, FlushChunkKeeps
    <2> QED
      BY <2>3, <2>4 DEF Frontier
  <1>8. SubSeq(writer.buf, 1, ChunkSize) = Copy(k)
    <2>1. a \in Nat /\ b \in Nat /\ c \in Nat /\ a <= c /\ c <= b
      BY <1>2, <1>5, <1>6
    <2>2. SubSeq(Bytes(a, b), a - a + 1, c - a) = Bytes(a, c)
      BY <2>1, BytesSub
    <2>3. Copy(k) = Bytes(a, Least(a + ChunkSize, FileSize))
      BY <1>2, <1>3 DEF Copy
    <2>4. Least(a + ChunkSize, FileSize) = c /\ a - a + 1 = 1
      BY <1>2, <1>5, <1>6, Sizes DEF Least
    <2> QED
      BY <1>2, <1>6, <2>2, <2>3, <2>4
  <1>9. chunks' = chunks \/ chunks' = [chunks EXCEPT ![k] = Copy(k)]
    BY <1>1, <1>8 DEF FlushChunk, Store
  <1> QED
    BY <1>4, <1>6, <1>7, <1>9

\* So is the rest; one that is not the last chunk of the file is left out.
LEMMA RestCopies ==
  ASSUME TeeInv, Rest
  PROVE  \/ chunks' = chunks /\ Frontier' = Frontier
         \/ /\ Frontier \in Chunks /\ Frontier' = Frontier + 1
            /\ chunks' = chunks \/ chunks' = [chunks EXCEPT ![Frontier] = Copy(Frontier)]
  <1>1. PICK a, b, k : a = BufStart /\ b = writer.position /\ k = chunk_index(a)
    OBVIOUS
  <1>2. /\ a \in Nat /\ b \in Nat /\ k \in Nat /\ a <= b /\ b <= FileSize
        /\ chunk_byte_start(k) \in Nat
        /\ chunk_byte_start(k + 1) = chunk_byte_start(k) + ChunkSize
        /\ writer.buf = Bytes(a, b) /\ Len(writer.buf) = b - a
        /\ a < b => k \in Chunks
    BY <1>1, BufferChunk DEF TeeInv
  <1>3. BufStart' = b
    BY <1>1, RestKeeps
  <1>4. writer.pc = "rest" /\ (writer.buf = <<>> <=> a = b)
    BY <1>2, BytesSeq DEF Rest
  <1>5. CASE a = b
    <2>1. ~LastChunk
      BY <1>4, <1>5 DEF LastChunk
    <2> QED
      BY <1>1, <1>3, <1>5, <2>1 DEF Rest, Frontier
  <1>6. CASE a < b
    <2>1. /\ b - a < ChunkSize /\ Aligned(a)
      BY <1>1, <1>2, <1>4, <1>6 DEF TeeInv, BufferInv
    <2>2. a = chunk_byte_start(k) /\ Frontier = k
      BY <1>1, <1>2, <2>1, FrontierIs DEF Aligned, Frontier
    <2>3. Frontier' = k + 1
      <3>1. /\ chunk_byte_start(k) <= b /\ b < chunk_byte_start(k) + ChunkSize
            /\ b # chunk_byte_start(k)
        BY <1>2, <1>6, <2>1, <2>2, Sizes
      <3>2. chunk_index(b) = k
        BY <1>2, <3>1, IndexIs
      <3>3. ~Aligned(b)
        BY <3>1, <3>2 DEF Aligned
      <3> QED
        BY <1>2, <1>3, <3>2, <3>3, FrontierIs DEF Frontier
    <2>4. LastChunk => writer.buf = Copy(k)
      <3> SUFFICES ASSUME LastChunk PROVE writer.buf = Copy(k)
        OBVIOUS
      <3>1. b = FileSize
        BY <1>1, <1>2, Sizes DEF LastChunk, TeeInv, TypeInv, WriterType
      <3>2. Copy(k) = Bytes(a, Least(a + ChunkSize, FileSize))
        BY <1>2, <2>2 DEF Copy
      <3>3. Least(a + ChunkSize, FileSize) = b
        BY <1>2, <2>1, <3>1, Sizes DEF Least
      <3> QED
        BY <1>2, <3>2, <3>3
    <2>5. chunks' = chunks \/ chunks' = [chunks EXCEPT ![k] = Copy(k)]
      BY <1>1, <2>4 DEF Rest, Store
    <2> QED
      BY <1>2, <1>6, <2>2, <2>3, <2>5
  <1> QED
    BY <1>2, <1>5, <1>6

\* The tee implements ChunkCopy: whatever it is given and whatever fails, it
\* writes each chunk at most once, with the right bytes and in ascending order.
THEOREM TeeCopiesInOrder == Spec => CopiesInOrder
  <1>1. Init => Copies!Init
    <2> SUFFICES ASSUME Init PROVE Copies!Init
      OBVIOUS
    <2>1. chunks = [n \in Chunks |-> None] /\ BufStart = 0
      <3>1. Len(writer.buf) = 0 /\ writer.position = 0
        BY DEF Init, Waiting
      <3> QED
        BY <3>1 DEF Init, BufStart
    <2>2. chunk_index(0 + ChunkSize - 1) = 0
      BY Sizes, FrontierIs DEF Aligned, chunk_index, chunk_byte_start
    <2> QED
      BY <2>1, <2>2 DEF Copies!Init
  <1>2. TeeInv /\ [Next]_vars
          => [Copies!Next]_<<chunks, chunk_index(BufStart + ChunkSize - 1)>>
    <2> SUFFICES ASSUME TeeInv, [Next]_vars
                 PROVE  Copies!Next \/ (chunks' = chunks /\ Frontier' = Frontier)
      BY DEF Frontier
    <2>0. ASSUME NEW n \in Chunks, Frontier <= n, Frontier' = n + 1,
                 chunks' = chunks \/ chunks' = [chunks EXCEPT ![n] = Copy(n)]
          PROVE  Copies!Next
      <3>1. Frontier \in Nat /\ n \in Nat
        <4>1. BufStart + ChunkSize - 1 \in Nat
          BY Sizes DEF TeeInv, BufferInv
        <4> QED
          BY <4>1, IndexBounds, ChunkOfFile DEF Frontier
      <3> QED
        BY <2>0, <3>1 DEF Copies!Next, Copies!LeaveOut, Copies!Write, Frontier
    <2>1. CASE Respond
      <3>1. chunks' = chunks /\ Frontier = 0
            /\ (Frontier' = 0 \/ \E n \in Chunks : Frontier' = n + 1)
        BY <2>1, RespondCopies
      <3>2. \A n \in Chunks : Frontier <= n
        BY <3>1, ChunkOfFile
      <3> QED
        BY <2>0, <3>1, <3>2
    <2>2. CASE PollData \/ PollEnd \/ Drop
      BY <2>2 DEF PollData, PollEnd, Drop, Frontier, BufStart
    <2>3. CASE RecvData
      BY <2>3, RecvDataKeeps DEF RecvData, Frontier
    <2>4. CASE RecvEnd
      BY <2>4, RecvEndKeeps DEF RecvEnd, Frontier
    <2>5. CASE FlushDiscard
      BY <2>5, FlushDiscardKeeps DEF FlushDiscard
    <2>6. CASE FlushChunk
      BY <2>0, <2>6, FlushChunkCopies, ChunkOfFile
    <2>7. CASE FlushDone
      BY <2>7, FlushDoneKeeps DEF FlushDone, Frontier
    <2>8. CASE Rest
      BY <2>0, <2>8, RestCopies, ChunkOfFile
    <2>9. CASE UNCHANGED vars
      BY <2>9 DEF vars, Frontier, BufStart
    <2> QED
      BY <2>1, <2>2, <2>3, <2>4, <2>5, <2>6, <2>7, <2>8, <2>9 DEF Next, WriterStep
  <1> QED
    BY <1>1, <1>2, TeeIsSound, PTL DEF Spec, CopiesInOrder, Copies!Spec
=============================================================================
