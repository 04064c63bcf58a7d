--------------------------- MODULE VrefBufferProofs ---------------------------
(***************************************************************************)
(* Proofs about VrefBuffer, for any number of buffers and chunks, any      *)
(* writes, chunk sizes and failures: types are kept, every chunk is owned  *)
(* once, the room a buffer takes for free is memory of its chunk, and a    *)
(* buffer holds what was written to it: VrefBuffer implements WriteBuffer. *)
(***************************************************************************)
EXTENDS VrefBuffer, SequenceTheorems, SetInduction, TLAPS

Iovec == [data : Writes] \cup [chunk : Chunks, off : Nat, len : Nat]
Vbuf == [vec : Seq(Iovec), cap : Capacities, chunks : Seq(Chunks), chunk : Chunks,
         off : Nat, free : Int]

\* The chunks are sequences of bytes.
HeapType == heap \in [DOMAIN heap -> Seq(Nat)]

\* What is free is memory, or is counted by a chunk_size that the chunk falls short
\* of; and no chunk falls short of every chunk_size.
Short(c, h) == {d \in Vbufs : Len(h[c]) < ChunkSize[d]}
Room(v, h) ==
    /\ v.free >= 0
    /\ v.off + v.free <= Len(h[v.chunk]) \/ \E d \in Short(v.chunk, h) : v.off + v.free = ChunkSize[d]
RoomInv == \A b \in Vbufs : Room(vbuf[b], heap)
Sized(h) == \A c \in DOMAIN h : \E d \in Vbufs : ChunkSize[d] <= Len(h[c])
Uneven == \E b, d \in Vbufs : ChunkSize[b] < ChunkSize[d]

NotEmpty == \A b \in Vbufs : vbuf[b].chunks # <<>>

Inv ==
    /\ TypeOK
    /\ HeapType
    /\ NotEmpty
    /\ ChunksOwnedOnce
    /\ RoomInv
    /\ Sized(heap)
    /\ overrun = "write" => Uneven

-----------------------------------------------------------------------------
(* Operators                                                               *)

\* The first capacity is one.
LEMMA FirstCapacity == First \in Capacities
  BY VrefAssumption DEF First, Least

\* A chunk that is allocated has its size, and one that is written keeps it.
LEMMA NewChunkType ==
    ASSUME NEW size \in Nat
    PROVE  NewChunk(size) \in Seq(Nat) /\ Len(NewChunk(size)) = size
  BY DEF NewChunk

LEMMA OverwrittenType ==
    ASSUME NEW bytes \in Seq(Nat), NEW off \in Nat, NEW w \in Writes
    PROVE  Overwritten(bytes, off, w) \in Seq(Nat) /\ Len(Overwritten(bytes, off, w)) = Len(bytes)
<1>1. w \in Seq(Nat \ {0})
  BY VrefAssumption
<1>2. DOMAIN bytes = 1..Len(bytes) /\ Len(bytes) \in Nat
  OBVIOUS
<1>3. ASSUME NEW i \in DOMAIN bytes
      PROVE  (IF off < i /\ i <= off + Len(w) THEN w[i - off] ELSE bytes[i]) \in Nat
  <2>1. CASE off < i /\ i <= off + Len(w)
    <3>1. i \in Nat /\ Len(w) \in Nat
      BY <1>1, <1>2
    <3>2. i - off \in 1..Len(w)
      BY <2>1, <3>1
    <3> QED
      BY <1>1, <2>1, <3>2
  <2>2. CASE ~(off < i /\ i <= off + Len(w))
    BY <1>2, <2>2
  <2> QED
    BY <2>1, <2>2
<1> QED
  BY <1>2, <1>3 DEF Overwritten

\* Lists of chunks.
LEMMA JoinedChunks ==
    ASSUME NEW s \in Seq(Chunks), NEW t \in Seq(Chunks),
           IsInjective(s), IsInjective(t), ToSet(s) \cap ToSet(t) = {}
    PROVE  /\ s \o t \in Seq(Chunks)
           /\ ToSet(s \o t) = ToSet(s) \cup ToSet(t)
           /\ IsInjective(s \o t)
BY JoinedElements

LEMMA OneChunk ==
    ASSUME NEW c \in Chunks
    PROVE  <<c>> \in Seq(Chunks) /\ ToSet(<<c>>) = {c} /\ IsInjective(<<c>>)
<1>1. <<c>> \in Seq(Chunks) /\ DOMAIN <<c>> = {1} /\ <<c>>[1] = c
  OBVIOUS
<1> QED
  BY <1>1 DEF ToSet, IsInjective

\* A reference more, at the end.
LEMMA OneMore ==
    ASSUME NEW s \in Seq(Iovec), NEW iov \in Iovec
    PROVE  /\ Append(s, iov) \in Seq(Iovec) /\ Len(Append(s, iov)) = Len(s) + 1
           /\ \A i \in DOMAIN Append(s, iov) :
                 Append(s, iov)[i] = iov \/ (i \in DOMAIN s /\ Append(s, iov)[i] = s[i])
<1>1. /\ Append(s, iov) \in Seq(Iovec) /\ Len(Append(s, iov)) = Len(s) + 1
      /\ Append(s, iov)[Len(s) + 1] = iov /\ \A i \in 1..Len(s) : Append(s, iov)[i] = s[i]
      /\ DOMAIN s = 1..Len(s) /\ Len(s) \in Nat
  BY AppendProperties
<1>2. DOMAIN Append(s, iov) = 1..(Len(s) + 1)
  BY <1>1
<1>3. \A i \in 1..(Len(s) + 1) : i = Len(s) + 1 \/ i \in 1..Len(s)
  BY <1>1
<1> QED
  BY <1>1, <1>2, <1>3

-----------------------------------------------------------------------------
(* Steps that change one buffer                                            *)

Refers(v) == \A i \in DOMAIN v.vec : IsCopy(v.vec[i]) => v.vec[i].chunk \in ToSet(v.chunks)
BufferOK(v) ==
    /\ v \in Vbuf
    /\ v.chunks # <<>> /\ IsInjective(v.chunks)
    /\ v.chunk \in ToSet(v.chunks)
    /\ Refers(v)
    /\ Len(v.vec) <= v.cap

LEMMA EveryBufferOK ==
    ASSUME Inv, overrun = "no", NEW b \in Vbufs
    PROVE  BufferOK(vbuf[b]) /\ Owned(b) \subseteq DOMAIN heap
<1>1. vbuf[b] \in Vbuf /\ Len(vbuf[b].vec) <= vbuf[b].cap
  BY DEF Inv, TypeOK, Vbuf, Iovec
<1>2. /\ vbuf[b].chunks # <<>> /\ IsInjective(vbuf[b].chunks)
      /\ vbuf[b].chunk \in ToSet(vbuf[b].chunks)
  BY DEF Inv, NotEmpty, ChunksOwnedOnce, Owned
<1>3. Refers(vbuf[b])
  BY DEF Inv, ChunksOwnedOnce, Owned, Refers
<1>4. Owned(b) \subseteq DOMAIN heap
  BY DEF Inv, ChunksOwnedOnce
<1> QED
  BY <1>1, <1>2, <1>3, <1>4 DEF BufferOK

\* A buffer with its old chunks, some of them freed, or with chunks that were free.
LEMMA OwnershipKept ==
    ASSUME Inv, overrun = "no",
           NEW b \in Vbufs, NEW u, BufferOK(u),
           vbuf' = [vbuf EXCEPT ![b] = u],
           ToSet(u.chunks) \cap (DOMAIN heap \ Owned(b)) = {},
           DOMAIN heap' = (DOMAIN heap \ Owned(b)) \cup ToSet(u.chunks),
           overrun' \in {"no", "write"}, answer' \in {0, -1}
    PROVE  TypeOK' /\ NotEmpty' /\ ChunksOwnedOnce'
<1>1. vbuf \in [Vbufs -> Vbuf] /\ u \in Vbuf
  BY DEF Inv, TypeOK, Vbuf, Iovec, BufferOK
<1>2. vbuf'[b] = u /\ \A d \in Vbufs \ {b} : vbuf'[d] = vbuf[d]
  BY <1>1
<1>3. Owned(b)' = ToSet(u.chunks) /\ \A d \in Vbufs \ {b} : Owned(d)' = Owned(d)
  BY <1>2 DEF Owned
<1>4. ToSet(u.chunks) \subseteq Chunks
  <2>1. u.chunks \in Seq(Chunks)
    BY <1>1 DEF Vbuf
  <2> QED
    BY <2>1 DEF ToSet
<1>5. TypeOK'
  <2>1. vbuf' \in [Vbufs -> Vbuf]
    BY <1>1
  <2>2. DOMAIN heap' \subseteq Chunks
    BY <1>4 DEF Inv, TypeOK
  <2>3. \A d \in Vbufs : Len(vbuf'[d].vec) <= vbuf'[d].cap
    BY <1>2, EveryBufferOK DEF BufferOK
  <2> QED
    BY <2>1, <2>2, <2>3 DEF TypeOK, Vbuf, Iovec
<1>6. NotEmpty'
  BY <1>2, EveryBufferOK DEF NotEmpty, BufferOK
<1>7. ChunksOwnedOnce'
  <2>1. DOMAIN heap = UNION {Owned(d) : d \in Vbufs}
        /\ \A d \in Vbufs : \A e \in Vbufs \ {d} : Owned(d) \cap Owned(e) = {}
    BY DEF Inv, ChunksOwnedOnce
  <2>2. \A d \in Vbufs \ {b} : Owned(d) \subseteq DOMAIN heap \ Owned(b)
    BY <2>1
  <2>3. DOMAIN heap' = UNION {Owned(d)' : d \in Vbufs}
    <3>1. DOMAIN heap \ Owned(b) = UNION {Owned(d) : d \in Vbufs \ {b}}
      BY <2>1, <2>2
    <3> QED
      BY <1>3, <3>1
  <2>4. \A d \in Vbufs : \A e \in Vbufs \ {d} : Owned(d)' \cap Owned(e)' = {}
    BY <1>3, <2>1, <2>2
  <2>5. \A d \in Vbufs : BufferOK(vbuf'[d])
    BY <1>2, EveryBufferOK
  <2>6. \A d \in Vbufs : Owned(d)' = ToSet(vbuf'[d].chunks)
    BY DEF Owned
  <2>7. \A d \in Vbufs : /\ IsInjective(vbuf'[d].chunks) /\ vbuf'[d].chunk \in Owned(d)'
                         /\ \A i \in DOMAIN vbuf'[d].vec :
                               IsCopy(vbuf'[d].vec[i]) => vbuf'[d].vec[i].chunk \in Owned(d)'
    BY <2>5, <2>6 DEF BufferOK, Refers
  <2> QED
    BY <2>3, <2>4, <2>7 DEF ChunksOwnedOnce
<1> QED
  BY <1>5, <1>6, <1>7

\* The room of the buffers that are not touched.
LEMMA RoomOfOthers ==
    ASSUME Inv, overrun = "no", NEW b \in Vbufs, NEW u,
           vbuf' = [vbuf EXCEPT ![b] = u],
           \A c \in DOMAIN heap \ Owned(b) : heap'[c] = heap[c],
           Room(u, heap')
    PROVE  RoomInv'
<1>1. vbuf \in [Vbufs -> Vbuf]
  BY DEF Inv, TypeOK, Vbuf, Iovec
<1> SUFFICES ASSUME NEW d \in Vbufs
             PROVE  Room(vbuf'[d], heap')
  BY DEF RoomInv
<1>2. CASE d = b
  BY <1>1, <1>2
<1>3. CASE d # b
  <2>1. vbuf'[d] = vbuf[d]
    BY <1>1, <1>3
  <2>2. Owned(d) \subseteq DOMAIN heap \ Owned(b)
    BY <1>3 DEF Inv, ChunksOwnedOnce
  <2>3. \A c \in ToSet(vbuf[d].chunks) : heap'[c] = heap[c]
    BY <2>2 DEF Owned
  <2>4. vbuf[d].chunk \in ToSet(vbuf[d].chunks)
    BY EveryBufferOK DEF BufferOK
  <2>5. Room(vbuf[d], heap)
    BY DEF Inv, RoomInv
  <2>6. heap'[vbuf[d].chunk] = heap[vbuf[d].chunk]
    BY <2>3, <2>4
  <2> QED
    BY <2>1, <2>5, <2>6 DEF Room, Short
<1> QED
  BY <1>2, <1>3

-----------------------------------------------------------------------------
(* append_ref and the copy of append_copy                                  *)

SamePlace(u, v) == u.chunks = v.chunks /\ u.chunk = v.chunk /\ u.off = v.off /\ u.free = v.free

LEMMA AppendRefKeeps ==
    ASSUME NEW b \in Vbufs, NEW v, BufferOK(v), NEW iov \in Iovec,
           IsCopy(iov) => iov.chunk \in ToSet(v.chunks),
           AppendRef(b, v, iov)
    PROVE  /\ \E u : BufferOK(u) /\ SamePlace(u, v) /\ vbuf' = [vbuf EXCEPT ![b] = u]
           /\ answer' \in {0, -1}
<1>1. v \in Vbuf /\ v.vec \in Seq(Iovec) /\ v.cap \in Capacities /\ v.cap \in Nat \ {0}
  BY VrefAssumption DEF BufferOK, Vbuf
<1> DEFINE more == Append(v.vec, iov)
<1>2. /\ more \in Seq(Iovec) /\ Len(more) = Len(v.vec) + 1 /\ Len(v.vec) \in Nat
      /\ \A i \in DOMAIN more : more[i] = iov \/ (i \in DOMAIN v.vec /\ more[i] = v.vec[i])
  BY <1>1, OneMore
<1>3. \A i \in DOMAIN more : IsCopy(more[i]) => more[i].chunk \in ToSet(v.chunks)
  BY <1>2 DEF BufferOK, Refers
<1>4. CASE ~Full(v) /\ vbuf' = [vbuf EXCEPT ![b] = [v EXCEPT !.vec = more]] /\ answer' = 0
  <2> DEFINE u == [v EXCEPT !.vec = more]
  <2>1. /\ u \in Vbuf /\ u.vec = more /\ u.chunks = v.chunks /\ u.chunk = v.chunk
        /\ u.off = v.off /\ u.free = v.free /\ u.cap = v.cap
    BY <1>1, <1>2 DEF Vbuf
  <2>2. Len(u.vec) <= u.cap
    BY <1>1, <1>2, <1>4, <2>1 DEF Full, BufferOK
  <2>3. BufferOK(u) /\ SamePlace(u, v)
    BY <1>3, <2>1, <2>2 DEF BufferOK, Refers, SamePlace
  <2> QED
    BY <1>4, <2>3
<1>5. CASE /\ Full(v) /\ 2 * v.cap \in Capacities
           /\ vbuf' = [vbuf EXCEPT ![b] = [v EXCEPT !.vec = more, !.cap = 2 * v.cap]]
           /\ answer' = 0
  <2> DEFINE u == [v EXCEPT !.vec = more, !.cap = 2 * v.cap]
  <2>1. /\ u \in Vbuf /\ u.vec = more /\ u.chunks = v.chunks /\ u.chunk = v.chunk
        /\ u.off = v.off /\ u.free = v.free /\ u.cap = 2 * v.cap
    BY <1>1, <1>2, <1>5 DEF Vbuf
  <2>2. Len(u.vec) <= u.cap
    BY <1>1, <1>2, <1>5, <2>1 DEF Full
  <2>3. BufferOK(u) /\ SamePlace(u, v)
    BY <1>3, <2>1, <2>2 DEF BufferOK, Refers, SamePlace
  <2> QED
    BY <1>5, <2>3
<1>6. CASE Full(v) /\ vbuf' = [vbuf EXCEPT ![b] = v] /\ answer' = -1
  BY <1>6 DEF SamePlace
<1> QED
  BY <1>4, <1>5, <1>6 DEF AppendRef

\* The place of the next copy moves.
At(v, x, y) == [v EXCEPT !.off = x, !.free = y]

IsAt(u, v, x, y) ==
    /\ u \in Vbuf /\ u.vec = v.vec /\ u.cap = v.cap
    /\ u.chunks = v.chunks /\ u.chunk = v.chunk /\ u.off = x /\ u.free = y

LEMMA Advanced ==
    ASSUME NEW v \in Vbuf, NEW x \in Nat, NEW y \in Int
    PROVE  IsAt(At(v, x, y), v, x, y)
  BY DEF Vbuf, At, IsAt

LEMMA Longer ==
    ASSUME NEW iov \in [chunk : Chunks, off : Nat, len : Nat], NEW x \in Nat
    PROVE  /\ [iov EXCEPT !.len = x] \in [chunk : Chunks, off : Nat, len : Nat]
           /\ [iov EXCEPT !.len = x].chunk = iov.chunk
  OBVIOUS

LEMMA Sums ==
    ASSUME NEW x \in Nat, NEW n \in Nat, NEW y \in Int
    PROVE  x + n \in Nat /\ y - n \in Int
  OBVIOUS

\* What a copy of n bytes leaves of a buffer and of the chunks.
Copied(u, v, n) ==
    /\ u.chunks = v.chunks /\ u.chunk = v.chunk
    /\ u.off = v.off + n /\ u.free = v.free - n
SameLengths(k, h) == \A c \in DOMAIN h : Len(k[c]) = Len(h[c])
OthersKept(k, h, v) == \A c \in DOMAIN h : c # v.chunk => k[c] = h[c]
CopyResult(b, v, h, w) ==
    /\ \E u : BufferOK(u) /\ vbuf' = [vbuf EXCEPT ![b] = u] /\ Copied(u, v, Len(w))
    /\ answer' \in {0, -1}
    /\ overrun' = IF v.off + Len(w) <= Len(h[v.chunk]) THEN "no" ELSE "write"
    /\ heap' \in [DOMAIN h -> Seq(Nat)]
    /\ SameLengths(heap', h) /\ OthersKept(heap', h, v)

LEMMA CopyKeeps ==
    ASSUME NEW b \in Vbufs, NEW v, BufferOK(v), NEW w \in Writes,
           NEW h, h \in [DOMAIN h -> Seq(Nat)], v.chunk \in DOMAIN h,
           Copy(b, v, h, w)
    PROVE  CopyResult(b, v, h, w)
<1>1. /\ v \in Vbuf /\ v.vec \in Seq(Iovec) /\ v.off \in Nat /\ v.free \in Int
      /\ v.chunk \in Chunks /\ Len(w) \in Nat
  BY VrefAssumption DEF BufferOK, Vbuf
<1> DEFINE after == At(v, v.off + Len(w), v.free - Len(w))
<1>2. /\ after \in Vbuf /\ after.vec = v.vec /\ after.cap = v.cap
      /\ after.chunks = v.chunks /\ after.chunk = v.chunk
      /\ after.off = v.off + Len(w) /\ after.free = v.free - Len(w)
  <2>1. v.off + Len(w) \in Nat /\ v.free - Len(w) \in Int
    BY <1>1, Sums, Zenon
  <2>2. IsAt(after, v, v.off + Len(w), v.free - Len(w))
    BY <1>1, <2>1, Advanced, Zenon
  <2> QED
    BY <2>2 DEF IsAt
<1>3. BufferOK(after)
  BY <1>2 DEF BufferOK, Refers
<1>4. /\ heap' \in [DOMAIN h -> Seq(Nat)]
      /\ \A c \in DOMAIN h : Len(heap'[c]) = Len(h[c]) /\ (c # v.chunk => heap'[c] = h[c])
  <2>1. heap' = [h EXCEPT ![v.chunk] = Overwritten(h[v.chunk], v.off, w)]
    BY DEF Copy
  <2>2. /\ Overwritten(h[v.chunk], v.off, w) \in Seq(Nat)
        /\ Len(Overwritten(h[v.chunk], v.off, w)) = Len(h[v.chunk])
    <3>1. h[v.chunk] \in Seq(Nat)
      OBVIOUS
    <3> QED
      BY <1>1, <3>1, OverwrittenType
  <2> DEFINE o == Overwritten(h[v.chunk], v.off, w)
  <2> HIDE DEF o
  <2>3. heap' = [h EXCEPT ![v.chunk] = o] /\ o \in Seq(Nat) /\ Len(o) = Len(h[v.chunk])
    BY <2>1, <2>2 DEF o
  <2>4. heap' \in [DOMAIN h -> Seq(Nat)]
    BY <2>3
  <2>5. \A c \in DOMAIN h : heap'[c] = IF c = v.chunk THEN o ELSE h[c]
    BY <2>3
  <2> QED
    BY <2>3, <2>4, <2>5
<1>5. CASE /\ Follows(v)
           /\ vbuf' = [vbuf EXCEPT ![b] = [after EXCEPT !.vec[Len(v.vec)].len = v.vec[Len(v.vec)].len + Len(w)]]
           /\ answer' = 0
  <2> DEFINE n == Len(v.vec)
             iov == [v.vec[n] EXCEPT !.len = v.vec[n].len + Len(w)]
             u == [after EXCEPT !.vec = [v.vec EXCEPT ![n] = iov]]
  <2>1. n \in DOMAIN v.vec /\ n \in Nat /\ v.vec[n] \in Iovec /\ IsCopy(v.vec[n])
    BY <1>1, <1>5 DEF Follows, Last
  <2>2. v.vec[n] \in [chunk : Chunks, off : Nat, len : Nat]
    BY <2>1 DEF Iovec, IsCopy
  <2>3. iov \in [chunk : Chunks, off : Nat, len : Nat] /\ iov.chunk = v.vec[n].chunk
    <3>1. v.vec[n].len + Len(w) \in Nat
      BY <1>1, <2>2
    <3> QED
      BY <2>2, <3>1, Longer
  <2>4. /\ u.vec \in Seq(Iovec) /\ Len(u.vec) = n
        /\ \A i \in DOMAIN u.vec : i \in DOMAIN v.vec /\ u.vec[i] = IF i = n THEN iov ELSE v.vec[i]
    BY SMTT(60), <1>1, <1>2, <2>1, <2>3 DEF Iovec, Vbuf
  <2>5. /\ u \in Vbuf /\ u.cap = v.cap /\ u.chunks = v.chunks /\ u.chunk = v.chunk
        /\ u.off = v.off + Len(w) /\ u.free = v.free - Len(w)
    BY <1>2, <2>4 DEF Vbuf
  <2>6. Refers(u)
    BY <2>1, <2>3, <2>4, <2>5 DEF Refers, BufferOK
  <2>7. BufferOK(u)
    BY <2>4, <2>5, <2>6 DEF BufferOK
  <2>8. vbuf' = [vbuf EXCEPT ![b] = u]
    BY <1>2, <1>5, <2>1
  <2> QED
    BY <1>4, <1>5, <2>5, <2>7, <2>8 DEF Copy, CopyResult, Copied, SameLengths, OthersKept
<1>6. CASE ~Follows(v) /\ AppendRef(b, after, InChunk(v.chunk, v.off, Len(w)))
  <2> DEFINE iov == InChunk(v.chunk, v.off, Len(w))
  <2>1. iov \in Iovec /\ iov.chunk \in ToSet(after.chunks)
    BY <1>1, <1>2 DEF InChunk, Iovec, BufferOK
  <2>2. /\ \E u : BufferOK(u) /\ SamePlace(u, after) /\ vbuf' = [vbuf EXCEPT ![b] = u]
        /\ answer' \in {0, -1}
    BY <1>3, <1>6, <2>1, AppendRefKeeps
  <2> QED
    BY <1>2, <1>4, <2>2 DEF SamePlace, Copy, CopyResult, Copied, SameLengths, OthersKept
<1> QED
  BY <1>5, <1>6 DEF Copy, At

-----------------------------------------------------------------------------
(* The actions                                                             *)

\* A step that changes one buffer.
LEMMA OneBufferKeeps ==
    ASSUME Inv, overrun = "no",
           NEW b \in Vbufs, NEW u, BufferOK(u),
           vbuf' = [vbuf EXCEPT ![b] = u],
           ToSet(u.chunks) \cap (DOMAIN heap \ Owned(b)) = {},
           DOMAIN heap' = (DOMAIN heap \ Owned(b)) \cup ToSet(u.chunks),
           heap' \in [DOMAIN heap' -> Seq(Nat)],
           \A c \in DOMAIN heap \ Owned(b) : heap'[c] = heap[c],
           Room(u, heap'), Sized(heap'),
           overrun' = "no" \/ (overrun' = "write" /\ Uneven),
           answer' \in {0, -1}
    PROVE  Inv'
<1>1. TypeOK' /\ NotEmpty' /\ ChunksOwnedOnce'
  BY OwnershipKept
<1>2. RoomInv'
  BY RoomOfOthers
<1>3. HeapType'
  BY DEF HeapType
<1>4. Sized(heap)' /\ (overrun = "write" => Uneven)'
  BY DEF Sized, Uneven
<1> QED
  BY <1>1, <1>2, <1>3, <1>4 DEF Inv

\* What a buffer has before a step.
LEMMA Before ==
    ASSUME Inv, overrun = "no", NEW b \in Vbufs
    PROVE  /\ BufferOK(vbuf[b]) /\ Owned(b) = ToSet(vbuf[b].chunks)
           /\ Owned(b) \subseteq DOMAIN heap /\ vbuf[b].chunk \in DOMAIN heap
           /\ heap \in [DOMAIN heap -> Seq(Nat)] /\ DOMAIN heap \subseteq Chunks
           /\ ChunkSize[b] \in Nat /\ Room(vbuf[b], heap) /\ Sized(heap)
<1>1. BufferOK(vbuf[b]) /\ Owned(b) \subseteq DOMAIN heap
  BY EveryBufferOK
<1>2. vbuf[b].chunk \in DOMAIN heap
  BY <1>1 DEF BufferOK, Owned
<1>3. ChunkSize[b] \in Nat
  BY VrefAssumption
<1> QED
  BY <1>1, <1>2, <1>3 DEF Inv, TypeOK, HeapType, Owned, RoomInv

LEMMA WriteRefKeeps ==
    ASSUME Inv, NEW b \in Vbufs, NEW w \in Writes, WriteRef(b, w)
    PROVE  Inv'
<1>1. overrun = "no" /\ UNCHANGED <<heap, overrun>> /\ AppendRef(b, vbuf[b], [data |-> w])
  BY DEF WriteRef
<1>2. [data |-> w] \in Iovec /\ ~IsCopy([data |-> w])
  BY DEF Iovec, IsCopy
<1>3. BufferOK(vbuf[b])
  BY <1>1, Before
<1>4. /\ \E u : BufferOK(u) /\ SamePlace(u, vbuf[b]) /\ vbuf' = [vbuf EXCEPT ![b] = u]
      /\ answer' \in {0, -1}
  BY <1>1, <1>2, <1>3, AppendRefKeeps
<1>5. PICK u : BufferOK(u) /\ SamePlace(u, vbuf[b]) /\ vbuf' = [vbuf EXCEPT ![b] = u]
  BY <1>4
<1>6. /\ ToSet(u.chunks) = Owned(b) /\ Owned(b) \subseteq DOMAIN heap
      /\ Room(u, heap) /\ Sized(heap)
  BY <1>1, <1>5, Before DEF SamePlace, Room
<1>7. heap \in [DOMAIN heap -> Seq(Nat)]
  BY DEF Inv, HeapType
<1>8. /\ ToSet(u.chunks) \cap (DOMAIN heap \ Owned(b)) = {}
      /\ DOMAIN heap' = (DOMAIN heap \ Owned(b)) \cup ToSet(u.chunks)
      /\ heap' \in [DOMAIN heap' -> Seq(Nat)]
      /\ \A c \in DOMAIN heap \ Owned(b) : heap'[c] = heap[c]
      /\ Room(u, heap') /\ Sized(heap')
      /\ overrun' = "no"
  <2>1. heap' = heap /\ overrun' = overrun
    BY <1>1
  <2> QED
    BY <1>1, <1>6, <1>7, <2>1
<1> QED
  BY <1>1, <1>4, <1>5, <1>8, OneBufferKeeps

LEMMA NothingChanges ==
    ASSUME Inv, UNCHANGED <<vbuf, heap, overrun>>, answer' \in {0, -1}
    PROVE  Inv'
<1>1. /\ vbuf' = vbuf /\ heap' = heap /\ overrun' = overrun
      /\ answer' \in {0, -1}
  OBVIOUS
<1>2. TypeOK'
  BY <1>1 DEF Inv, TypeOK
<1>3. HeapType' /\ NotEmpty' /\ Sized(heap)' /\ (overrun = "write" => Uneven)'
  BY <1>1 DEF Inv, HeapType, NotEmpty, Sized, Uneven
<1>4. ChunksOwnedOnce'
  BY <1>1 DEF Inv, ChunksOwnedOnce, Owned
<1>5. RoomInv'
  BY <1>1 DEF Inv, RoomInv, Room, Short
<1> QED
  BY <1>2, <1>3, <1>4, <1>5 DEF Inv

LEMMA FailKeeps ==
    ASSUME Inv, Fail
    PROVE  Inv'
  BY NothingChanges DEF Fail

\* A copy leaves the buffer with the room it had, less what was written; if the copy
\* left the chunk, that falls short of a chunk_size.
LEMMA RoomAfterCopy ==
    ASSUME NEW v, NEW u, NEW h, NEW k, NEW n \in Nat,
           v.chunk \in DOMAIN h,
           v.off \in Nat, v.free \in Int, n <= v.free,
           SameLengths(k, h), Len(h[v.chunk]) \in Nat, Copied(u, v, n),
           Room(v, h)
    PROVE  Room(u, k) /\ (v.off + n <= Len(h[v.chunk]) \/ Short(v.chunk, h) # {})
<1>1. u.free >= 0 /\ u.off + u.free = v.off + v.free /\ v.off + n <= v.off + v.free
  <2> DEFINE f == v.free
             o == v.off
  <2>1. f \in Int /\ o \in Nat /\ n <= f /\ u.off = o + n /\ u.free = f - n
    BY DEF Copied
  <2> HIDE DEF f, o
  <2>2. f - n >= 0 /\ (o + n) + (f - n) = o + f /\ o + n <= o + f
    BY <2>1
  <2> QED
    BY <2>1, <2>2 DEF f, o
<1>2. u.chunk = v.chunk /\ Len(k[u.chunk]) = Len(h[v.chunk]) /\ Short(u.chunk, k) = Short(v.chunk, h)
  BY DEF Copied, SameLengths, Short
<1>3. v.off + n <= Len(h[v.chunk]) \/ Short(v.chunk, h) # {}
  <2> SUFFICES ASSUME Short(v.chunk, h) = {}
               PROVE  v.off + n <= Len(h[v.chunk])
    OBVIOUS
  <2> DEFINE f == v.off + v.free
             o == v.off + n
             l == Len(h[v.chunk])
  <2>1. f \in Int /\ o \in Int /\ l \in Int /\ o <= f
    BY <1>1
  <2>2. f <= l
    BY DEF Room
  <2> HIDE DEF f, o, l
  <2>3. o <= l
    BY <2>1, <2>2
  <2> QED
    BY <2>3 DEF o, l
<1>4. Room(u, k)
  <2> DEFINE f == v.off + v.free
  <2>1. f <= Len(h[v.chunk]) \/ \E d \in Short(v.chunk, h) : f = ChunkSize[d]
    BY DEF Room
  <2>2. u.off + u.free = f
    BY <1>1
  <2> HIDE DEF f
  <2> QED
    BY <1>1, <1>2, <2>1, <2>2 DEF Room
<1> QED
  BY <1>3, <1>4

\* A chunk that falls short of one chunk_size and not of every other.
LEMMA ShortUneven ==
    ASSUME NEW h, Sized(h), NEW c \in DOMAIN h, Len(h[c]) \in Nat, Short(c, h) # {}
    PROVE  Uneven
<1>1. PICK d \in Vbufs : Len(h[c]) < ChunkSize[d]
  BY DEF Short
<1>2. PICK b \in Vbufs : ChunkSize[b] <= Len(h[c])
  BY DEF Sized
<1>3. ChunkSize[b] \in Nat /\ ChunkSize[d] \in Nat
  BY VrefAssumption
<1>4. ChunkSize[b] < ChunkSize[d]
  BY <1>1, <1>2, <1>3
<1> QED
  BY <1>4 DEF Uneven

LEMMA CopyInChunkKeeps ==
    ASSUME Inv, NEW b \in Vbufs, NEW w \in Writes, CopyInChunk(b, w)
    PROVE  Inv'
<1> DEFINE v == vbuf[b]
<1>1. /\ overrun = "no" /\ Len(w) <= v.free
      /\ Copy(b, v, heap, w)
  BY DEF CopyInChunk, Fits
<1>2. /\ BufferOK(v) /\ Owned(b) = ToSet(v.chunks) /\ Owned(b) \subseteq DOMAIN heap
      /\ v.chunk \in DOMAIN heap /\ heap \in [DOMAIN heap -> Seq(Nat)]
      /\ Room(v, heap) /\ Sized(heap)
  BY <1>1, Before
<1>3. CopyResult(b, v, heap, w)
  BY <1>1, <1>2, CopyKeeps
<1>4. PICK u : BufferOK(u) /\ vbuf' = [vbuf EXCEPT ![b] = u] /\ Copied(u, v, Len(w))
  BY <1>3 DEF CopyResult
<1>5. v.chunk \in Owned(b) /\ ToSet(u.chunks) = Owned(b)
  BY <1>2, <1>4 DEF BufferOK, Copied
<1>6. Room(u, heap') /\ (overrun' = "no" \/ (overrun' = "write" /\ Uneven))
  <2>1. v.off \in Nat /\ v.free \in Int /\ Len(w) \in Nat /\ Len(heap[v.chunk]) \in Nat
    BY <1>2, VrefAssumption DEF BufferOK, Vbuf
  <2>2. SameLengths(heap', heap)
    BY <1>3 DEF CopyResult
  <2>3. Room(u, heap') /\ (v.off + Len(w) <= Len(heap[v.chunk]) \/ Short(v.chunk, heap) # {})
    BY <1>1, <1>2, <1>4, <2>1, <2>2, RoomAfterCopy
  <2>4. Short(v.chunk, heap) # {} => Uneven
    BY <1>2, <2>1, ShortUneven
  <2> QED
    BY <1>3, <2>3, <2>4 DEF CopyResult
<1>7. /\ DOMAIN heap' = DOMAIN heap /\ heap' \in [DOMAIN heap' -> Seq(Nat)]
      /\ \A c \in DOMAIN heap \ Owned(b) : heap'[c] = heap[c]
  BY <1>3, <1>5 DEF CopyResult, OthersKept
<1>8. /\ ToSet(u.chunks) \cap (DOMAIN heap \ Owned(b)) = {}
      /\ DOMAIN heap' = (DOMAIN heap \ Owned(b)) \cup ToSet(u.chunks)
  BY <1>2, <1>5, <1>7
<1>9. Sized(heap') /\ answer' \in {0, -1}
  BY <1>2, <1>3, <1>7 DEF CopyResult, SameLengths, Sized
<1> QED
  BY <1>1, <1>4, <1>6, <1>7, <1>8, <1>9, OneBufferKeeps

\* The heap with one chunk more.
GrownBy(k, h, c, size) ==
    /\ DOMAIN k = DOMAIN h \cup {c} /\ k \in [DOMAIN k -> Seq(Nat)]
    /\ Len(k[c]) = size /\ \A d \in DOMAIN h \ {c} : k[d] = h[d]

LEMMA GrownHeap ==
    ASSUME NEW h, h \in [DOMAIN h -> Seq(Nat)], NEW c, NEW size \in Nat
    PROVE  GrownBy(Grown(h, c, size), h, c, size)
<1> DEFINE chunk == NewChunk(size)
<1>1. chunk \in Seq(Nat) /\ Len(chunk) = size
  BY NewChunkType
<1> HIDE DEF chunk
<1>2. Grown(h, c, size) = [d \in DOMAIN h \cup {c} |-> IF d = c THEN chunk ELSE h[d]]
  BY DEF Grown, chunk
<1>3. DOMAIN Grown(h, c, size) = DOMAIN h \cup {c}
  BY <1>2
<1>4. Grown(h, c, size)[c] = chunk /\ \A d \in DOMAIN h \ {c} : Grown(h, c, size)[d] = h[d]
  BY <1>2
<1>5. Grown(h, c, size) \in [DOMAIN h \cup {c} -> Seq(Nat)]
  BY <1>1, <1>2
<1> QED
  BY <1>1, <1>3, <1>4, <1>5 DEF GrownBy

\* A list of chunks and the chunk of the next copy.
Listed(v, chunks, c) == [v EXCEPT !.chunks = chunks, !.chunk = c]
IsListed(u, v, chunks, c) ==
    u \in Vbuf /\ u.chunks = chunks /\ u.vec = v.vec /\ u.cap = v.cap /\ u.chunk = c

LEMMA MoreChunks ==
    ASSUME NEW v \in Vbuf, NEW chunks \in Seq(Chunks), NEW c \in Chunks
    PROVE  IsListed(Listed(v, chunks, c), v, chunks, c)
  BY DEF Vbuf, Listed, IsListed

\* A buffer with a chunk first in its list, where it copies to next.
Extended(u, v, c, size) ==
    /\ BufferOK(u) /\ ToSet(u.chunks) = {c} \cup ToSet(v.chunks)
    /\ u.chunk = c /\ u.off = 0 /\ u.free = size

LEMMA WithChunkOK ==
    ASSUME NEW v, BufferOK(v), NEW c \in Chunks, c \notin ToSet(v.chunks), NEW size \in Nat
    PROVE  Extended(WithChunk(v, c, size), v, c, size)
<1> DEFINE u == WithChunk(v, c, size)
           more == <<c>> \o v.chunks
<1>1. v \in Vbuf /\ v.chunks \in Seq(Chunks) /\ IsInjective(v.chunks)
  BY DEF BufferOK, Vbuf
<1>2. <<c>> \in Seq(Chunks) /\ ToSet(<<c>>) = {c} /\ IsInjective(<<c>>)
  BY OneChunk
<1>3. more \in Seq(Chunks) /\ ToSet(more) = {c} \cup ToSet(v.chunks) /\ IsInjective(more)
  <2>1. ToSet(<<c>>) \cap ToSet(v.chunks) = {}
    BY <1>2
  <2> QED
    BY <1>1, <1>2, <2>1, JoinedChunks
<1> HIDE DEF more
<1>4. u = [v EXCEPT !.chunks = more, !.chunk = c, !.off = 0, !.free = size]
  BY DEF WithChunk, more
<1>5. /\ u \in Vbuf /\ u.chunks = more /\ u.vec = v.vec /\ u.cap = v.cap
      /\ u.chunk = c /\ u.off = 0 /\ u.free = size
  <2> DEFINE x == Listed(v, more, c)
  <2>1. x \in Vbuf /\ x.chunks = more /\ x.vec = v.vec /\ x.cap = v.cap /\ x.chunk = c
    <3>1. IsListed(x, v, more, c)
      BY <1>1, <1>3, MoreChunks
    <3> QED
      BY <3>1 DEF IsListed
  <2>2. u = At(x, 0, size)
    BY <1>4 DEF At, Listed
  <2> HIDE DEF x
  <2>3. IsAt(At(x, 0, size), x, 0, size)
    BY <2>1, Advanced
  <2> HIDE DEF u
  <2> QED
    BY <2>1, <2>2, <2>3 DEF IsAt
<1>6. more # <<>>
  <2>1. c \in ToSet(more)
    BY <1>3
  <2> QED
    BY <2>1 DEF ToSet
<1>7. BufferOK(u)
  BY <1>3, <1>5, <1>6 DEF BufferOK, Refers
<1> QED
  BY <1>3, <1>5, <1>7 DEF Extended

LEMMA SizeForEnough ==
    ASSUME NEW b \in Vbufs, NEW w \in Writes
    PROVE  SizeFor(b, w) \in Nat /\ Len(w) <= SizeFor(b, w) /\ ChunkSize[b] <= SizeFor(b, w)
<1>1. ChunkSize[b] \in Nat /\ Len(w) \in Nat
  BY VrefAssumption
<1> QED
  BY <1>1 DEF SizeFor

LEMMA CopyInNewChunkKeeps ==
    ASSUME Inv, NEW b \in Vbufs, NEW w \in Writes, CopyInNewChunk(b, w)
    PROVE  Inv'
<1>1. CASE Fail
  BY <1>1, FailKeeps
<1>2. ASSUME NEW c \in Unused, overrun = "no",
             Copy(b, WithChunk(vbuf[b], c, SizeFor(b, w)), Grown(heap, c, SizeFor(b, w)), w)
      PROVE  Inv'
  <2> DEFINE size == SizeFor(b, w)
             v == WithChunk(vbuf[b], c, size)
             h == Grown(heap, c, size)
  <2>1. /\ BufferOK(vbuf[b]) /\ Owned(b) = ToSet(vbuf[b].chunks)
        /\ Owned(b) \subseteq DOMAIN heap /\ heap \in [DOMAIN heap -> Seq(Nat)]
        /\ ChunkSize[b] \in Nat /\ Sized(heap)
    BY <1>2, Before
  <2>2. size \in Nat /\ Len(w) <= size /\ ChunkSize[b] <= size /\ Len(w) \in Nat
    BY SizeForEnough, VrefAssumption
  <2>3. c \in Chunks /\ c \notin DOMAIN heap /\ c \notin Owned(b)
    BY <2>1 DEF Unused
  <2>4. /\ BufferOK(v) /\ ToSet(v.chunks) = {c} \cup Owned(b)
        /\ v.chunk = c /\ v.off = 0 /\ v.free = size
    <3>1. Extended(v, vbuf[b], c, size)
      BY <2>1, <2>2, <2>3, WithChunkOK, Zenon
    <3> QED
      BY <2>1, <3>1 DEF Extended
  <2>5. /\ DOMAIN h = DOMAIN heap \cup {c} /\ h \in [DOMAIN h -> Seq(Nat)]
        /\ Len(h[c]) = size /\ \A d \in DOMAIN heap : h[d] = heap[d]
    <3>1. GrownBy(h, heap, c, size)
      BY <2>1, <2>2, GrownHeap, Zenon
    <3> QED
      BY <2>3, <3>1 DEF GrownBy
  <2> HIDE DEF v, h, size
  <2>6. Copy(b, v, h, w)
    BY <1>2 DEF v, h, size
  <2>7. CopyResult(b, v, h, w)
    BY <2>4, <2>5, <2>6, CopyKeeps
  <2>8. PICK u : BufferOK(u) /\ vbuf' = [vbuf EXCEPT ![b] = u] /\ Copied(u, v, Len(w))
    BY <2>7 DEF CopyResult
  <2>9. overrun' = "no"
    <3>1. 0 + Len(w) <= size
      BY <2>2
    <3> QED
      BY <2>4, <2>5, <2>7, <3>1 DEF CopyResult
  <2>10. Room(u, heap')
    <3>1. Room(v, h)
      <4>1. v.free >= 0 /\ v.off + v.free <= Len(h[v.chunk])
        BY <2>2, <2>4, <2>5
      <4> QED
        BY <4>1 DEF Room
    <3>2. v.off \in Nat /\ v.free \in Int /\ Len(w) <= v.free /\ Len(h[v.chunk]) \in Nat
      BY <2>2, <2>4, <2>5
    <3>3. v.chunk \in DOMAIN h /\ SameLengths(heap', h)
      BY <2>4, <2>5, <2>7 DEF CopyResult
    <3> QED
      BY <2>2, <2>8, <3>1, <3>2, <3>3, RoomAfterCopy
  <2>11. /\ ToSet(u.chunks) = {c} \cup Owned(b) /\ DOMAIN heap' = DOMAIN heap \cup {c}
         /\ heap' \in [DOMAIN heap' -> Seq(Nat)] /\ answer' \in {0, -1}
    BY <2>4, <2>5, <2>7, <2>8 DEF CopyResult, Copied
  <2>12. \A d \in DOMAIN heap \ Owned(b) : heap'[d] = heap[d]
    BY <2>3, <2>4, <2>5, <2>7 DEF CopyResult, OthersKept
  <2>13. /\ ToSet(u.chunks) \cap (DOMAIN heap \ Owned(b)) = {}
         /\ DOMAIN heap' = (DOMAIN heap \ Owned(b)) \cup ToSet(u.chunks)
    BY <2>1, <2>3, <2>11
  <2>14. Sized(heap')
    <3>1. Sized(h)
      BY <2>1, <2>2, <2>5 DEF Sized
    <3>2. SameLengths(heap', h) /\ DOMAIN heap' = DOMAIN h
      BY <2>5, <2>7, <2>11 DEF CopyResult
    <3> QED
      BY <3>1, <3>2 DEF Sized, SameLengths
  <2> QED
    BY <1>2, <2>8, <2>9, <2>10, <2>11, <2>12, <2>13, <2>14, OneBufferKeeps
<1>3. CASE /\ overrun = "no"
           /\ \E c \in Unused :
                 Copy(b, WithChunk(vbuf[b], c, SizeFor(b, w)), Grown(heap, c, SizeFor(b, w)), w)
  BY <1>2, <1>3
<1> QED
  BY <1>1, <1>3 DEF CopyInNewChunk

\* A buffer with nothing in it.
LEMMA EmptyOK ==
    ASSUME NEW c \in Chunks, NEW b \in Vbufs, NEW cap \in Capacities
    PROVE  /\ BufferOK(Empty(c, ChunkSize[b], cap)) /\ ToSet(Empty(c, ChunkSize[b], cap).chunks) = {c}
           /\ \A h : Len(h[c]) \in Nat => Room(Empty(c, ChunkSize[b], cap), h)
<1> DEFINE size == ChunkSize[b]
           u == Empty(c, size, cap)
<1>0. size \in Nat
  BY VrefAssumption
<1>1. <<c>> \in Seq(Chunks) /\ ToSet(<<c>>) = {c} /\ IsInjective(<<c>>) /\ <<c>> # <<>>
  BY OneChunk
<1>2. /\ u.vec = <<>> /\ u.cap = cap /\ u.chunks = <<c>> /\ u.chunk = c
      /\ u.off = 0 /\ u.free = size
  BY DEF Empty
<1>3. u \in Vbuf
  BY <1>0, <1>1 DEF Empty, Vbuf
<1>4. Len(u.vec) <= u.cap /\ Refers(u)
  BY <1>2, VrefAssumption DEF Refers
<1>5. BufferOK(u)
  BY <1>1, <1>2, <1>3, <1>4 DEF BufferOK
<1>6. ASSUME NEW h, Len(h[c]) \in Nat
      PROVE  Room(u, h)
  <2>1. u.off + u.free = size /\ u.free >= 0
    BY <1>0, <1>2
  <2>2. size <= Len(h[c]) \/ b \in Short(c, h)
    BY <1>0, <1>6 DEF Short
  <2> QED
    BY <1>2, <2>1, <2>2 DEF Room
<1> QED
  BY <1>1, <1>2, <1>5, <1>6

LEMMA ClearKeeps ==
    ASSUME Inv, NEW b \in Vbufs, Clear(b)
    PROVE  Inv'
<1> DEFINE kept == Head(vbuf[b].chunks)
           u == Empty(kept, ChunkSize[b], vbuf[b].cap)
<1>1. /\ overrun = "no" /\ vbuf' = [vbuf EXCEPT ![b] = u]
      /\ heap' = Without(heap, Owned(b) \ {kept}) /\ answer' = 0
      /\ overrun' = "no"
  BY DEF Clear
<1>2. /\ BufferOK(vbuf[b]) /\ Owned(b) = ToSet(vbuf[b].chunks)
      /\ Owned(b) \subseteq DOMAIN heap /\ heap \in [DOMAIN heap -> Seq(Nat)]
      /\ DOMAIN heap \subseteq Chunks /\ Sized(heap)
  BY <1>1, Before
<1>3. kept \in Owned(b) /\ kept \in DOMAIN heap /\ kept \in Chunks
  <2>1. vbuf[b].chunks \in Seq(Chunks) /\ vbuf[b].chunks # <<>>
    BY <1>2 DEF BufferOK, Vbuf
  <2>2. kept = vbuf[b].chunks[1] /\ 1 \in DOMAIN vbuf[b].chunks
    BY <2>1
  <2> QED
    BY <1>2, <2>2 DEF ToSet
<1>4. vbuf[b].cap \in Capacities
  BY <1>2 DEF BufferOK, Vbuf
<1> HIDE DEF kept
<1>5. /\ BufferOK(u) /\ ToSet(u.chunks) = {kept}
      /\ \A h : Len(h[kept]) \in Nat => Room(u, h)
  BY <1>2, <1>3, <1>4, EmptyOK
<1> HIDE DEF u
<1>6. /\ DOMAIN heap' = DOMAIN heap \ (Owned(b) \ {kept})
      /\ \A c \in DOMAIN heap' : heap'[c] = heap[c]
      /\ heap' \in [DOMAIN heap' -> Seq(Nat)]
  BY <1>1, <1>2 DEF Without
<1>7. Room(u, heap') /\ Sized(heap')
  <2>1. Len(heap'[kept]) \in Nat
    BY <1>2, <1>3, <1>6
  <2> QED
    BY <1>2, <1>5, <1>6, <2>1 DEF Sized
<1>8. /\ ToSet(u.chunks) \cap (DOMAIN heap \ Owned(b)) = {}
      /\ DOMAIN heap' = (DOMAIN heap \ Owned(b)) \cup ToSet(u.chunks)
      /\ \A c \in DOMAIN heap \ Owned(b) : heap'[c] = heap[c]
  BY <1>3, <1>5, <1>6
<1>9. answer' \in {0, -1}
  BY <1>1
<1> QED
  BY <1>1, <1>5, <1>6, <1>7, <1>8, <1>9, OneBufferKeeps

LEMMA RenewKeeps ==
    ASSUME Inv, NEW b \in Vbufs, Renew(b)
    PROVE  Inv'
<1>1. PICK c \in Unused \cup Owned(b) :
         /\ vbuf' = [vbuf EXCEPT ![b] = Empty(c, ChunkSize[b], First)]
         /\ heap' = Grown(Without(heap, Owned(b)), c, ChunkSize[b])
  BY DEF Renew
<1>2. overrun = "no" /\ answer' = 0 /\ overrun' = overrun
  BY DEF Renew
<1>3. /\ Owned(b) \subseteq DOMAIN heap /\ heap \in [DOMAIN heap -> Seq(Nat)]
      /\ DOMAIN heap \subseteq Chunks /\ ChunkSize[b] \in Nat /\ Sized(heap)
  BY <1>2, Before
<1>4. c \in Chunks /\ c \notin DOMAIN heap \ Owned(b)
  BY <1>3 DEF Unused
<1> DEFINE u == Empty(c, ChunkSize[b], First)
           kept == Without(heap, Owned(b))
<1>5. /\ BufferOK(u) /\ ToSet(u.chunks) = {c}
      /\ \A h : Len(h[c]) \in Nat => Room(u, h)
  BY <1>4, EmptyOK, FirstCapacity
<1>6. /\ DOMAIN kept = DOMAIN heap \ Owned(b) /\ kept \in [DOMAIN kept -> Seq(Nat)]
      /\ \A d \in DOMAIN kept : kept[d] = heap[d]
  BY <1>3 DEF Without
<1> HIDE DEF u, kept
<1>7. GrownBy(heap', kept, c, ChunkSize[b])
  <2>1. GrownBy(Grown(kept, c, ChunkSize[b]), kept, c, ChunkSize[b])
    BY <1>3, <1>6, GrownHeap
  <2> QED
    BY <1>1, <2>1 DEF kept
<1>8. /\ DOMAIN heap' = (DOMAIN heap \ Owned(b)) \cup {c} /\ heap' \in [DOMAIN heap' -> Seq(Nat)]
      /\ Len(heap'[c]) = ChunkSize[b]
      /\ \A d \in DOMAIN heap \ Owned(b) : heap'[d] = heap[d]
  BY <1>4, <1>6, <1>7 DEF GrownBy
<1>9. Room(u, heap') /\ Sized(heap')
  <2>1. Len(heap'[c]) \in Nat /\ ChunkSize[b] <= Len(heap'[c])
    BY <1>3, <1>8
  <2> QED
    BY <1>3, <1>5, <1>8, <2>1 DEF Sized
<1>10. /\ ToSet(u.chunks) \cap (DOMAIN heap \ Owned(b)) = {}
       /\ DOMAIN heap' = (DOMAIN heap \ Owned(b)) \cup ToSet(u.chunks)
       /\ vbuf' = [vbuf EXCEPT ![b] = u]
  BY <1>1, <1>4, <1>5, <1>8 DEF u
<1>11. answer' \in {0, -1}
  BY <1>2
<1> QED
  BY <1>2, <1>5, <1>8, <1>9, <1>10, <1>11, OneBufferKeeps

\* References appended to references.
LEMMA JoinedReferences ==
    ASSUME NEW s \in Seq(Iovec), NEW t \in Seq(Iovec), NEW C,
           \A i \in DOMAIN s : IsCopy(s[i]) => s[i].chunk \in C,
           \A i \in DOMAIN t : IsCopy(t[i]) => t[i].chunk \in C
    PROVE  /\ s \o t \in Seq(Iovec) /\ Len(s \o t) = Len(s) + Len(t)
           /\ \A i \in DOMAIN (s \o t) : IsCopy((s \o t)[i]) => (s \o t)[i].chunk \in C
<1>1. /\ s \o t \in Seq(Iovec) /\ Len(s \o t) = Len(s) + Len(t)
      /\ DOMAIN s = 1..Len(s) /\ DOMAIN t = 1..Len(t)
      /\ Len(s) \in Nat /\ Len(t) \in Nat /\ DOMAIN (s \o t) = 1..(Len(s) + Len(t))
  OBVIOUS
<1>2. ASSUME NEW i \in 1..(Len(s) + Len(t)), IsCopy((s \o t)[i])
      PROVE  (s \o t)[i].chunk \in C
  <2>1. CASE i <= Len(s)
    <3>1. i \in DOMAIN s /\ (s \o t)[i] = s[i]
      BY <1>1, <2>1
    <3> QED
      BY <1>2, <3>1
  <2>2. CASE ~(i <= Len(s))
    <3>1. i - Len(s) \in DOMAIN t /\ (s \o t)[i] = t[i - Len(s)]
      BY <1>1, <2>2
    <3> QED
      BY <1>2, <3>1
  <2> QED
    BY <2>1, <2>2
<1> QED
  BY <1>1, <1>2

\* A buffer that took over what another one had.
\* Unlike in BufferOK, the array may be too small for the references.
Merged(u, v, t, cap) ==
    /\ u \in Vbuf /\ u.chunks # <<>> /\ IsInjective(u.chunks)
    /\ u.chunk \in ToSet(u.chunks) /\ Refers(u)
    /\ ToSet(u.chunks) = ToSet(v.chunks) \cup ToSet(t.chunks)
    /\ Len(u.vec) = Len(t.vec) + Len(v.vec) /\ u.cap = cap

LEMMA TakenOK ==
    ASSUME NEW v, NEW t, BufferOK(v), BufferOK(t), NEW cap \in Capacities,
           ToSet(v.chunks) \cap ToSet(t.chunks) = {}
    PROVE  Merged(Taken(v, t, cap), v, t, cap)
<1>1. /\ v.vec \in Seq(Iovec) /\ t.vec \in Seq(Iovec)
      /\ v.chunks \in Seq(Chunks) /\ t.chunks \in Seq(Chunks)
      /\ IsInjective(v.chunks) /\ IsInjective(t.chunks)
      /\ v.chunk \in ToSet(v.chunks) /\ t.chunk \in ToSet(t.chunks)
      /\ v.chunk \in Chunks /\ t.chunk \in Chunks
      /\ v.off \in Nat /\ t.off \in Nat /\ v.free \in Int /\ t.free \in Int
  BY DEF BufferOK, Vbuf
<1> DEFINE chunks == v.chunks \o t.chunks
           vec == t.vec \o v.vec
           u == Taken(v, t, cap)
<1>2. /\ chunks \in Seq(Chunks) /\ ToSet(chunks) = ToSet(v.chunks) \cup ToSet(t.chunks)
      /\ IsInjective(chunks)
  BY <1>1, JoinedChunks
<1>3. /\ vec \in Seq(Iovec) /\ Len(vec) = Len(t.vec) + Len(v.vec)
      /\ \A i \in DOMAIN vec : IsCopy(vec[i]) => vec[i].chunk \in ToSet(chunks)
  <2>1. /\ \A i \in DOMAIN v.vec : IsCopy(v.vec[i]) => v.vec[i].chunk \in ToSet(chunks)
        /\ \A i \in DOMAIN t.vec : IsCopy(t.vec[i]) => t.vec[i].chunk \in ToSet(chunks)
    BY <1>2 DEF BufferOK, Refers
  <2> QED
    BY <1>1, <2>1, JoinedReferences
<1> HIDE DEF chunks, vec
<1>4. /\ u.vec = vec /\ u.cap = cap /\ u.chunks = chunks
      /\ \/ u.chunk = v.chunk /\ u.off = v.off /\ u.free = v.free
         \/ u.chunk = t.chunk /\ u.off = t.off /\ u.free = t.free
  BY DEF Taken, Joined, chunks, vec
<1>5. u \in Vbuf
  BY <1>1, <1>2, <1>3 DEF Taken, Joined, chunks, vec, Vbuf
<1>6. chunks # <<>>
  <2>1. v.chunk \in ToSet(chunks)
    BY <1>1, <1>2
  <2> QED
    BY <2>1 DEF ToSet
<1> HIDE DEF u
<1> QED
  BY <1>1, <1>2, <1>3, <1>4, <1>5, <1>6 DEF Merged, Refers, u

LEMMA MovedKeeps ==
    ASSUME Inv, overrun = "no", NEW from \in Vbufs, NEW to \in Vbufs \ {from},
           NEW cap \in Capacities, NEW c \in Unused, Moved(from, to, cap, c)
    PROVE  Inv'
<1> DEFINE v == vbuf[from]
           t == vbuf[to]
           nt == Taken(v, t, cap)
           nf == Empty(c, ChunkSize[from], v.cap)
<1>1. /\ overrun' = IF Len(t.vec) + Len(v.vec) <= cap THEN "no" ELSE "migrate"
      /\ vbuf' = [vbuf EXCEPT ![to] = nt, ![from] = nf]
      /\ heap' = Grown(heap, c, ChunkSize[from])
      /\ answer' = 0
  BY DEF Moved
<1>2. /\ BufferOK(v) /\ BufferOK(t)
      /\ Owned(from) = ToSet(v.chunks) /\ Owned(to) = ToSet(t.chunks)
      /\ Owned(from) \subseteq DOMAIN heap /\ Owned(to) \subseteq DOMAIN heap
      /\ heap \in [DOMAIN heap -> Seq(Nat)] /\ DOMAIN heap \subseteq Chunks
      /\ ChunkSize[from] \in Nat /\ ChunkSize[to] \in Nat
      /\ Room(v, heap) /\ Room(t, heap) /\ Sized(heap)
  BY Before
<1>3. /\ DOMAIN heap = UNION {Owned(d) : d \in Vbufs}
      /\ \A d \in Vbufs : \A e \in Vbufs \ {d} : Owned(d) \cap Owned(e) = {}
      /\ c \in Chunks /\ c \notin DOMAIN heap
  BY DEF Inv, ChunksOwnedOnce, Unused
<1>4. v.cap \in Capacities
  BY <1>2 DEF BufferOK, Vbuf
<1>5. Merged(nt, v, t, cap)
  BY <1>2, <1>3, TakenOK
<1>6. /\ BufferOK(nf) /\ ToSet(nf.chunks) = {c}
      /\ \A h : Len(h[c]) \in Nat => Room(nf, h)
  BY <1>3, <1>4, EmptyOK
<1>7. \/ nt.chunk = v.chunk /\ nt.off = v.off /\ nt.free = v.free
      \/ nt.chunk = t.chunk /\ nt.off = t.off /\ nt.free = t.free
  BY DEF Taken
<1>8. GrownBy(heap', heap, c, ChunkSize[from])
  BY <1>1, <1>2, GrownHeap
<1>9. /\ DOMAIN heap' = DOMAIN heap \cup {c} /\ heap' \in [DOMAIN heap' -> Seq(Nat)]
      /\ Len(heap'[c]) = ChunkSize[from] /\ \A d \in DOMAIN heap : heap'[d] = heap[d]
  BY <1>3, <1>8 DEF GrownBy
<1> HIDE DEF nt, nf
<1>10. vbuf \in [Vbufs -> Vbuf]
  BY DEF Inv, TypeOK, Vbuf, Iovec
<1>11. /\ vbuf'[to] = nt /\ vbuf'[from] = nf
       /\ \A d \in Vbufs \ {from, to} : vbuf'[d] = vbuf[d]
  BY <1>1, <1>10
<1>12. /\ Owned(to)' = Owned(from) \cup Owned(to) /\ Owned(from)' = {c}
       /\ \A d \in Vbufs \ {from, to} : Owned(d)' = Owned(d)
  BY <1>2, <1>5, <1>6, <1>11 DEF Owned, Merged
<1>13. TypeOK'
  <2>1. vbuf' \in [Vbufs -> Vbuf]
    BY <1>1, <1>5, <1>6, <1>10 DEF Merged, BufferOK
  <2>2. DOMAIN heap' \subseteq Chunks
    BY <1>2, <1>3, <1>9
  <2>3. ASSUME overrun' = "no", NEW d \in Vbufs
        PROVE  Len(vbuf'[d].vec) <= vbuf'[d].cap
    <3>1. CASE d = to
      <4>1. Len(t.vec) + Len(v.vec) <= cap
        BY <1>1, <2>3
      <4> QED
        BY <1>5, <1>11, <3>1, <4>1 DEF Merged
    <3>2. CASE d = from
      BY <1>6, <1>11, <3>2 DEF BufferOK
    <3>3. CASE d \notin {from, to}
      BY <1>11, <3>3, EveryBufferOK DEF BufferOK
    <3> QED
      BY <3>1, <3>2, <3>3
  <2>4. overrun' \in {"no", "migrate"} /\ answer' \in {0, -1}
    BY <1>1
  <2> QED
    BY <2>1, <2>2, <2>3, <2>4 DEF TypeOK, Vbuf, Iovec
<1>14. NotEmpty'
  <2>1. \A d \in Vbufs : vbuf'[d].chunks # <<>>
    BY <1>5, <1>6, <1>11 DEF Merged, BufferOK, Inv, NotEmpty
  <2> QED
    BY <2>1 DEF NotEmpty
<1>15. ChunksOwnedOnce'
  <2>1. DOMAIN heap' = UNION {Owned(d)' : d \in Vbufs}
    <3>1. UNION {Owned(d)' : d \in Vbufs} =
          Owned(to)' \cup Owned(from)' \cup UNION {Owned(d)' : d \in Vbufs \ {from, to}}
      OBVIOUS
    <3>2. UNION {Owned(d) : d \in Vbufs} =
          Owned(to) \cup Owned(from) \cup UNION {Owned(d) : d \in Vbufs \ {from, to}}
      OBVIOUS
    <3>3. UNION {Owned(d)' : d \in Vbufs \ {from, to}} = UNION {Owned(d) : d \in Vbufs \ {from, to}}
      BY <1>12
    <3> QED
      BY <1>3, <1>9, <1>12, <3>1, <3>2, <3>3
  <2>2. \A d \in Vbufs : c \notin Owned(d)
    BY <1>3
  <2>3. \A d \in Vbufs : \A e \in Vbufs \ {d} : Owned(d)' \cap Owned(e)' = {}
    BY <1>3, <1>12, <2>2
  <2>4. \A d \in Vbufs : /\ IsInjective(vbuf'[d].chunks) /\ Refers(vbuf'[d])
                        /\ vbuf'[d].chunk \in ToSet(vbuf'[d].chunks)
    BY <1>5, <1>6, <1>11, EveryBufferOK DEF Merged, BufferOK
  <2>5. \A d \in Vbufs : Owned(d)' = ToSet(vbuf'[d].chunks)
    BY DEF Owned
  <2> QED
    BY <2>1, <2>3, <2>4, <2>5 DEF ChunksOwnedOnce, Refers
<1>16. RoomInv'
  <2> SUFFICES ASSUME NEW d \in Vbufs
               PROVE  Room(vbuf'[d], heap')
    BY DEF RoomInv
  <2>0. ASSUME NEW x \in Vbufs
        PROVE  /\ Room(vbuf[x], heap) /\ heap'[vbuf[x].chunk] = heap[vbuf[x].chunk]
               /\ Short(vbuf[x].chunk, heap') = Short(vbuf[x].chunk, heap)
    <3>1. Room(vbuf[x], heap) /\ vbuf[x].chunk \in DOMAIN heap
      BY Before
    <3> QED
      BY <1>9, <3>1 DEF Short
  <2>1. CASE d = from
    <3>1. Len(heap'[c]) \in Nat
      BY <1>2, <1>9
    <3> QED
      BY <1>6, <1>11, <2>1, <3>1
  <2>2. CASE d = to
    <3>1. Room(v, heap') /\ Room(t, heap')
      BY <2>0 DEF Room
    <3> QED
      BY <1>7, <1>11, <2>2, <3>1 DEF Room
  <2>3. CASE d \notin {from, to}
    <3>1. vbuf'[d] = vbuf[d]
      BY <1>11, <2>3
    <3> QED
      BY <2>0, <3>1 DEF Room
  <2> QED
    BY <2>1, <2>2, <2>3
<1>17. HeapType' /\ Sized(heap)' /\ (overrun = "write" => Uneven)'
  <2>1. Len(heap'[c]) = ChunkSize[from] /\ ChunkSize[from] <= Len(heap'[c])
    BY <1>2, <1>9
  <2>2. Sized(heap')
    BY <1>2, <1>9, <2>1 DEF Sized
  <2> QED
    BY <1>1, <1>9, <2>2 DEF HeapType
<1> QED
  BY <1>13, <1>14, <1>15, <1>16, <1>17 DEF Inv

LEMMA NextKeeps ==
    ASSUME Inv, [Next]_vars
    PROVE  Inv'
<1>1. ASSUME NEW b \in Vbufs, NEW w \in Writes,
             WriteRef(b, w) \/ CopyInChunk(b, w) \/ CopyInNewChunk(b, w)
      PROVE  Inv'
  BY <1>1, WriteRefKeeps, CopyInChunkKeeps, CopyInNewChunkKeeps
<1>2. ASSUME NEW b \in Vbufs, Clear(b) \/ Renew(b)
      PROVE  Inv'
  BY <1>2, ClearKeeps, RenewKeeps
<1>3. ASSUME NEW from \in Vbufs, NEW to \in Vbufs \ {from}, Migrate(from, to)
      PROVE  Inv'
  BY <1>3, FailKeeps, MovedKeeps DEF Migrate
<1>4. CASE UNCHANGED vars
  BY <1>4, NothingChanges DEF vars, Inv, TypeOK
<1> QED
  BY <1>1, <1>2, <1>3, <1>4 DEF Next

LEMMA InitInv == Init => Inv
<1> SUFFICES ASSUME Init
             PROVE  Inv
  OBVIOUS
<1>1. PICK at \in [Vbufs -> Chunks] :
         /\ IsInjective(at)
         /\ vbuf = [b \in Vbufs |-> Empty(at[b], ChunkSize[b], First)]
         /\ heap = [c \in Range(at) |-> NewChunk(ChunkSize[CHOOSE b \in Vbufs : at[b] = c])]
  BY DEF Init
<1>2. answer = 0 /\ overrun = "no"
  BY DEF Init
<1>3. ASSUME NEW b \in Vbufs
      PROVE  /\ BufferOK(vbuf[b]) /\ Owned(b) = {at[b]}
             /\ at[b] \in DOMAIN heap /\ Len(heap[at[b]]) = ChunkSize[b]
             /\ Room(vbuf[b], heap)
  <2>1. at[b] \in Chunks /\ ChunkSize[b] \in Nat /\ vbuf[b] = Empty(at[b], ChunkSize[b], First)
    BY <1>1, VrefAssumption
  <2>2. /\ BufferOK(vbuf[b]) /\ ToSet(vbuf[b].chunks) = {at[b]}
        /\ \A h : Len(h[at[b]]) \in Nat => Room(vbuf[b], h)
    <3> DEFINE c == at[b]
               u == vbuf[b]
    <3>1. c \in Chunks /\ u = Empty(c, ChunkSize[b], First)
      BY <2>1
    <3> HIDE DEF c, u
    <3>2. /\ BufferOK(u) /\ ToSet(u.chunks) = {c}
          /\ \A h : Len(h[c]) \in Nat => Room(u, h)
      BY <3>1, EmptyOK, FirstCapacity
    <3> QED
      BY <3>2 DEF c, u
  <2>3. at[b] \in DOMAIN heap
    BY <1>1 DEF Range
  <2>4. (CHOOSE d \in Vbufs : at[d] = at[b]) = b
    BY <1>1 DEF IsInjective
  <2>5. heap[at[b]] = NewChunk(ChunkSize[b])
    BY <1>1, <2>3, <2>4
  <2>6. Len(heap[at[b]]) = ChunkSize[b]
    BY <2>1, <2>5, NewChunkType
  <2>7. Room(vbuf[b], heap)
    BY <2>1, <2>2, <2>6
  <2> QED
    BY <2>2, <2>3, <2>6, <2>7 DEF Owned
<1>4. vbuf \in [Vbufs -> Vbuf]
  <2>1. \A b \in Vbufs : vbuf[b] \in Vbuf
    BY <1>3 DEF BufferOK
  <2>2. vbuf = [b \in Vbufs |-> vbuf[b]]
    BY <1>1
  <2> QED
    BY <2>1, <2>2
<1>5. DOMAIN heap = {at[b] : b \in Vbufs}
  BY <1>1 DEF Range
<1>6. TypeOK
  <2>1. DOMAIN heap \subseteq Chunks
    BY <1>1, <1>5
  <2>2. \A b \in Vbufs : Len(vbuf[b].vec) <= vbuf[b].cap
    BY <1>3 DEF BufferOK
  <2> QED
    BY <1>2, <1>4, <2>1, <2>2 DEF TypeOK, Vbuf, Iovec
<1>7. HeapType
  <2>1. \A c \in DOMAIN heap : heap[c] \in Seq(Nat)
    <3> SUFFICES ASSUME NEW c \in DOMAIN heap
                 PROVE  heap[c] \in Seq(Nat)
      OBVIOUS
    <3>1. PICK b \in Vbufs : at[b] = c
      BY <1>5
    <3>2. (CHOOSE d \in Vbufs : at[d] = c) = b
      BY <1>1, <3>1 DEF IsInjective
    <3>3. heap[c] = NewChunk(ChunkSize[b]) /\ ChunkSize[b] \in Nat
      BY <1>1, <3>2, VrefAssumption
    <3> QED
      BY <3>3, NewChunkType
  <2>2. heap = [c \in DOMAIN heap |-> heap[c]]
    BY <1>1
  <2> QED
    BY <2>1, <2>2 DEF HeapType
<1>8. NotEmpty
  BY <1>3 DEF NotEmpty, BufferOK
<1>9. ChunksOwnedOnce
  <2>1. DOMAIN heap = UNION {Owned(b) : b \in Vbufs}
    BY <1>3, <1>5
  <2>2. \A b \in Vbufs : \A d \in Vbufs \ {b} : Owned(b) \cap Owned(d) = {}
    <3>1. \A b \in Vbufs : \A d \in Vbufs \ {b} : at[b] # at[d]
      BY <1>1 DEF IsInjective
    <3> QED
      BY <1>3, <3>1
  <2>3. \A b \in Vbufs : Owned(b) = ToSet(vbuf[b].chunks)
    BY DEF Owned
  <2> QED
    BY <1>3, <2>1, <2>2, <2>3 DEF ChunksOwnedOnce, BufferOK, Refers
<1>10. RoomInv
  BY <1>3 DEF RoomInv
<1>11. Sized(heap)
  <2> SUFFICES ASSUME NEW c \in DOMAIN heap
               PROVE  \E d \in Vbufs : ChunkSize[d] <= Len(heap[c])
    BY DEF Sized
  <2>1. PICK b \in Vbufs : at[b] = c
    BY <1>5
  <2>2. Len(heap[c]) = ChunkSize[b] /\ ChunkSize[b] \in Nat
    BY <1>3, <2>1, VrefAssumption
  <2> QED
    BY <2>1, <2>2
<1> QED
  BY <1>1, <1>2, <1>6, <1>7, <1>8, <1>9, <1>10, <1>11 DEF Inv

-----------------------------------------------------------------------------
(* What an array of references holds                                       *)

\* What references stand for, in a heap.
BytesOf(h, iov) ==
    IF IsCopy(iov)
    THEN [i \in 1..iov.len |-> IF iov.off + i <= Len(h[iov.chunk]) THEN h[iov.chunk][iov.off + i] ELSE 0]
    ELSE iov.data
Hold(vec, h) == FlattenSeq([i \in DOMAIN vec |-> BytesOf(h, vec[i])])

\* References into the chunks of a heap.
InHeap(vec, h) ==
    /\ vec \in Seq(Iovec) /\ h \in [DOMAIN h -> Seq(Nat)]
    /\ \A i \in DOMAIN vec : IsCopy(vec[i]) => vec[i].chunk \in DOMAIN h

LEMMA IovecCases ==
    ASSUME NEW iov \in Iovec
    PROVE  /\ IsCopy(iov) => iov \in [chunk : Chunks, off : Nat, len : Nat]
           /\ ~IsCopy(iov) => iov.data \in Writes
BY DEF Iovec, IsCopy

LEMMA BytesType ==
    ASSUME NEW iov \in Iovec, NEW h, h \in [DOMAIN h -> Seq(Nat)],
           IsCopy(iov) => iov.chunk \in DOMAIN h
    PROVE  BytesOf(h, iov) \in Seq(Nat)
<1>1. CASE IsCopy(iov)
  <2> DEFINE x == h[iov.chunk]
             n == iov.len
             o == iov.off
  <2>1. x \in Seq(Nat) /\ n \in Nat /\ o \in Nat
    BY <1>1, IovecCases
  <2>2. BytesOf(h, iov) = [i \in 1..n |-> IF o + i <= Len(x) THEN x[o + i] ELSE 0]
    BY <1>1 DEF BytesOf
  <2> HIDE DEF x, n, o
  <2>3. \A i \in 1..n : (IF o + i <= Len(x) THEN x[o + i] ELSE 0) \in Nat
    <3> SUFFICES ASSUME NEW i \in 1..n, o + i <= Len(x) PROVE x[o + i] \in Nat
      OBVIOUS
    <3>1. o + i \in 1..Len(x)
      BY <2>1
    <3> QED BY <2>1, <3>1
  <2> QED BY SMTT(60), <2>1, <2>2, <2>3
<1>2. CASE ~IsCopy(iov)
  <2>1. iov.data \in Writes
    BY <1>2, IovecCases
  <2>2. iov.data \in Seq(Nat \ {0})
    BY <2>1, VrefAssumption
  <2> QED BY <1>2, <2>2 DEF BytesOf
<1> QED BY <1>1, <1>2

Pieces(vec, h) == [i \in DOMAIN vec |-> BytesOf(h, vec[i])]

LEMMA PiecesType ==
    ASSUME NEW vec, NEW h, InHeap(vec, h)
    PROVE  /\ Pieces(vec, h) \in Lists(Nat) /\ Len(Pieces(vec, h)) = Len(vec)
           /\ Hold(vec, h) = FlattenSeq(Pieces(vec, h)) /\ Hold(vec, h) \in Seq(Nat)
<1>1. vec \in Seq(Iovec) /\ DOMAIN vec = 1..Len(vec) /\ Len(vec) \in Nat
  BY DEF InHeap
<1>2. ASSUME NEW i \in DOMAIN vec PROVE BytesOf(h, vec[i]) \in Seq(Nat)
  <2>1. vec[i] \in Iovec
    BY <1>1
  <2> QED BY <2>1, BytesType DEF InHeap
<1>3. Pieces(vec, h) \in [1..Len(vec) -> Seq(Nat)]
  BY <1>1, <1>2 DEF Pieces
<1>4. Pieces(vec, h) \in Lists(Nat) /\ Len(Pieces(vec, h)) = Len(vec)
  BY <1>1, <1>3 DEF Lists
<1> QED BY <1>4, FlattenType DEF Hold, Pieces

LEMMA HoldEmpty == \A h : Hold(<<>>, h) = <<>>
<1> SUFFICES ASSUME NEW h PROVE Hold(<<>>, h) = <<>>
  OBVIOUS
<1> DEFINE p == [i \in DOMAIN <<>> |-> BytesOf(h, <<>>[i])]
<1>1. p = <<>>
  OBVIOUS
<1>2. <<>> \in Lists(Nat) /\ Len(<<>>) = 0
  BY DEF Lists
<1>3. FlattenSeq(<<>>) = <<>>
  BY <1>2, FlattenType
<1> QED BY <1>1, <1>3 DEF Hold

LEMMA HoldSame ==
    ASSUME NEW vec, NEW h, NEW k, \A i \in DOMAIN vec : BytesOf(k, vec[i]) = BytesOf(h, vec[i])
    PROVE  Hold(vec, k) = Hold(vec, h)
<1>1. [i \in DOMAIN vec |-> BytesOf(k, vec[i])] = [i \in DOMAIN vec |-> BytesOf(h, vec[i])]
  OBVIOUS
<1> QED BY <1>1 DEF Hold

LEMMA HoldMore ==
    ASSUME NEW vec, NEW h, InHeap(vec, h), NEW iov \in Iovec, IsCopy(iov) => iov.chunk \in DOMAIN h
    PROVE  /\ InHeap(Append(vec, iov), h)
           /\ Hold(Append(vec, iov), h) = Hold(vec, h) \o BytesOf(h, iov)
<1>1. vec \in Seq(Iovec) /\ h \in [DOMAIN h -> Seq(Nat)]
  BY DEF InHeap
<1>2. InHeap(Append(vec, iov), h)
  BY <1>1, OneMore DEF InHeap
<1>3. BytesOf(h, iov) \in Seq(Nat)
  BY <1>1, BytesType
<1> DEFINE x == BytesOf(h, iov)
           p == Pieces(vec, h)
           more == Append(vec, iov)
           q == Pieces(more, h)
<1>4. /\ p \in Lists(Nat) /\ q \in Lists(Nat) /\ Len(p) = Len(vec)
      /\ Len(q) = Len(vec) + 1 /\ Len(vec) \in Nat
      /\ Hold(more, h) = FlattenSeq(q) /\ Hold(vec, h) = FlattenSeq(p)
  <2>1. p \in Lists(Nat) /\ Len(p) = Len(vec) /\ Hold(vec, h) = FlattenSeq(p)
    BY PiecesType
  <2>2. Len(more) = Len(vec) + 1 /\ Len(vec) \in Nat
    BY <1>1, OneMore
  <2> HIDE DEF more
  <2>3. q \in Lists(Nat) /\ Len(q) = Len(more) /\ Hold(more, h) = FlattenSeq(q)
    BY <1>2, PiecesType DEF more
  <2> QED BY <2>1, <2>2, <2>3
<1>5. q[Len(vec) + 1] = x /\ \A i \in 1..Len(vec) : q[i] = p[i]
  <2>1. /\ more[Len(vec) + 1] = iov /\ \A i \in 1..Len(vec) : more[i] = vec[i]
        /\ DOMAIN more = 1..(Len(vec) + 1) /\ DOMAIN vec = 1..Len(vec)
    BY <1>1, AppendProperties
  <2>2. Len(vec) + 1 \in DOMAIN more /\ \A i \in 1..Len(vec) : i \in DOMAIN more
    BY <1>4, <2>1
  <2> HIDE DEF more
  <2> QED BY <2>1, <2>2 DEF Pieces
<1> HIDE DEF x, p, q
<1>6. q = Append(p, x)
  <2>1. p \in Seq(Seq(Nat)) /\ q \in Seq(Seq(Nat)) /\ x \in Seq(Nat)
    BY <1>3, <1>4 DEF Lists, x
  <2>2. /\ Append(p, x) \in Seq(Seq(Nat)) /\ Len(Append(p, x)) = Len(p) + 1
        /\ Append(p, x)[Len(p) + 1] = x /\ \A i \in 1..Len(p) : Append(p, x)[i] = p[i]
    BY <2>1, AppendProperties
  <2>3. \A i \in 1..(Len(vec) + 1) : i = Len(vec) + 1 \/ i \in 1..Len(vec)
    BY <1>4
  <2>4. \A i \in 1..Len(q) : q[i] = Append(p, x)[i]
    BY <1>4, <1>5, <2>2, <2>3
  <2>5. Len(q) = Len(Append(p, x))
    BY <1>4, <2>2
  <2> QED BY <2>1, <2>2, <2>4, <2>5, SeqEqual
<1>7. FlattenSeq(Append(p, x)) = FlattenSeq(p) \o x
  BY <1>3, <1>4, FlattenMore DEF x
<1> QED BY <1>2, <1>4, <1>6, <1>7 DEF x

LEMMA ListsJoined ==
    ASSUME NEW p \in Seq(Seq(Nat)), NEW q \in Seq(Seq(Nat))
    PROVE  p \o q \in Seq(Seq(Nat)) /\ Len(p \o q) = Len(p) + Len(q)
OBVIOUS

LEMMA HoldTwo ==
    ASSUME NEW s, NEW t, NEW h, InHeap(s, h), InHeap(t, h)
    PROVE  Hold(s \o t, h) = Hold(s, h) \o Hold(t, h)
<1>1. s \in Seq(Iovec) /\ t \in Seq(Iovec)
  BY DEF InHeap
<1> DEFINE p == Pieces(s, h)
           q == Pieces(t, h)
           r == [i \in DOMAIN (s \o t) |-> BytesOf(h, (s \o t)[i])]
<1>2. /\ p \in Lists(Nat) /\ q \in Lists(Nat)
      /\ Hold(s, h) = FlattenSeq(p) /\ Hold(t, h) = FlattenSeq(q)
      /\ Len(p) = Len(s) /\ Len(q) = Len(t)
  BY PiecesType
<1>3. r = p \o q
  <2>1. /\ s \o t \in Seq(Iovec) /\ Len(s \o t) = Len(s) + Len(t)
        /\ Len(s) \in Nat /\ Len(t) \in Nat /\ DOMAIN (s \o t) = 1..(Len(s) + Len(t))
        /\ DOMAIN s = 1..Len(s) /\ DOMAIN t = 1..Len(t)
    BY <1>1
  <2>2. p \in Seq(Seq(Nat)) /\ q \in Seq(Seq(Nat))
    BY <1>2 DEF Lists
  <2>3. ASSUME NEW i \in 1..(Len(s) + Len(t)) PROVE r[i] = (p \o q)[i]
    <3>1. CASE i <= Len(s)
      <4>1. i \in DOMAIN s /\ (s \o t)[i] = s[i]
        BY <1>1, <2>1, <3>1
      <4>2. r[i] = BytesOf(h, s[i]) /\ p[i] = BytesOf(h, s[i])
        BY <2>1, <4>1 DEF Pieces
      <4> HIDE DEF p, q, r
      <4>3. (p \o q)[i] = p[i]
        BY <1>2, <2>1, <2>2, <3>1
      <4> QED BY <4>2, <4>3
    <3>2. CASE ~(i <= Len(s))
      <4>1. i - Len(s) \in DOMAIN t /\ (s \o t)[i] = t[i - Len(s)]
        BY <1>1, <2>1, <3>2
      <4>2. r[i] = BytesOf(h, t[i - Len(s)]) /\ q[i - Len(s)] = BytesOf(h, t[i - Len(s)])
        BY <2>1, <4>1 DEF Pieces
      <4> HIDE DEF p, q, r
      <4>3. (p \o q)[i] = q[i - Len(s)]
        BY <1>2, <2>1, <2>2, <3>2
      <4> QED BY <4>2, <4>3
    <3> QED BY <3>1, <3>2
  <2>4. r = [i \in 1..(Len(s) + Len(t)) |-> r[i]]
    BY <2>1
  <2> HIDE DEF p, q, r
  <2>5. p \o q = [i \in 1..(Len(s) + Len(t)) |-> (p \o q)[i]]
    <3> DEFINE m == p \o q
    <3>1. m \in Seq(Seq(Nat)) /\ Len(m) = Len(p) + Len(q)
      BY <2>2, ListsJoined
    <3> HIDE DEF m
    <3>2. m = [i \in 1..Len(m) |-> m[i]]
      BY <3>1
    <3> QED BY <1>2, <3>1, <3>2 DEF m
  <2> QED BY <2>3, <2>4, <2>5
<1>4. Hold(s \o t, h) = FlattenSeq(r)
  BY DEF Hold
<1> HIDE DEF p, q, r
<1>5. FlattenSeq(p \o q) = FlattenSeq(p) \o FlattenSeq(q)
  BY Zenon, <1>2, FlattenTwo
<1> QED BY <1>2, <1>3, <1>4, <1>5

-----------------------------------------------------------------------------
(* What a copy changes of it                                               *)

\* The copies in the chunk of the next copy are below it.
Placed(v) ==
    \A i \in DOMAIN v.vec :
        IsCopy(v.vec[i]) /\ v.vec[i].chunk = v.chunk => v.vec[i].off + v.vec[i].len <= v.off

LEMMA OverwrittenAt ==
    ASSUME NEW x \in Seq(Nat), NEW w \in Seq(Nat), NEW off \in Nat, off + Len(w) <= Len(x)
    PROVE  /\ \A j \in 1..Len(x) : j <= off => Overwritten(x, off, w)[j] = x[j]
           /\ \A j \in 1..Len(w) : Overwritten(x, off, w)[off + j] = w[j]
<1>1. DOMAIN x = 1..Len(x) /\ Len(x) \in Nat /\ Len(w) \in Nat
  OBVIOUS
<1>2. \A j \in 1..Len(x) : Overwritten(x, off, w)[j] =
         IF off < j /\ j <= off + Len(w) THEN w[j - off] ELSE x[j]
  BY <1>1 DEF Overwritten
<1>3. ASSUME NEW j \in 1..Len(w) PROVE Overwritten(x, off, w)[off + j] = w[j]
  <2>1. /\ off + j \in 1..Len(x) /\ off < off + j /\ off + j <= off + Len(w)
        /\ (off + j) - off = j
    BY <1>1
  <2> QED BY <1>2, <2>1
<1>4. ASSUME NEW j \in 1..Len(x), j <= off PROVE Overwritten(x, off, w)[j] = x[j]
  BY <1>1, <1>2, <1>4
<1> QED BY <1>3, <1>4

\* Chunk c is written from off on, the other chunks are as they were.
Written(k, h, c, off, w) ==
    /\ k[c] = Overwritten(h[c], off, w)
    /\ \A d \in DOMAIN h : d # c => k[d] = h[d]

LEMMA BytesKept ==
    ASSUME NEW h, NEW k, h \in [DOMAIN h -> Seq(Nat)], NEW c \in DOMAIN h, NEW off \in Nat,
           NEW w \in Writes, off + Len(w) <= Len(h[c]), Written(k, h, c, off, w),
           NEW iov \in Iovec, IsCopy(iov) => iov.chunk \in DOMAIN h,
           IsCopy(iov) /\ iov.chunk = c => iov.off + iov.len <= off
    PROVE  BytesOf(k, iov) = BytesOf(h, iov)
<1>1. CASE ~IsCopy(iov)
  BY <1>1 DEF BytesOf
<1>2. CASE IsCopy(iov) /\ iov.chunk # c
  BY <1>2 DEF BytesOf, Written
<1>3. CASE IsCopy(iov) /\ iov.chunk = c
  <2> DEFINE x == h[c]
             y == Overwritten(x, off, w)
             n == iov.len
             o == iov.off
  <2>1. x \in Seq(Nat) /\ n \in Nat /\ o \in Nat /\ o + n <= off
    BY <1>3, IovecCases
  <2>2. w \in Seq(Nat) /\ off + Len(w) <= Len(x)
    BY VrefAssumption
  <2>3. Len(y) = Len(x) /\ \A j \in 1..Len(x) : j <= off => y[j] = x[j]
    BY <2>1, <2>2, OverwrittenAt, OverwrittenType
  <2>4. BytesOf(h, iov) = [i \in 1..n |-> IF o + i <= Len(x) THEN x[o + i] ELSE 0]
    BY <1>3 DEF BytesOf
  <2>5. BytesOf(k, iov) = [i \in 1..n |-> IF o + i <= Len(y) THEN y[o + i] ELSE 0]
    BY <1>3 DEF BytesOf, Written
  <2> HIDE DEF x, y, n, o
  <2>6. ASSUME NEW i \in 1..n
        PROVE  (IF o + i <= Len(y) THEN y[o + i] ELSE 0) = (IF o + i <= Len(x) THEN x[o + i] ELSE 0)
    <3>1. o + i <= off /\ o + i \in Nat /\ o + i >= 1
      BY SMTT(60), <2>1
    <3>2. o + i <= Len(x) => y[o + i] = x[o + i]
      BY <2>1, <2>3, <3>1
    <3> QED BY <2>3, <3>2
  <2> QED BY <2>4, <2>5, <2>6
<1> QED BY <1>1, <1>2, <1>3

LEMMA TwoBytes ==
    ASSUME NEW a \in Seq(Nat), NEW w \in Seq(Nat)
    PROVE  /\ a \o w = [i \in 1..(Len(a) + Len(w)) |-> (a \o w)[i]]
           /\ \A i \in 1..Len(a) : (a \o w)[i] = a[i]
           /\ \A i \in 1..Len(w) : (a \o w)[Len(a) + i] = w[i]
<1> DEFINE m == a \o w
<1>1. m \in Seq(Nat) /\ Len(m) = Len(a) + Len(w)
  OBVIOUS
<1>2. m = [i \in 1..Len(m) |-> m[i]]
  <2> HIDE DEF m
  <2> QED BY <1>1
<1> QED BY <1>1, <1>2

LEMMA Past ==
    ASSUME NEW n \in Nat, NEW m \in Nat, NEW o \in Nat, NEW off \in Nat, o + n = off,
           NEW i \in 1..(n + m), ~(i <= n)
    PROVE  i - n \in 1..m /\ o + i = off + (i - n) /\ n + (i - n) = i
OBVIOUS

\* What a copy stands for, and the copy before it with this one.
IsCopied(k, h, c, off, w) ==
    /\ BytesOf(k, InChunk(c, off, Len(w))) = w
    /\ \A iov, long \in Iovec :
          /\ IsCopy(iov) /\ iov.chunk = c /\ iov.off + iov.len = off
          /\ long = InChunk(c, iov.off, iov.len + Len(w))
          => BytesOf(k, long) = BytesOf(h, iov) \o w

LEMMA BytesCopied ==
    ASSUME NEW h, NEW k, h \in [DOMAIN h -> Seq(Nat)], NEW c \in DOMAIN h, NEW off \in Nat,
           NEW w \in Writes, off + Len(w) <= Len(h[c]), Written(k, h, c, off, w)
    PROVE  IsCopied(k, h, c, off, w)
<1> DEFINE x == h[c]
           y == Overwritten(x, off, w)
           m == Len(w)
<1>1. x \in Seq(Nat) /\ w \in Seq(Nat) /\ m \in Nat /\ off + m <= Len(x) /\ k[c] = y
  BY VrefAssumption DEF Written
<1>2. /\ Len(y) = Len(x) /\ \A j \in 1..Len(x) : j <= off => y[j] = x[j]
      /\ \A j \in 1..m : y[off + j] = w[j]
  BY <1>1, OverwrittenAt, OverwrittenType
<1>3. \A o, n \in Nat : /\ IsCopy(InChunk(c, o, n)) /\ InChunk(c, o, n).chunk = c
                        /\ InChunk(c, o, n).off = o /\ InChunk(c, o, n).len = n
  BY DEF InChunk, IsCopy
<1>4. \A o, n \in Nat : BytesOf(k, InChunk(c, o, n)) =
                           [i \in 1..n |-> IF o + i <= Len(y) THEN y[o + i] ELSE 0]
  BY <1>1, <1>3 DEF BytesOf
<1> HIDE DEF y
<1>5. BytesOf(k, InChunk(c, off, m)) = w
  <2> HIDE DEF m, x
  <2>1. BytesOf(k, InChunk(c, off, m)) = [i \in 1..m |-> IF off + i <= Len(y) THEN y[off + i] ELSE 0]
    BY <1>1, <1>4
  <2>2. ASSUME NEW i \in 1..m PROVE (IF off + i <= Len(y) THEN y[off + i] ELSE 0) = w[i]
    <3>1. off + i <= Len(y)
      BY <1>1, <1>2
    <3> QED BY <1>2, <3>1
  <2>3. w = [i \in 1..m |-> w[i]]
    BY <1>1 DEF m
  <2> QED BY <2>1, <2>2, <2>3
<1>6. ASSUME NEW iov \in Iovec, IsCopy(iov), iov.chunk = c, iov.off + iov.len = off
      PROVE  BytesOf(k, InChunk(c, iov.off, iov.len + m)) = BytesOf(h, iov) \o w
  <2> DEFINE n == iov.len
             o == iov.off
             a == BytesOf(h, iov)
             b == BytesOf(k, InChunk(c, o, n + m))
  <2>1. n \in Nat /\ o \in Nat /\ o + n = off
    BY <1>6, IovecCases
  <2>2. a = [i \in 1..n |-> IF o + i <= Len(x) THEN x[o + i] ELSE 0] /\ a \in Seq(Nat)
    BY <1>6, BytesType DEF BytesOf
  <2>3. b = [i \in 1..(n + m) |-> IF o + i <= Len(y) THEN y[o + i] ELSE 0]
    <3>1. n + m \in Nat
      BY <1>1, <2>1
    <3> QED BY <1>4, <2>1, <3>1
  <2> HIDE DEF n, o, a, b, m, x
  <2>4. Len(a) = n /\ \A i \in 1..n : a[i] = IF o + i <= Len(x) THEN x[o + i] ELSE 0
    BY <2>1, <2>2
  <2>k. a \in Seq(Nat) /\ w \in Seq(Nat) /\ Len(a) = n /\ Len(w) = m
    BY <1>1, <2>2, <2>4 DEF m
  <2>j. /\ a \o w = [i \in 1..(n + m) |-> (a \o w)[i]]
        /\ \A i \in 1..n : (a \o w)[i] = a[i]
        /\ \A i \in 1..m : (a \o w)[n + i] = w[i]
    <3>1. /\ a \o w = [i \in 1..(Len(a) + Len(w)) |-> (a \o w)[i]]
          /\ \A i \in 1..Len(a) : (a \o w)[i] = a[i]
          /\ \A i \in 1..Len(w) : (a \o w)[Len(a) + i] = w[i]
      BY Zenon, <2>k, TwoBytes
    <3> QED BY Zenon, <2>k, <3>1
  <2>5. ASSUME NEW i \in 1..(n + m) PROVE b[i] = (a \o w)[i]
    <3>0. o + i <= Len(y) /\ o + i \in 1..Len(x) /\ b[i] = y[o + i]
      <4>1. o + i <= Len(x) /\ o + i \in 1..Len(x)
        BY SMTT(60), <1>1, <2>1
      <4> QED BY <1>2, <2>3, <4>1
    <3>1. CASE i <= n
      <4>1. o + i <= off /\ i \in 1..n
        BY <2>1, <3>1
      <4>2. b[i] = x[o + i] /\ a[i] = x[o + i]
        BY <1>2, <2>4, <3>0, <4>1
      <4>3. (a \o w)[i] = a[i]
        BY Zenon, <2>j, <4>1
      <4> QED BY <4>2, <4>3
    <3>2. CASE ~(i <= n)
      <4>1. i - n \in 1..m /\ o + i = off + (i - n) /\ n + (i - n) = i
        BY <1>1, <2>1, <3>2, Past
      <4>2. b[i] = w[i - n]
        BY <1>2, <3>0, <4>1
      <4>3. (a \o w)[i] = w[i - n]
        BY Zenon, <2>j, <4>1
      <4> QED BY <4>2, <4>3
    <3> QED BY <3>1, <3>2
  <2>7. b = [i \in 1..(n + m) |-> b[i]]
    BY <2>3
  <2>8. b = a \o w
    BY Zenon, <2>5, <2>j, <2>7
  <2> QED BY <2>8 DEF a, b, n, o
<1> QED BY <1>5, <1>6 DEF m, IsCopied

\* What an array of references holds after a write, which may have failed.
Outcome(vec, v, h, w) ==
    \/ answer' = 0 /\ Hold(vec, heap') = Hold(v.vec, h) \o w
    \/ answer' = -1 /\ Hold(vec, heap') = Hold(v.vec, h)

LEMMA AppendRefHolds ==
    ASSUME NEW b \in Vbufs, NEW v \in Vbuf, NEW iov \in Iovec, AppendRef(b, v, iov)
    PROVE  \E u : /\ vbuf' = [vbuf EXCEPT ![b] = u] /\ SamePlace(u, v)
                  /\ \/ u.vec = Append(v.vec, iov) /\ answer' = 0
                     \/ u.vec = v.vec /\ answer' = -1
<1>1. v.vec \in Seq(Iovec) /\ v.cap \in Capacities
  BY DEF Vbuf
<1> DEFINE more == Append(v.vec, iov)
           u1 == [v EXCEPT !.vec = more]
           u2 == [v EXCEPT !.vec = more, !.cap = 2 * v.cap]
<1>2. u1.vec = more /\ SamePlace(u1, v)
  BY DEF Vbuf, SamePlace
<1>3. u2.vec = more /\ SamePlace(u2, v)
  BY DEF Vbuf, SamePlace
<1>4. CASE ~Full(v) /\ vbuf' = [vbuf EXCEPT ![b] = u1] /\ answer' = 0
  <2> HIDE DEF u1, more
  <2> QED BY <1>2, <1>4 DEF more
<1>5. CASE vbuf' = [vbuf EXCEPT ![b] = u2] /\ answer' = 0
  <2> HIDE DEF u2, more
  <2> QED BY <1>3, <1>5 DEF more
<1>6. CASE vbuf' = [vbuf EXCEPT ![b] = v] /\ answer' = -1
  BY <1>6 DEF SamePlace
<1> QED BY <1>4, <1>5, <1>6 DEF AppendRef

LEMMA Lengthened ==
    ASSUME NEW iov \in [chunk : Chunks, off : Nat, len : Nat], NEW x \in Nat
    PROVE  [iov EXCEPT !.len = x] = InChunk(iov.chunk, iov.off, x)
  BY DEF InChunk

LEMMA InChunkType ==
    ASSUME NEW c \in Chunks, NEW o \in Nat, NEW n \in Nat
    PROVE  /\ InChunk(c, o, n) \in Iovec /\ IsCopy(InChunk(c, o, n))
           /\ InChunk(c, o, n).chunk = c /\ InChunk(c, o, n).off = o /\ InChunk(c, o, n).len = n
  BY DEF InChunk, Iovec, IsCopy

\* The last of the references is replaced.
LEMMA LastReplaced ==
    ASSUME NEW r \in Seq(Iovec), NEW x \in Iovec, NEW y \in Iovec
    PROVE  /\ [Append(r, x) EXCEPT ![Len(Append(r, x))] = y] = Append(r, y)
           /\ Append(r, x)[Len(Append(r, x))] = x
<1>1. /\ Append(r, x) \in Seq(Iovec) /\ Len(Append(r, x)) = Len(r) + 1 /\ Len(r) \in Nat
      /\ Append(r, x)[Len(r) + 1] = x /\ \A i \in 1..Len(r) : Append(r, x)[i] = r[i]
  BY AppendProperties
<1>2. /\ Append(r, y) \in Seq(Iovec) /\ Len(Append(r, y)) = Len(r) + 1
      /\ Append(r, y)[Len(r) + 1] = y /\ \A i \in 1..Len(r) : Append(r, y)[i] = r[i]
  BY AppendProperties
<1> DEFINE s == Append(r, x)
           t == Append(r, y)
           q == [s EXCEPT ![Len(s)] = y]
<1> HIDE DEF s, t
<1>3. DOMAIN s = 1..(Len(r) + 1) /\ DOMAIN t = 1..(Len(r) + 1) /\ Len(s) = Len(r) + 1
  BY <1>1, <1>2 DEF s, t
<1>4. q = [i \in 1..(Len(r) + 1) |-> IF i = Len(r) + 1 THEN y ELSE s[i]]
  BY <1>1, <1>3 DEF s
<1>5. t = [i \in 1..(Len(r) + 1) |-> t[i]]
  <2>1. t \in Seq(Iovec) /\ Len(t) = Len(r) + 1
    BY <1>2 DEF t
  <2>2. t = [i \in 1..Len(t) |-> t[i]]
    BY <2>1
  <2> QED BY <2>1, <2>2
<1>6. \A i \in 1..(Len(r) + 1) : t[i] = IF i = Len(r) + 1 THEN y ELSE s[i]
  <2>1. \A i \in 1..(Len(r) + 1) : i = Len(r) + 1 \/ i \in 1..Len(r)
    BY <1>1
  <2>2. Len(r) + 1 \notin 1..Len(r)
    BY <1>1
  <2> QED BY <1>1, <1>2, <2>1, <2>2 DEF s, t
<1>7. q = t
  BY <1>4, <1>5, <1>6
<1> QED BY <1>1, <1>7 DEF s, t

LEMMA CopyHolds ==
    ASSUME NEW b \in Vbufs, NEW v, BufferOK(v), Placed(v), NEW w \in Writes,
           NEW h, InHeap(v.vec, h), v.chunk \in DOMAIN h, Copy(b, v, h, w), overrun' = "no"
    PROVE  \E u : vbuf' = [vbuf EXCEPT ![b] = u] /\ Placed(u) /\ Outcome(u.vec, v, h, w)
<1> DEFINE m == Len(w)
           c == v.chunk
           n == Len(v.vec)
<1>1. /\ v \in Vbuf /\ v.vec \in Seq(Iovec) /\ v.off \in Nat /\ v.free \in Int
      /\ c \in Chunks /\ m \in Nat /\ w \in Seq(Nat) /\ n \in Nat /\ DOMAIN v.vec = 1..n
      /\ h \in [DOMAIN h -> Seq(Nat)] /\ c \in DOMAIN h
  BY VrefAssumption DEF BufferOK, Vbuf, InHeap
<1> DEFINE after == At(v, v.off + m, v.free - m)
<1>2. /\ after \in Vbuf /\ after.vec = v.vec
      /\ after.chunks = v.chunks /\ after.chunk = v.chunk /\ after.off = v.off + m
  <2>1. v.off + m \in Nat /\ v.free - m \in Int
    BY <1>1, Sums, Zenon
  <2>2. IsAt(after, v, v.off + m, v.free - m)
    BY <1>1, <2>1, Advanced, Zenon
  <2> QED BY <2>2 DEF IsAt
<1>3. /\ v.off + m <= Len(h[c]) /\ Written(heap', h, c, v.off, w)
      /\ heap' \in [DOMAIN h -> Seq(Nat)] /\ DOMAIN heap' = DOMAIN h
  <2>1. heap' = [h EXCEPT ![c] = Overwritten(h[c], v.off, w)]
    BY DEF Copy
  <2> DEFINE o == Overwritten(h[c], v.off, w)
  <2>2. o \in Seq(Nat)
    <3>1. h[c] \in Seq(Nat)
      BY <1>1
    <3> QED BY <1>1, <3>1, OverwrittenType
  <2>3. v.off + m <= Len(h[c])
    BY DEF Copy
  <2> HIDE DEF o
  <2>4. heap' = [h EXCEPT ![c] = o]
    BY <2>1 DEF o
  <2>5. heap' \in [DOMAIN h -> Seq(Nat)] /\ heap'[c] = o /\ \A d \in DOMAIN h : d # c => heap'[d] = h[d]
    BY <1>1, <2>2, <2>4
  <2> QED BY <2>3, <2>5 DEF Written, o
<1> HIDE DEF after
<1>4. PICK k : k = heap'
  OBVIOUS
<1>5. k \in [DOMAIN k -> Seq(Nat)] /\ DOMAIN k = DOMAIN h /\ Written(k, h, c, v.off, w)
  BY <1>3, <1>4
<1>6. ASSUME NEW i \in DOMAIN v.vec PROVE BytesOf(k, v.vec[i]) = BytesOf(h, v.vec[i])
  <2>1. v.vec[i] \in Iovec /\ (IsCopy(v.vec[i]) => v.vec[i].chunk \in DOMAIN h)
    BY <1>1 DEF InHeap
  <2>2. IsCopy(v.vec[i]) /\ v.vec[i].chunk = c => v.vec[i].off + v.vec[i].len <= v.off
    BY DEF Placed
  <2>3. PICK iov \in Iovec : iov = v.vec[i]
    BY <2>1
  <2>4. PICK o \in Nat : o = v.off
    BY <1>1
  <2>5. /\ iov \in Iovec /\ (IsCopy(iov) => iov.chunk \in DOMAIN h)
        /\ IsCopy(iov) /\ iov.chunk = c => iov.off + iov.len <= o
        /\ o + Len(w) <= Len(h[c]) /\ Written(k, h, c, o, w)
    BY <1>3, <1>5, <2>1, <2>2, <2>3, <2>4
  <2>6. h \in [DOMAIN h -> Seq(Nat)] /\ c \in DOMAIN h
    BY <1>1
  <2> HIDE DEF c
  <2>7. BytesOf(k, iov) = BytesOf(h, iov)
    BY <2>5, <2>6, BytesKept
  <2> QED BY <2>3, <2>7
<1>7. \A i \in DOMAIN v.vec : IsCopy(v.vec[i]) /\ v.vec[i].chunk = c =>
                                  v.vec[i].off + v.vec[i].len <= v.off + m
  <2> SUFFICES ASSUME NEW i \in DOMAIN v.vec, IsCopy(v.vec[i]), v.vec[i].chunk = c
               PROVE  v.vec[i].off + v.vec[i].len <= v.off + m
    OBVIOUS
  <2>1. v.vec[i].off + v.vec[i].len <= v.off
    BY DEF Placed
  <2>2. v.vec[i].off \in Nat /\ v.vec[i].len \in Nat
    BY <1>1, IovecCases
  <2>3. PICK p \in Nat, q \in Nat : p = v.vec[i].off + v.vec[i].len /\ q = v.off
    BY SMTT(60), <1>1, <2>2
  <2> QED BY <1>1, <2>1, <2>3
<1>c. /\ BytesOf(k, InChunk(c, v.off, m)) = w
      /\ \A iov, long \in Iovec :
            /\ IsCopy(iov) /\ iov.chunk = c /\ iov.off + iov.len = v.off
            /\ long = InChunk(c, iov.off, iov.len + m)
            => BytesOf(k, long) = BytesOf(h, iov) \o w
  <2>1. PICK o \in Nat : o = v.off
    BY <1>1
  <2>2. o + Len(w) <= Len(h[c]) /\ Written(k, h, c, o, w)
    BY <1>3, <1>5, <2>1
  <2> HIDE DEF c
  <2>3. IsCopied(k, h, c, o, w)
    <3>1. c \in DOMAIN h /\ h \in [DOMAIN h -> Seq(Nat)]
      BY <1>1
    <3> QED BY <2>2, <3>1, BytesCopied
  <2> QED BY <2>1, <2>3 DEF IsCopied
<1> HIDE DEF m, n, c
<1>8. CASE /\ Follows(v)
           /\ vbuf' = [vbuf EXCEPT ![b] = [after EXCEPT !.vec[n].len = v.vec[n].len + m]]
           /\ answer' = 0
  <2>1. v.vec # <<>> /\ n \in DOMAIN v.vec /\ IsCopy(v.vec[n]) /\ v.vec[n].chunk = c
        /\ v.vec[n].off + v.vec[n].len = v.off
    BY <1>1, <1>8 DEF Follows, Last, n, c
  <2>2. PICK r \in Seq(Iovec), x \in Iovec : v.vec = Append(r, x)
    BY <1>1, <2>1, SequenceEmptyOrAppend
  <2>3. v.vec[n] = x
    BY <2>2, LastReplaced DEF n
  <2>4. x \in [chunk : Chunks, off : Nat, len : Nat] /\ x.chunk = c /\ x.off + x.len = v.off
        /\ IsCopy(x)
    BY <2>1, <2>3, IovecCases
  <2>5. PICK long : long = InChunk(c, x.off, x.len + m)
    OBVIOUS
  <2>6. /\ long \in Iovec /\ IsCopy(long) /\ long.chunk = c
        /\ long.off = x.off /\ long.len = x.len + m
    <3>1. x.off \in Nat /\ x.len + m \in Nat
      BY <1>1, <2>4
    <3> QED BY <1>1, <2>5, <3>1, InChunkType
  <2>7. [x EXCEPT !.len = x.len + m] = long
    <3>1. x.len + m \in Nat
      BY <1>1, <2>4
    <3> QED BY <2>4, <2>5, <3>1, Lengthened
  <2> DEFINE u == [after EXCEPT !.vec = [v.vec EXCEPT ![n] = long]]
  <2>8. vbuf' = [vbuf EXCEPT ![b] = u]
    <3>1. [after EXCEPT !.vec[n].len = v.vec[n].len + m] =
          [after EXCEPT !.vec = [after.vec EXCEPT ![n] = [after.vec[n] EXCEPT !.len = v.vec[n].len + m]]]
      BY <1>2
    <3>2. after.vec[n] = x /\ v.vec[n] = x
      BY <1>2, <2>3
    <3> QED BY <1>2, <1>8, <2>7, <3>1, <3>2
  <2>9. u.vec = Append(r, long) /\ u.chunk = c /\ u.off = v.off + m
    <3>1. u.vec = [v.vec EXCEPT ![n] = long] /\ u.chunk = c /\ u.off = v.off + m
      BY <1>2 DEF Vbuf, c
    <3>2. [v.vec EXCEPT ![n] = long] = Append(r, long)
      BY <2>2, <2>6, LastReplaced DEF n
    <3> QED BY <3>1, <3>2
  <2> HIDE DEF u
  <2>10. Placed(u)
    <3> SUFFICES ASSUME NEW i \in DOMAIN u.vec, IsCopy(u.vec[i]), u.vec[i].chunk = c
                 PROVE  u.vec[i].off + u.vec[i].len <= v.off + m
      BY <2>9 DEF Placed
    <3>1. u.vec[i] = long \/ (i \in DOMAIN r /\ u.vec[i] = r[i])
      BY <2>6, <2>9, OneMore
    <3>2. CASE u.vec[i] = long
      <4>1. x.off \in Nat /\ x.len \in Nat
        BY <2>4
      <4>2. x.off + (x.len + m) = v.off + m
        BY <1>1, <2>4, <4>1
      <4>3. v.off + m <= v.off + m
        BY <1>1
      <4> QED BY <2>6, <3>2, <4>2, <4>3
    <3>3. CASE i \in DOMAIN r /\ u.vec[i] = r[i]
      <4>1. i \in DOMAIN v.vec /\ v.vec[i] = r[i]
        <5>1. /\ Append(r, x) \in Seq(Iovec) /\ Len(Append(r, x)) = Len(r) + 1
              /\ \A j \in 1..Len(r) : Append(r, x)[j] = r[j]
              /\ DOMAIN r = 1..Len(r) /\ Len(r) \in Nat
          BY AppendProperties
        <5> QED BY <2>2, <3>3, <5>1
      <4> QED BY <1>7, <3>3, <4>1
    <3> QED BY <3>1, <3>2, <3>3
  <2>11. Hold(u.vec, k) = Hold(v.vec, h) \o w
    <3>1. /\ InHeap(r, h) /\ InHeap(r, k)
          /\ \A i \in DOMAIN r : BytesOf(k, r[i]) = BytesOf(h, r[i])
      <4>1. \A i \in DOMAIN r : i \in DOMAIN v.vec /\ v.vec[i] = r[i]
        <5>1. /\ Append(r, x) \in Seq(Iovec) /\ Len(Append(r, x)) = Len(r) + 1
              /\ \A j \in 1..Len(r) : Append(r, x)[j] = r[j]
              /\ DOMAIN r = 1..Len(r) /\ Len(r) \in Nat
          BY AppendProperties
        <5> QED BY <2>2, <5>1
      <4>2. \A i \in DOMAIN r : BytesOf(k, r[i]) = BytesOf(h, r[i])
        BY <1>6, <4>1
      <4>3. \A i \in DOMAIN r : IsCopy(r[i]) => r[i].chunk \in DOMAIN h
        BY <4>1 DEF InHeap
      <4> QED BY <1>1, <1>5, <4>2, <4>3 DEF InHeap
    <3>2. Hold(r, k) = Hold(r, h)
      BY <3>1, HoldSame
    <3>3. Hold(u.vec, k) = Hold(r, k) \o BytesOf(k, long)
      BY <1>1, <1>5, <2>6, <2>9, <3>1, HoldMore
    <3>4. Hold(v.vec, h) = Hold(r, h) \o BytesOf(h, x)
      BY <1>1, <2>2, <2>4, <3>1, HoldMore
    <3>5. BytesOf(k, long) = BytesOf(h, x) \o w
      BY <1>c, <2>4, <2>5, <2>6
    <3>6. Hold(r, h) \in Seq(Nat) /\ BytesOf(h, x) \in Seq(Nat)
      BY <1>1, <2>4, <3>1, PiecesType, BytesType
    <3>7. PICK p \in Seq(Nat), q \in Seq(Nat) : p = Hold(r, h) /\ q = BytesOf(h, x)
      BY <3>6
    <3>8. (p \o q) \o w = p \o (q \o w)
      <4>1. w \in Seq(Nat)
        BY <1>1
      <4> QED BY SMTT(60), <4>1
    <3> QED BY Zenon, <3>2, <3>3, <3>4, <3>5, <3>7, <3>8
  <2> QED BY Zenon, <1>4, <1>8, <2>8, <2>10, <2>11 DEF Outcome
<1>9. CASE ~Follows(v) /\ AppendRef(b, after, InChunk(c, v.off, m))
  <2>1. PICK iov : iov = InChunk(c, v.off, m)
    OBVIOUS
  <2>2. iov \in Iovec /\ IsCopy(iov) /\ iov.chunk = c /\ iov.off = v.off /\ iov.len = m
    BY <1>1, <2>1, InChunkType
  <2>3. PICK u : /\ vbuf' = [vbuf EXCEPT ![b] = u] /\ SamePlace(u, after)
                 /\ \/ u.vec = Append(after.vec, iov) /\ answer' = 0
                    \/ u.vec = after.vec /\ answer' = -1
    BY <1>2, <1>9, <2>1, <2>2, AppendRefHolds
  <2>4. u.chunk = c /\ u.off = v.off + m
    BY <1>2, <2>3 DEF SamePlace, c
  <2>5. Hold(v.vec, k) = Hold(v.vec, h)
    BY <1>6, HoldSame
  <2>6. InHeap(v.vec, k)
    BY <1>1, <1>5 DEF InHeap
  <2>7. CASE u.vec = Append(v.vec, iov) /\ answer' = 0
    <3>1. Placed(u)
      <4> SUFFICES ASSUME NEW i \in DOMAIN u.vec, IsCopy(u.vec[i]), u.vec[i].chunk = c
                   PROVE  u.vec[i].off + u.vec[i].len <= v.off + m
        BY <2>4 DEF Placed
      <4>1. u.vec[i] = iov \/ (i \in DOMAIN v.vec /\ u.vec[i] = v.vec[i])
        BY <1>1, <2>2, <2>7, OneMore
      <4>2. v.off + m <= v.off + m
        BY <1>1
      <4> QED BY <1>7, <2>2, <4>1, <4>2
    <3>2. Hold(u.vec, k) = Hold(v.vec, k) \o BytesOf(k, iov)
      BY <1>1, <1>5, <2>2, <2>6, <2>7, HoldMore
    <3>3. BytesOf(k, iov) = w
      BY <1>c, <2>1
    <3> QED BY Zenon, <1>4, <2>3, <2>5, <2>7, <3>1, <3>2, <3>3 DEF Outcome
  <2>8. CASE u.vec = v.vec /\ answer' = -1
    <3>1. Placed(u)
      BY <1>7, <2>4, <2>8 DEF Placed
    <3> QED BY Zenon, <1>4, <2>3, <2>5, <2>8, <3>1 DEF Outcome
  <2> QED BY <1>2, <2>3, <2>7, <2>8
<1> QED BY <1>8, <1>9 DEF Copy, At, after, m, n, c

-----------------------------------------------------------------------------
(* The steps of WriteBuffer                                                *)

PlacedInv == overrun = "no" => \A b \in Vbufs : Placed(vbuf[b])
held == [b \in Vbufs |-> Hold(vbuf[b].vec, heap)]

\* The abstract contents are what is held, until something overran.
mapped == [b \in Vbufs |-> IF overrun = "no" THEN Contents(b) ELSE <<>>]

LEMMA MappedHeld ==
    /\ overrun = "no" => mapped = held
    /\ (overrun = "no")' => mapped' = held'
<1>1. \A b \in Vbufs : Contents(b) = Hold(vbuf[b].vec, heap)
  BY DEF Contents, Hold, Bytes, BytesOf
<1>2. \A b \in Vbufs : Contents(b)' = Hold(vbuf'[b].vec, heap')
  BY DEF Contents, Hold, Bytes, BytesOf
<1> QED BY <1>1, <1>2 DEF mapped, held

\* The steps of the abstract buffers.
LEMMA AbstractSteps ==
    ASSUME overrun = "no"
    PROVE  /\ overrun' # "no" => Abstract!Next
           /\ \A b \in Vbufs, w \in Writes :
                 /\ overrun' = "no" /\ answer' = 0
                 /\ held' = [held EXCEPT ![b] = held[b] \o w]
                 => Abstract!Next
           /\ \A b \in Vbufs : 
                 /\ overrun' = "no" /\ answer' = 0
                 /\ held' = [held EXCEPT ![b] = <<>>]
                 => Abstract!Next
           /\ \A from \in Vbufs : \A to \in Vbufs \ {from} :
                 /\ overrun' = "no" /\ answer' = 0
                 /\ held' = [held EXCEPT ![from] = <<>>, ![to] = held[to] \o held[from]]
                 => Abstract!Next
           /\ \A b \in Vbufs, w \in Writes :
                 overrun' = "no" /\ answer' = -1 /\ held' = held => Abstract!Next
           /\ \A from \in Vbufs : \A to \in Vbufs \ {from} :
                 overrun' = "no" /\ answer' = -1 /\ held' = held => Abstract!Next
<1>1. overrun' # "no" => Abstract!Next
  BY DEF Abstract!Next, Abstract!Break
<1>2. mapped = held /\ (overrun' = "no" => mapped' = held')
  BY MappedHeld
<1>3. ASSUME NEW b \in Vbufs, NEW w \in Writes, overrun' = "no", answer' = 0,
             held' = [held EXCEPT ![b] = held[b] \o w]
      PROVE  Abstract!Next
  <2>1. mapped' = [mapped EXCEPT ![b] = mapped[b] \o w]
    BY <1>2, <1>3
  <2>2. Abstract!Write(b, w)
    BY <1>3, <2>1 DEF Abstract!Write, mapped
  <2> QED BY <1>3, <2>2 DEF Abstract!Next
<1>4. ASSUME NEW b \in Vbufs, overrun' = "no", answer' = 0, held' = [held EXCEPT ![b] = <<>>]
      PROVE  Abstract!Next
  <2>1. mapped' = [mapped EXCEPT ![b] = <<>>]
    BY <1>2, <1>4
  <2>2. Abstract!Clear(b)
    BY <1>4, <2>1 DEF Abstract!Clear, mapped
  <2> QED BY <1>4, <2>2 DEF Abstract!Next
<1>5. ASSUME NEW from \in Vbufs, NEW to \in Vbufs \ {from}, overrun' = "no", answer' = 0,
             held' = [held EXCEPT ![from] = <<>>, ![to] = held[to] \o held[from]]
      PROVE  Abstract!Next
  <2>1. mapped' = [mapped EXCEPT ![from] = <<>>, ![to] = @ \o mapped[from]]
    BY <1>2, <1>5
  <2>2. Abstract!Migrate(from, to)
    BY <1>5, <2>1 DEF Abstract!Migrate, mapped
  <2> QED BY <1>5, <2>2 DEF Abstract!Next
<1>6. ASSUME NEW b \in Vbufs, NEW w \in Writes, overrun' = "no", answer' = -1, held' = held
      PROVE  Abstract!Next
  <2>1. mapped' = mapped
    BY <1>2, <1>6
  <2>2. Abstract!Write(b, w)
    BY <1>6, <2>1 DEF Abstract!Write, mapped
  <2> QED BY <1>6, <2>2 DEF Abstract!Next
<1>7. ASSUME NEW from \in Vbufs, NEW to \in Vbufs \ {from}, overrun' = "no", answer' = -1,
             held' = held
      PROVE  Abstract!Next
  <2>1. mapped' = mapped
    BY <1>2, <1>7
  <2>2. Abstract!Migrate(from, to)
    BY <1>7, <2>1 DEF Abstract!Migrate, mapped
  <2> QED BY <1>7, <2>2 DEF Abstract!Next
<1> QED BY <1>1, <1>3, <1>4, <1>5, <1>6, <1>7

LEMMA SameBytes ==
    ASSUME NEW vec, NEW h, NEW k,
           \A i \in DOMAIN vec : IsCopy(vec[i]) => k[vec[i].chunk] = h[vec[i].chunk]
    PROVE  Hold(vec, k) = Hold(vec, h)
<1>1. \A i \in DOMAIN vec : BytesOf(k, vec[i]) = BytesOf(h, vec[i])
  BY DEF BytesOf
<1> QED BY <1>1, HoldSame

\* What every buffer has before a step, and what the chunks of others say of it.
LEMMA EveryHeld ==
    ASSUME Inv, overrun = "no", NEW b \in Vbufs
    PROVE  /\ InHeap(vbuf[b].vec, heap) /\ BufferOK(vbuf[b])
           /\ \A i \in DOMAIN vbuf[b].vec :
                 IsCopy(vbuf[b].vec[i]) => vbuf[b].vec[i].chunk \in Owned(b)
<1>1. /\ BufferOK(vbuf[b]) /\ Owned(b) = ToSet(vbuf[b].chunks)
      /\ Owned(b) \subseteq DOMAIN heap /\ heap \in [DOMAIN heap -> Seq(Nat)]
  BY Before
<1>2. vbuf[b].vec \in Seq(Iovec)
  BY <1>1 DEF BufferOK, Vbuf
<1> QED BY <1>1, <1>2 DEF BufferOK, Refers, InHeap

\* A step that changes one buffer and its chunks.
LEMMA OneBufferHolds ==
    ASSUME Inv, PlacedInv, overrun = "no", overrun' = "no", NEW b \in Vbufs, NEW u,
           vbuf' = [vbuf EXCEPT ![b] = u], Placed(u),
           \A c \in DOMAIN heap \ Owned(b) : heap'[c] = heap[c]
    PROVE  PlacedInv' /\ held' = [held EXCEPT ![b] = Hold(u.vec, heap')]
<1>1. vbuf \in [Vbufs -> Vbuf]
  BY DEF Inv, TypeOK, Vbuf, Iovec
<1>2. vbuf'[b] = u /\ \A d \in Vbufs \ {b} : vbuf'[d] = vbuf[d]
  BY <1>1
<1>3. PlacedInv'
  BY <1>2 DEF PlacedInv
<1>4. ASSUME NEW d \in Vbufs, d # b PROVE Hold(vbuf'[d].vec, heap') = Hold(vbuf[d].vec, heap)
  <2>1. Owned(d) \subseteq DOMAIN heap \ Owned(b)
    BY <1>4 DEF Inv, ChunksOwnedOnce
  <2>2. \A i \in DOMAIN vbuf[d].vec : IsCopy(vbuf[d].vec[i]) =>
            heap'[vbuf[d].vec[i].chunk] = heap[vbuf[d].vec[i].chunk]
    BY <2>1, EveryHeld
  <2>3. PICK vec, h, k : vec = vbuf[d].vec /\ h = heap /\ k = heap'
    OBVIOUS
  <2>4. Hold(vec, k) = Hold(vec, h)
    BY <2>2, <2>3, SameBytes
  <2> QED BY <1>2, <1>4, <2>3, <2>4
<1>5. \A d \in Vbufs : Hold(vbuf'[d].vec, heap') =
                          IF d = b THEN Hold(u.vec, heap') ELSE Hold(vbuf[d].vec, heap)
  BY <1>2, <1>4
<1>6. held' = [d \in Vbufs |-> Hold(vbuf'[d].vec, heap')]
  BY DEF held
<1>7. held' = [held EXCEPT ![b] = Hold(u.vec, heap')]
  BY <1>5, <1>6 DEF held
<1> QED BY <1>3, <1>7

\* A step that changed nothing.
LEMMA FailHolds ==
    ASSUME PlacedInv, overrun = "no", Fail
    PROVE  PlacedInv' /\ overrun' = "no" /\ answer' = -1 /\ held' = held
<1>1. vbuf' = vbuf /\ heap' = heap /\ overrun' = overrun /\ answer' = -1
  BY DEF Fail
<1> QED BY <1>1 DEF PlacedInv, held

LEMMA OutcomeMaps ==
    ASSUME overrun = "no", overrun' = "no", NEW b \in Vbufs, NEW w \in Writes, NEW vec, NEW x,
           x = held[b], held' = [held EXCEPT ![b] = Hold(vec, heap')],
           \/ answer' = 0 /\ Hold(vec, heap') = x \o w
           \/ answer' = -1 /\ Hold(vec, heap') = x
    PROVE  Abstract!Next
<1>1. CASE answer' = 0 /\ Hold(vec, heap') = x \o w
  BY <1>1, AbstractSteps
<1>2. CASE answer' = -1 /\ Hold(vec, heap') = x
  <2>1. held' = held
    BY <1>2 DEF held
  <2> QED BY <1>2, <2>1, AbstractSteps
<1> QED BY <1>1, <1>2

LEMMA WriteRefMaps ==
    ASSUME Inv, PlacedInv, NEW b \in Vbufs, NEW w \in Writes, WriteRef(b, w)
    PROVE  PlacedInv' /\ Abstract!Next
<1>1. /\ overrun = "no" /\ overrun' = "no" /\ heap' = heap
      /\ AppendRef(b, vbuf[b], [data |-> w])
  BY DEF WriteRef
<1>2. PICK v, iov : v = vbuf[b] /\ iov = [data |-> w]
  OBVIOUS
<1>3. iov \in Iovec /\ ~IsCopy(iov) /\ iov.data = w
  BY <1>2 DEF Iovec, IsCopy
<1>4. v \in Vbuf /\ InHeap(v.vec, heap) /\ Placed(v) /\ v.vec \in Seq(Iovec)
  BY <1>1, <1>2, EveryHeld DEF BufferOK, PlacedInv, InHeap
<1>5. PICK u : /\ vbuf' = [vbuf EXCEPT ![b] = u] /\ SamePlace(u, v)
               /\ \/ u.vec = Append(v.vec, iov) /\ answer' = 0
                  \/ u.vec = v.vec /\ answer' = -1
  BY SMTT(60), <1>1, <1>2, <1>3, <1>4, AppendRefHolds
<1>6. Placed(u)
  <2>1. CASE u.vec = Append(v.vec, iov)
    <3>1. \A i \in DOMAIN u.vec : u.vec[i] = iov \/ (i \in DOMAIN v.vec /\ u.vec[i] = v.vec[i])
      BY <1>3, <1>4, <2>1, OneMore
    <3> QED BY <1>3, <1>4, <1>5, <3>1 DEF Placed, SamePlace
  <2>2. CASE u.vec = v.vec
    BY <1>4, <1>5, <2>2 DEF Placed, SamePlace
  <2> QED BY <1>5, <2>1, <2>2
<1>7. \/ answer' = 0 /\ Hold(u.vec, heap) = Hold(v.vec, heap) \o w
      \/ answer' = -1 /\ Hold(u.vec, heap) = Hold(v.vec, heap)
  <2>1. PICK h : h = heap
    OBVIOUS
  <2>2. Hold(Append(v.vec, iov), h) = Hold(v.vec, h) \o w
    <3>1. BytesOf(h, iov) = w
      BY <1>3 DEF BytesOf
    <3> QED BY <1>3, <1>4, <2>1, <3>1, HoldMore
  <2> QED BY <1>5, <2>1, <2>2
<1>8. PlacedInv' /\ held' = [held EXCEPT ![b] = Hold(u.vec, heap')]
  BY <1>1, <1>5, <1>6, OneBufferHolds
<1>9. held[b] = Hold(v.vec, heap)
  BY <1>2 DEF held
<1>10. Abstract!Next
  <2>1. PICK x, vec : x = Hold(v.vec, heap) /\ vec = u.vec
    OBVIOUS
  <2> QED BY <1>1, <1>7, <1>8, <1>9, <2>1, OutcomeMaps
<1> QED BY <1>8, <1>10

LEMMA CopyMaps ==
    ASSUME Inv, PlacedInv, overrun = "no", NEW b \in Vbufs, NEW w \in Writes, NEW v, NEW h,
           BufferOK(v), Placed(v), InHeap(v.vec, h), v.chunk \in DOMAIN h,
           v.vec = vbuf[b].vec, v.chunk \notin DOMAIN heap \ Owned(b),
           DOMAIN heap \subseteq DOMAIN h, \A c \in DOMAIN heap : h[c] = heap[c],
           Copy(b, v, h, w)
    PROVE  PlacedInv' /\ Abstract!Next
<1>1. CASE overrun' # "no"
  BY <1>1, AbstractSteps DEF PlacedInv
<1>2. CASE overrun' = "no"
  <2>1. PICK u : vbuf' = [vbuf EXCEPT ![b] = u] /\ Placed(u) /\ Outcome(u.vec, v, h, w)
    BY <1>2, CopyHolds
  <2>2. \A c \in DOMAIN heap \ Owned(b) : heap'[c] = heap[c]
    <3>1. h \in [DOMAIN h -> Seq(Nat)]
      BY DEF InHeap
    <3>2. OthersKept(heap', h, v)
      BY <3>1, CopyKeeps DEF CopyResult
    <3> QED BY <3>2 DEF OthersKept
  <2>3. PlacedInv' /\ held' = [held EXCEPT ![b] = Hold(u.vec, heap')]
    BY <1>2, <2>1, <2>2, OneBufferHolds
  <2>4. held[b] = Hold(v.vec, h)
    <3>1. \A i \in DOMAIN v.vec : IsCopy(v.vec[i]) => v.vec[i].chunk \in DOMAIN heap
      BY EveryHeld DEF InHeap
    <3>2. \A i \in DOMAIN v.vec : IsCopy(v.vec[i]) => h[v.vec[i].chunk] = heap[v.vec[i].chunk]
      BY <3>1
    <3>3. PICK vec, k : vec = v.vec /\ k = heap
      OBVIOUS
    <3>4. Hold(vec, h) = Hold(vec, k)
      BY <3>2, <3>3, SameBytes
    <3> QED BY <3>3, <3>4 DEF held
  <2>5. PICK x, vec : x = Hold(v.vec, h) /\ vec = u.vec
    OBVIOUS
  <2>6. Abstract!Next
    BY <1>2, <2>1, <2>3, <2>4, <2>5, OutcomeMaps DEF Outcome
  <2> QED BY <2>3, <2>6
<1> QED BY <1>1, <1>2

LEMMA CopyInChunkMaps ==
    ASSUME Inv, PlacedInv, NEW b \in Vbufs, NEW w \in Writes, CopyInChunk(b, w)
    PROVE  PlacedInv' /\ Abstract!Next
<1>1. overrun = "no" /\ Copy(b, vbuf[b], heap, w)
  BY DEF CopyInChunk
<1>2. /\ BufferOK(vbuf[b]) /\ Placed(vbuf[b]) /\ InHeap(vbuf[b].vec, heap)
      /\ vbuf[b].chunk \in DOMAIN heap /\ vbuf[b].chunk \in Owned(b)
  BY <1>1, Before, EveryHeld DEF PlacedInv, BufferOK
<1>3. PICK v, h : v = vbuf[b] /\ h = heap
  OBVIOUS
<1> QED BY <1>1, <1>2, <1>3, CopyMaps

\* A new chunk leaves the references of the buffer.
LEMMA WithChunkVec ==
    ASSUME NEW v \in Vbuf, NEW c \in Chunks, NEW size \in Nat
    PROVE  WithChunk(v, c, size).vec = v.vec
<1> DEFINE chunks == <<c>> \o v.chunks
<1>1. chunks \in Seq(Chunks)
  BY DEF Vbuf
<1> HIDE DEF chunks
<1>2. IsListed(Listed(v, chunks, c), v, chunks, c)
  BY <1>1, MoreChunks
<1>3. WithChunk(v, c, size) = At(Listed(v, chunks, c), 0, size)
  BY DEF WithChunk, At, Listed, chunks
<1>4. IsAt(At(Listed(v, chunks, c), 0, size), Listed(v, chunks, c), 0, size)
  BY <1>2, Advanced DEF IsListed
<1> QED BY <1>2, <1>3, <1>4 DEF IsListed, IsAt

LEMMA CopyInNewChunkMaps ==
    ASSUME Inv, PlacedInv, NEW b \in Vbufs, NEW w \in Writes, CopyInNewChunk(b, w)
    PROVE  PlacedInv' /\ Abstract!Next
<1>1. overrun = "no"
  BY DEF CopyInNewChunk
<1>2. CASE Fail
  <2>1. PlacedInv' /\ overrun' = "no" /\ answer' = -1 /\ held' = held
    BY <1>1, <1>2, FailHolds
  <2> QED BY <1>1, <2>1, AbstractSteps
<1>3. ASSUME NEW c \in Unused,
             Copy(b, WithChunk(vbuf[b], c, SizeFor(b, w)), Grown(heap, c, SizeFor(b, w)), w)
      PROVE  PlacedInv' /\ Abstract!Next
  <2>1. PICK size, v, h : /\ size = SizeFor(b, w) /\ v = WithChunk(vbuf[b], c, size)
                          /\ h = Grown(heap, c, size)
    OBVIOUS
  <2>2. /\ BufferOK(vbuf[b]) /\ Owned(b) = ToSet(vbuf[b].chunks) /\ vbuf[b] \in Vbuf
        /\ Owned(b) \subseteq DOMAIN heap /\ heap \in [DOMAIN heap -> Seq(Nat)]
    BY <1>1, Before DEF BufferOK
  <2>3. size \in Nat
    BY <2>1, SizeForEnough
  <2>4. c \in Chunks /\ c \notin DOMAIN heap /\ c \notin Owned(b)
    BY <2>2 DEF Unused
  <2>5. BufferOK(v) /\ v.chunk = c
    <3>1. Extended(v, vbuf[b], c, size)
      BY <2>1, <2>2, <2>3, <2>4, WithChunkOK, Zenon
    <3> QED BY <3>1 DEF Extended
  <2>6. /\ DOMAIN h = DOMAIN heap \cup {c} /\ h \in [DOMAIN h -> Seq(Nat)]
        /\ \A d \in DOMAIN heap : h[d] = heap[d]
    <3>1. GrownBy(h, heap, c, size)
      BY <2>1, <2>2, <2>3, GrownHeap, Zenon
    <3> QED BY <2>4, <3>1 DEF GrownBy
  <2>7. v.vec = vbuf[b].vec
    BY <2>1, <2>2, <2>3, <2>4, WithChunkVec
  <2>8. \A i \in DOMAIN v.vec : IsCopy(v.vec[i]) => v.vec[i].chunk \in DOMAIN heap
    BY <1>1, <2>7, EveryHeld DEF InHeap
  <2>9. Placed(v) /\ InHeap(v.vec, h)
    <3>1. v.vec \in Seq(Iovec)
      BY <2>5 DEF BufferOK, Vbuf
    <3> QED BY <2>4, <2>5, <2>6, <2>8, <3>1 DEF Placed, InHeap
  <2>10. Copy(b, v, h, w)
    BY <1>3, <2>1
  <2> QED BY <1>1, <2>4, <2>5, <2>6, <2>7, <2>9, <2>10, CopyMaps
<1> QED BY <1>2, <1>3 DEF CopyInNewChunk

\* An empty buffer.
LEMMA EmptyHolds ==
    ASSUME NEW c, NEW size, NEW cap
    PROVE  Placed(Empty(c, size, cap)) /\ \A h : Hold(Empty(c, size, cap).vec, h) = <<>>
<1>1. Empty(c, size, cap).vec = <<>> /\ DOMAIN <<>> = {}
  BY DEF Empty
<1> QED BY <1>1, HoldEmpty DEF Placed

LEMMA EmptyMaps ==
    ASSUME Inv, PlacedInv, overrun = "no", overrun' = "no", answer' = 0, NEW b \in Vbufs,
           NEW c, NEW size, NEW cap, vbuf' = [vbuf EXCEPT ![b] = Empty(c, size, cap)],
           \A d \in DOMAIN heap \ Owned(b) : heap'[d] = heap[d]
    PROVE  PlacedInv' /\ Abstract!Next
<1>1. PICK u : u = Empty(c, size, cap)
  OBVIOUS
<1>2. Placed(u) /\ \A h : Hold(u.vec, h) = <<>>
  BY <1>1, EmptyHolds
<1>3. PlacedInv' /\ held' = [held EXCEPT ![b] = Hold(u.vec, heap')]
  BY <1>1, <1>2, OneBufferHolds
<1>4. held' = [held EXCEPT ![b] = <<>>]
  BY <1>2, <1>3
<1> QED BY <1>3, <1>4, AbstractSteps

LEMMA ClearMaps ==
    ASSUME Inv, PlacedInv, NEW b \in Vbufs, Clear(b)
    PROVE  PlacedInv' /\ Abstract!Next
<1>1. /\ overrun = "no" /\ overrun' = "no" /\ answer' = 0
      /\ vbuf' = [vbuf EXCEPT ![b] = Empty(Head(vbuf[b].chunks), ChunkSize[b], vbuf[b].cap)]
      /\ heap' = Without(heap, Owned(b) \ {Head(vbuf[b].chunks)})
  BY DEF Clear
<1>2. \A d \in DOMAIN heap \ Owned(b) : heap'[d] = heap[d]
  BY <1>1 DEF Without
<1>3. PICK c, size, cap : c = Head(vbuf[b].chunks) /\ size = ChunkSize[b] /\ cap = vbuf[b].cap
  OBVIOUS
<1> QED BY <1>1, <1>2, <1>3, EmptyMaps

LEMMA RenewMaps ==
    ASSUME Inv, PlacedInv, NEW b \in Vbufs, Renew(b)
    PROVE  PlacedInv' /\ Abstract!Next
<1>1. overrun = "no" /\ overrun' = "no" /\ answer' = 0
  BY DEF Renew
<1>2. PICK c \in Unused \cup Owned(b) :
         /\ vbuf' = [vbuf EXCEPT ![b] = Empty(c, ChunkSize[b], First)]
         /\ heap' = Grown(Without(heap, Owned(b)), c, ChunkSize[b])
  BY DEF Renew
<1>3. \A d \in DOMAIN heap \ Owned(b) : heap'[d] = heap[d]
  <2> SUFFICES ASSUME NEW d \in DOMAIN heap \ Owned(b) PROVE heap'[d] = heap[d]
    OBVIOUS
  <2>1. d # c
    BY DEF Unused
  <2>2. Without(heap, Owned(b))[d] = heap[d] /\ d \in DOMAIN Without(heap, Owned(b))
    BY DEF Without
  <2> QED BY <1>2, <2>1, <2>2 DEF Grown
<1>4. PICK size, cap : size = ChunkSize[b] /\ cap = First
  OBVIOUS
<1> QED BY <1>1, <1>2, <1>3, <1>4, EmptyMaps

\* Which place is taken, and what is taken over.
LEMMA TakenIs ==
    ASSUME NEW v, NEW t, NEW cap
    PROVE  /\ Taken(v, t, cap).vec = t.vec \o v.vec
           /\ \/ Taken(v, t, cap).chunk = v.chunk /\ Taken(v, t, cap).off = v.off
              \/ Taken(v, t, cap).chunk = t.chunk /\ Taken(v, t, cap).off = t.off
BY DEF Taken

\* References of two buffers that own different chunks.
LEMMA TakenPlaced ==
    ASSUME NEW v, NEW t, NEW cap, BufferOK(v), BufferOK(t), Placed(v), Placed(t),
           ToSet(v.chunks) \cap ToSet(t.chunks) = {}
    PROVE  Placed(Taken(v, t, cap))
<1> DEFINE u == Taken(v, t, cap)
           vec == t.vec \o v.vec
<1>1. /\ u.vec = vec
      /\ \/ u.chunk = v.chunk /\ u.off = v.off
         \/ u.chunk = t.chunk /\ u.off = t.off
  BY DEF Taken
<1>2. /\ v.vec \in Seq(Iovec) /\ t.vec \in Seq(Iovec) /\ Refers(v) /\ Refers(t)
      /\ v.chunk \in ToSet(v.chunks) /\ t.chunk \in ToSet(t.chunks)
  BY DEF BufferOK, Vbuf
<1>3. \A i \in DOMAIN vec : \/ \E j \in DOMAIN t.vec : vec[i] = t.vec[j]
                            \/ \E j \in DOMAIN v.vec : vec[i] = v.vec[j]
  <2>1. PICK r \in Seq(Iovec), s \in Seq(Iovec) : r = t.vec /\ s = v.vec
    BY <1>2
  <2>2. \A i \in DOMAIN (r \o s) : \/ \E j \in DOMAIN r : (r \o s)[i] = r[j]
                                   \/ \E j \in DOMAIN s : (r \o s)[i] = s[j]
    <3> SUFFICES ASSUME NEW i \in DOMAIN (r \o s)
                 PROVE  \/ \E j \in DOMAIN r : (r \o s)[i] = r[j]
                        \/ \E j \in DOMAIN s : (r \o s)[i] = s[j]
      OBVIOUS
    <3>1. /\ DOMAIN (r \o s) = 1..(Len(r) + Len(s)) /\ Len(r) \in Nat /\ Len(s) \in Nat
          /\ DOMAIN r = 1..Len(r) /\ DOMAIN s = 1..Len(s)
      OBVIOUS
    <3>2. CASE i <= Len(r)
      <4>1. i \in DOMAIN r /\ (r \o s)[i] = r[i]
        BY <3>1, <3>2
      <4> QED BY <4>1
    <3>3. CASE ~(i <= Len(r))
      <4>1. i - Len(r) \in DOMAIN s /\ (r \o s)[i] = s[i - Len(r)]
        BY <3>1, <3>3
      <4> QED BY <4>1
    <3> QED BY <3>2, <3>3
  <2> QED BY <2>1, <2>2
<1> HIDE DEF u, vec
<1> SUFFICES ASSUME NEW i \in DOMAIN vec, IsCopy(vec[i]), vec[i].chunk = u.chunk
             PROVE  vec[i].off + vec[i].len <= u.off
  BY <1>1 DEF Placed, u
<1>4. CASE \E j \in DOMAIN t.vec : vec[i] = t.vec[j]
  <2>1. vec[i].chunk \in ToSet(t.chunks)
    BY <1>2, <1>4 DEF Refers
  <2>2. u.chunk = t.chunk /\ u.off = t.off
    BY <1>1, <1>2, <2>1
  <2> QED BY <1>4, <2>2 DEF Placed
<1>5. CASE \E j \in DOMAIN v.vec : vec[i] = v.vec[j]
  <2>1. vec[i].chunk \in ToSet(v.chunks)
    BY <1>2, <1>5 DEF Refers
  <2>2. u.chunk = v.chunk /\ u.off = v.off
    BY <1>1, <1>2, <2>1
  <2> QED BY <1>5, <2>2 DEF Placed
<1> QED BY <1>3, <1>4, <1>5

LEMMA MovedMaps ==
    ASSUME Inv, PlacedInv, overrun = "no", NEW from \in Vbufs, NEW to \in Vbufs \ {from},
           NEW cap \in Capacities, NEW c \in Unused, Moved(from, to, cap, c)
    PROVE  PlacedInv' /\ Abstract!Next
<1>1. CASE overrun' # "no"
  BY <1>1, AbstractSteps DEF PlacedInv
<1>2. CASE overrun' = "no"
  <2>1. PICK v, t, nt, nf : /\ v = vbuf[from] /\ t = vbuf[to] /\ nt = Taken(v, t, cap)
                            /\ nf = Empty(c, ChunkSize[from], v.cap)
    OBVIOUS
  <2>2. /\ vbuf' = [vbuf EXCEPT ![to] = nt, ![from] = nf]
        /\ heap' = Grown(heap, c, ChunkSize[from]) /\ answer' = 0
    BY <2>1 DEF Moved
  <2>3. vbuf \in [Vbufs -> Vbuf]
    BY DEF Inv, TypeOK, Vbuf, Iovec
  <2>4. /\ vbuf'[to] = nt /\ vbuf'[from] = nf
        /\ \A d \in Vbufs \ {from, to} : vbuf'[d] = vbuf[d]
    BY <2>2, <2>3
  <2>5. /\ BufferOK(v) /\ BufferOK(t) /\ Placed(v) /\ Placed(t)
        /\ ToSet(v.chunks) \cap ToSet(t.chunks) = {}
    BY <2>1, EveryHeld DEF PlacedInv, Inv, ChunksOwnedOnce, Owned
  <2>6. Placed(nt)
    BY <2>1, <2>5, TakenPlaced
  <2>7. Placed(nf) /\ \A h : Hold(nf.vec, h) = <<>>
    <3>1. PICK size, n : size = ChunkSize[from] /\ n = v.cap
      OBVIOUS
    <3> QED BY <2>1, <3>1, EmptyHolds
  <2>8. PlacedInv'
    BY <2>4, <2>6, <2>7 DEF PlacedInv
  <2>9. /\ \A d \in DOMAIN heap : heap'[d] = heap[d]
        /\ \A d \in Vbufs : InHeap(vbuf[d].vec, heap)
    <3>1. c \notin DOMAIN heap
      BY DEF Unused
    <3> QED BY <2>2, <3>1, EveryHeld DEF Grown
  <2>10. ASSUME NEW d \in Vbufs PROVE Hold(vbuf[d].vec, heap') = Hold(vbuf[d].vec, heap)
    <3>1. PICK vec, h, k : vec = vbuf[d].vec /\ h = heap /\ k = heap'
      OBVIOUS
    <3>2. \A i \in DOMAIN vec : IsCopy(vec[i]) => k[vec[i].chunk] = h[vec[i].chunk]
      BY <2>9, <3>1 DEF InHeap
    <3> QED BY <3>1, <3>2, SameBytes
  <2>11. Hold(nt.vec, heap') = Hold(t.vec, heap') \o Hold(v.vec, heap')
    <3>1. PICK s, r, k : s = t.vec /\ r = v.vec /\ k = heap'
      OBVIOUS
    <3>2. DOMAIN heap' = DOMAIN heap \cup {c} /\ heap' \in [DOMAIN heap' -> Seq(Nat)]
      <4>1. heap \in [DOMAIN heap -> Seq(Nat)] /\ ChunkSize[from] \in Nat
        BY Before
      <4>2. GrownBy(heap', heap, c, ChunkSize[from])
        BY <2>2, <4>1, GrownHeap
      <4> QED BY <4>2 DEF GrownBy
    <3>3. InHeap(s, k) /\ InHeap(r, k)
      BY <2>1, <2>9, <3>1, <3>2 DEF InHeap
    <3>4. Hold(s \o r, k) = Hold(s, k) \o Hold(r, k)
      BY <3>3, HoldTwo
    <3> QED BY <2>1, <3>1, <3>4, TakenIs
  <2>12. held' = [held EXCEPT ![from] = <<>>, ![to] = held[to] \o held[from]]
    <3>1. Hold(nt.vec, heap') = held[to] \o held[from]
      BY <2>1, <2>10, <2>11 DEF held
    <3>2. \A d \in Vbufs : Hold(vbuf'[d].vec, heap') =
              IF d = to THEN held[to] \o held[from] ELSE IF d = from THEN <<>> ELSE held[d]
      BY <2>4, <2>7, <2>10, <3>1 DEF held
    <3>3. held' = [d \in Vbufs |-> Hold(vbuf'[d].vec, heap')]
      BY DEF held
    <3>4. held = [d \in Vbufs |-> held[d]]
      BY DEF held
    <3> QED BY <3>2, <3>3, <3>4
  <2>13. Abstract!Next
    BY <1>2, <2>2, <2>12, AbstractSteps
  <2> QED BY <2>8, <2>13
<1> QED BY <1>1, <1>2

LEMMA MigrateMaps ==
    ASSUME Inv, PlacedInv, NEW from \in Vbufs, NEW to \in Vbufs \ {from}, Migrate(from, to)
    PROVE  PlacedInv' /\ Abstract!Next
<1>1. overrun = "no"
  BY DEF Migrate
<1>2. CASE Fail
  <2>1. PlacedInv' /\ overrun' = "no" /\ answer' = -1 /\ held' = held
    BY <1>1, <1>2, FailHolds
  <2> QED BY <1>1, <2>1, AbstractSteps
<1>3. ASSUME NEW c \in Unused, NEW cap \in Capacities, Moved(from, to, cap, c)
      PROVE  PlacedInv' /\ Abstract!Next
  BY <1>1, <1>3, MovedMaps
<1> QED BY <1>2, <1>3 DEF Migrate

LEMMA StepMaps ==
    Inv /\ PlacedInv /\ [Next]_vars => PlacedInv' /\ [Abstract!Next]_(Abstract!vars)
<1> SUFFICES ASSUME Inv, PlacedInv, [Next]_vars
             PROVE  PlacedInv' /\ (Abstract!Next \/ UNCHANGED Abstract!vars)
  OBVIOUS
<1>1. ASSUME NEW b \in Vbufs, NEW w \in Writes,
             WriteRef(b, w) \/ CopyInChunk(b, w) \/ CopyInNewChunk(b, w)
      PROVE  PlacedInv' /\ Abstract!Next
  BY <1>1, WriteRefMaps, CopyInChunkMaps, CopyInNewChunkMaps
<1>2. ASSUME NEW b \in Vbufs, Clear(b) \/ Renew(b) PROVE PlacedInv' /\ Abstract!Next
  BY <1>2, ClearMaps, RenewMaps
<1>3. ASSUME NEW from \in Vbufs, NEW to \in Vbufs \ {from}, Migrate(from, to)
      PROVE  PlacedInv' /\ Abstract!Next
  BY <1>3, MigrateMaps
<1>4. CASE UNCHANGED vars
  <2>1. vbuf' = vbuf /\ heap' = heap /\ overrun' = overrun /\ answer' = answer
    BY <1>4 DEF vars
  <2>2. PlacedInv'
    BY <2>1 DEF PlacedInv
  <2>3. \A b \in Vbufs : Contents(b)' = Contents(b)
    BY <2>1 DEF Contents, Bytes
  <2>4. mapped' = mapped
    BY <2>1, <2>3 DEF mapped
  <2>5. UNCHANGED Abstract!vars
    BY <2>1, <2>4 DEF Abstract!vars, mapped
  <2> QED BY <2>2, <2>5
<1> QED BY <1>1, <1>2, <1>3, <1>4 DEF Next

LEMMA InitMaps == Init => PlacedInv /\ Abstract!Init
<1> SUFFICES ASSUME Init PROVE PlacedInv /\ Abstract!Init
  OBVIOUS
<1>1. answer = 0 /\ overrun = "no"
  BY DEF Init
<1>2. \A b \in Vbufs : vbuf[b].vec = <<>>
  BY DEF Init, Empty
<1>3. PlacedInv
  <2>1. DOMAIN <<>> = {}
    OBVIOUS
  <2> QED BY <1>2, <2>1 DEF PlacedInv, Placed
<1>4. held = [b \in Vbufs |-> <<>>]
  <2>1. \A b \in Vbufs : Hold(vbuf[b].vec, heap) = <<>>
    BY <1>2, HoldEmpty
  <2> QED BY <2>1 DEF held
<1>5. mapped = [b \in Vbufs |-> <<>>]
  BY <1>1, <1>4, MappedHeld
<1> QED BY <1>1, <1>3, <1>5 DEF Abstract!Init, mapped

-----------------------------------------------------------------------------
(* Theorems                                                                *)

LEMMA InvHolds == Spec => []Inv
<1>1. Init => Inv
  BY InitInv
<1>2. Inv /\ [Next]_vars => Inv'
  BY NextKeeps
<1> QED
  BY <1>1, <1>2, PTL DEF Spec

\* The types, and the references of a buffer fit in its array until a migration that
\* was decided by comparing pointers has written past its end (lines 97-117 and 173).
THEOREM TypeCorrect == Spec => []TypeOK
<1>1. Inv => TypeOK
  BY DEF Inv
<1> QED
  BY <1>1, InvHolds, PTL

\* However buffers are written, cleared, renewed and migrated, and whichever
\* allocation fails, no chunk is leaked, freed twice or referred to after it was
\* freed (lines 63-94 and 199-216).
THEOREM OwnedOnce == Spec => []ChunksOwnedOnce
<1>1. Inv => ChunksOwnedOnce
  BY DEF Inv
<1> QED
  BY <1>1, InvHolds, PTL

\* Wherever copies, clears and migrations put the place of a buffer, what it counts
\* on is memory of its chunk, or a chunk_size that the chunk falls short of; so the
\* clear of line 91 is harmless, and no copy leaves its memory, among buffers of one
\* chunk_size (lines 91 and 131-146).
THEOREM CopiesHaveRoom == Spec => []RoomIsThere
<1>1. Inv => RoomIsThere
  BY DEF Inv, RoomInv, Room, Short, Uneven, RoomIsThere
<1> QED
  BY <1>1, InvHolds, PTL

\* In particular, among buffers of one chunk_size no copy ever leaves its memory.
THEOREM OneSizeFits ==
    ASSUME \A b, d \in Vbufs : ChunkSize[b] = ChunkSize[d]
    PROVE  Spec => [](overrun # "write")
<1>1. ~Uneven
  BY VrefAssumption DEF Uneven
<1>2. Inv => overrun # "write"
  BY <1>1 DEF Inv
<1> QED
  BY <1>2, InvHolds, PTL

\* Any sequence of writes, clears, renewals and migrations, with any of them failing,
\* leaves each buffer with the bytes of its writes that answered 0, in their order,
\* as long as no operation wrote outside of its memory: VrefBuffer implements
\* WriteBuffer (append_ref, append_copy, clear and migrate, lines 83-220).
THEOREM HoldsItsWrites == Spec => HoldsWhatWasWritten
<1>1. Init => PlacedInv /\ Abstract!Init
  BY InitMaps
<1>2. Inv /\ PlacedInv /\ [Next]_vars => PlacedInv' /\ [Abstract!Next]_(Abstract!vars)
  BY StepMaps
<1> QED BY <1>1, <1>2, InvHolds, PTL DEF Spec, HoldsWhatWasWritten, Abstract!Spec
=============================================================================
