----------------------------- MODULE VrefBuffer ------------------------------
(***************************************************************************)
(* vrefbuffer.c: a buffer of references.  A long write is referred to      *)
(* where the caller has it; a short one is copied into a chunk, and one    *)
(* reference stands for copies that follow each other.  migrate appends    *)
(* the references and the chunks of a buffer to those of another one.      *)
(***************************************************************************)
EXTENDS Integers, Sequences, FiniteSets, SequencesExt

CONSTANTS
    Vbufs,        \* the buffers
    Writes,       \* what is written
    RefSize,      \* ref_size: a write of this length is not copied
    ChunkSize,    \* buffer -> its chunk_size
    Capacities,   \* the lengths of arrays: 72 / sizeof(struct iovec), and doubled
    Chunks        \* bound: addresses of chunks

VARIABLES
    vbuf,         \* buffer -> msgpack_vrefbuffer
    heap,         \* the address of a chunk -> its bytes
    answer,       \* of the last operation
    overrun       \* which memcpy wrote outside of its memory, if any

vars == <<vbuf, heap, answer, overrun>>

ASSUME VrefAssumption ==
    /\ Writes \subseteq Seq(Nat \ {0})
    /\ RefSize \in Nat
    /\ ChunkSize \in [Vbufs -> Nat]
    /\ Capacities \subseteq Nat \ {0}
    /\ \E n \in Capacities : \A m \in Capacities : n <= m

\* The least of some numbers.
Least(S) == CHOOSE n \in S : \A m \in S : n <= m
First == Least(Capacities)

\* References: into a chunk, or to what the caller has.
InChunk(c, off, len) == [chunk |-> c, off |-> off, len |-> len]
IsCopy(iov) == "chunk" \in DOMAIN iov

Empty(c, size, cap) ==
    [vec |-> <<>>, cap |-> cap, chunks |-> <<c>>, chunk |-> c, off |-> 0, free |-> size]
NewChunk(size) == [i \in 1..size |-> 0]

\* The addresses malloc may return; it may fail, and does when there is none.
Unused == Chunks \ DOMAIN heap

\* The heap with a chunk more.
Grown(h, c, size) == [d \in DOMAIN h \cup {c} |-> IF d = c THEN NewChunk(size) ELSE h[d]]

Init ==
    /\ \E at \in [Vbufs -> Chunks] :
          /\ IsInjective(at)
          /\ vbuf = [b \in Vbufs |-> Empty(at[b], ChunkSize[b], First)]
          /\ heap = [c \in Range(at) |-> NewChunk(ChunkSize[CHOOSE b \in Vbufs : at[b] = c])]
    /\ answer = 0
    /\ overrun = "no"

Owned(b) == ToSet(vbuf[b].chunks)

Fail ==
    /\ answer' = -1
    /\ UNCHANGED <<vbuf, heap, overrun>>

-----------------------------------------------------------------------------
(* msgpack_vrefbuffer_append_ref                                           *)

\* Mutant: the array is never full.
FullNever(v) == FALSE

\* vbuf->tail == vbuf->end
Full(v) == Len(v.vec) = v.cap

\* A full array is reallocated, which may fail.
AppendRef(b, v, iov) ==
    \/ /\ ~Full(v)
       /\ vbuf' = [vbuf EXCEPT ![b] = [v EXCEPT !.vec = Append(@, iov)]]
       /\ answer' = 0
    \/ /\ Full(v) /\ 2 * v.cap \in Capacities
       /\ vbuf' = [vbuf EXCEPT ![b] = [v EXCEPT !.vec = Append(@, iov), !.cap = 2 * @]]
       /\ answer' = 0
    \/ /\ Full(v)
       /\ vbuf' = [vbuf EXCEPT ![b] = v]
       /\ answer' = -1

WriteRef(b, w) ==
    /\ overrun = "no" /\ Len(w) >= RefSize
    /\ AppendRef(b, vbuf[b], [data |-> w])
    /\ UNCHANGED <<heap, overrun>>

-----------------------------------------------------------------------------
(* msgpack_vrefbuffer_append_copy                                          *)

Overwritten(bytes, off, w) ==
    [i \in DOMAIN bytes |-> IF off < i /\ i <= off + Len(w) THEN w[i - off] ELSE bytes[i]]

\* Mutant: a copy is taken to follow the last one, whatever was done in between.
FollowsAny(v) == v.vec # <<>> /\ IsCopy(Last(v.vec))

\* The place of the copy is the end of the last reference.
Follows(v) ==
    /\ v.vec # <<>>
    /\ LET iov == Last(v.vec)
       IN  IsCopy(iov) /\ iov.chunk = v.chunk /\ iov.off + iov.len = v.off

\* memcpy and the reference to the copy; if that fails the room is lost.
Copy(b, v, h, w) ==
    LET after == [v EXCEPT !.off = @ + Len(w), !.free = @ - Len(w)]
    IN  /\ overrun' = IF v.off + Len(w) <= Len(h[v.chunk]) THEN "no" ELSE "write"
        /\ heap' = [h EXCEPT ![v.chunk] = Overwritten(@, v.off, w)]
        /\ \/ /\ Follows(v)
              /\ vbuf' = [vbuf EXCEPT ![b] = [after EXCEPT !.vec[Len(v.vec)].len = @ + Len(w)]]
              /\ answer' = 0
           \/ /\ ~Follows(v)
              /\ AppendRef(b, after, InChunk(v.chunk, v.off, Len(w)))

\* Mutant: a chunk is of the chunk_size, whatever is copied.
SizeForAny(b, w) == ChunkSize[b]

\* The size of the chunk that is allocated for a copy.
SizeFor(b, w) == IF ChunkSize[b] < Len(w) THEN Len(w) ELSE ChunkSize[b]

Fits(v, w) == Len(w) <= v.free

\* A new chunk is the first of the list, and copies go there.
WithChunk(v, c, size) ==
    [v EXCEPT !.chunks = <<c>> \o @, !.chunk = c, !.off = 0, !.free = size]

CopyInChunk(b, w) ==
    /\ overrun = "no" /\ Len(w) < RefSize /\ Fits(vbuf[b], w)
    /\ Copy(b, vbuf[b], heap, w)

CopyInNewChunk(b, w) ==
    /\ overrun = "no" /\ Len(w) < RefSize /\ ~Fits(vbuf[b], w)
    /\ \/ Fail
       \/ \E c \in Unused :
             Copy(b, WithChunk(vbuf[b], c, SizeFor(b, w)), Grown(heap, c, SizeFor(b, w)), w)

-----------------------------------------------------------------------------
(* msgpack_vrefbuffer_clear; destroy and init                              *)

Without(h, gone) == [c \in DOMAIN h \ gone |-> h[c]]

\* The first chunk is kept and is taken to be as long as any.
Clear(b) ==
    LET kept == Head(vbuf[b].chunks)
    IN  /\ overrun = "no"
        /\ vbuf' = [vbuf EXCEPT ![b] = Empty(kept, ChunkSize[b], vbuf[b].cap)]
        /\ heap' = Without(heap, Owned(b) \ {kept})
        /\ answer' = 0
        /\ UNCHANGED overrun

\* destroy frees everything, and init starts anew in the memory it is given.
Renew(b) ==
    /\ overrun = "no"
    /\ \E c \in Unused \cup Owned(b) :
          /\ vbuf' = [vbuf EXCEPT ![b] = Empty(c, ChunkSize[b], First)]
          /\ heap' = Grown(Without(heap, Owned(b)), c, ChunkSize[b])
    /\ answer' = 0
    /\ UNCHANGED overrun

-----------------------------------------------------------------------------
(* msgpack_vrefbuffer_migrate                                              *)

\* Mutant: the chunks of the other buffer are dropped.
JoinedDropped(from, to) == from

\* last->next = toib->head; toib->head = ib->head
Joined(from, to) == from \o to

\* The capacity after the doubling loop.
IsGrown(cap, old, needed) ==
    LET enough == {n \in Capacities : n >= 2 * old /\ n >= needed}
    IN  enough # {} /\ cap = Least(enough)

\* What t becomes with the references and chunks of v: the more free room is kept.
Taken(v, t, cap) ==
    LET place == IF t.free < v.free THEN v ELSE t
    IN  [vec |-> t.vec \o v.vec, cap |-> cap, chunks |-> Joined(v.chunks, t.chunks),
         chunk |-> place.chunk, off |-> place.off, free |-> place.free]

Moved(from, to, cap, c) ==
    LET v == vbuf[from]
        t == vbuf[to]
    IN  /\ overrun' = IF Len(t.vec) + Len(v.vec) <= cap THEN "no" ELSE "migrate"
        /\ vbuf' = [vbuf EXCEPT ![to] = Taken(v, t, cap),
                                ![from] = Empty(c, ChunkSize[from], v.cap)]
        /\ heap' = Grown(heap, c, ChunkSize[from])
        /\ answer' = 0

\* The array grows if to->tail + nused < vbuf->end, pointers into two arrays: how
\* they compare says nothing about the room there is.
Migrate(from, to) ==
    /\ overrun = "no"
    /\ \/ Fail
       \/ \E c \in Unused :
             \E cap \in Capacities :
                /\ cap = vbuf[to].cap \/ IsGrown(cap, vbuf[to].cap, Len(vbuf[from].vec) + Len(vbuf[to].vec))
                /\ Moved(from, to, cap, c)

Next ==
    \/ \E b \in Vbufs :
          \/ \E w \in Writes : WriteRef(b, w) \/ CopyInChunk(b, w) \/ CopyInNewChunk(b, w)
          \/ Clear(b) \/ Renew(b)
    \/ \E from \in Vbufs : \E to \in Vbufs \ {from} : Migrate(from, to)

Spec == Init /\ [][Next]_vars

-----------------------------------------------------------------------------
(* Properties                                                              *)

TypeOK ==
    /\ DOMAIN heap \subseteq Chunks
    /\ vbuf \in [Vbufs -> [vec : Seq([data : Writes] \cup [chunk : Chunks, off : Nat, len : Nat]),
                           cap : Capacities, chunks : Seq(Chunks), chunk : Chunks,
                           off : Nat, free : Int]]
    /\ overrun = "no" => \A b \in Vbufs : Len(vbuf[b].vec) <= vbuf[b].cap
    /\ answer \in {0, -1}
    /\ overrun \in {"no", "write", "migrate"}

\* Each chunk that is allocated is in the list of exactly one buffer, once, and a
\* buffer refers only to its own chunks: destroying or clearing one buffer, after
\* any migrations, frees nothing another one refers to, and nothing is leaked
\* (lines 63-94 and 199-216).
ChunksOwnedOnce ==
    /\ DOMAIN heap = UNION {Owned(b) : b \in Vbufs}
    /\ \A b \in Vbufs :
          /\ IsInjective(vbuf[b].chunks)
          /\ vbuf[b].chunk \in Owned(b)
          /\ \A d \in Vbufs \ {b} : Owned(b) \cap Owned(d) = {}
          /\ \A i \in DOMAIN vbuf[b].vec :
                IsCopy(vbuf[b].vec[i]) => vbuf[b].vec[i].chunk \in Owned(b)

\* What a buffer takes for free, in whichever chunk its place is after any copies,
\* clears and migrations, is memory of that chunk, but for one mistake: in a chunk
\* that is shorter than the chunk_size of some buffer it may count on that chunk_size
\* (the clear at line 91).  So only where the sizes of buffers differ can a copy leave
\* its memory (line 146).
RoomIsThere ==
    /\ \A b \in Vbufs :
          LET v == vbuf[b]
              there == Len(heap[v.chunk])
          IN  /\ v.free >= 0
              /\ \/ v.off + v.free <= there
                 \/ \E d \in Vbufs : there < ChunkSize[d] /\ v.off + v.free = ChunkSize[d]
    /\ overrun = "write" => \E b, d \in Vbufs : ChunkSize[b] < ChunkSize[d]

\* The bytes a reference stands for.
Bytes(iov) ==
    IF IsCopy(iov)
    THEN [i \in 1..iov.len |->
             IF iov.off + i <= Len(heap[iov.chunk]) THEN heap[iov.chunk][iov.off + i] ELSE 0]
    ELSE iov.data
Contents(b) == FlattenSeq([i \in DOMAIN vbuf[b].vec |-> Bytes(vbuf[b].vec[i])])

Abstract == INSTANCE WriteBuffer WITH
    Buffers <- Vbufs,
    contents <- [b \in Vbufs |-> IF overrun = "no" THEN Contents(b) ELSE <<>>],
    broken <- overrun # "no"

\* Every buffer holds the bytes of the writes that answered 0, in order, until it is
\* cleared, renewed or migrated; a write or a migration that failed changes nothing.
HoldsWhatWasWritten == Abstract!Spec
=============================================================================
