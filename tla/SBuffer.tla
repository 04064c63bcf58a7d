------------------------------- MODULE SBuffer -------------------------------
(***************************************************************************)
(* sbuffer.h: one block of memory, doubled until a write fits, which the   *)
(* caller may take over.                                                   *)
(***************************************************************************)
EXTENDS Integers, Sequences, FiniteSets, SequencesExt

CONSTANTS
    Writes,       \* what is written
    InitSize,     \* MSGPACK_SBUFFER_INIT_SIZE
    MaxAlloc,     \* bound: a longer block is not to be had
    Addresses,    \* bound: where blocks may be
    Null          \* the null pointer

VARIABLES
    size, data, alloc,   \* msgpack_sbuffer
    blocks,              \* the address of a block -> its bytes
    released,            \* the blocks the caller took over, with what they held
    answer               \* of the last operation

sbuffer == <<size, data, alloc>>
vars == <<sbuffer, blocks, released, answer>>

Init ==
    /\ size = 0 /\ data = Null /\ alloc = 0
    /\ blocks = << >>
    /\ released = {}
    /\ answer = 0

Held == IF data = Null THEN <<>> ELSE blocks[data]

\* memcpy to data + size
Filled(block, w) ==
    [i \in DOMAIN block |-> IF size < i /\ i <= size + Len(w) THEN w[i - size] ELSE block[i]]

\* realloc: the block is extended where it is or moved.
Extended(n) == [i \in 1..n |-> IF i <= Len(Held) THEN Held[i] ELSE 0]

\* Mutant: doubled once, whatever is written.
IsEnoughOnce(n, w) == n = IF alloc = 0 THEN InitSize ELSE 2 * alloc

\* The size after the doubling loop.
IsEnough(n, w) ==
    LET first == IF alloc = 0 THEN InitSize ELSE 2 * alloc
        enough == {m \in {first * 2^k : k \in 0..MaxAlloc} : m >= size + Len(w)}
    IN  n \in enough /\ \A m \in enough : n <= m

Write(w) ==
    \/ /\ Len(w) <= alloc - size
       /\ blocks' = IF data = Null THEN blocks ELSE [blocks EXCEPT ![data] = Filled(@, w)]
       /\ size' = size + Len(w)
       /\ answer' = 0
       /\ UNCHANGED <<data, alloc, released>>
    \/ /\ Len(w) > alloc - size
       /\ \E at \in (Addresses \ DOMAIN blocks) \cup (Addresses \cap {data}), n \in 1..MaxAlloc :
             /\ IsEnough(n, w)
             /\ data' = at /\ alloc' = n
             /\ blocks' = [a \in (DOMAIN blocks \ {data}) \cup {at} |->
                              IF a = at THEN Filled(Extended(n), w) ELSE blocks[a]]
       /\ size' = size + Len(w)
       /\ answer' = 0
       /\ UNCHANGED released
    \/ /\ Len(w) > alloc - size
       /\ answer' = -1
       /\ UNCHANGED <<sbuffer, blocks, released>>

\* Mutant: the block is given away and kept.
ReleaseKeeps ==
    /\ data # Null
    /\ released' = released \cup {[at |-> data, bytes |-> SubSeq(Held, 1, size)]}
    /\ size' = 0
    /\ answer' = 0
    /\ UNCHANGED <<data, alloc, blocks>>

Release ==
    /\ data # Null
    /\ released' = released \cup {[at |-> data, bytes |-> SubSeq(Held, 1, size)]}
    /\ size' = 0 /\ data' = Null /\ alloc' = 0
    /\ answer' = 0
    /\ UNCHANGED blocks

Clear ==
    /\ size' = 0
    /\ answer' = 0
    /\ UNCHANGED <<data, alloc, blocks, released>>

\* The caller frees a block it took over.
Free(r) ==
    /\ released' = released \ {r}
    /\ blocks' = [a \in DOMAIN blocks \ {r.at} |-> blocks[a]]
    /\ UNCHANGED <<sbuffer, answer>>

Next ==
    \/ \E w \in Writes : Write(w)
    \/ Release \/ Clear
    \/ \E r \in released : Free(r)

Spec == Init /\ [][Next]_vars

-----------------------------------------------------------------------------
(* Properties                                                              *)

\* A block that was taken over holds what it held then, until its new owner frees
\* it: the buffer neither writes to it nor moves or frees it (lines 67-96).
ReleasedIntact ==
    \A r \in released :
        r.at \in DOMAIN blocks /\ IsPrefix(r.bytes, blocks[r.at]) /\ r.at # data

Abstract == INSTANCE WriteBuffer WITH
    Buffers <- {Null},
    contents <- [b \in {Null} |-> [i \in 1..size |-> IF i <= Len(Held) THEN Held[i] ELSE 0]],
    broken <- FALSE

\* The first size bytes are those of the writes that answered 0, in order, since the
\* last clear or release, whatever was reallocated in between (lines 67-101).
Appends == Abstract!Spec
=============================================================================
