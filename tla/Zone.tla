-------------------------------- MODULE Zone ---------------------------------
(***************************************************************************)
(* zone.c, zone.h and zone.hpp: memory that is allocated piece by piece    *)
(* and given back at once, after the finalizers that were registered for   *)
(* it.  A constructor that allocates in its own zone is not modelled.      *)
(***************************************************************************)
EXTENDS Integers, Sequences, FiniteSets, SequencesExt

CONSTANTS
    Zones,        \* the zones
    Sizes,        \* what is allocated
    Align,        \* MSGPACK_ZONE_ALIGN
    FirstSize,    \* zone -> the chunk_size it is made with
    FirstFins,    \* 72 / sizeof(msgpack_zone_finalizer)
    Chunks,       \* bound: addresses of chunks
    MaxFins       \* bound: of the finalizers of a zone

VARIABLES
    zone,         \* zone -> msgpack_zone
    length,       \* the address of a chunk -> its length
    fault,        \* memory that is not there was used
    pieces,       \* auxiliary: per zone, what is allocated and not given back
    built         \* auxiliary: per zone, the registered objects, first to last

vars == <<zone, length, fault, pieces, built>>

\* init_chunk_list and init_finalizer_array
Fresh(c, size) ==
    [chunks |-> <<c>>, chunk |-> c, ptr |-> 0, free |-> size, chunk_size |-> size,
     fins |-> <<>>, end |-> 0]

Unused == Chunks \ DOMAIN length

Init ==
    /\ \E at \in [Zones -> Chunks] :
          /\ IsInjective(at)
          /\ zone = [z \in Zones |-> Fresh(at[z], FirstSize[z])]
          /\ length = [c \in Range(at) |-> FirstSize[CHOOSE z \in Zones : at[z] = c]]
    /\ fault = FALSE
    /\ pieces = [z \in Zones |-> {}]
    /\ built = [z \in Zones |-> <<>>]

Piece(c, off, len) == [chunk |-> c, off |-> off, len |-> len]
Fault == fault' = TRUE /\ UNCHANGED <<zone, length, pieces, built>>

-----------------------------------------------------------------------------
(* msgpack_zone_malloc, malloc_no_align and malloc_expand                  *)

Aligned(n) == ((n + Align - 1) \div Align) * Align

\* Mutant: a chunk is always of the chunk_size.
ChunkForAny(z, n) == zone[z].chunk_size

\* The length of a new chunk: the chunk_size, doubled until n fits.
ChunkFor(z, n) ==
    LET enough == {m \in {zone[z].chunk_size * 2^k : k \in 0..n} : m >= n}
    IN  CHOOSE m \in enough : \A l \in enough : m <= l

\* The zone with n bytes taken, where they are, and the chunks there are.
Taken(z, n) ==
    LET y == zone[z]
    IN  IF n <= y.free
        THEN {[zone |-> [y EXCEPT !.ptr = @ + n, !.free = @ - n],
               piece |-> Piece(y.chunk, y.ptr, n), length |-> length]}
        ELSE {[zone |-> [y EXCEPT !.chunks = <<c>> \o @, !.chunk = c, !.ptr = n,
                                  !.free = ChunkFor(z, n) - n],
               piece |-> Piece(c, 0, n),
               length |-> [d \in DOMAIN length \cup {c} |->
                              IF d = c THEN ChunkFor(z, n) ELSE length[d]]] : c \in Unused}

\* A null from malloc is not looked at and is written to.
MallocNull(z, n) == n > zone[z].free /\ Fault

Malloc(z, n) ==
    /\ ~fault
    /\ \/ MallocNull(z, n)
       \/ \E t \in Taken(z, n) :
             /\ zone' = [zone EXCEPT ![z] = t.zone]
             /\ length' = t.length
             /\ pieces' = [pieces EXCEPT ![z] = @ \cup {t.piece}]
             /\ UNCHANGED <<fault, built>>

-----------------------------------------------------------------------------
(* msgpack_zone_push_finalizer and its expand                              *)

\* The zones after a finalizer for p is registered; none if that fails.
PushFin(y, p) ==
    IF Len(y.fins) < y.end THEN {[y EXCEPT !.fins = Append(@, p)]}
    ELSE LET end == IF y.end = 0 THEN FirstFins ELSE 2 * y.end
         IN  IF end > MaxFins THEN {}
             ELSE {[y EXCEPT !.fins = Append(@, p), !.end = end]}

PushFinalizer(z, p) ==
    /\ ~fault /\ p \in pieces[z] /\ p \notin ToSet(built[z])
    /\ \E y \in PushFin(zone[z], p) : zone' = [zone EXCEPT ![z] = y]
    /\ built' = [built EXCEPT ![z] = Append(@, p)]
    /\ UNCHANGED <<length, fault, pieces>>

\* undo_malloc, of a number of bytes that was rounded up when they were taken.
Undone(y, n) == [y EXCEPT !.ptr = @ - n, !.free = @ + n]

\* Mutant: the finalizer of an object that was not built stays.
ThrownKeeps(y) == y

\* --base::finalizer_array.tail
Thrown(y) == [y EXCEPT !.fins = Front(@)]

\* zone::allocate.  If the finalizer cannot be registered, or the constructor throws,
\* the memory is given back.  n is the size of a C++ type, that is at least 1.
Allocate(z, n) ==
    /\ ~fault /\ n > 0
    /\ \/ MallocNull(z, Aligned(n))
       \/ \E t \in Taken(z, Aligned(n)) :
             /\ length' = t.length
             /\ UNCHANGED fault
             /\ \/ /\ \E y \in PushFin(t.zone, t.piece) : zone' = [zone EXCEPT ![z] = y]
                   /\ pieces' = [pieces EXCEPT ![z] = @ \cup {t.piece}]
                   /\ built' = [built EXCEPT ![z] = Append(@, t.piece)]
                \/ /\ \E y \in PushFin(t.zone, t.piece) :
                         zone' = [zone EXCEPT ![z] = Undone(Thrown(y), n)]
                   /\ UNCHANGED <<pieces, built>>
                \/ /\ Len(t.zone.fins) = t.zone.end
                   /\ zone' = [zone EXCEPT ![z] = Undone(t.zone, n)]
                   /\ UNCHANGED <<pieces, built>>

-----------------------------------------------------------------------------
(* msgpack_zone_clear, destroy and init, swap, is_empty                    *)

GivenBack(z) ==
    /\ pieces' = [pieces EXCEPT ![z] = {}]
    /\ built' = [built EXCEPT ![z] = <<>>]

\* call_finalizer_array, from the last to the first; and clear_chunk_list, that frees
\* all chunks but the last and then goes on with the first.
Clear(z) ==
    /\ ~fault
    /\ IF Len(zone[z].chunks) > 1 THEN Fault
       ELSE /\ zone' = [zone EXCEPT ![z].fins = <<>>, ![z].ptr = 0, ![z].free = zone[z].chunk_size,
                                    ![z].chunk = Head(zone[z].chunks)]
            /\ GivenBack(z)
            /\ UNCHANGED <<length, fault>>

\* destroy frees every chunk, and the zone is made anew.  zone::zone does not look at
\* the result of init, and one that failed is used all the same.
Renew(z) ==
    LET own == ToSet(zone[z].chunks)
    IN  /\ ~fault
        /\ \/ Fault
           \/ /\ \E c \in Unused \cup own :
                    /\ zone' = [zone EXCEPT ![z] = Fresh(c, FirstSize[z])]
                    /\ length' = [d \in (DOMAIN length \ own) \cup {c} |->
                                     IF d = c THEN FirstSize[z] ELSE length[d]]
              /\ GivenBack(z)
              /\ UNCHANGED fault

Swapped(f, a, b) == [f EXCEPT ![a] = f[b], ![b] = f[a]]
Swap(a, b) ==
    /\ ~fault
    /\ zone' = Swapped(zone, a, b)
    /\ pieces' = Swapped(pieces, a, b)
    /\ built' = Swapped(built, a, b)
    /\ UNCHANGED <<length, fault>>

IsEmpty(y) == y.free = y.chunk_size /\ Len(y.chunks) = 1 /\ y.fins = <<>>

Next ==
    \/ \E z \in Zones :
          \/ \E n \in Sizes : Malloc(z, Aligned(n)) \/ Malloc(z, n) \/ Allocate(z, n)
          \/ \E p \in pieces[z] : PushFinalizer(z, p)
          \/ Clear(z) \/ Renew(z)
    \/ \E a \in Zones : \E b \in Zones \ {a} : Swap(a, b)

Spec == Init /\ [][Next]_vars

-----------------------------------------------------------------------------
(* Properties                                                              *)

Own(z) == ToSet(zone[z].chunks)
Overlap(p, q) == p.chunk = q.chunk /\ p.off < q.off + q.len /\ q.off < p.off + p.len

\* What is allocated stays apart from whatever is allocated later, in any zone, and
\* in a chunk that only this zone frees: after growth, swaps, and constructors that
\* threw and gave back less than they took (zone.c:74-95, zone.h:91-139,
\* zone.hpp:155-159).
PiecesApart ==
    \A z \in Zones :
        LET room == Piece(zone[z].chunk, zone[z].ptr, zone[z].free)
        IN  /\ IsInjective(zone[z].chunks)
            /\ \A y \in Zones \ {z} : Own(z) \cap Own(y) = {}
            /\ \A p \in pieces[z] \cup {room} :
                  p.chunk \in Own(z) /\ p.off + p.len <= length[p.chunk]
            /\ \A p \in pieces[z], q \in pieces[z] \cup {room} : p # q => ~Overlap(p, q)

\* The finalizers a zone will run, from the last to the first, are those of the
\* objects that were built in it, each once and while its memory is there; a zone
\* that says that it is empty holds nothing (zone.c:105-167).
FinalizersMatch ==
    \A z \in Zones :
        /\ zone[z].fins = built[z]
        /\ IsInjective(built[z]) /\ ToSet(built[z]) \subseteq pieces[z]
        /\ IsEmpty(zone[z]) => built[z] = <<>> /\ \A p \in pieces[z] : p.len = 0
=============================================================================
