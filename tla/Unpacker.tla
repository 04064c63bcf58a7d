------------------------------ MODULE Unpacker ------------------------------
(***************************************************************************)
(* unpack.c: the streaming deserializer and its buffer.                    *)
(*                                                                         *)
(* The objects it returns point into the buffer they were parsed from, so  *)
(* the buffer has a reference count: one for the unpacker, and one for     *)
(* each finalizer of a memory zone that gives it back when the zone is     *)
(* freed.  The client decides when to reserve space, to feed bytes, to     *)
(* take the next object and to free the zones of the earlier ones.         *)
(*                                                                         *)
(* The stream is a sequence of cells: what template_execute consumes at    *)
(* once or not at all (a header byte, the body of a number, the bytes of a *)
(* raw).  A byte is known by its position in the stream.                   *)
(***************************************************************************)
EXTENDS Integers, Sequences, FiniteSets, FiniteSetsExt

CONSTANTS
    Cells,         \* the stream: [len, kind: "plain" | "raw" | "bad", last]
    CounterSize,   \* COUNTER_SIZE: the count is kept in front of the bytes
    InitialSize,   \* initial_buffer_size
    Sizes,         \* what a client passes to reserve_buffer
    Failing,       \* the allocations that may fail
    Buffers,       \* bound: addresses for buffers, a range of numbers
    Zones,         \* bound: addresses for zones, a range of numbers
    NoZone         \* a null zone

Allocations == {"malloc", "realloc", "finalizer", "zone"}

ASSUME UnpackerAssumption ==
    /\ Cells \in Seq([len : Nat \ {0}, kind : {"plain", "raw", "bad"}, last : BOOLEAN])
    /\ CounterSize \in Nat \ {0}
    /\ InitialSize \in Nat
    /\ Sizes \subseteq Nat
    /\ Failing \subseteq Allocations
    /\ Buffers \subseteq Nat \ {0} /\ 1 \in Buffers
    /\ Zones \subseteq Nat \ {0} /\ 1 \in Zones
    /\ NoZone \notin Zones

VARIABLES
    heap,         \* per address: the buffer there
    zones,        \* per address: the zone there
    live,         \* the unpacker has not been destroyed
    buffer, used, free, off, parsed, z, referenced,   \* msgpack_unpacker
    cell,         \* the context: the next cell to parse
    raws,         \* the context: the raws of the message being parsed
    result,       \* the client's msgpack_unpacked
    kept,         \* the objects whose zone the client has taken over
    fed           \* bytes of the stream the client has fed

unpacker == <<live, buffer, used, free, off, parsed, z, referenced>>
context == <<cell, raws>>
client == <<result, kept, fed>>
vars == <<heap, zones, unpacker, context, client>>

-----------------------------------------------------------------------------
(* The stream                                                              *)

\* The position of the last byte of each cell.
End[i \in 0..Len(Cells)] == IF i = 0 THEN 0 ELSE End[i - 1] + Cells[i].len
Length == End[Len(Cells)]

\* Bytes of the stream that have been parsed.
Done == End[cell - 1]

-----------------------------------------------------------------------------
(* Buffers and zones                                                       *)

NoBuffer == [count |-> 0, size |-> 0, bytes |-> <<>>]
NewBuffer(size, bytes) == [count |-> 1, size |-> size, bytes |-> bytes]
NothingIn(size) == [o \in 0..(size - 1) |-> 0]

FreeBuffers == {b \in Buffers : heap[b].count = 0}
FreeZones == {y \in Zones : ~zones[y].live}

\* The finalizers of a zone: how many times it gives back each buffer.
NoZoneThere == [live |-> FALSE, gives |-> [b \in Buffers |-> 0]]
NewZone == [live |-> TRUE, gives |-> [b \in Buffers |-> 0]]

\* decl_count, n times: the buffer is freed with its last count.
DeclCount(h, b, n) ==
    [h EXCEPT ![b] = IF n = 0 THEN @
                     ELSE IF @.count <= n THEN NoBuffer
                     ELSE [h[b] EXCEPT !.count = h[b].count - n]]
InclCount(h, b) == [h EXCEPT ![b].count = @ + 1]

\* call_finalizer_array
Finalized(h, y) == [b \in Buffers |-> DeclCount(h, b, zones[y].gives[b])[b]]

\* msgpack_zone_push_finalizer(y, decl_count, b)
Pushed(zs, y, b) == [zs EXCEPT ![y].gives[b] = @ + 1]

Least(S) == Min(S)

-----------------------------------------------------------------------------
(* msgpack_unpacker_init                                                   *)

FirstSize == IF InitialSize < CounterSize THEN CounterSize ELSE InitialSize

NoResult == [zone |-> NoZone, raws |-> {}]

Init ==
    /\ heap = [b \in Buffers |-> IF b = 1 THEN NewBuffer(FirstSize, NothingIn(FirstSize))
                                          ELSE NoBuffer]
    /\ zones = [y \in Zones |-> IF y = 1 THEN NewZone ELSE NoZoneThere]
    /\ live = TRUE
    /\ buffer = 1
    /\ used = CounterSize
    /\ free = FirstSize - CounterSize
    /\ off = CounterSize
    /\ parsed = 0
    /\ z = 1
    /\ referenced = FALSE
    /\ cell = 1
    /\ raws = {}
    /\ result = NoResult
    /\ kept = {}
    /\ fed = 0

-----------------------------------------------------------------------------
(* msgpack_unpacker_reserve_buffer and msgpack_unpacker_expand_buffer      *)

\* Mutant: the count is enough, what the message being parsed refers to is not
\* asked for.
MayRewindByCount == used = off /\ heap[buffer].count = 1

\* Mutant: the buffer is full, whether or not all of it is parsed.
MayRewindFull == free = 0 /\ heap[buffer].count = 1 /\ ~referenced

\* All bytes are parsed and no object points into the buffer.
MayRewind == used = off /\ heap[buffer].count = 1 /\ ~referenced

UsedNow == IF MayRewind THEN CounterSize ELSE used
OffNow == IF MayRewind THEN CounterSize ELSE off
\* Mutant: the space of the parsed bytes is not won back.
FreeNowForgotten == free

FreeNow == IF MayRewind THEN free + used - CounterSize ELSE free

\* Mutant: no loop.
DoubledNever(size, needed) == size

\* The loop that doubles a size until it is enough.
Doubled(size, needed) ==
    size * Least({n \in {2^k : k \in 0..(needed + 1)} : size * n >= needed})

Expanding(size) == live /\ free < size
Unchanged == UNCHANGED <<parsed, live, z, context, client>>

Rewind(size) ==
    /\ Expanding(size)
    /\ MayRewind /\ FreeNow >= size
    /\ used' = UsedNow /\ off' = OffNow /\ free' = FreeNow
    /\ UNCHANGED <<heap, zones, buffer, referenced>>
    /\ Unchanged

\* realloc, which may move the buffer: nothing was parsed from it.
Grow(size) ==
    /\ Expanding(size)
    /\ ~(MayRewind /\ FreeNow >= size)
    /\ OffNow = CounterSize
    /\ LET next == Doubled((UsedNow + FreeNow) * 2, size + UsedNow)
           grown == [o \in 0..(next - 1) |->
                        IF o < heap[buffer].size THEN heap[buffer].bytes[o] ELSE 0]
       IN  /\ \E b \in {buffer} \cup (IF FreeBuffers = {} THEN {} ELSE {Least(FreeBuffers)}) :
                /\ heap' = [heap EXCEPT ![buffer] = NoBuffer,
                                        ![b] = [count |-> heap[buffer].count,
                                                size |-> next, bytes |-> grown]]
                /\ buffer' = b
           /\ free' = next - UsedNow
    /\ used' = UsedNow /\ off' = OffNow
    /\ UNCHANGED <<zones, referenced>>
    /\ Unchanged

GrowFails(size) ==
    /\ "realloc" \in Failing
    /\ Expanding(size)
    /\ ~(MayRewind /\ FreeNow >= size)
    /\ OffNow = CounterSize
    /\ used' = UsedNow /\ off' = OffNow /\ free' = FreeNow
    /\ UNCHANGED <<heap, zones, buffer, referenced>>
    /\ Unchanged

\* Mutant: the old buffer is not given back.
LetGoOnlyReferenced(h) ==
    /\ zones' = IF referenced THEN Pushed(zones, z, buffer) ELSE zones
    /\ heap' = h
    /\ referenced' = FALSE

\* The unpacker's count of the old buffer goes to the zone if the message being
\* parsed points into it, and is given back if not.
LetGo(h) ==
    /\ zones' = IF referenced THEN Pushed(zones, z, buffer) ELSE zones
    /\ heap' = IF referenced THEN h ELSE DeclCount(h, buffer, 1)
    /\ referenced' = FALSE

\* A new buffer, which gets the bytes that are not parsed yet.  When malloc, or
\* push_finalizer, fails, false is returned and nothing has changed.
Replace(size) ==
    /\ Expanding(size)
    /\ OffNow # CounterSize
    /\ FreeBuffers # {}
    /\ LET notParsed == used - off
           next == Doubled(FirstSize, size + notParsed + CounterSize)
           b == Least(FreeBuffers)
           bytes == [o \in 0..(next - 1) |->
                        IF o - CounterSize \in 0..(notParsed - 1)
                        THEN heap[buffer].bytes[o - CounterSize + off] ELSE 0]
       IN  /\ LetGo([heap EXCEPT ![b] = NewBuffer(next, bytes)])
           /\ buffer' = b
           /\ used' = notParsed + CounterSize
           /\ free' = next - (notParsed + CounterSize)
           /\ off' = CounterSize
    /\ Unchanged

-----------------------------------------------------------------------------
(* Feeding: msgpack_unpacker_buffer and msgpack_unpacker_buffer_consumed   *)

Feed(n) ==
    /\ live
    /\ n \in 1..free
    /\ fed + n <= Length
    /\ heap' = [heap EXCEPT ![buffer].bytes =
                   [o \in DOMAIN @ |-> IF o - used \in 0..(n - 1) THEN fed + 1 + o - used
                                       ELSE @[o]]]
    /\ fed' = fed + n
    /\ used' = used + n
    /\ free' = free - n
    /\ UNCHANGED <<zones, buffer, off, parsed, live, z, referenced, context, result, kept>>

-----------------------------------------------------------------------------
(* msgpack_unpacker_next                                                   *)

\* template_execute consumes the cells up to j.
Consumes(j) ==
    /\ End[j] - Done <= used - off
    /\ \A i \in cell..j : Cells[i].kind # "bad" /\ (i < j => ~Cells[i].last)
Reached == Max({cell - 1} \cup {j \in cell..Len(Cells) : Consumes(j)})
Finished == Reached >= cell /\ Cells[Reached].last

\* The raws among them: where in the buffer, and which bytes of the stream.
RawAt(i) == [buffer |-> buffer, at |-> off + End[i - 1] - Done,
             from |-> End[i - 1] + 1, len |-> Cells[i].len]
NewRaws == {RawAt(i) : i \in {i \in cell..Reached : Cells[i].kind = "raw"}}
ReferencedNow == referenced \/ NewRaws # {}

Executes ==
    /\ cell' = Reached + 1
    /\ off' = off + End[Reached] - Done
    /\ UNCHANGED <<live, buffer, used, free>>

\* The zone of the object returned before is freed first.
HeapNow == IF result.zone = NoZone THEN heap ELSE Finalized(heap, result.zone)
ZonesNow == IF result.zone = NoZone THEN zones
            ELSE [zones EXCEPT ![result.zone] = NoZoneThere]

\* The message is not complete, or cannot be parsed.
NextReturnsFalse ==
    /\ live
    /\ ~Finished
    /\ Executes
    /\ heap' = HeapNow
    /\ zones' = ZonesNow
    /\ result' = NoResult
    /\ parsed' = parsed + End[Reached] - Done
    /\ raws' = raws \cup NewRaws
    /\ referenced' = ReferencedNow
    /\ UNCHANGED <<z, kept, fed>>

\* flush_zone gives the zone a count of its own.
Flushed(h) == IF ReferencedNow THEN InclCount(h, buffer) ELSE h
FlushedZones == IF ReferencedNow THEN Pushed(ZonesNow, z, buffer) ELSE ZonesNow

Returns(zone) ==
    /\ result' = [zone |-> zone, raws |-> raws \cup NewRaws]
    /\ parsed' = 0
    /\ raws' = {}
    /\ UNCHANGED <<kept, fed>>

NextReturnsObject ==
    /\ live
    /\ Finished
    /\ Executes
    /\ LET others == {y \in Zones : ~ZonesNow[y].live}
       IN  /\ others # {}
           /\ z' = Least(others)
           /\ zones' = [FlushedZones EXCEPT ![Least(others)] = NewZone]
    /\ heap' = Flushed(HeapNow)
    /\ referenced' = FALSE
    /\ Returns(z)

\* release_zone fails: the object is returned without its zone, which stays the
\* unpacker's.
NextReturnsBare ==
    /\ live
    /\ Finished
    /\ Executes
    /\ \/ /\ "finalizer" \in Failing
          /\ ReferencedNow
          /\ heap' = HeapNow
          /\ zones' = ZonesNow
          /\ referenced' = TRUE
       \/ /\ "zone" \in Failing
          /\ heap' = Flushed(HeapNow)
          /\ zones' = FlushedZones
          /\ referenced' = FALSE
    /\ UNCHANGED z
    /\ Returns(NoZone)

-----------------------------------------------------------------------------
(* The client and what it frees                                            *)

\* msgpack_unpacked_release_zone: the object lives until its zone is freed.
KeepObject ==
    /\ result.zone # NoZone
    /\ kept' = kept \cup {result}
    /\ result' = NoResult
    /\ UNCHANGED <<heap, zones, unpacker, context, fed>>

FreesZone(y) ==
    /\ heap' = Finalized(heap, y)
    /\ zones' = [zones EXCEPT ![y] = NoZoneThere]

\* msgpack_zone_free, at any time and in any thread.
FreeKept(o) ==
    /\ FreesZone(o.zone)
    /\ kept' = kept \ {o}
    /\ UNCHANGED <<unpacker, context, result, fed>>

\* msgpack_unpacked_destroy
DestroyResult ==
    /\ result.zone # NoZone
    /\ FreesZone(result.zone)
    /\ result' = NoResult
    /\ UNCHANGED <<unpacker, context, kept, fed>>

\* msgpack_unpacker_reset_zone, between two messages and while the client holds
\* no object of that zone.
ResetZone ==
    /\ live
    /\ raws = {} /\ parsed = 0
    /\ result.zone = NoZone => result.raws = {}
    /\ heap' = Finalized(heap, z)
    /\ zones' = [zones EXCEPT ![z] = NewZone]
    /\ UNCHANGED <<unpacker, context, client>>

\* msgpack_unpacker_destroy
Destroy ==
    /\ live
    /\ live' = FALSE
    /\ heap' = DeclCount(Finalized(heap, z), buffer, 1)
    /\ zones' = [zones EXCEPT ![z] = NoZoneThere]
    /\ raws' = {}
    /\ result' = IF result.zone = NoZone THEN NoResult ELSE result
    /\ UNCHANGED <<buffer, used, free, off, parsed, z, referenced, cell, kept, fed>>

-----------------------------------------------------------------------------
Expand == \E size \in Sizes : Rewind(size) \/ Grow(size) \/ GrowFails(size) \/ Replace(size)

Next ==
    \/ Expand
    \/ \E n \in 1..Length : Feed(n)
    \/ NextReturnsFalse \/ NextReturnsObject \/ NextReturnsBare
    \/ KeepObject \/ \E o \in kept : FreeKept(o)
    \/ DestroyResult \/ ResetZone \/ Destroy

Spec == Init /\ [][Next]_vars

\* The client's loop: reserve, feed what is free, take objects until there is
\* none.  Nothing says that it keeps an object, frees one or stops.
FairSpec ==
    Spec /\ WF_vars(Expand)
         /\ WF_vars(\E n \in 1..Length : Feed(n))
         /\ WF_vars(NextReturnsFalse \/ NextReturnsObject)

-----------------------------------------------------------------------------
(* Properties                                                              *)

Raw == [buffer : Buffers, at : Nat, from : 1..Length, len : Nat \ {0}]
Object == [zone : Zones \cup {NoZone}, raws : SUBSET Raw]

TypeOK ==
    /\ DOMAIN heap = Buffers
    /\ \A b \in Buffers :
          /\ heap[b].count \in Nat /\ heap[b].size \in Nat
          /\ heap[b].count # 0 =>
                heap[b].bytes \in [0..(heap[b].size - 1) -> 0..Length]
    /\ zones \in [Zones -> [live : BOOLEAN, gives : [Buffers -> Nat]]]
    /\ live \in BOOLEAN /\ referenced \in BOOLEAN
    /\ buffer \in Buffers /\ z \in Zones
    /\ used \in Nat /\ free \in Nat /\ off \in Nat /\ parsed \in Nat
    /\ cell \in 1..(Len(Cells) + 1)
    /\ raws \subseteq Raw
    /\ result \in Object /\ kept \subseteq Object
    /\ fed \in 0..Length

\* The raws somebody may still look at: those of the message being parsed, of
\* the object just returned and of the objects the client has kept.
RawsInUse == (IF live THEN raws ELSE {}) \cup result.raws \cup UNION {o.raws : o \in kept}

\* However the client interleaves reserving, feeding, taking and freeing, a raw
\* of an object whose zone is not freed points into a buffer that is still there
\* and still holds its bytes (lines 248-309 and 350-361).
RawsIntact ==
    \A r \in RawsInUse :
        /\ heap[r.buffer].count > 0
        /\ \A i \in 0..(r.len - 1) :
              /\ r.at + i < heap[r.buffer].size
              /\ heap[r.buffer].bytes[r.at + i] = r.from + i

\* The finalizers that will give a buffer back, one by one.
GivenBy(zs, b) == UNION {{y} \X (1..zs[y].gives[b]) : y \in Zones}

\* Every buffer's count is the unpacker and the finalizers that will give it back,
\* and every zone has one owner: nothing is freed twice and nothing is left when
\* the unpacker and the objects are gone, whichever allocation failed on the way.
CountsExact ==
    /\ \A b \in Buffers :
          heap[b].count = (IF live /\ buffer = b THEN 1 ELSE 0)
                          + Cardinality(GivenBy(zones, b))
    /\ {y \in Zones : zones[y].live} =
          ((IF live THEN {z} ELSE {}) \cup {result.zone} \cup {o.zone : o \in kept})
          \ {NoZone}

\* The ends of the messages before a cell.
MessageEnds(c) == {0} \cup {End[i] : i \in {i \in 1..(c - 1) : Cells[i].last}}

\* Between off and used are exactly the bytes that were fed and not parsed, in
\* their order, the rest of the buffer is free, and parsed counts the bytes of
\* the message under way: no expansion loses, repeats or moves a byte.
WindowExact ==
    live =>
        /\ CounterSize <= off /\ off <= used /\ used + free = heap[buffer].size
        /\ used - off = fed - Done
        /\ \A i \in 0..(used - off - 1) : heap[buffer].bytes[off + i] = Done + 1 + i
        /\ parsed = Done - Max(MessageEnds(cell))

\* A client that goes on gets every message before the first bad byte: no
\* sequence of expansions leaves it without space.
MessagesDelivered ==
    <>(~live \/ cell > Len(Cells) \/ Cells[cell].kind = "bad")
=============================================================================
