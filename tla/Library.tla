------------------------------- MODULE Library -------------------------------
(***************************************************************************)
(* The parts of the MessagePack library that hand memory on: the sbuffer,  *)
(* the zbuffer and the zone, side by side, and what is claimed of each.    *)
(* They share nothing.  The vrefbuffer has a module of its own.            *)
(***************************************************************************)
EXTENDS Integers, Sequences

CONSTANTS
    SimpleWrites, SimpleInit, SimpleMax, Addresses, Null,                       \* SBuffer
    CompressedWrites, CompressedInit, ReserveSize, CompressedMax, MaxWritten,   \* ZBuffer
    Zones, Sizes, Align, FirstSize, FirstFins, MaxFins, Places                  \* Zone

\* The bytes are numbers, the sizes that are doubled are not 0, and the null pointer
\* is not an address.
ASSUME LibraryAssumption ==
    /\ SimpleWrites \subseteq Seq(Nat) /\ CompressedWrites \subseteq Seq(Nat)
    /\ SimpleInit \in Nat \ {0} /\ SimpleMax \in Nat
    /\ Null \notin Addresses
    /\ CompressedInit \in Nat \ {0} /\ ReserveSize \in Nat
    /\ CompressedMax \in Nat /\ MaxWritten \in Nat
    /\ Sizes \subseteq Nat /\ Align \in Nat \ {0}
    /\ FirstSize \in [Zones -> Nat \ {0}]
    /\ FirstFins \in Nat \ {0} /\ MaxFins \in Nat

VARIABLES
    size, data, alloc, blocks, released, sbufferAnswer,
    at, out, avail_out, input, pending, finishing, zbufferAnswer, written, given, failed,
    zone, length, fault, pieces, built

Simple == INSTANCE SBuffer WITH
    Writes <- SimpleWrites, InitSize <- SimpleInit, MaxAlloc <- SimpleMax,
    answer <- sbufferAnswer
Compressed == INSTANCE ZBuffer WITH
    Writes <- CompressedWrites, InitSize <- CompressedInit, MaxAlloc <- CompressedMax,
    answer <- zbufferAnswer
Memory == INSTANCE Zone WITH Chunks <- Places

\* The sbuffer implements WriteBuffer: through growth that fails or moves it, a write
\* that answers 0 appends its bytes, one that answers -1 changes nothing, and only
\* release and clear take bytes away (sbuffer.h:67-101).
SBufferAppends == Simple!Appends

\* What a client took over with release stays as it was, and in a block of its own,
\* whatever the buffer does next (sbuffer.h:89-96).
SBufferReleasedIntact == Simple!ReleasedIntact

\* A zbuffer whose flush has answered has put out what was written and the end, in
\* order, into what was given away and its own buffer (zbuffer.h:108-197).
ZBufferFlushedIsWritten == Compressed!FlushedIsWritten

\* The pieces allocated in zones are apart, and in chunks their zone frees
\* (zone.c:74-95, zone.h:91-139).
ZonePiecesApart == Memory!PiecesApart

\* A zone finalizes what was built in it, each object once (zone.c:105-167,
\* zone.hpp:155-159).
ZoneFinalizersMatch == Memory!FinalizersMatch
=============================================================================
