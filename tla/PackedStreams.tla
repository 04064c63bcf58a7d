---------------------------- MODULE PackedStreams ----------------------------
(***************************************************************************)
(* The packer and the unpacker together: what was packed, in one of the    *)
(* forms the packing functions or another MessagePack library choose, is   *)
(* what the parser delivers.                                               *)
(***************************************************************************)
EXTENDS MsgPackParser, MsgPackPack

CONSTANTS
    Packings,   \* objects as a program packs them
    Sent        \* sequences of packings: the contents of the streams

-----------------------------------------------------------------------------
(* The forms of an object                                                  *)

Positive(d) == [type |-> "positive", u64 |-> d]
NegativeInteger(d) == [type |-> "negative", i64 |-> d]
\* Bytes that no object starts with stand for no object.
NoObject == [type |-> "none"]

\* An object whose lengths have less than 32 bits.
IsObject(o) ==
    CASE o.type = "nil"      -> o = Nil
      [] o.type = "boolean"  -> o = Boolean(o.boolean) /\ o.boolean \in BOOLEAN
      [] o.type = "positive" -> o = Positive(o.u64) /\ o.u64 \in [1..8 -> Byte]
      [] o.type = "negative" -> o = NegativeInteger(o.i64) /\ o.i64 \in [1..8 -> Byte] /\ Negative(o.i64)
      [] o.type = "double"   -> o = Double(o.dec) /\ o.dec \in Seq(Byte) /\ Len(o.dec) \in {4, 8}
      [] o.type = "raw"      -> o = Raw(o.raw) /\ o.raw \in Seq(Byte) /\ Len(o.raw) <= Huge
      [] o.type = "array"    -> Len(o.array) <= Huge
      [] o.type = "map"      -> Len(o.map) <= Huge
      [] OTHER               -> o = NoObject

Widths == {8, 16, 32, 64}

\* Whether an integer is a value of a type.
InRange(o, signed, bits) ==
    IF o.type = "negative" THEN signed /\ ~BelowMinus(o.i64, bits - 1)
    ELSE IF signed THEN Below(o.u64, bits - 1)
    ELSE bits = 64 \/ Below(o.u64, bits)
Bytes8(o) == IF o.type = "negative" THEN o.i64 ELSE o.u64

\* What each function that takes the integer writes.
IntegerForms(o) ==
    {pack_integer(t[1], t[2], Bytes8(o)) : t \in {t \in BOOLEAN \X Widths : InRange(o, t[1], t[2])}}
    \cup {pack_fix(t[1], t[2], Bytes8(o)) : t \in {t \in BOOLEAN \X Widths : InRange(o, t[1], t[2])}}
    \cup {pack_cint(t, Bytes8(o)) : t \in {t \in DOMAIN SizeOf : InRange(o, TRUE, 8 * SizeOf[t])}}
    \cup {pack_unsigned_cint(t, Bytes8(o)) :
              t \in {t \in DOMAIN SizeOf : InRange(o, FALSE, 8 * SizeOf[t])}}

\* A header of two or four more bytes, needed or not, as in test/cases.mpac.
Longer(code, n) ==
    {<<code>> \o Bytes16(k) : k \in {k \in {n} : k < 65536}} \cup {<<code + 1>> \o Bytes32(n)}

\* What may be written first.
Heads(o) ==
    CASE o.type = "nil"      -> {pack_nil}
      [] o.type = "boolean"  -> {pack_boolean(o.boolean)}
      [] o.type \in {"positive", "negative"} -> IntegerForms(o)
      [] o.type = "double"   -> {IF Len(o.dec) = 4 THEN pack_float(o.dec) ELSE pack_double(o.dec)}
      [] o.type = "raw"      -> {pack_raw(Len(o.raw))} \cup Longer(218, Len(o.raw))
      [] o.type = "array"    -> {pack_array(Len(o.array))} \cup Longer(220, Len(o.array))
      [] o.type = "map"      -> {pack_map(Len(o.map))} \cup Longer(222, Len(o.map))
      [] OTHER               -> {<<b>> : b \in {193} \cup 196..201 \cup 212..217}

\* The parts of an object: the elements of an array, the keys and values of a map.
Nests(o) == o.type \in {"array", "map"}
IsMadeOf(o, parts) ==
    CASE o.type = "array" -> o = Array([i \in 1..Len(parts) |-> parts[i].value])
      [] o.type = "map"   ->
             LET n == Len(parts) \div 2
             IN  /\ Len(parts) = 2 * n
                 /\ o = Map([i \in 1..n |-> <<parts[2 * i - 1].value, parts[2 * i].value>>])
      [] OTHER            -> parts = <<>>

\* Where the parser may stop: after the byte of a header, after the bytes of a
\* number or a length, after a raw (msgpack_pack_raw_body) and after each part.
HeadCells(head) == IF Len(head) = 1 THEN <<head>> ELSE <<<<head[1]>>, Tail(head)>>
Body(o) == IF o.type = "raw" /\ o.raw # <<>> THEN <<o.raw>> ELSE <<>>
CellsOf(packings) == FlattenSeq([i \in 1..Len(packings) |-> packings[i].cells])

\* The places an object takes on the stack; what cannot be parsed has no room.
PlacesOf(o, parts) ==
    IF Nests(o) THEN {1} \cup {parts[i].needs + 1 : i \in 1..Len(parts)}
    ELSE IF o = NoObject THEN {StackSize + 1} ELSE {0}

WellPacked(k) ==
    /\ k.parts \in Seq(Packings) /\ k.cells \in Seq(Seq(Byte)) /\ k.needs \in Nat
    /\ IsObject(k.value) /\ IsMadeOf(k.value, k.parts)
    /\ k.head \in Heads(k.value)
    /\ k.cells = HeadCells(k.head) \o Body(k.value) \o CellsOf(k.parts)
    /\ k.needs \in PlacesOf(k.value, k.parts)
    /\ \A i \in 1..Len(k.parts) : k.parts[i].needs < k.needs

BytesOf(list) == FlattenSeq(CellsOf(list))

\* What a client may be given is what was packed.
ASSUME PackedAssumption ==
    /\ \A k \in Packings : WellPacked(k)
    /\ Sent \subseteq Seq(Packings)
    /\ Streams = {BytesOf(list) : list \in Sent}

Contents == [s \in Streams |-> CHOOSE list \in Sent : BytesOf(list) = s]

\* The messages before the first that cannot be parsed.
Parsable(k) == k.needs <= StackSize
Deliverable(list) ==
    LET bad == {i \in 1..Len(list) : ~Parsable(list[i])}
    IN  SubSeq(list, 1, IF bad = {} THEN Len(list) ELSE Min(bad) - 1)
Expected == [s \in Streams |->
                LET l == Deliverable(Contents[s]) IN [i \in 1..Len(l) |-> l[i].value]]

\* The offsets at which the cells of a stream end.
EndsOf(list) ==
    {Len(FlattenSeq(SubSeq(CellsOf(list), 1, k))) : k \in 0..Len(CellsOf(list))}
Ends == [s \in Streams |-> EndsOf(Contents[s])]

-----------------------------------------------------------------------------
(* Properties                                                              *)

\* Whatever the client calls and however the bytes arrive, the objects are the
\* values that were packed, in their order, up to the first message that is
\* nested too deep or is not MessagePack: for the functions that resume, and for
\* those that begin again.
DeliversWhatWasPacked == IsPrefix(delivered, Expected[stream])

\* A call that asks for more bytes has consumed every cell that is complete and
\* nothing of the next: the streaming buffer can be moved between two calls.
WholeCells ==
    at = "out" /\ failure = "none" =>
        /\ p \in Ends[stream]
        /\ \A e \in Ends[stream] : e <= p \/ e > fed

\* m converts to each integer type that holds o with the value of o, and raises for
\* the others.
ConvertsAs(m, o) ==
    \A signed \in BOOLEAN, bits \in Widths :
        convert_integer(m, signed, bits) =
            IF InRange(o, signed, bits) THEN Bytes8(o) ELSE TypeError

\* An integer that was packed in whatever form is read into an integer type with
\* its value, or raises if the type cannot hold it: no value is truncated.
ConvertsExactly ==
    \A i \in DOMAIN delivered :
        Expected[stream][i].type \in {"positive", "negative"} =>
            ConvertsAs(delivered[i], Expected[stream][i])

\* A client that goes on reading and asking gets every message that is not nested
\* too deep.
AllDelivered == <>(delivered = Expected[stream])
=============================================================================
