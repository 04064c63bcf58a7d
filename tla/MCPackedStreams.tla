--------------------------- MODULE MCPackedStreams ---------------------------
(***************************************************************************)
(* Streams for the model checker: every integer at a boundary of a form,   *)
(* in each form of each type that holds it; the other objects; containers  *)
(* up to one level too deep, with short and long headers; and sequences of *)
(* two messages, of which one may not be MessagePack.                      *)
(***************************************************************************)
EXTENDS PackedStreams, MsgPackPackObject

Zeros(k) == [i \in 1..k |-> 0]
Ones(k) == [i \in 1..k |-> 255]
Naturals8 ==
    {Zeros(7) \o <<b>> : b \in {0, 127, 128, 255}}
    \cup {Zeros(6) \o b : b \in {<<1, 0>>, <<255, 255>>}}
    \cup {Zeros(4) \o b : b \in {<<0, 1, 0, 0>>, <<128, 0, 0, 0>>, <<255, 255, 255, 255>>}}
    \cup {<<0, 0, 0, 1, 0, 0, 0, 0>>, <<127>> \o Ones(7), <<128>> \o Zeros(7)}
Negatives8 ==
    {Ones(7) \o <<b>> : b \in {255, 224, 223, 128}}
    \cup {Ones(6) \o b : b \in {<<255, 127>>, <<128, 0>>, <<127, 255>>}}
    \cup {Ones(4) \o b : b \in {<<255, 127, 255, 255>>, <<128, 0, 0, 0>>, <<127, 255, 255, 255>>}}
    \cup {<<128>> \o Zeros(7)}

MCIntegers == {Positive(d) : d \in Naturals8} \cup {NegativeInteger(d) : d \in Negatives8}

Packing(o, head, parts) ==
    [value |-> o, head |-> head, parts |-> parts,
     cells |-> HeadCells(head) \o Body(o) \o CellsOf(parts),
     needs |-> Max(PlacesOf(o, parts))]

\* As msgpack_pack_object packs it.
RECURSIVE Packed(_)
Packed(o) ==
    Packing(o, Head(msgpack_pack_object(o)),
            CASE o.type = "array" -> [i \in 1..Len(o.array) |-> Packed(o.array[i])]
              [] o.type = "map"   ->
                     FlattenSeq([i \in 1..Len(o.map) |->
                                    <<Packed(o.map[i][1]), Packed(o.map[i][2])>>])
              [] OTHER            -> <<>>)

Integers8 == {Packing(o, head, <<>>) : <<o, head>> \in
                 UNION {{o} \X IntegerForms(o) : o \in MCIntegers}}

One == Unsigned(<<1>>)
Text == Raw(<<97, 98, 99>>)
Long == Raw([i \in 1..32 |-> 192])
Objects ==
    {Nil, Boolean(TRUE), Boolean(FALSE), Double(<<64, 9, 33, 251, 84, 68, 45, 24>>),
     Raw(<<>>), Text, Long,
     Array(<<>>), Array(<<One, Text>>), Array(<<Array(<<One>>), Nil>>),
     Array([i \in 1..16 |-> Nil]),
     Map(<<>>), Map(<<<<Text, One>>, <<Nil, Array(<<>>)>>>>), Map(<<<<One, Map(<<<<Nil, Nil>>>>)>>>>)}

\* The same with longer headers than are needed.
WithHead(o, head) == Packing(o, head, Packed(o).parts)
Wide ==
    {WithHead(Raw(<<>>), <<218>> \o Bytes16(0)), WithHead(Raw(<<>>), <<219>> \o Bytes32(0)),
     WithHead(Text, <<218>> \o Bytes16(3)), WithHead(Text, <<219>> \o Bytes32(3)),
     WithHead(Array(<<>>), <<220>> \o Bytes16(0)), WithHead(Array(<<One, Text>>), <<221>> \o Bytes32(2)),
     WithHead(Map(<<>>), <<223>> \o Bytes32(0)), WithHead(Map(<<<<Text, One>>>>), <<222>> \o Bytes16(1)),
     Packing(Double(<<62, 32, 0, 0>>), pack_float(<<62, 32, 0, 0>>), <<>>)}

\* Nested one level deeper than the stack is, the last container by each header.
Innermost == WithHead(Array(<<Nil>>), <<220>> \o Bytes16(1))
Middle == Packing(Array(<<Array(<<Nil>>)>>), <<145>>, <<Innermost>>)
Bad ==
    {Packed(Array(<<Array(<<Array(<<Nil>>)>>)>>)),
     Packed(Array(<<Array(<<Array(<<>>)>>)>>)),
     Packing(Array(<<Array(<<Array(<<Nil>>)>>)>>), <<145>>, <<Middle>>),
     Packing(NoObject, <<193>>, <<>>)}

Few == {Packed(One), Packed(Text), Packed(Array(<<Array(<<One>>), Nil>>)),
        Packed(Map(<<<<Text, One>>>>)), WithHead(Array(<<One, Text>>), <<221>> \o Bytes32(2))}

MCSent ==
    {<<k>> : k \in Integers8 \cup {Packed(o) : o \in Objects} \cup Wide}
    \cup {<<k, l>> : k \in Few, l \in Few \cup Bad}
    \cup {<<k, Packed(One)>> : k \in Bad}

RECURSIVE Within(_)
Within(k) == {k} \cup UNION {Within(k.parts[i]) : i \in 1..Len(k.parts)}
MCPackings == UNION {UNION {Within(list[i]) : i \in 1..Len(list)} : list \in MCSent}
MCStreams == {BytesOf(list) : list \in MCSent}

\* A packing with the heads of msgpack_pack_object has the bytes it writes.
ASSUME PackObjectAssumption ==
    \A k \in MCPackings :
        k.value # NoObject => FlattenSeq(Packed(k.value).cells) = FlattenSeq(msgpack_pack_object(k.value))
=============================================================================
