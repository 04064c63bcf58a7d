---------------------------- MODULE MsgPackFormat ----------------------------
(***************************************************************************)
(* What one piece of a MessagePack stream means to the unpacker: the       *)
(* header switch of template_execute, the switch over the bytes that       *)
(* follow a header, and the callbacks of unpack.c that make the objects.   *)
(***************************************************************************)
EXTENDS Integers, Sequences

Byte == 0..255

-----------------------------------------------------------------------------
(* msgpack_object, as the callbacks make it                                *)

\* An integer is the eight bytes of the union's u64 or i64.
Widened(bytes, fill) ==
    [i \in 1..8 |-> IF i + Len(bytes) > 8 THEN bytes[i + Len(bytes) - 8] ELSE fill]

Nil == [type |-> "nil"]
Boolean(b) == [type |-> "boolean", boolean |-> b]
Unsigned(bytes) == [type |-> "positive", u64 |-> Widened(bytes, 0)]
Signed(bytes) == IF bytes[1] < 128 THEN Unsigned(bytes)
                 ELSE [type |-> "negative", i64 |-> Widened(bytes, 255)]
\* A floating point number is known by its bytes and their number.
Double(bytes) == [type |-> "double", dec |-> bytes]
Raw(bytes) == [type |-> "raw", raw |-> bytes]
Array(items) == [type |-> "array", array |-> items]
Map(items) == [type |-> "map", map |-> items]

-----------------------------------------------------------------------------
(* msgpack_unpack_state                                                    *)

CS_HEADER == 0
CS_FLOAT == 10
CS_DOUBLE == 11
CS_UINT == 12..15
CS_INT == 16..19
CS_RAW == 26..27
CS_ARRAY == 28..29
CS_MAP == 30..31
ACS_RAW_VALUE == 32

States == 0..32

-----------------------------------------------------------------------------
(* The meaning of a cell, what template_execute consumes at once           *)

Value(obj) == [is |-> "value", obj |-> obj]
\* again_fixed_trail: so many bytes follow, and are of this kind.
Again(cs, trail) == [is |-> "again", cs |-> cs, trail |-> trail]
Container(kind, count) == [is |-> "container", kind |-> kind, count |-> count]
Refused == [is |-> "refused"]

\* The header switch.
HeaderCell(b) ==
    IF b <= 127             THEN Value(Unsigned(<<b>>))
    ELSE IF b >= 224        THEN Value(Signed(<<b>>))
    ELSE IF b = 192         THEN Value(Nil)
    ELSE IF b \in 194..195  THEN Value(Boolean(b = 195))
    ELSE IF b \in 202..211  THEN Again(b % 32, <<1, 2, 4, 8>>[(b % 4) + 1])
    ELSE IF b \in 218..223  THEN Again(b % 32, IF b % 2 = 0 THEN 2 ELSE 4)
    ELSE IF b \in 160..191  THEN Again(ACS_RAW_VALUE, b % 32)
    ELSE IF b \in 144..159  THEN Container("array", b % 16)
    ELSE IF b \in 128..143  THEN Container("map", b % 16)
    ELSE Refused

\* A length of two or four bytes; Huge stands for the larger ones.
Huge == 2147483647
Load(bytes) ==
    IF Len(bytes) = 2 THEN bytes[1] * 256 + bytes[2]
    ELSE IF bytes[1] >= 128 THEN Huge
    ELSE bytes[1] * 16777216 + bytes[2] * 65536 + bytes[3] * 256 + bytes[4]

\* The switch over the bytes that follow.
TrailCell(cs, bytes) ==
    IF cs \in {CS_FLOAT, CS_DOUBLE} THEN Value(Double(bytes))
    ELSE IF cs \in CS_UINT          THEN Value(Unsigned(bytes))
    ELSE IF cs \in CS_INT           THEN Value(Signed(bytes))
    ELSE IF cs \in CS_RAW           THEN Again(ACS_RAW_VALUE, Load(bytes))
    ELSE IF cs = ACS_RAW_VALUE      THEN Value(Raw(bytes))
    ELSE IF cs \in CS_ARRAY         THEN Container("array", Load(bytes))
    ELSE IF cs \in CS_MAP           THEN Container("map", Load(bytes))
    ELSE Refused

-----------------------------------------------------------------------------
(* Containers under construction                                           *)

\* A frame of the stack: how many entries are missing, what comes next, the
\* entries so far and the key that waits for its value.
Frame(kind, count) ==
    [ct |-> IF kind = "array" THEN "item" ELSE "key", count |-> count,
     items |-> <<>>, key |-> Nil]

Empty(kind) == IF kind = "array" THEN Array(<<>>) ELSE Map(<<>>)

\* _push: the frame after one more object.
Filled(c, obj) ==
    IF c.ct = "item"     THEN [c EXCEPT !.items = Append(@, obj), !.count = @ - 1]
    ELSE IF c.ct = "key" THEN [c EXCEPT !.key = obj, !.ct = "value"]
    ELSE [c EXCEPT !.items = Append(@, <<c.key, obj>>), !.ct = "key", !.count = @ - 1]

\* The object of a frame that is full.
Complete(c) == IF c.ct = "item" THEN Array(c.items) ELSE Map(c.items)
=============================================================================
