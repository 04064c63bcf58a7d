----------------------------- MODULE MsgPackPack -----------------------------
(***************************************************************************)
(* pack_template.h and the conversion of integers in type/int.hpp: how a   *)
(* value becomes bytes and an object a value.                              *)
(*                                                                         *)
(* An integer is its eight bytes in two's complement.  A call of the       *)
(* stream's write callback is a sequence of bytes.                         *)
(***************************************************************************)
EXTENDS MsgPackFormat, SequencesExt

-----------------------------------------------------------------------------
(* The tests of the macros on an integer                                   *)

\* d < 1 << n, for an integer that is not negative.
Below(d, n) ==
    /\ \A i \in 1..(7 - n \div 8) : d[i] = 0
    /\ d[8 - n \div 8] < 2^(n % 8)

Negative(d) == d[1] >= 128

\* d < -(1 << n)
BelowMinus(d, n) ==
    /\ Negative(d)
    /\ ~ /\ \A i \in 1..(7 - n \div 8) : d[i] = 255
         /\ d[8 - n \div 8] >= 256 - 2^(n % 8)

\* A code and the last k bytes, the most significant one first.
Store(code, d, k) == <<code>> \o SubSeq(d, 9 - k, 8)
Fixnum(d) == SubSeq(d, 8, 8)

-----------------------------------------------------------------------------
(* msgpack_pack_real_*: the shortest form, for an argument of each width   *)

real_uint8(d) == IF Below(d, 7) THEN Fixnum(d) ELSE Store(204, d, 1)
real_uint16(d) == IF Below(d, 8) THEN real_uint8(d) ELSE Store(205, d, 2)
real_uint32(d) == IF Below(d, 16) THEN real_uint16(d) ELSE Store(206, d, 4)
real_uint64(d) == IF Below(d, 32) THEN real_uint32(d) ELSE Store(207, d, 8)

real_int8(d) == IF BelowMinus(d, 5) THEN Store(208, d, 1) ELSE Fixnum(d)

real_int16(d) ==
    CASE BelowMinus(d, 7) -> Store(209, d, 2)
      [] BelowMinus(d, 5) /\ ~BelowMinus(d, 7) -> Store(208, d, 1)
      [] Negative(d) /\ ~BelowMinus(d, 5) -> Fixnum(d)
      [] OTHER -> real_uint16(d)

real_int32(d) ==
    CASE BelowMinus(d, 15) -> Store(210, d, 4)
      [] Negative(d) /\ ~BelowMinus(d, 15) -> real_int16(d)
      [] OTHER -> real_uint32(d)

\* Mutant: the sixteen bit form goes one value too far.
real_int64_short(d) ==
    CASE BelowMinus(d, 31) -> Store(211, d, 8)
      [] BelowMinus(d, 16) /\ ~BelowMinus(d, 31) -> Store(210, d, 4)
      [] Negative(d) /\ ~BelowMinus(d, 16) -> real_int16(d)
      [] OTHER -> real_uint64(d)

real_int64(d) ==
    CASE BelowMinus(d, 31) -> Store(211, d, 8)
      [] Negative(d) /\ ~BelowMinus(d, 31) -> real_int32(d)
      [] OTHER -> real_uint64(d)

\* msgpack_pack_*int*: by the width of the argument.
pack_integer(signed, bits, d) ==
    IF signed
    THEN CASE bits = 8  -> real_int8(d)  [] bits = 16 -> real_int16(d)
           [] bits = 32 -> real_int32(d) [] bits = 64 -> real_int64(d)
    ELSE CASE bits = 8  -> real_uint8(d)  [] bits = 16 -> real_uint16(d)
           [] bits = 32 -> real_uint32(d) [] bits = 64 -> real_uint64(d)

\* msgpack_pack_fix_*: all the bytes of the argument.
pack_fix(signed, bits, d) ==
    Store((IF signed THEN 208 ELSE 204)
              + (CASE bits = 8 -> 0 [] bits = 16 -> 1 [] bits = 32 -> 2 [] bits = 64 -> 3),
          d, bits \div 8)

\* msgpack_pack_short to _long_long, and the unsigned ones: the widths of an LP64
\* platform choose the macro.
SizeOf == [short |-> 2, int |-> 4, long |-> 8, long_long |-> 8]
pack_cint(type, d) == pack_integer(TRUE, 8 * SizeOf[type], d)
pack_unsigned_cint(type, d) == pack_integer(FALSE, 8 * SizeOf[type], d)

-----------------------------------------------------------------------------
(* The other values                                                        *)

pack_float(bytes) == <<202>> \o bytes
pack_double(bytes) == <<203>> \o bytes
pack_nil == <<192>>
pack_boolean(b) == <<IF b THEN 195 ELSE 194>>

\* A length in two bytes, and in four, below 2^31.
Bytes16(n) == <<n \div 256, n % 256>>
Bytes32(n) ==
    <<n \div 16777216, (n \div 65536) % 256, (n \div 256) % 256, n % 256>>

pack_array(n) ==
    CASE n < 16 -> <<144 + n>>
      [] n >= 16 /\ n < 65536 -> <<220>> \o Bytes16(n)
      [] OTHER -> <<221>> \o Bytes32(n)
pack_map(n) ==
    CASE n < 16 -> <<128 + n>>
      [] n >= 16 /\ n < 65536 -> <<222>> \o Bytes16(n)
      [] OTHER -> <<223>> \o Bytes32(n)
pack_raw(n) ==
    CASE n < 32 -> <<160 + n>>
      [] n >= 32 /\ n < 65536 -> <<218>> \o Bytes16(n)
      [] OTHER -> <<219>> \o Bytes32(n)

-----------------------------------------------------------------------------
(* type/int.hpp                                                            *)

\* The exception: none of the eight bytes.
TypeError == <<>>

\* numeric_limits<T>::max and min, in 64 bits.
MaxOf(signed, bits) ==
    [i \in 1..8 |-> IF i <= 8 - bits \div 8 THEN 0
                    ELSE IF signed /\ i = 9 - bits \div 8 THEN 127 ELSE 255]
MinOf(bits) ==
    [i \in 1..8 |-> IF i <= 8 - bits \div 8 THEN 255
                    ELSE IF i = 9 - bits \div 8 THEN 128 ELSE 0]

\* a < b, of two integers of the same sign.
Less(a, b) ==
    \E i \in 1..8 : a[i] < b[i] /\ \A j \in 1..(i - 1) : a[j] = b[j]

\* Mutant: the range of an unsigned type is the range of the signed one.
convert_integer_signed(o, signed, bits) ==
    CASE o.type = "positive" ->
             IF Less(MaxOf(TRUE, bits), o.u64) THEN TypeError ELSE o.u64
      [] o.type = "negative" /\ signed ->
             IF Less(o.i64, MinOf(bits)) THEN TypeError ELSE o.i64
      [] OTHER -> TypeError

\* convert_integer<T>: the value, or an exception.
convert_integer(o, signed, bits) ==
    CASE o.type = "positive" ->
             IF Less(MaxOf(signed, bits), o.u64) THEN TypeError ELSE o.u64
      [] o.type = "negative" /\ signed ->
             IF Less(o.i64, MinOf(bits)) THEN TypeError ELSE o.i64
      [] OTHER -> TypeError
=============================================================================
