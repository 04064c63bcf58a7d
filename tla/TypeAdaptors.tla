----------------------------- MODULE TypeAdaptors -----------------------------
(***************************************************************************)
(* type/*.hpp: the C++ types that an object can be converted to, packed    *)
(* from and made of.  A client converts one message after the other into   *)
(* the same variable, of one of these types; a type_error leaves it        *)
(* changed as far as the conversion came.                                  *)
(*                                                                         *)
(* tuple.hpp and define.hpp spell the same templates out for 0 to 32       *)
(* members; here the members are a sequence.                               *)
(***************************************************************************)
EXTENDS MsgPackPackObject

CONSTANTS
    Types,        \* name -> type
    Messages,     \* the objects received
    MaxLength     \* bound: of what accumulates in a variable

VARIABLES
    type,         \* chosen once
    value,        \* of the variable
    ok,           \* FALSE: the conversion raised type_error
    before, sent  \* auxiliary: the value before it, and the message

vars == <<type, value, ok, before, sent>>

-----------------------------------------------------------------------------
(* Types and their values                                                  *)

Simple(t) == [t |-> t]
Integer(signed, bits) == [t |-> "integer", signed |-> signed, bits |-> bits]
FixInt(signed, bits) == [t |-> "fix_int", signed |-> signed, bits |-> bits]
Of(t, type1) == [t |-> t, of |-> type1]              \* the sequences and sets
Members(t, types) == [t |-> t, of |-> types]         \* pair, tuple, define
Table(t, k, v) == [t |-> t, key |-> k, val |-> v]    \* the maps

IntegerTypes == {"integer", "fix_int"}
Sequences == {"vector", "deque", "list"}
Sets == {"set", "multiset", "unordered_set", "unordered_multiset"}
Structs == {"pair", "tuple", "define"}
Maps == {"map", "multimap", "unordered_map", "unordered_multimap", "assoc_vector"}
Unique == {"set", "unordered_set", "map", "unordered_map"}
\* Those of tr1: the order in which elements were inserted stands for any order.
Unordered == {"unordered_set", "unordered_multiset", "unordered_map", "unordered_multimap"}

RECURSIVE Default(_)
Default(T) ==
    CASE T.t \in {"nil", "object"}  -> Nil
      [] T.t = "boolean"            -> FALSE
      [] T.t \in IntegerTypes \cup {"double"} -> Widened(<<0>>, 0)
      [] T.t = "string"             -> <<>>
      [] T.t \in Sequences \cup Sets \cup Maps -> <<>>
      [] T.t \in Structs            -> [i \in DOMAIN T.of |-> Default(T.of[i])]

\* Containers of unsigned numbers, or with such keys: in a sorted one an element is
\* inserted at the upper bound.
Key(T, x) == IF T.t \in Sets THEN x ELSE x[1]
Inserted(T, s, x) ==
    IF T.t \in Unordered THEN Append(s, x)
    ELSE SelectSeq(s, LAMBDA y : ~Less(Key(T, x), Key(T, y))) \o <<x>>
         \o SelectSeq(s, LAMBDA y : Less(Key(T, x), Key(T, y)))
Found(T, s, k) == {i \in DOMAIN s : Key(T, s[i]) = k}

-----------------------------------------------------------------------------
(* operator>>: the value after a conversion, and whether it raised         *)

Got(v) == [ok |-> TRUE, value |-> v]
Raise(v) == [ok |-> FALSE, value |-> v]

RECURSIVE Convert(_, _, _)

\* One object after the other into one place after the other, until one raises.
ConvertEach(os, types, vs) ==
    LET c == [i \in DOMAIN os |-> Convert(os[i], types[i], vs[i])]
        bad == {i \in DOMAIN os : ~c[i].ok}
        reached == IF bad = {} THEN Len(os) ELSE Min(bad)
    IN  [ok |-> bad = {},
         value |-> [i \in DOMAIN vs |-> IF i <= reached THEN c[i].value ELSE vs[i]]]

\* Mutant: elements that are there stay.
ResizedUp(T, v, n) == [i \in 1..Max({n, Len(v)}) |-> IF i <= Len(v) THEN v[i] ELSE Default(T)]

\* v.resize(n)
Resized(T, v, n) == [i \in 1..n |-> IF i <= Len(v) THEN v[i] ELSE Default(T)]
ConvertSequence(os, T, v) ==
    ConvertEach(os, [i \in DOMAIN os |-> T.of], Resized(T.of, v, Len(os)))

\* The sets: inserted from the last to the first.
InsertOne(T, so_far, o) ==
    LET c == Convert(o, T.of, Default(T.of))
    IN  IF ~so_far.ok THEN so_far
        ELSE IF ~c.ok THEN Raise(so_far.value)
        ELSE IF T.t \in Unique /\ Found(T, so_far.value, c.value) # {} THEN so_far
        ELSE Got(Inserted(T, so_far.value, c.value))
ConvertSet(os, T, v) == FoldLeft(LAMBDA s, o : InsertOne(T, s, o), Got(v), Reverse(os))

\* The maps: a value is converted in place if there can be one of its key only and
\* there is, and by an unordered_map, which makes it, in any case.
PutOne(T, so_far, kv) ==
    LET k == Convert(kv[1], T.key, Default(T.key))
        at == IF T.t \in Unique THEN Found(T, so_far.value, k.value) ELSE {}
        i == CHOOSE j \in at : TRUE
        c == Convert(kv[2], T.val, IF at = {} THEN Default(T.val) ELSE so_far.value[i][2])
    IN  IF ~so_far.ok THEN so_far
        ELSE IF ~k.ok THEN Raise(so_far.value)
        ELSE IF at # {} THEN [c EXCEPT !.value = [so_far.value EXCEPT ![i] = <<k.value, c.value>>]]
        ELSE IF c.ok \/ T.t = "unordered_map"
        THEN [c EXCEPT !.value = Inserted(T, so_far.value, <<k.value, c.value>>)]
        ELSE Raise(so_far.value)
ConvertMap(kvs, T, v) == FoldLeft(LAMBDA s, kv : PutOne(T, s, kv), Got(v), kvs)

\* assoc_vector: as pairs, then sorted.  What std::sort does to the order of equal
\* keys, which it may change, is left out.
ConvertAssoc(kvs, T, v) ==
    LET pair == Members("pair", <<T.key, T.val>>)
        flat(s) == FlattenSeq(s)
        c == ConvertEach(flat(kvs), [i \in 1..(2 * Len(kvs)) |-> IF i % 2 = 1 THEN T.key ELSE T.val],
                         flat(Resized(pair, v, Len(kvs))))
        pairs == [i \in DOMAIN kvs |-> <<c.value[2 * i - 1], c.value[2 * i]>>]
    IN  IF c.ok THEN Got(FoldLeft(LAMBDA s, x : Inserted(T, s, x), <<>>, pairs)) ELSE Raise(pairs)

\* tuple: as many as it has members.
ConvertTuple(os, T, v) ==
    IF Len(os) < Len(T.of) THEN Raise(v)
    ELSE ConvertEach(SubSeq(os, 1, Len(T.of)), T.of, v)

\* define: as many as there are.
ConvertDefine(os, T, v) ==
    ConvertEach(SubSeq(os, 1, Min({Len(os), Len(T.of)})), T.of, v)

ConvertPair(os, T, v) == IF Len(os) # 2 THEN Raise(v) ELSE ConvertEach(os, T.of, v)

ConvertNil(o, v) == IF o.type = "nil" THEN Got(v) ELSE Raise(v)
ConvertBoolean(o, v) == IF o.type = "boolean" THEN Got(o.boolean) ELSE Raise(v)
ConvertDouble(o, v) == IF o.type = "double" THEN Got(o.dec) ELSE Raise(v)
ConvertString(o, v) == IF o.type = "raw" THEN Got(o.raw) ELSE Raise(v)
ConvertInteger(o, T, v) ==
    LET d == convert_integer(o, T.signed, T.bits)
    IN  IF d = TypeError THEN Raise(v) ELSE Got(d)
ConvertFixInt(o, T, v) == ConvertInteger(o, T, v)

Convert(o, T, v) ==
    CASE T.t \in Sequences /\ o.type = "array" -> ConvertSequence(o.array, T, v)
      [] T.t \in Sets /\ o.type = "array"      -> ConvertSet(o.array, T, v)
      [] T.t = "pair" /\ o.type = "array"      -> ConvertPair(o.array, T, v)
      [] T.t = "tuple" /\ o.type = "array"     -> ConvertTuple(o.array, T, v)
      [] T.t = "define" /\ o.type = "array"    -> ConvertDefine(o.array, T, v)
      [] T.t = "assoc_vector" /\ o.type = "map" -> ConvertAssoc(o.map, T, v)
      [] T.t \in Maps \ {"assoc_vector"} /\ o.type = "map" -> ConvertMap(o.map, T, v)
      [] T.t = "object"  -> Got(o)
      [] T.t = "nil"     -> ConvertNil(o, v)
      [] T.t = "boolean" -> ConvertBoolean(o, v)
      [] T.t = "double"  -> ConvertDouble(o, v)
      [] T.t = "string"  -> ConvertString(o, v)
      [] T.t = "integer" -> ConvertInteger(o, T, v)
      [] T.t = "fix_int" -> ConvertFixInt(o, T, v)
      [] OTHER -> Raise(v)

-----------------------------------------------------------------------------
(* object::with_zone <<, and packer <<                                     *)

RECURSIVE AsObject(_, _)

ElementsAsObject(T, v) == Array([i \in DOMAIN v |-> AsObject(T.of, v[i])])
StructAsObject(T, v) == Array([i \in DOMAIN v |-> AsObject(T.of[i], v[i])])
MapAsObject(T, v) ==
    Map([i \in DOMAIN v |-> <<AsObject(T.key, v[i][1]), AsObject(T.val, v[i][2])>>])
IntegerAsObject(T, v) == IF T.signed THEN Signed(v) ELSE Unsigned(v)
FixIntAsObject(T, v) == IntegerAsObject(T, v)

AsObject(T, v) ==
    CASE T.t = "object"  -> v
      [] T.t = "nil"     -> Nil
      [] T.t = "boolean" -> Boolean(v)
      [] T.t = "integer" -> IntegerAsObject(T, v)
      [] T.t = "fix_int" -> FixIntAsObject(T, v)
      [] T.t = "double"  -> Double(v)
      [] T.t = "string"  -> Raw(v)
      [] T.t \in Sequences \cup Sets -> ElementsAsObject(T, v)
      [] T.t \in Structs -> StructAsObject(T, v)
      [] T.t \in Maps    -> MapAsObject(T, v)

\* Mutant: a map is counted by its keys and its values.
HeaderTwice(T, v) == IF T.t \in Maps THEN pack_map(2 * Len(v)) ELSE pack_array(Len(v))

\* define<> announces one member, and packs none.
Header(T, v) ==
    IF T.t \in Maps THEN pack_map(Len(v))
    ELSE IF T.t = "define" /\ v = <<>> THEN pack_array(1)
    ELSE pack_array(Len(v))

RECURSIVE Pack(_, _)

PackElements(T, v) == <<Header(T, v)>> \o FlattenSeq([i \in DOMAIN v |-> Pack(T.of, v[i])])
PackStruct(T, v) == <<Header(T, v)>> \o FlattenSeq([i \in DOMAIN v |-> Pack(T.of[i], v[i])])
PackMap(T, v) ==
    <<Header(T, v)>>
    \o FlattenSeq([i \in DOMAIN v |-> Pack(T.key, v[i][1]) \o Pack(T.val, v[i][2])])
PackInteger(T, v) == pack_integer(T.signed, T.bits, v)
PackFixInt(T, v) == pack_fix(T.signed, T.bits, v)

Pack(T, v) ==
    CASE T.t = "object"  -> msgpack_pack_object(v)
      [] T.t = "nil"     -> <<pack_nil>>
      [] T.t = "boolean" -> <<pack_boolean(v)>>
      [] T.t = "integer" -> <<PackInteger(T, v)>>
      [] T.t = "fix_int" -> <<PackFixInt(T, v)>>
      [] T.t = "double"  -> <<pack_double(v)>>
      [] T.t = "string"  -> <<pack_raw(Len(v)), v>>
      [] T.t \in Sequences \cup Sets -> PackElements(T, v)
      [] T.t \in Structs -> PackStruct(T, v)
      [] T.t \in Maps    -> PackMap(T, v)

-----------------------------------------------------------------------------
(* The client                                                              *)

Init ==
    /\ type \in DOMAIN Types
    /\ value = Default(Types[type])
    /\ ok = TRUE
    /\ before = Default(Types[type]) /\ sent = AsObject(Types[type], before)

Accumulates == Types[type].t \in Sets \cup Maps
Receive(o) ==
    /\ Accumulates => Len(value) < MaxLength
    /\ LET c == Convert(o, Types[type], value)
       IN  value' = c.value /\ ok' = c.ok
    /\ before' = value /\ sent' = o
    /\ UNCHANGED type

Next == \E o \in Messages : Receive(o)

Spec == Init /\ [][Next]_vars

-----------------------------------------------------------------------------
(* Properties                                                              *)

\* Whether an object has the form of a type.
RECURSIVE Fits(_, _)
Fits(T, o) ==
    CASE T.t = "object" -> TRUE
      [] T.t = "nil" -> o.type = "nil"
      [] T.t = "boolean" -> o.type = "boolean"
      [] T.t = "double" -> o.type = "double"
      [] T.t = "string" -> o.type = "raw"
      [] T.t \in IntegerTypes ->
             \/ o.type = "positive" /\ (T.bits < 64 \/ T.signed =>
                                           Below(o.u64, IF T.signed THEN T.bits - 1 ELSE T.bits))
             \/ o.type = "negative" /\ T.signed /\ ~BelowMinus(o.i64, T.bits - 1)
      [] T.t \in Sequences \cup Sets ->
             o.type = "array" /\ \A i \in DOMAIN o.array : Fits(T.of, o.array[i])
      [] T.t \in Structs ->
             /\ o.type = "array"
             /\ T.t = "pair" => Len(o.array) = 2
             /\ T.t = "tuple" => Len(o.array) >= Len(T.of)
             /\ \A i \in DOMAIN o.array \cap DOMAIN T.of : Fits(T.of[i], o.array[i])
      [] T.t \in Maps ->
             o.type = "map" /\ \A i \in DOMAIN o.map : Fits(T.key, o.map[i][1]) /\ Fits(T.val, o.map[i][2])

\* How often x is in s.
Times(s, x) == Cardinality({i \in DOMAIN s : s[i] = x})
Ordered(T, s) ==
    \A i, j \in DOMAIN s : i < j =>
        /\ T.t \notin Unordered => ~Less(Key(T, s[j]), Key(T, s[i]))
        /\ T.t \in Unique => Key(T, s[i]) # Key(T, s[j])

\* What a variable of the type holds that held old and took o.
RECURSIVE Holds(_, _, _, _)
Holds(T, v, old, o) ==
    CASE T.t \in Sequences ->
             /\ Len(v) = Len(o.array)
             /\ \A i \in DOMAIN v :
                   Holds(T.of, v[i], IF i <= Len(old) THEN old[i] ELSE Default(T.of), o.array[i])
      [] T.t \in Structs ->
             \A i \in DOMAIN T.of :
                 IF i <= Len(o.array) THEN Holds(T.of[i], v[i], old[i], o.array[i])
                 ELSE v[i] = old[i]
      [] T.t \in Sets \cap Unique ->
             /\ Ordered(T, v)
             /\ ToSet(AsObject(T, v).array) = ToSet(AsObject(T, old).array) \cup ToSet(o.array)
      [] T.t \in Sets \ Unique ->
             /\ Ordered(T, v)
             /\ \A x \in ToSet(AsObject(T, v).array) \cup ToSet(o.array) :
                   Times(AsObject(T, v).array, x) = Times(AsObject(T, old).array, x) + Times(o.array, x)
             /\ Len(v) = Len(old) + Len(o.array)
      [] T.t \in Maps \cap Unique ->
             LET keys(s) == {s[i][1] : i \in DOMAIN s}
                 last(s, k) == s[Max({i \in DOMAIN s : s[i][1] = k})][2]
                 now == AsObject(T, v).map
                 then == AsObject(T, old).map
             IN  /\ Ordered(T, v)
                 /\ keys(now) = keys(then) \cup keys(o.map)
                 /\ \A k \in keys(now) :
                       last(now, k) = IF k \in keys(o.map) THEN last(o.map, k) ELSE last(then, k)
      [] T.t \in Maps \ Unique ->
             LET then == IF T.t = "assoc_vector" THEN <<>> ELSE AsObject(T, old).map
             IN  /\ Ordered(T, v)
                 /\ \A x \in ToSet(AsObject(T, v).map) \cup ToSet(o.map) :
                       Times(AsObject(T, v).map, x) = Times(then, x) + Times(o.map, x)
                 /\ Len(v) = Len(then) + Len(o.map)
      [] OTHER -> AsObject(T, v) = o

\* A conversion raises exactly if the message has not the form of the type; if not,
\* whatever was received before and whatever an earlier type_error left behind, a
\* variable holds the message and nothing else.  Only sets and maps keep what they
\* held, by key, and structs the members a shorter message does not have.
Received ==
    /\ ok <=> Fits(Types[type], sent)
    /\ ok => Holds(Types[type], value, before, sent)

RECURSIVE HasEmptyDefine(_)
HasEmptyDefine(T) ==
    CASE T.t \in Sequences \cup Sets -> HasEmptyDefine(T.of)
      [] T.t \in Structs -> T = Members("define", <<>>) \/ \E i \in DOMAIN T.of : HasEmptyDefine(T.of[i])
      [] T.t \in Maps    -> HasEmptyDefine(T.key) \/ HasEmptyDefine(T.val)
      [] OTHER           -> FALSE

\* What a call that packs an integer stands for, whichever form it takes.
Meaning(call) ==
    LET h == IF call = <<>> THEN Refused ELSE HeaderCell(call[1])
    IN  IF h.is = "again" /\ Len(call) = 1 + h.trail THEN TrailCell(h.cs, Tail(call))
        ELSE IF h.is = "value" /\ Len(call) = 1 THEN h
        ELSE [is |-> "bytes", bytes |-> call]
Meanings(calls) == [i \in DOMAIN calls |-> Meaning(calls[i])]

\* What is packed of a value, directly or as the object made of it, is the same
\* stream but for the forms of its fix_ints, whatever the widths of its integers,
\* except for a define without members, whose header takes the next object of the
\* stream for its member.
PacksAsObject ==
    ~HasEmptyDefine(Types[type]) =>
        Meanings(Pack(Types[type], value))
            = Meanings(msgpack_pack_object(AsObject(Types[type], value)))
=============================================================================
