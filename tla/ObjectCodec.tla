----------------------------- MODULE ObjectCodec -----------------------------
(***************************************************************************)
(* A managed object and its blob: what saveRequest: puts into the property *)
(* dictionary and newValuesForObjectWithID: takes out of it, the two value *)
(* transformers, and the two serializations: MsgPackSerialization.mm, and  *)
(* NSJSONSerialization, which is external.                                 *)
(*                                                                         *)
(* A text or data is a sequence.  A number stands for one that is held     *)
(* exactly by some of the C types, and is compared by its size.            *)
(***************************************************************************)
EXTENDS MsgPackFormat, SequencesExt

CONSTANTS
    Holds,         \* number -> the C types that hold it: int32, float, int64, double
    Property,      \* name -> [kind, type, transient, default]
    KeyOrder,      \* the names as compare: orders them
    RefOrder       \* the reference objects, UUIDs, as compare: orders them

-----------------------------------------------------------------------------
(* Sequences                                                               *)

\* The elements of s that are in S, in the order of s.
Among(s, S) ==
    LET among[i \in 0..Len(s)] ==
            IF i = 0 THEN <<>>
            ELSE IF s[i] \in S THEN Append(among[i - 1], s[i]) ELSE among[i - 1]
    IN  among[Len(s)]

-----------------------------------------------------------------------------
(* Values                                                                  *)

None == [is |-> "nil"]
Number(n) == [is |-> "number", n |-> n]
Bool(b) == [is |-> "bool", b |-> b]
String(text) == [is |-> "string", text |-> text]
Data(bytes) == [is |-> "data", bytes |-> bytes]
Date(t) == [is |-> "date", t |-> t]
Ref(r) == String(<<r>>)
List(refs) == [is |-> "list", refs |-> refs]

Attributes == {n \in DOMAIN Property : Property[n].kind = "attribute"}
Permanent == {n \in DOMAIN Property : ~Property[n].transient}

\* The values of an attribute that is not transformable.
CTypes == {"int32", "float", "int64", "double"}
PlainValue(v) ==
    \/ v = None
    \/ v.is = "number" /\ v = Number(v.n) /\ v.n \in DOMAIN Holds
    \/ v.is = "bool" /\ v = Bool(v.b)
    \/ v.is = "string" /\ v = String(v.text)
    \/ v.is = "data" /\ v = Data(v.bytes)
    \/ v.is = "date" /\ v = Date(v.t)

\* Names and UUIDs differ in the orders they are sorted in.  A relationship and a
\* transformable attribute have no default.
ASSUME CodecAssumption ==
    /\ 0 \in DOMAIN Holds
    /\ \A n \in DOMAIN Holds : n \in Int /\ Holds[n] \subseteq CTypes
    /\ KeyOrder \in Seq(DOMAIN Property)
    /\ ToSet(KeyOrder) = DOMAIN Property
    /\ RefOrder \in Seq(ToSet(RefOrder)) /\ IsInjective(RefOrder)
    /\ \A n \in DOMAIN Property :
          /\ Property[n].kind \in {"attribute", "one", "many", "ordered"}
          /\ Property[n].type \in {"plain", "date", "base64"}
          /\ Property[n].transient \in BOOLEAN
          /\ IF n \in Attributes /\ Property[n].type = "plain"
             THEN PlainValue(Property[n].default) ELSE Property[n].default = None

-----------------------------------------------------------------------------
(* NSValueTransformer                                                      *)

\* A mark for a text that is data in base 64.
Coded == 256

\* transformedValue:, where a message to nil answers 0 or nil.
Transformed(type, v) ==
    IF type = "date" THEN Number(IF v = None THEN 0 ELSE v.t)
    ELSE IF v = None THEN None ELSE String(<<Coded>> \o v.bytes)

\* reverseTransformedValue:, at the time now.
Reversed(type, v, now) ==
    IF type = "date" THEN Date(now + (IF v = None THEN 0 ELSE v.n))
    ELSE IF v = None THEN None ELSE Data(Tail(v.text))

-----------------------------------------------------------------------------
(* updateIndex: the property dictionary                                    *)

\* Mutant: the members of an unordered relationship are stored as they come.
SortedAsIs(refs) == refs

\* sortUsingSelector:@selector(compare:)
Sorted(refs) == Among(RefOrder, ToSet(refs))

\* The orders in which the members of to-many relationships are enumerated.
Unordered == {n \in DOMAIN Property : Property[n].kind = "many"}
Enumerations(c) ==
    {e \in [Unordered -> UNION {SetToSeqs(c[n]) : n \in Unordered}] :
        \A n \in Unordered : e[n] \in SetToSeqs(c[n])}

\* The entry of a property, or None.
Entry(n, c, e) ==
    CASE Property[n].kind = "attribute" /\ Property[n].type = "plain" ->
             IF c[n] = Property[n].default THEN None ELSE c[n]
      [] Property[n].kind = "attribute" /\ Property[n].type # "plain" ->
             Transformed(Property[n].type, c[n])
      [] Property[n].kind = "one" -> c[n]
      [] Property[n].kind = "many" -> List(Sorted(e[n]))
      [] Property[n].kind = "ordered" -> List(c[n])

\* An entry that is assigned nil is left out, or the assignment raises and nothing
\* is saved, by the version of the SDK.
Dictionary(c, e) ==
    LET entry == [n \in Permanent |-> Entry(n, c, e)]
    IN  [n \in {m \in Permanent : entry[m] # None} |-> entry[n]]

-----------------------------------------------------------------------------
(* MsgPackSerialization                                                    *)

\* Mutant: a number that is no int32 is made a float, exact or not.
NumberFormLossy(n) == IF "int32" \in Holds[n] THEN "int32" ELSE "float"

\* -[NSNumber msgPack]: the first of the types that holds the number.
NumberForm(n) ==
    CASE "int32" \in Holds[n] -> "int32"
      [] Holds[n] \cap {"int32", "float"} = {"float"} -> "float"
      [] Holds[n] \cap {"int32", "float", "int64"} = {"int64"} -> "int64"
      [] Holds[n] = {"double"} -> "double"
      [] Holds[n] = {} -> "uint64"

BOM == <<239, 187, 191>>

\* A raw, as far as the reader can tell: a byte order mark and a text, or data.
PackedText(text) == [type |-> "text", text |-> text]
PackedData(bytes) == IF IsPrefix(BOM, bytes) THEN PackedText(SubSeq(bytes, 4, Len(bytes)))
                     ELSE Raw(bytes)

\* The msgPack methods; NSDate has none, and the exception is caught.
HasMsgPack(v) == v.is # "date"
Packed(v) ==
    CASE v.is = "number" -> [type |-> "number", form |-> NumberForm(v.n), n |-> v.n]
      [] v.is = "bool"   -> Boolean(v.b)
      [] v.is = "string" -> PackedText(v.text)
      [] v.is = "data"   -> PackedData(v.bytes)
      [] v.is = "list"   -> Array([i \in DOMAIN v.refs |-> PackedText(<<v.refs[i]>>)])

\* template_callback_*: a raw without the mark loses its first three bytes, and
\* if it has fewer its length wraps.  A number that the form cannot hold is rounded.
Unpacked(o) ==
    CASE o.type = "number"  -> IF o.form \in Holds[o.n] \cup {"uint64"} THEN Number(o.n)
                               ELSE Number(-1)
      [] o.type = "boolean" -> Bool(o.boolean)
      [] o.type = "text"    -> String(o.text)
      [] o.type = "raw"     -> IF Len(o.raw) >= 3 THEN Data(SubSeq(o.raw, 4, Len(o.raw)))
                               ELSE Data(<<-1>>)
      [] o.type = "array"   -> List([i \in DOMAIN o.array |-> Head(o.array[i].text)])

\* Blobs.  The entries of a MsgPack map are in an order, those of a JSON object are
\* in any, and an empty blob is made of nil.
EmptyBlob == [format |-> "empty"]
MsgPackBlob(entries) == [format |-> "msgpack", entries |-> entries]
JSONBlob(entries) == [format |-> "json", entries |-> entries]

\* sortedArrayUsingSelector:@selector(compare:)
SortedKeys(keys) == Among(KeyOrder, ToSet(keys))

\* dataWithJSONObject: of a dictionary whose keys are enumerated in that order.
MsgPackData(d, keys) ==
    LET ks == SortedKeys(keys)
    IN  IF \A n \in DOMAIN d : HasMsgPack(d[n])
        THEN MsgPackBlob([i \in DOMAIN ks |-> <<ks[i], Packed(d[ks[i]])>>])
        ELSE EmptyBlob

\* NSJSONSerialization raises for what JSON has no form for.
HasJSON(v) == v.is \in {"number", "bool", "string", "list"}

-----------------------------------------------------------------------------
(* JSONObjectWithData:, of the class that is in use                        *)

NoObject == [is |-> "nil"]
ANumber == [is |-> "number"]
ADictionary(d) == [is |-> "dictionary", entries |-> d]

\* The brace that a JSON text of a dictionary begins with.
Brace == 123

\* MsgPackSerialization.  JSON is asked only if nothing can be unpacked.
MsgPackObject(blob) ==
    CASE blob.format = "empty" -> NoObject
      [] blob.format = "json"  ->
             IF HeaderCell(Brace).is = "value" THEN ANumber ELSE ADictionary(blob.entries)
      [] blob.format = "msgpack" ->
             ADictionary([n \in {e[1] : e \in ToSet(blob.entries)} |->
                 Unpacked((CHOOSE e \in ToSet(blob.entries) : e[1] = n)[2])])

JSONObject(blob) ==
    IF blob.format = "json" THEN ADictionary(blob.entries) ELSE NoObject

-----------------------------------------------------------------------------
(* newValuesForObjectWithID:                                               *)

Raised == [is |-> "raised"]
Nothing == [is |-> "nothing"]
Values(v) == [is |-> "values", of |-> v]

\* What the dictionary holds for an attribute, the default where it has nothing.
OrDefault(n, d) == IF n \in DOMAIN d THEN d[n] ELSE Property[n].default

Restored(n, d, now) ==
    CASE n \in Attributes /\ Property[n].type = "plain" -> OrDefault(n, d)
      [] n \in Attributes /\ Property[n].type # "plain" ->
             Reversed(Property[n].type, OrDefault(n, d), now)
      [] n \notin Attributes -> IF n \in DOMAIN d THEN d[n] ELSE None

\* The outcomes.  A message to a number that is no dictionary raises.  External: to
\* decode base 64 from nil, to set an entry to nil, and to set an entry of what
\* NSJSONSerialization made, raise or not by the version of the SDK.
NewValues(object, usesJSON, now) ==
    LET coded == {n \in Attributes : Property[n].type = "base64"}
        set(d) == {n \in Attributes : \/ Property[n].type # "plain"
                                      \/ n \notin DOMAIN d /\ Property[n].default # None}
    IN  CASE object.is = "nil" -> {Nothing} \cup (IF coded = {} THEN {} ELSE {Raised})
          [] object.is = "number" -> {Raised}
          [] object.is = "dictionary" ->
                 LET d == object.entries
                 IN  {Values([n \in DOMAIN Property |-> Restored(n, d, now)])}
                     \cup (IF coded \subseteq DOMAIN d /\ (usesJSON => set(d) = {})
                           THEN {} ELSE {Raised})
=============================================================================
