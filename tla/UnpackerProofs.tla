--------------------------- MODULE UnpackerProofs ---------------------------
(***************************************************************************)
(* Proofs about Unpacker, for every stream and every number of buffers and *)
(* zones: no byte is lost, no object dangles and every count is exact.     *)
(***************************************************************************)
EXTENDS Unpacker, SetInduction

-----------------------------------------------------------------------------
(* Natural numbers                                                         *)

\* Min is a member of its set.
LEMMA LeastIsMember ==
    ASSUME NEW T, T \subseteq Nat, T # {}
    PROVE  Least(T) \in T
<1>1. \E x \in T : \A y \in T : x <= y
  BY LeastNatural
<1> QED BY <1>1 DEF Least, Min

\* Max of a bounded set is a member of it and bounds it.
LEMMA GreatestIsMember ==
    ASSUME NEW n \in Nat, NEW T, T \subseteq 0..n, T # {}
    PROVE  Max(T) \in T /\ \A y \in T : y <= Max(T)
<1> DEFINE U == {n - y : y \in T}
<1>0. \A y \in T : n - y \in Nat
  OBVIOUS
<1>1. U \subseteq Nat /\ U # {}
  BY <1>0
<1>2. PICK u \in U : \A v \in U : u <= v
  BY <1>1, LeastNatural
<1>3. PICK x \in T : u = n - x
  BY <1>2
<1>4. \A y \in T : n - y \in U
  OBVIOUS
<1>5. \A y \in T : x >= y
  BY <1>2, <1>3, <1>4
<1> QED BY <1>5 DEF Max

LEMMA DoubledEnough ==
    ASSUME NEW size \in Nat \ {0}, NEW needed \in Nat
    PROVE  Doubled(size, needed) \in Nat /\ Doubled(size, needed) >= needed
<1> DEFINE S == {n \in {2^k : k \in 0..(needed + 1)} : size * n >= needed}
<1>1. S \subseteq Nat
  BY PowerOfTwo
<1>2. 2^needed \in Nat /\ needed <= 2^needed
  BY PowerOfTwo
<1>3. size * 2^needed >= needed
  <2> DEFINE p == 2^needed
  <2>1. p \in Nat /\ needed <= p
    BY <1>2
  <2> HIDE DEF p
  <2>2. size * p >= p
    BY <2>1
  <2> QED BY <2>1, <2>2 DEF p
<1>4. 2^needed \in S
  BY <1>3
<1>5. Least(S) \in S
  BY <1>1, <1>4, LeastIsMember
<1>6. Doubled(size, needed) = size * Least(S)
  BY DEF Doubled
<1> HIDE DEF S
<1>7. Least(S) \in Nat
  BY <1>1, <1>5
<1>8. size * Least(S) >= needed
  BY <1>5 DEF S
<1> QED BY <1>6, <1>7, <1>8

-----------------------------------------------------------------------------
(* The stream                                                              *)

CellRecord == [len : Nat \ {0}, kind : {"plain", "raw", "bad"}, last : BOOLEAN]
EndAt(f, i) == IF i = 0 THEN 0 ELSE f[i - 1] + Cells[i].len

LEMMA CellsType ==
    /\ Len(Cells) \in Nat
    /\ \A i \in 1..Len(Cells) : Cells[i] \in CellRecord
<1>1. Cells \in Seq(CellRecord)
  BY UnpackerAssumption DEF CellRecord, UnpackerAssumption
<1> QED BY <1>1

\* The recursion of End has a solution.
LEMMA EndExists ==
    \E f \in [0..Len(Cells) -> Nat] : \A i \in 0..Len(Cells) : f[i] = EndAt(f, i)
<1> DEFINE Upto(n, f) == \A i \in 0..n : f[i] = EndAt(f, i)
           S == {n \in Nat : n <= Len(Cells) => \E f \in [0..n -> Nat] : Upto(n, f)}
<1>1. 0 \in S
  <2>1. [i \in 0..0 |-> 0] \in [0..0 -> Nat] /\ Upto(0, [i \in 0..0 |-> 0])
    BY DEF EndAt
  <2> QED BY <2>1
<1>2. ASSUME NEW n \in Nat, n \in S PROVE n + 1 \in S
  <2> SUFFICES ASSUME n + 1 <= Len(Cells)
               PROVE  \E g \in [0..(n + 1) -> Nat] : Upto(n + 1, g)
    OBVIOUS
  <2>1. PICK f \in [0..n -> Nat] : Upto(n, f)
    BY <1>2, CellsType
  <2>2. Cells[n + 1].len \in Nat
    BY CellsType DEF CellRecord
  <2> DEFINE g == [i \in 0..(n + 1) |-> IF i <= n THEN f[i] ELSE f[n] + Cells[n + 1].len]
  <2>3. g \in [0..(n + 1) -> Nat]
    BY <2>2
  <2>4. \A i \in 0..(n + 1) : g[i] = EndAt(g, i)
    <3> TAKE i \in 0..(n + 1)
    <3>1. CASE i <= n
      <4>1. g[i] = f[i] /\ f[i] = EndAt(f, i)
        BY <2>1, <3>1
      <4>2. i # 0 => g[i - 1] = f[i - 1]
        BY <3>1
      <4> QED BY <4>1, <4>2 DEF EndAt
    <3>2. CASE i = n + 1
      <4>1. g[i] = f[n] + Cells[n + 1].len /\ g[i - 1] = f[n] /\ i # 0
        BY <3>2
      <4> HIDE DEF g
      <4> QED BY <4>1, <3>2 DEF EndAt
    <3> QED BY <3>1, <3>2
  <2> QED BY <2>3, <2>4
<1>3. Nat \subseteq S
  <2> HIDE DEF S
  <2> QED BY <1>1, <1>2, NaturalInduction
<1> QED BY <1>3, CellsType

LEMMA EndDef ==
    /\ End \in [0..Len(Cells) -> Nat]
    /\ \A i \in 0..Len(Cells) : End[i] = EndAt(End, i)
<1> DEFINE Def(f) == [i \in 0..Len(Cells) |-> IF i = 0 THEN 0 ELSE f[i - 1] + Cells[i].len]
<1>1. PICK f \in [0..Len(Cells) -> Nat] : \A i \in 0..Len(Cells) : f[i] = EndAt(f, i)
  BY EndExists
<1>2. f = Def(f)
  BY <1>1 DEF EndAt
<1>3. End = CHOOSE g : g = Def(g)
  BY DEF End
<1>4. End = Def(End)
  BY <1>2, <1>3
<1>5. Def(f) \in [0..Len(Cells) -> Nat]
  BY <1>1, <1>2
<1>6. DOMAIN End = 0..Len(Cells) /\ \A i \in 0..Len(Cells) : End[i] = EndAt(End, i)
  BY <1>4 DEF EndAt
<1> DEFINE S == {n \in Nat : n <= Len(Cells) => End[n] \in Nat}
<1>7. 0 \in S
  BY <1>6, CellsType DEF EndAt
<1>8. ASSUME NEW n \in Nat, n \in S PROVE n + 1 \in S
  <2> SUFFICES ASSUME n + 1 <= Len(Cells) PROVE End[n + 1] \in Nat
    OBVIOUS
  <2>1. End[n + 1] = End[n] + Cells[n + 1].len
    BY <1>6, CellsType DEF EndAt
  <2> QED BY <2>1, <1>8, CellsType DEF CellRecord
<1>9. Nat \subseteq S
  <2> HIDE DEF S
  <2> QED BY <1>7, <1>8, NaturalInduction
<1>10. \A i \in 0..Len(Cells) : End[i] \in Nat
  BY <1>9, CellsType
<1> QED BY <1>4, <1>6, <1>10

\* The ends are numbers, each that of the cell before it and the cell's length.
LEMMA EndFacts ==
    /\ End[0] = 0
    /\ \A i \in 0..Len(Cells) : End[i] \in Nat
    /\ \A i \in 1..Len(Cells) : End[i] = End[i - 1] + Cells[i].len /\ Cells[i].len \in Nat \ {0}
BY EndDef, CellsType DEF EndAt, CellRecord

LEMMA EndMonotone ==
    ASSUME NEW i \in 0..Len(Cells), NEW j \in i..Len(Cells)
    PROVE  End[i] <= End[j]
<1> DEFINE S == {n \in Nat : i + n <= Len(Cells) => End[i] <= End[i + n]}
<1>1. 0 \in S
  BY EndFacts, CellsType
<1>2. ASSUME NEW n \in Nat, n \in S PROVE n + 1 \in S
  <2> SUFFICES ASSUME i + (n + 1) <= Len(Cells) PROVE End[i] <= End[i + (n + 1)]
    OBVIOUS
  <2> DEFINE k == i + (n + 1)
  <2>1. k \in 1..Len(Cells) /\ k - 1 = i + n
    BY CellsType
  <2>2. End[k] = End[k - 1] + Cells[k].len /\ Cells[k].len \in Nat /\ End[k - 1] \in Nat
    BY <2>1, EndFacts, CellsType
  <2>3. End[i] <= End[i + n] /\ End[i] \in Nat
    BY <1>2, EndFacts, CellsType
  <2> QED BY <2>1, <2>2, <2>3
<1>3. Nat \subseteq S
  <2> HIDE DEF S
  <2> QED BY <1>1, <1>2, NaturalInduction
<1>4. j - i \in Nat /\ i + (j - i) = j /\ j <= Len(Cells)
  BY CellsType
<1>5. j - i \in S
  BY <1>3, <1>4
<1> QED BY <1>4, <1>5

-----------------------------------------------------------------------------
(* The finalizers that give a buffer back                                  *)

ZoneRecord == [live : BOOLEAN, gives : [Buffers -> Nat]]
ZoneTable == [Zones -> ZoneRecord]
GivesNothing(y) == \A b \in Buffers : y.gives[b] = 0

LEMMA GivenMember ==
    ASSUME NEW zs, NEW b, NEW p
    PROVE  p \in GivenBy(zs, b) <=> \E y \in Zones, i \in Nat : i \in 1..zs[y].gives[b] /\ p = <<y, i>>
BY DEF GivenBy

\* The finalizers of one zone are as many as it says.
LEMMA GivenByOne ==
    ASSUME NEW y, NEW n \in Nat
    PROVE  IsFiniteSet({y} \X (1..n)) /\ Cardinality({y} \X (1..n)) = n
<1>1. IsFiniteSet({y}) /\ Cardinality({y}) = 1
  BY FS_Singleton
<1>2. IsFiniteSet(1..n) /\ Cardinality(1..n) = n
  BY FS_Interval
<1>3. /\ IsFiniteSet({y} \X (1..n))
      /\ Cardinality({y} \X (1..n)) = Cardinality({y}) * Cardinality(1..n)
  BY <1>1, <1>2, FS_Product
<1> QED BY <1>1, <1>2, <1>3

\* msgpack_zone_push_finalizer adds one.
LEMMA GivenPushed ==
    ASSUME NEW zs \in ZoneTable, NEW y \in Zones, NEW b \in Buffers, NEW c \in Buffers,
           IsFiniteSet(GivenBy(zs, c))
    PROVE  /\ Pushed(zs, y, b) \in ZoneTable
           /\ IsFiniteSet(GivenBy(Pushed(zs, y, b), c))
           /\ Cardinality(GivenBy(Pushed(zs, y, b), c)) =
                  Cardinality(GivenBy(zs, c)) + (IF b = c THEN 1 ELSE 0)
<1> DEFINE zt == Pushed(zs, y, b)
           n == zs[y].gives[b]
<1>1. zt = [zs EXCEPT ![y] = [zs[y] EXCEPT !.gives = [zs[y].gives EXCEPT ![b] = n + 1]]]
  BY DEF Pushed, ZoneTable, ZoneRecord
<1>2. zt \in ZoneTable /\ n \in Nat
  BY <1>1 DEF ZoneTable, ZoneRecord
<1>3. \A x \in Zones : zt[x].gives[c] = IF x = y /\ c = b THEN n + 1 ELSE zs[x].gives[c]
  BY <1>1 DEF ZoneTable, ZoneRecord
<1> HIDE DEF zt, n
<1>4. CASE b = c
  <2>1. GivenBy(zt, c) = GivenBy(zs, c) \cup {<<y, n + 1>>}
    <3>1. ASSUME NEW p, p \in GivenBy(zt, c)
          PROVE  p \in GivenBy(zs, c) \cup {<<y, n + 1>>}
      <4>1. PICK x \in Zones, i \in Nat : i \in 1..zt[x].gives[c] /\ p = <<x, i>>
        BY <3>1, GivenMember
      <4>2. CASE x = y /\ i = n + 1
        BY <4>1, <4>2
      <4>3. CASE ~(x = y /\ i = n + 1)
        <5>1. i \in 1..zs[x].gives[c]
          BY <1>2, <1>3, <1>4, <4>1, <4>3 DEF n
        <5> QED BY <4>1, <5>1, GivenMember
      <4> QED BY <4>2, <4>3
    <3>2. ASSUME NEW p, p \in GivenBy(zs, c) \cup {<<y, n + 1>>}
          PROVE  p \in GivenBy(zt, c)
      <4>1. CASE p = <<y, n + 1>>
        <5>1. n + 1 \in 1..zt[y].gives[c]
          BY <1>2, <1>3, <1>4
        <5> QED BY <4>1, <5>1, GivenMember
      <4>2. CASE p \in GivenBy(zs, c)
        <5>1. PICK x \in Zones, i \in Nat : i \in 1..zs[x].gives[c] /\ p = <<x, i>>
          BY <4>2, GivenMember
        <5>2. i \in 1..zt[x].gives[c]
          BY <1>2, <1>3, <1>4, <5>1 DEF n
        <5> QED BY <5>1, <5>2, GivenMember
      <4> QED BY <3>2, <4>1, <4>2
    <3> QED BY <3>1, <3>2
  <2>2. <<y, n + 1>> \notin GivenBy(zs, c)
    <3> SUFFICES ASSUME NEW x \in Zones, NEW i \in Nat,
                        i \in 1..zs[x].gives[c], <<y, n + 1>> = <<x, i>>
                 PROVE  FALSE
      BY GivenMember
    <3> QED BY <1>2, <1>4 DEF n
  <2> QED BY <1>2, <1>4, <2>1, <2>2, FS_AddElement DEF zt
<1>5. CASE b # c
  <2>1. \A x \in Zones : zt[x].gives[c] = zs[x].gives[c]
    BY <1>3, <1>5
  <2>2. GivenBy(zt, c) = GivenBy(zs, c)
    BY <2>1 DEF GivenBy
  <2>3. Cardinality(GivenBy(zs, c)) \in Nat
    BY FS_CardinalityType
  <2> QED BY <1>2, <1>5, <2>2, <2>3 DEF zt
<1> QED BY <1>4, <1>5

\* call_finalizer_array takes all that a zone gives back.
LEMMA GivenTaken ==
    ASSUME NEW zs \in ZoneTable, NEW y \in Zones, NEW r \in ZoneRecord, GivesNothing(r),
           NEW c \in Buffers, IsFiniteSet(GivenBy(zs, c))
    PROVE  /\ IsFiniteSet(GivenBy([zs EXCEPT ![y] = r], c))
           /\ zs[y].gives[c] \in Nat
           /\ Cardinality(GivenBy(zs, c)) =
                  Cardinality(GivenBy([zs EXCEPT ![y] = r], c)) + zs[y].gives[c]
           /\ Cardinality(GivenBy([zs EXCEPT ![y] = r], c)) \in Nat
<1> DEFINE zt == [zs EXCEPT ![y] = r]
           n == zs[y].gives[c]
           own == {y} \X (1..n)
<1>1. n \in Nat /\ zt[y].gives[c] = 0 /\ \A x \in Zones \ {y} : zt[x] = zs[x]
  BY DEF ZoneTable, ZoneRecord, GivesNothing
<1>2. IsFiniteSet(own) /\ Cardinality(own) = n
  BY <1>1, GivenByOne
<1>3. own \subseteq GivenBy(zs, c)
  BY DEF GivenBy
<1>4. GivenBy(zt, c) = GivenBy(zs, c) \ own
  <2> HIDE DEF zt
  <2>1. ASSUME NEW p, p \in GivenBy(zt, c) PROVE p \in GivenBy(zs, c) \ own
    <3>1. PICK x \in Zones, i \in Nat : i \in 1..zt[x].gives[c] /\ p = <<x, i>>
      BY <2>1, GivenMember
    <3>2. x # y
      BY <1>1, <3>1
    <3>3. i \in 1..zs[x].gives[c]
      BY <1>1, <3>1, <3>2
    <3>4. p \in GivenBy(zs, c)
      BY <3>1, <3>3, GivenMember
    <3> QED BY <3>1, <3>2, <3>4
  <2>2. ASSUME NEW p, p \in GivenBy(zs, c) \ own PROVE p \in GivenBy(zt, c)
    <3>1. PICK x \in Zones, i \in Nat : i \in 1..zs[x].gives[c] /\ p = <<x, i>>
      BY <2>2, GivenMember
    <3>2. x # y
      BY <2>2, <3>1
    <3>3. i \in 1..zt[x].gives[c]
      BY <1>1, <3>1, <3>2
    <3> QED BY <3>1, <3>3, GivenMember
  <2> QED BY <2>1, <2>2
<1>5. GivenBy(zs, c) \cap own = own
  BY <1>3
<1>6. /\ IsFiniteSet(GivenBy(zt, c))
      /\ Cardinality(GivenBy(zt, c)) = Cardinality(GivenBy(zs, c)) - n
  <2> HIDE DEF zt, n, own
  <2> QED BY <1>2, <1>4, <1>5, FS_Difference
<1>7. Cardinality(GivenBy(zs, c)) \in Nat /\ Cardinality(GivenBy(zt, c)) \in Nat
  BY <1>6, FS_CardinalityType
<1> QED BY <1>1, <1>6, <1>7

\* What a zone gives back is part of the whole.
LEMMA GivenBound ==
    ASSUME NEW zs \in ZoneTable, NEW y \in Zones, NEW c \in Buffers, IsFiniteSet(GivenBy(zs, c))
    PROVE  zs[y].gives[c] \in Nat /\ zs[y].gives[c] <= Cardinality(GivenBy(zs, c))
<1>1. NewZone \in ZoneRecord /\ GivesNothing(NewZone)
  BY DEF NewZone, ZoneRecord, GivesNothing
<1>2. Cardinality(GivenBy(zs, c)) = Cardinality(GivenBy([zs EXCEPT ![y] = NewZone], c)) + zs[y].gives[c]
  BY <1>1, GivenTaken
<1>3. zs[y].gives[c] \in Nat /\ Cardinality(GivenBy([zs EXCEPT ![y] = NewZone], c)) \in Nat
  BY <1>1, GivenTaken
<1> QED BY <1>2, <1>3

-----------------------------------------------------------------------------
(* The invariant                                                           *)

BufferOK(r) ==
    /\ r = [count |-> r.count, size |-> r.size, bytes |-> r.bytes]
    /\ r.count \in Nat /\ r.size \in Nat
    /\ r.count # 0 => r.bytes \in [0..(r.size - 1) -> 0..Length]

HeapOK(h) == h = [b \in Buffers |-> h[b]] /\ \A b \in Buffers : BufferOK(h[b])

Types ==
    /\ HeapOK(heap)
    /\ zones \in ZoneTable
    /\ live \in BOOLEAN /\ referenced \in BOOLEAN
    /\ buffer \in Buffers /\ z \in Zones
    /\ used \in Nat /\ free \in Nat /\ off \in Nat /\ parsed \in Nat
    /\ cell \in 1..(Len(Cells) + 1)
    /\ raws \subseteq Raw
    /\ result \in Object /\ kept \subseteq Object
    /\ fed \in 0..Length

\* The counts of a heap, when the unpacker holds the buffers in "own".
CountsOK(h, zs, own) ==
    \A b \in Buffers :
        /\ IsFiniteSet(GivenBy(zs, b))
        /\ h[b].count = (IF b \in own THEN 1 ELSE 0) + Cardinality(GivenBy(zs, b))
OwnBuffer == IF live THEN {buffer} ELSE {}

\* A zone is the unpacker's, the result's or that of one object that was kept.
Owned ==
    /\ \A y \in Zones :
          /\ zones[y].live <=> (live /\ y = z) \/ y = result.zone \/ \E o \in kept : y = o.zone
          /\ ~zones[y].live => GivesNothing(zones[y])
    /\ live => z # result.zone /\ \A o \in kept : o.zone # z
    /\ \A o \in kept : o.zone # NoZone /\ o.zone # result.zone
    /\ \A o, p \in kept : o.zone = p.zone => o = p
    /\ ~live /\ result.zone = NoZone => result.raws = {}

\* What keeps the buffer of a raw: its zone gives it back, or it is the unpacker's
\* and marked as referenced.
HeldBy(zs, y, rs) == \A r \in rs : zs[y].gives[r.buffer] > 0
UnderWay == raws \cup (IF result.zone = NoZone THEN result.raws ELSE {})
Held ==
    /\ live => \A r \in UnderWay :
                  zones[z].gives[r.buffer] > 0 \/ (r.buffer = buffer /\ referenced)
    /\ result.zone # NoZone => HeldBy(zones, result.zone, result.raws)
    /\ \A o \in kept : HeldBy(zones, o.zone, o.raws)

\* Raws of the buffer in use lie in what has been parsed of it.
Parsed(rs) == \A r \in rs : r.buffer = buffer => CounterSize <= r.at /\ r.at + r.len <= off

\* The bytes of a raw are where it points to.
RawOK(h, r) ==
    \A i \in 0..(r.len - 1) :
        /\ r.at + i < h[r.buffer].size
        /\ h[r.buffer].bytes[r.at + i] = r.from + i

\* A buffer nothing was parsed from yet is the unpacker's alone.
Unread ==
    live /\ off = CounterSize =>
        ~referenced /\ \A y \in Zones : zones[y].gives[buffer] = 0

IInv ==
    /\ Types
    /\ CountsOK(heap, zones, OwnBuffer)
    /\ Owned
    /\ WindowExact
    /\ Held
    /\ Unread
    /\ live => Parsed(RawsInUse)
    /\ \A r \in RawsInUse : RawOK(heap, r)

-----------------------------------------------------------------------------
(* Buffers that lose counts                                                *)

\* Every buffer that is still there is as it was.
Preserves(h, k) ==
    \A b \in Buffers : k[b].count > 0 => k[b].size = h[b].size /\ k[b].bytes = h[b].bytes

\* decl_count, of a buffer that has as many counts.
LEMMA DeclCountKeeps ==
    ASSUME NEW h, HeapOK(h), NEW b \in Buffers, NEW n \in Nat, n <= h[b].count
    PROVE  /\ HeapOK(DeclCount(h, b, n))
           /\ DeclCount(h, b, n)[b].count = h[b].count - n
           /\ \A c \in Buffers \ {b} : DeclCount(h, b, n)[c] = h[c]
           /\ Preserves(h, DeclCount(h, b, n))
<1> DEFINE k == DeclCount(h, b, n)
<1>1. h[b].count \in Nat /\ BufferOK(h[b]) /\ h = [c \in Buffers |-> h[c]]
  BY DEF HeapOK, BufferOK
<1>2. k = [h EXCEPT ![b] = k[b]] /\ k = [c \in Buffers |-> k[c]]
  BY <1>1 DEF DeclCount
<1>3. \A c \in Buffers \ {b} : k[c] = h[c]
  BY <1>1 DEF DeclCount
<1>4. CASE n = 0
  <2>1. k[b] = h[b]
    BY <1>1, <1>4 DEF DeclCount
  <2> HIDE DEF k
  <2> QED BY <1>1, <1>2, <1>3, <1>4, <2>1 DEF HeapOK, Preserves, k
<1>5. CASE n # 0 /\ h[b].count <= n
  <2>1. k[b] = NoBuffer
    BY <1>1, <1>5 DEF DeclCount
  <2>2. BufferOK(k[b]) /\ k[b].count = 0
    BY <2>1 DEF NoBuffer, BufferOK
  <2> HIDE DEF k
  <2> QED BY <1>1, <1>2, <1>3, <1>5, <2>2 DEF HeapOK, Preserves, k
<1>6. CASE n # 0 /\ n < h[b].count
  <2>1. k[b] = [h[b] EXCEPT !.count = h[b].count - n]
    BY <1>1, <1>6 DEF DeclCount
  <2>2. k[b] = [count |-> h[b].count - n, size |-> h[b].size, bytes |-> h[b].bytes]
    BY <1>1, <2>1 DEF BufferOK
  <2>3. BufferOK(k[b]) /\ k[b].count = h[b].count - n
    BY <1>1, <1>6, <2>2 DEF BufferOK
  <2> HIDE DEF k
  <2> QED BY <1>1, <1>2, <1>3, <1>6, <2>2, <2>3 DEF HeapOK, Preserves, k
<1> QED BY <1>1, <1>4, <1>5, <1>6

\* A zone is freed, or cleared: every count it holds is given back.
LEMMA FinalizedKeeps ==
    ASSUME HeapOK(heap), zones \in ZoneTable, NEW own, CountsOK(heap, zones, own),
           NEW y \in Zones, NEW r \in ZoneRecord, GivesNothing(r)
    PROVE  /\ HeapOK(Finalized(heap, y))
           /\ [zones EXCEPT ![y] = r] \in ZoneTable
           /\ CountsOK(Finalized(heap, y), [zones EXCEPT ![y] = r], own)
           /\ Preserves(heap, Finalized(heap, y))
<1> DEFINE k == Finalized(heap, y)
           zt == [zones EXCEPT ![y] = r]
           n(b) == zones[y].gives[b]
<1>1. zt \in ZoneTable
  BY DEF ZoneTable
<1>2. ASSUME NEW b \in Buffers
      PROVE  /\ BufferOK(k[b])
             /\ k[b].count > 0 => k[b].size = heap[b].size /\ k[b].bytes = heap[b].bytes
             /\ IsFiniteSet(GivenBy(zt, b))
             /\ k[b].count = (IF b \in own THEN 1 ELSE 0) + Cardinality(GivenBy(zt, b))
  <2>1. /\ IsFiniteSet(GivenBy(zones, b))
        /\ heap[b].count = (IF b \in own THEN 1 ELSE 0) + Cardinality(GivenBy(zones, b))
    BY DEF CountsOK
  <2>2. /\ IsFiniteSet(GivenBy(zt, b)) /\ n(b) \in Nat
        /\ Cardinality(GivenBy(zones, b)) = Cardinality(GivenBy(zt, b)) + n(b)
        /\ Cardinality(GivenBy(zt, b)) \in Nat
    BY <2>1, GivenTaken
  <2>3. n(b) <= heap[b].count
    BY <2>1, <2>2
  <2>4. k[b] = DeclCount(heap, b, n(b))[b]
    BY DEF Finalized
  <2> HIDE DEF k, zt, n
  <2>5. /\ HeapOK(DeclCount(heap, b, n(b)))
        /\ DeclCount(heap, b, n(b))[b].count = heap[b].count - n(b)
        /\ Preserves(heap, DeclCount(heap, b, n(b)))
    BY <2>2, <2>3, DeclCountKeeps
  <2> QED BY <2>1, <2>2, <2>4, <2>5 DEF HeapOK, Preserves
<1>3. k = [b \in Buffers |-> k[b]]
  BY DEF Finalized
<1> HIDE DEF k, zt
<1>4. HeapOK(k) /\ CountsOK(k, zt, own) /\ Preserves(heap, k)
  BY <1>2, <1>3 DEF HeapOK, CountsOK, Preserves
<1> QED BY <1>1, <1>4 DEF k, zt

\* A buffer that somebody will give back is still there.
LEMMA CountPositive ==
    ASSUME NEW h, NEW zs \in ZoneTable, NEW own, CountsOK(h, zs, own), NEW b \in Buffers,
           b \in own \/ \E y \in Zones : zs[y].gives[b] > 0
    PROVE  h[b].count > 0
<1>1. /\ IsFiniteSet(GivenBy(zs, b)) /\ Cardinality(GivenBy(zs, b)) \in Nat
      /\ h[b].count = (IF b \in own THEN 1 ELSE 0) + Cardinality(GivenBy(zs, b))
  BY FS_CardinalityType DEF CountsOK
<1>2. CASE \E y \in Zones : zs[y].gives[b] > 0
  <2>1. PICK y \in Zones : zs[y].gives[b] > 0
    BY <1>2
  <2>2. zs[y].gives[b] \in Nat /\ zs[y].gives[b] <= Cardinality(GivenBy(zs, b))
    BY <1>1, GivenBound
  <2> QED BY <1>1, <2>1, <2>2
<1> QED BY <1>1, <1>2

\* And one that nobody gives back is referred to by no zone.
LEMMA CountZero ==
    ASSUME NEW h, NEW zs \in ZoneTable, NEW own, CountsOK(h, zs, own), NEW b \in Buffers,
           h[b].count = IF b \in own THEN 1 ELSE 0, NEW y \in Zones
    PROVE  zs[y].gives[b] = 0
<1>1. /\ IsFiniteSet(GivenBy(zs, b)) /\ Cardinality(GivenBy(zs, b)) \in Nat
      /\ h[b].count = (IF b \in own THEN 1 ELSE 0) + Cardinality(GivenBy(zs, b))
  BY FS_CardinalityType DEF CountsOK
<1>2. zs[y].gives[b] \in Nat /\ zs[y].gives[b] <= Cardinality(GivenBy(zs, b))
  BY <1>1, GivenBound
<1> QED BY <1>1, <1>2

\* The bytes of a raw stay while its buffer is kept.
LEMMA RawStays ==
    ASSUME NEW h, NEW k, Preserves(h, k), NEW zs \in ZoneTable, NEW own, CountsOK(k, zs, own),
           NEW r \in Raw, RawOK(h, r),
           r.buffer \in own \/ \E y \in Zones : zs[y].gives[r.buffer] > 0
    PROVE  RawOK(k, r)
<1>1. r.buffer \in Buffers
  BY DEF Raw
<1>2. k[r.buffer].count > 0
  BY <1>1, CountPositive
<1> QED BY <1>1, <1>2 DEF Preserves, RawOK

LEMMA NoZoneRecords ==
    /\ NoZoneThere \in ZoneRecord /\ GivesNothing(NoZoneThere) /\ ~NoZoneThere.live
    /\ NewZone \in ZoneRecord /\ GivesNothing(NewZone) /\ NewZone.live
BY DEF NoZoneThere, NewZone, ZoneRecord, GivesNothing

LEMMA ObjectType ==
    ASSUME NEW o \in Object
    PROVE  /\ o.zone \in Zones \cup {NoZone} /\ o.raws \subseteq Raw
           /\ o = [zone |-> o.zone, raws |-> o.raws]
BY DEF Object

-----------------------------------------------------------------------------
(* The client                                                              *)

LEMMA KeepObjectKeeps == IInv /\ KeepObject => IInv'
<1> SUFFICES ASSUME IInv, KeepObject PROVE IInv'
  OBVIOUS
<1> USE DEF KeepObject, unpacker, context
<1>1. result \in Object /\ kept \subseteq Object /\ NoResult \in Object
  BY DEF IInv, Types, NoResult, Object
<1>2. Types'
  BY <1>1 DEF IInv, Types
<1>3. CountsOK(heap, zones, OwnBuffer)'
  BY DEF IInv, CountsOK, OwnBuffer
<1>4. Owned'
  <2>1. NoResult.zone = NoZone /\ NoResult.raws = {} /\ NoZone \notin Zones
    BY UnpackerAssumption DEF NoResult, UnpackerAssumption
  <2>2. \A y \in Zones :
          /\ zones[y].live <=> (live /\ y = z) \/ y = result'.zone \/ \E o \in kept' : y = o.zone
          /\ ~zones[y].live => GivesNothing(zones[y])
    BY <2>1 DEF IInv, Owned
  <2>3. live => z # result'.zone /\ \A o \in kept' : o.zone # z
    BY <2>1 DEF IInv, Owned, Types
  <2>4. \A o \in kept' : o.zone # NoZone /\ o.zone # result'.zone
    BY <2>1 DEF IInv, Owned
  <2>5. \A o, p \in kept' : o.zone = p.zone => o = p
    BY DEF IInv, Owned
  <2> QED BY <2>1, <2>2, <2>3, <2>4, <2>5 DEF Owned
<1>5. WindowExact'
  BY DEF IInv, WindowExact, Done
<1>6. Held'
  <2>1. NoResult.zone = NoZone /\ NoResult.raws = {}
    BY DEF NoResult
  <2> QED BY <2>1 DEF IInv, Held, HeldBy, UnderWay
<1>7. RawsInUse' \subseteq RawsInUse
  BY DEF RawsInUse, NoResult
<1>8. (live => Parsed(RawsInUse))' /\ (\A r \in RawsInUse : RawOK(heap, r))'
  BY <1>7 DEF IInv, Parsed, RawOK
<1>9. Unread'
  BY DEF IInv, Unread
<1> QED BY <1>9, <1>2, <1>3, <1>4, <1>5, <1>6, <1>8 DEF IInv

\* What is left of the invariant when a zone that holds no raw in use is freed.
LEMMA FreeKeeps ==
    ASSUME IInv, NEW y \in Zones, NEW r \in ZoneRecord, GivesNothing(r),
           heap' = Finalized(heap, y), zones' = [zones EXCEPT ![y] = r]
    PROVE  /\ HeapOK(heap') /\ zones' \in ZoneTable
           /\ CountsOK(heap', zones', OwnBuffer)
           /\ Preserves(heap, heap')
           /\ zones'[y] = r /\ \A x \in Zones \ {y} : zones'[x] = zones[x]
           /\ \A s \in RawsInUse :
                 s.buffer \in OwnBuffer \/ (\E x \in Zones \ {y} : zones[x].gives[s.buffer] > 0)
                     => RawOK(heap', s)
<1>1. HeapOK(heap) /\ zones \in ZoneTable /\ CountsOK(heap, zones, OwnBuffer)
  BY DEF IInv, Types
<1>2. /\ HeapOK(heap') /\ zones' \in ZoneTable
      /\ CountsOK(heap', zones', OwnBuffer)
      /\ Preserves(heap, heap')
  BY <1>1, FinalizedKeeps
<1>3. zones'[y] = r /\ \A x \in Zones \ {y} : zones'[x] = zones[x]
  BY <1>1 DEF ZoneTable
<1>4. ASSUME NEW s \in RawsInUse,
             s.buffer \in OwnBuffer \/ \E x \in Zones \ {y} : zones[x].gives[s.buffer] > 0
      PROVE  RawOK(heap', s)
  <2>1. s \in Raw
    BY ObjectType DEF IInv, Types, RawsInUse
  <2>2. s.buffer \in OwnBuffer \/ \E x \in Zones : zones'[x].gives[s.buffer] > 0
    BY <1>3, <1>4
  <2>3. RawOK(heap, s)
    BY DEF IInv
  <2> QED BY <1>2, <2>1, <2>2, <2>3, RawStays
<1> QED BY <1>2, <1>3, <1>4

\* The bytes that are not parsed yet stay while the unpacker holds its buffer.
LEMMA WindowStays ==
    ASSUME IInv, Preserves(heap, heap'), zones' \in ZoneTable,
           CountsOK(heap', zones', OwnBuffer),
           UNCHANGED <<live, buffer, used, free, off, parsed, cell, fed>>
    PROVE  WindowExact'
<1> SUFFICES ASSUME live PROVE WindowExact'
  BY DEF WindowExact
<1>1. buffer \in Buffers /\ buffer \in OwnBuffer
  BY DEF IInv, Types, OwnBuffer
<1>2. heap'[buffer].count > 0
  BY <1>1, CountPositive
<1>3. heap'[buffer].size = heap[buffer].size /\ heap'[buffer].bytes = heap[buffer].bytes
  BY <1>1, <1>2 DEF Preserves
<1> QED BY <1>3 DEF IInv, WindowExact, Done

LEMMA FreeKeptKeeps == ASSUME NEW o \in kept PROVE IInv /\ FreeKept(o) => IInv'
<1> SUFFICES ASSUME IInv, FreeKept(o) PROVE IInv'
  OBVIOUS
<1> USE DEF FreeKept, FreesZone, unpacker, context
<1>1. o.zone \in Zones /\ o \in Object
  BY ObjectType DEF IInv, Types, Owned
<1>2. /\ HeapOK(heap') /\ zones' \in ZoneTable
      /\ CountsOK(heap', zones', OwnBuffer)
      /\ Preserves(heap, heap')
      /\ zones'[o.zone] = NoZoneThere /\ \A x \in Zones \ {o.zone} : zones'[x] = zones[x]
      /\ \A s \in RawsInUse :
            s.buffer \in OwnBuffer \/ (\E x \in Zones \ {o.zone} : zones[x].gives[s.buffer] > 0)
                => RawOK(heap', s)
  BY <1>1, NoZoneRecords, FreeKeeps
<1>3. Types'
  BY <1>2 DEF IInv, Types
<1>4. CountsOK(heap, zones, OwnBuffer)'
  BY <1>2 DEF OwnBuffer
<1>5. Owned'
  <2>1. \A y \in Zones :
          /\ zones'[y].live <=> (live /\ y = z) \/ y = result.zone \/ \E p \in kept' : y = p.zone
          /\ ~zones'[y].live => GivesNothing(zones'[y])
    BY <1>2, NoZoneRecords DEF IInv, Owned
  <2> QED BY <2>1 DEF IInv, Owned
<1>6. WindowExact'
  BY <1>2, WindowStays
<1>7. Held'
  <2>1. live => \A r \in UnderWay :
                  zones'[z].gives[r.buffer] > 0 \/ (r.buffer = buffer /\ referenced)
    BY <1>2 DEF IInv, Held, Owned, Types
  <2>2. result.zone # NoZone => HeldBy(zones', result.zone, result.raws)
    BY <1>2, ObjectType DEF IInv, Held, Owned, Types, HeldBy
  <2>3. \A p \in kept' : HeldBy(zones', p.zone, p.raws)
    BY <1>2, ObjectType DEF IInv, Held, Owned, Types, HeldBy
  <2> QED BY <2>1, <2>2, <2>3 DEF Held, UnderWay
<1>8. RawsInUse' \subseteq RawsInUse
  BY DEF RawsInUse
<1>9. (live => Parsed(RawsInUse))'
  BY <1>8 DEF IInv, Parsed
<1>10. ASSUME NEW r \in RawsInUse' PROVE RawOK(heap', r)
  <2>1. r.buffer \in OwnBuffer \/ \E x \in Zones \ {o.zone} : zones[x].gives[r.buffer] > 0
    <3>1. CASE live /\ r \in UnderWay
      BY <3>1 DEF IInv, Held, Owned, Types, OwnBuffer
    <3>2. CASE result.zone # NoZone /\ r \in result.raws
      BY <3>2, ObjectType DEF IInv, Held, Owned, Types, HeldBy
    <3>3. CASE \E p \in kept \ {o} : r \in p.raws
      BY <3>3, ObjectType DEF IInv, Held, Owned, Types, HeldBy
    <3> QED BY <1>10, <3>1, <3>2, <3>3 DEF RawsInUse, UnderWay, IInv, Owned
  <2> QED BY <1>2, <1>8, <2>1
<1>11. Unread'
  BY <1>1, <1>2, NoZoneRecords DEF IInv, Types, Unread, GivesNothing
<1> QED BY <1>11, <1>3, <1>4, <1>5, <1>6, <1>7, <1>9, <1>10 DEF IInv

LEMMA DestroyResultKeeps == IInv /\ DestroyResult => IInv'
<1> SUFFICES ASSUME IInv, DestroyResult PROVE IInv'
  OBVIOUS
<1> USE DEF DestroyResult, FreesZone, unpacker, context
<1>1. result.zone \in Zones /\ NoResult.zone = NoZone /\ NoResult.raws = {} /\ NoResult \in Object
      /\ NoZone \notin Zones
  BY ObjectType, UnpackerAssumption DEF IInv, Types, NoResult, Object, UnpackerAssumption
<1>2. /\ HeapOK(heap') /\ zones' \in ZoneTable
      /\ CountsOK(heap', zones', OwnBuffer)
      /\ Preserves(heap, heap')
      /\ zones'[result.zone] = NoZoneThere
      /\ \A x \in Zones \ {result.zone} : zones'[x] = zones[x]
      /\ \A s \in RawsInUse :
            s.buffer \in OwnBuffer \/ (\E x \in Zones \ {result.zone} : zones[x].gives[s.buffer] > 0)
                => RawOK(heap', s)
  BY <1>1, NoZoneRecords, FreeKeeps
<1>3. Types'
  BY <1>1, <1>2 DEF IInv, Types
<1>4. CountsOK(heap, zones, OwnBuffer)'
  BY <1>2 DEF OwnBuffer
<1>5. Owned'
  <2>1. \A y \in Zones :
          /\ zones'[y].live <=> (live /\ y = z) \/ y = result'.zone \/ \E p \in kept : y = p.zone
          /\ ~zones'[y].live => GivesNothing(zones'[y])
    BY <1>1, <1>2, NoZoneRecords DEF IInv, Owned
  <2>2. live => z # result'.zone /\ \A o \in kept : o.zone # z
    BY <1>1 DEF IInv, Owned, Types
  <2> QED BY <1>1, <2>1, <2>2 DEF IInv, Owned
<1>6. WindowExact'
  BY <1>2, WindowStays
<1>7. Held'
  <2>1. live => \A r \in UnderWay' :
                  zones'[z].gives[r.buffer] > 0 \/ (r.buffer = buffer /\ referenced)
    BY <1>1, <1>2 DEF IInv, Held, Owned, Types, UnderWay
  <2>2. \A p \in kept : HeldBy(zones', p.zone, p.raws)
    BY <1>2, ObjectType DEF IInv, Held, Owned, Types, HeldBy
  <2> QED BY <1>1, <2>1, <2>2 DEF Held
<1>8. RawsInUse' \subseteq RawsInUse
  BY <1>1 DEF RawsInUse
<1>9. (live => Parsed(RawsInUse))'
  BY <1>8 DEF IInv, Parsed
<1>10. ASSUME NEW r \in RawsInUse' PROVE RawOK(heap', r)
  <2>1. r.buffer \in OwnBuffer \/ \E x \in Zones \ {result.zone} : zones[x].gives[r.buffer] > 0
    <3>1. CASE live /\ r \in UnderWay
      BY <3>1 DEF IInv, Held, Owned, Types, OwnBuffer
    <3>2. CASE \E p \in kept : r \in p.raws
      BY <3>2, ObjectType DEF IInv, Held, Owned, Types, HeldBy
    <3> QED BY <1>1, <1>10, <3>1, <3>2 DEF RawsInUse, UnderWay, IInv, Owned
  <2> QED BY <1>2, <1>8, <2>1
<1>11. Unread'
  BY <1>1, <1>2, NoZoneRecords DEF IInv, Types, Unread, GivesNothing
<1> QED BY <1>11, <1>3, <1>4, <1>5, <1>6, <1>7, <1>9, <1>10 DEF IInv

LEMMA ResetZoneKeeps == IInv /\ ResetZone => IInv'
<1> SUFFICES ASSUME IInv, ResetZone PROVE IInv'
  OBVIOUS
<1> USE DEF ResetZone, unpacker, context, client
<1>1. z \in Zones
  BY DEF IInv, Types
<1>2. /\ HeapOK(heap') /\ zones' \in ZoneTable
      /\ CountsOK(heap', zones', OwnBuffer)
      /\ Preserves(heap, heap')
      /\ zones'[z] = NewZone /\ \A x \in Zones \ {z} : zones'[x] = zones[x]
      /\ \A s \in RawsInUse :
            s.buffer \in OwnBuffer \/ (\E x \in Zones \ {z} : zones[x].gives[s.buffer] > 0)
                => RawOK(heap', s)
  BY <1>1, NoZoneRecords, FreeKeeps
<1>3. Types'
  BY <1>2 DEF IInv, Types
<1>4. CountsOK(heap, zones, OwnBuffer)'
  BY <1>2 DEF OwnBuffer
<1>5. Owned'
  <2>1. \A y \in Zones :
          /\ zones'[y].live <=> (live /\ y = z) \/ y = result.zone \/ \E p \in kept : y = p.zone
          /\ ~zones'[y].live => GivesNothing(zones'[y])
    BY <1>2, NoZoneRecords DEF IInv, Owned
  <2> QED BY <2>1 DEF IInv, Owned
<1>6. WindowExact'
  BY <1>2, WindowStays
<1>7. UnderWay = {}
  BY DEF UnderWay
<1>8. Held'
  <2>1. result.zone # NoZone => HeldBy(zones', result.zone, result.raws)
    BY <1>2, ObjectType DEF IInv, Held, Owned, Types, HeldBy
  <2>2. \A p \in kept : HeldBy(zones', p.zone, p.raws)
    BY <1>2, ObjectType DEF IInv, Held, Owned, Types, HeldBy
  <2>3. UnderWay' = {}
    BY <1>7 DEF UnderWay
  <2> QED BY <2>1, <2>2, <2>3 DEF Held
<1>9. RawsInUse' = RawsInUse
  BY DEF RawsInUse
<1>10. (live => Parsed(RawsInUse))'
  BY <1>9 DEF IInv, Parsed
<1>11. ASSUME NEW r \in RawsInUse' PROVE RawOK(heap', r)
  <2>1. \E x \in Zones \ {z} : zones[x].gives[r.buffer] > 0
    <3>1. CASE result.zone # NoZone /\ r \in result.raws
      BY <3>1, ObjectType DEF IInv, Held, Owned, Types, HeldBy
    <3>2. CASE \E p \in kept : r \in p.raws
      BY <3>2, ObjectType DEF IInv, Held, Owned, Types, HeldBy
    <3> QED BY <1>7, <1>9, <1>11, <3>1, <3>2 DEF RawsInUse, UnderWay
  <2> QED BY <1>2, <1>9, <2>1
<1>12. Unread'
  BY <1>1, <1>2, NoZoneRecords DEF IInv, Types, Unread, GivesNothing
<1> QED BY <1>12, <1>3, <1>4, <1>5, <1>6, <1>8, <1>10, <1>11 DEF IInv

\* A count less for one buffer that "own" has, and no longer has.
LEMMA LetGoKeeps ==
    ASSUME NEW h, HeapOK(h), NEW zs \in ZoneTable, NEW own, CountsOK(h, zs, own),
           NEW b \in Buffers, b \in own
    PROVE  /\ HeapOK(DeclCount(h, b, 1))
           /\ CountsOK(DeclCount(h, b, 1), zs, own \ {b})
           /\ Preserves(h, DeclCount(h, b, 1))
           /\ \A c \in Buffers \ {b} : DeclCount(h, b, 1)[c] = h[c]
<1> DEFINE k == DeclCount(h, b, 1)
<1>0. h[b].count \in Nat
  BY DEF HeapOK, BufferOK
<1>1. h[b].count > 0
  BY CountPositive
<1>2. HeapOK(k) /\ Preserves(h, k) /\ k[b].count = h[b].count - 1
      /\ \A c \in Buffers \ {b} : k[c] = h[c]
  BY <1>0, <1>1, DeclCountKeeps
<1> HIDE DEF k
<1>3. ASSUME NEW c \in Buffers
      PROVE  /\ IsFiniteSet(GivenBy(zs, c))
             /\ k[c].count = (IF c \in own \ {b} THEN 1 ELSE 0) + Cardinality(GivenBy(zs, c))
  <2>1. /\ IsFiniteSet(GivenBy(zs, c)) /\ Cardinality(GivenBy(zs, c)) \in Nat
        /\ h[c].count = (IF c \in own THEN 1 ELSE 0) + Cardinality(GivenBy(zs, c))
    BY FS_CardinalityType DEF CountsOK
  <2>2. CASE c = b
    BY <1>2, <2>1, <2>2
  <2>3. CASE c # b
    BY <1>2, <2>1, <2>3
  <2> QED BY <2>2, <2>3
<1>4. CountsOK(k, zs, own \ {b})
  BY <1>3 DEF CountsOK
<1> QED BY <1>2, <1>4 DEF k

LEMMA DestroyKeeps == IInv /\ Destroy => IInv'
<1> SUFFICES ASSUME IInv, Destroy PROVE IInv'
  OBVIOUS
<1> USE DEF Destroy
<1> DEFINE k == Finalized(heap, z)
<1>1. /\ HeapOK(heap) /\ zones \in ZoneTable /\ CountsOK(heap, zones, {buffer})
      /\ z \in Zones /\ buffer \in Buffers
      /\ NoResult.zone = NoZone /\ NoResult.raws = {} /\ NoResult \in Object
  BY DEF IInv, Types, OwnBuffer, NoResult, Object
<1>2. /\ HeapOK(k) /\ zones' \in ZoneTable
      /\ CountsOK(k, zones', {buffer})
      /\ Preserves(heap, k)
  BY <1>1, NoZoneRecords, FinalizedKeeps
<1>3. zones'[z] = NoZoneThere /\ \A x \in Zones \ {z} : zones'[x] = zones[x]
  BY <1>1 DEF ZoneTable
<1>4. /\ HeapOK(heap') /\ CountsOK(heap', zones', {})
      /\ Preserves(k, heap') /\ \A c \in Buffers \ {buffer} : heap'[c] = k[c]
  <2> HIDE DEF k
  <2>1. heap' = DeclCount(k, buffer, 1) /\ {buffer} \ {buffer} = {}
    BY DEF k
  <2> QED BY <1>1, <1>2, <2>1, LetGoKeeps
<1>5. Preserves(heap, heap')
  <2> HIDE DEF k
  <2>1. ASSUME NEW b \in Buffers, heap'[b].count > 0 PROVE k[b].count > 0
    <3>1. CASE b # buffer
      BY <1>4, <2>1, <3>1
    <3>2. CASE b = buffer
      BY <1>1, <1>2, <3>2, CountPositive
    <3> QED BY <3>1, <3>2
  <2> QED BY <1>2, <1>4, <2>1 DEF Preserves
<1>6. result'.zone = result.zone /\ result' \in Object
      /\ (result.zone # NoZone => result' = result) /\ (result.zone = NoZone => result'.raws = {})
  BY <1>1 DEF IInv, Types
<1> HIDE DEF k
<1>7. Types'
  BY <1>2, <1>4, <1>6 DEF IInv, Types
<1>8. CountsOK(heap, zones, OwnBuffer)'
  BY <1>4 DEF OwnBuffer
<1>9. Owned'
  <2>1. \A y \in Zones :
          /\ zones'[y].live <=> y = result'.zone \/ \E p \in kept : y = p.zone
          /\ ~zones'[y].live => GivesNothing(zones'[y])
    BY <1>3, <1>6, NoZoneRecords DEF IInv, Owned
  <2>2. \A o \in kept : o.zone # NoZone /\ o.zone # result'.zone
    BY <1>6 DEF IInv, Owned
  <2>3. \A o, p \in kept : o.zone = p.zone => o = p
    BY DEF IInv, Owned
  <2> QED BY <1>6, <2>1, <2>2, <2>3 DEF Owned
<1>10. WindowExact'
  BY DEF WindowExact
<1>11. result'.zone # NoZone => HeldBy(zones', result'.zone, result'.raws)
  BY <1>3, <1>6, ObjectType DEF IInv, Held, Owned, Types, HeldBy
<1>12. \A p \in kept : HeldBy(zones', p.zone, p.raws)
  BY <1>3, ObjectType DEF IInv, Held, Owned, Types, HeldBy
<1>13. Held'
  BY <1>11, <1>12 DEF Held
<1>14. (live => Parsed(RawsInUse))'
  OBVIOUS
<1>15. ASSUME NEW r \in RawsInUse' PROVE RawOK(heap', r)
  <2>1. \E x \in Zones : zones'[x].gives[r.buffer] > 0
    <3>1. CASE r \in result'.raws
      BY <1>6, <1>11, <3>1, ObjectType DEF HeldBy
    <3>2. CASE \E p \in kept : r \in p.raws
      BY <1>12, <3>2, ObjectType DEF HeldBy, IInv, Types, Owned
    <3> QED BY <1>15, <3>1, <3>2 DEF RawsInUse
  <2>2. r \in RawsInUse /\ r \in Raw /\ RawOK(heap, r)
    <3>1. r \in RawsInUse
      BY <1>6, <1>15 DEF RawsInUse
    <3>2. r \in Raw
      BY <3>1, ObjectType DEF IInv, Types, RawsInUse
    <3> QED BY <3>1, <3>2 DEF IInv
  <2> QED BY <1>2, <1>4, <1>5, <2>1, <2>2, RawStays
<1>16. Unread'
  BY DEF Unread
<1> QED BY <1>16, <1>7, <1>8, <1>9, <1>10, <1>13, <1>14, <1>15 DEF IInv

-----------------------------------------------------------------------------
(* Making room                                                             *)

\* A raw in use is not in the unpacker's buffer when no zone gives it back and it
\* is not marked.
LEMMA NoneRefersTo ==
    ASSUME IInv, NEW b \in Buffers, \A y \in Zones : zones[y].gives[b] = 0,
           live /\ b = buffer => ~referenced
    PROVE  \A r \in RawsInUse : r.buffer # b
<1> SUFFICES ASSUME NEW r \in RawsInUse, r.buffer = b PROVE FALSE
  OBVIOUS
<1>1. CASE live /\ r \in UnderWay
  BY <1>1 DEF IInv, Held, Types
<1>2. CASE result.zone # NoZone /\ r \in result.raws
  BY <1>2, ObjectType DEF IInv, Held, Types, HeldBy
<1>3. CASE \E o \in kept : r \in o.raws
  BY <1>3, ObjectType DEF IInv, Held, Types, HeldBy, Owned
<1> QED BY <1>1, <1>2, <1>3 DEF RawsInUse, UnderWay, IInv, Owned

\* Nothing is in a buffer that can be rewound, or that nothing was parsed from.
LEMMA Alone ==
    ASSUME IInv, live, MayRewind \/ off = CounterSize
    PROVE  /\ ~referenced /\ \A y \in Zones : zones[y].gives[buffer] = 0
           /\ \A r \in RawsInUse : r.buffer # buffer
<1>1. \A y \in Zones : zones[y].gives[buffer] = 0
  <2>1. CASE MayRewind
    <3>1. heap[buffer].count = IF buffer \in OwnBuffer THEN 1 ELSE 0
      BY <2>1 DEF MayRewind, OwnBuffer
    <3> QED BY <3>1, CountZero DEF IInv, Types
  <2>2. CASE off = CounterSize
    BY <2>2 DEF IInv, Unread
  <2> QED BY <2>1, <2>2
<1>2. ~referenced
  BY DEF MayRewind, IInv, Unread
<1> QED BY <1>1, <1>2, NoneRefersTo DEF IInv, Types

\* What the assumptions say of the sizes.
LEMMA SizesType ==
    /\ CounterSize \in Nat \ {0} /\ FirstSize \in Nat \ {0} /\ FirstSize >= CounterSize
    /\ \A size \in Sizes : size \in Nat
BY UnpackerAssumption DEF UnpackerAssumption, FirstSize

LEMMA DoneType ==
    ASSUME cell \in 1..(Len(Cells) + 1)
    PROVE  Done \in Nat /\ cell - 1 \in 0..Len(Cells)
<1>1. cell - 1 \in 0..Len(Cells)
  BY CellsType
<1> QED BY <1>1, EndFacts DEF Done

\* The unpacker wins back the space of what it has parsed.
LEMMA RewoundKeeps ==
    ASSUME IInv, live, used' = UsedNow, off' = OffNow, free' = FreeNow,
           UNCHANGED <<heap, zones, buffer, referenced, parsed, live, z, cell, raws,
                       result, kept, fed>>
    PROVE  IInv'
<1>1. CASE ~MayRewind
  <2>1. UNCHANGED <<used, off, free>>
    BY <1>1 DEF UsedNow, OffNow, FreeNow
  <2> QED BY <2>1 DEF IInv, Types, CountsOK, OwnBuffer, Owned, WindowExact, Done, Held, UnderWay,
                      HeldBy, Unread, Parsed, RawsInUse, RawOK
<1>2. CASE MayRewind
  <2>1. used' = CounterSize /\ off' = CounterSize /\ free' = free + used - CounterSize
    BY <1>2 DEF UsedNow, OffNow, FreeNow
  <2>2. CounterSize <= off /\ off <= used /\ used + free = heap[buffer].size /\ used = off
    BY <1>2 DEF MayRewind, IInv, WindowExact
  <2>3. Types'
    BY <2>1, <2>2, SizesType DEF IInv, Types
  <2>4. WindowExact'
    <3>1. Done \in Nat /\ fed \in Nat /\ used \in Nat /\ free \in Nat
      BY DoneType, EndFacts DEF IInv, Types, Length
    <3>2. used - off = fed - Done /\ parsed = Done - Max(MessageEnds(cell)) /\ Done' = Done
      BY DEF IInv, WindowExact, Done
    <3> QED BY <2>1, <2>2, <3>1, <3>2, SizesType DEF WindowExact, MessageEnds
  <2>5. Unread'
    BY <1>2, Alone DEF Unread
  <2>6. RawsInUse' = RawsInUse /\ Parsed(RawsInUse)'
    BY <1>2, Alone DEF Parsed, RawsInUse
  <2> QED BY <2>3, <2>4, <2>5, <2>6 DEF IInv, CountsOK, OwnBuffer, Owned, Held, UnderWay, HeldBy,
                                       RawOK
<1> QED BY <1>1, <1>2

LEMMA RewindKeeps == ASSUME NEW size \in Sizes PROVE IInv /\ Rewind(size) => IInv'
BY RewoundKeeps DEF Rewind, Expanding, Unchanged, context, client

LEMMA GrowFailsKeeps == ASSUME NEW size \in Sizes PROVE IInv /\ GrowFails(size) => IInv'
BY RewoundKeeps DEF GrowFails, Expanding, Unchanged, context, client

\* A zone that gives nothing back adds nothing to a count.
LEMMA GivenNone ==
    ASSUME NEW zs, NEW b, \A y \in Zones : zs[y].gives[b] = 0
    PROVE  IsFiniteSet(GivenBy(zs, b)) /\ Cardinality(GivenBy(zs, b)) = 0
<1>1. GivenBy(zs, b) = {}
  <2>1. \A p : p \notin GivenBy(zs, b)
    BY GivenMember
  <2> QED BY <2>1
<1> QED BY <1>1, FS_EmptySet

\* Free buffers are referred to by nobody.
LEMMA FreeBuffer ==
    ASSUME IInv, NEW b \in FreeBuffers
    PROVE  /\ b \in Buffers /\ b \notin OwnBuffer /\ \A y \in Zones : zones[y].gives[b] = 0
           /\ \A r \in RawsInUse : r.buffer # b
<1>1. b \in Buffers /\ heap[b].count = 0
  BY DEF FreeBuffers
<1>2. b \notin OwnBuffer
  <2> SUFFICES ASSUME b \in OwnBuffer PROVE FALSE
    OBVIOUS
  <2>1. heap[b].count > 0
    BY <1>1, CountPositive DEF IInv, Types
  <2> QED BY <1>1, <2>1
<1>3. \A y \in Zones : zones[y].gives[b] = 0
  BY <1>1, <1>2, CountZero DEF IInv, Types
<1> QED BY <1>1, <1>2, <1>3, NoneRefersTo DEF OwnBuffer

LEMMA GrowKeeps == ASSUME NEW size \in Sizes PROVE IInv /\ Grow(size) => IInv'
<1> SUFFICES ASSUME IInv, Grow(size) PROVE IInv'
  OBVIOUS
<1> DEFINE next == Doubled((UsedNow + FreeNow) * 2, size + UsedNow)
           grown == [o \in 0..(next - 1) |->
                        IF o < heap[buffer].size THEN heap[buffer].bytes[o] ELSE 0]
<1> USE DEF Grow, Expanding, Unchanged, context, client
<1>1. /\ live /\ buffer \in Buffers /\ zones \in ZoneTable /\ HeapOK(heap)
      /\ used \in Nat /\ free \in Nat /\ off \in Nat /\ size \in Nat
      /\ CounterSize <= off /\ off <= used /\ used + free = heap[buffer].size
      /\ CountsOK(heap, zones, {buffer})
  BY SizesType DEF IInv, Types, WindowExact, OwnBuffer
<1>2. MayRewind \/ off = CounterSize
  BY DEF OffNow
<1>3. /\ ~referenced /\ \A y \in Zones : zones[y].gives[buffer] = 0
      /\ \A r \in RawsInUse : r.buffer # buffer
  BY <1>1, <1>2, Alone
<1>4. /\ UsedNow \in Nat /\ FreeNow \in Nat /\ OffNow = CounterSize
      /\ UsedNow + FreeNow = heap[buffer].size /\ CounterSize <= UsedNow
      /\ UsedNow <= heap[buffer].size
      /\ UsedNow - OffNow = used - off
  BY <1>1, SizesType DEF UsedNow, FreeNow, OffNow, MayRewind
<1>5. next \in Nat /\ next >= size + UsedNow
  <2>1. (UsedNow + FreeNow) * 2 \in Nat \ {0} /\ size + UsedNow \in Nat
    BY SMTT(60), <1>1, <1>4, SizesType
  <2> QED BY <2>1, DoubledEnough
<1>6. PICK b \in {buffer} \cup (IF FreeBuffers = {} THEN {} ELSE {Least(FreeBuffers)}) :
         /\ heap' = [heap EXCEPT ![buffer] = NoBuffer,
                                 ![b] = [count |-> heap[buffer].count,
                                         size |-> next, bytes |-> grown]]
         /\ buffer' = b
  OBVIOUS
<1>7. free' = next - UsedNow /\ used' = UsedNow /\ off' = CounterSize
  BY <1>4
<1>8. b \in Buffers /\ (b # buffer => b \in FreeBuffers)
  <2>1. FreeBuffers \subseteq Nat
    BY UnpackerAssumption DEF FreeBuffers, UnpackerAssumption
  <2>2. FreeBuffers # {} => Least(FreeBuffers) \in FreeBuffers
    BY <2>1, LeastIsMember
  <2> QED BY <1>1, <1>6, <2>2 DEF FreeBuffers
<1>9. heap[buffer].count = 1 /\ BufferOK(heap[buffer])
      /\ heap[buffer].bytes \in [0..(heap[buffer].size - 1) -> 0..Length]
  BY <1>1, <1>3, GivenNone DEF CountsOK, HeapOK, BufferOK
<1> HIDE DEF next
<1>10. grown \in [0..(next - 1) -> 0..Length]
  <2>1. Length \in Nat
    BY CellsType, EndFacts DEF Length
  <2>2. ASSUME NEW o \in 0..(next - 1)
        PROVE  (IF o < heap[buffer].size THEN heap[buffer].bytes[o] ELSE 0) \in 0..Length
    BY SMTT(60), <1>1, <1>5, <1>9, <2>1, <2>2 DEF BufferOK
  <2> QED BY <2>2
<1>11. /\ heap'[b] = [count |-> 1, size |-> next, bytes |-> grown]
       /\ \A c \in Buffers \ {b} : heap'[c] = IF c = buffer THEN NoBuffer ELSE heap[c]
       /\ heap' = [c \in Buffers |-> heap'[c]]
  BY <1>1, <1>6, <1>8, <1>9 DEF HeapOK
<1> HIDE DEF grown, Grow
<1>23. heap'[b].count = 1 /\ heap'[b].size = next /\ heap'[b].bytes = grown
  BY <1>11
<1>12. HeapOK(heap')
  <2>1. BufferOK(heap'[b])
    BY <1>5, <1>10, <1>11, <1>23 DEF BufferOK
  <2>2. BufferOK(NoBuffer)
    BY DEF BufferOK, NoBuffer
  <2> QED BY <1>1, <1>11, <2>1, <2>2 DEF HeapOK
<1>13. Types'
  <2>1. free' \in Nat
    BY <1>1, <1>4, <1>5, <1>7
  <2> QED BY <1>4, <1>6, <1>7, <1>8, <1>12, <2>1, SizesType DEF IInv, Types, Grow
<1>14. \A y \in Zones : zones[y].gives[b] = 0
  BY <1>3, <1>8, FreeBuffer
<1>15. CountsOK(heap, zones, OwnBuffer)'
  <2>1. ASSUME NEW c \in Buffers
        PROVE  /\ IsFiniteSet(GivenBy(zones, c))
               /\ heap'[c].count = (IF c \in {b} THEN 1 ELSE 0) + Cardinality(GivenBy(zones, c))
    <3>1. CASE c = b
      BY <1>11, <1>14, <3>1, GivenNone
    <3>2. CASE c # b /\ c = buffer
      <4>1. IsFiniteSet(GivenBy(zones, c)) /\ Cardinality(GivenBy(zones, c)) = 0
        BY <1>3, <3>2, GivenNone
      <4>2. heap'[c].count = 0
        BY <1>11, <3>2 DEF NoBuffer
      <4> QED BY <3>2, <4>1, <4>2
    <3>3. CASE c # b /\ c # buffer
      BY <1>1, <1>11, <3>3 DEF CountsOK
    <3> QED BY <3>1, <3>2, <3>3
  <2> QED BY <1>1, <1>6, <2>1 DEF CountsOK, OwnBuffer, Grow
<1>16. Owned'
  BY DEF IInv, Owned, Grow
<1>17. WindowExact'
  <2>1. /\ used - off = fed - Done /\ parsed = Done - Max(MessageEnds(cell)) /\ Done' = Done
        /\ \A i \in 0..(used - off - 1) : heap[buffer].bytes[off + i] = Done + 1 + i
    BY <1>1 DEF IInv, WindowExact, Done, Grow
  <2>2. ASSUME NEW i \in 0..(UsedNow - CounterSize - 1)
        PROVE  heap'[b].bytes[CounterSize + i] = Done + 1 + i
    <3>1. CASE MayRewind
      BY <1>4, <2>2, <3>1, SizesType DEF UsedNow
    <3>2. CASE ~MayRewind
      <4>1. UsedNow = used /\ off = CounterSize
        BY <1>2, <3>2 DEF UsedNow
      <4>2. /\ CounterSize + i \in 0..(next - 1) /\ CounterSize + i < heap[buffer].size
        BY <1>1, <1>4, <1>5, <2>2, <4>1, SizesType
      <4>3. grown[CounterSize + i] = heap[buffer].bytes[CounterSize + i]
        BY <4>2 DEF grown
      <4>4. heap[buffer].bytes[CounterSize + i] = Done + 1 + i
        BY <2>1, <2>2, <4>1
      <4> QED BY <1>23, <4>3, <4>4
    <3> QED BY <3>1, <3>2
  <2>3. used' + free' = heap'[b].size
    BY <1>4, <1>5, <1>7, <1>23
  <2>4. CounterSize <= off' /\ off' <= used' /\ used' - off' = used - off
    BY <1>4, <1>7, SizesType
  <2>5. UNCHANGED <<cell, fed, parsed>>
    BY DEF Grow
  <2> QED BY <1>4, <1>6, <1>7, <2>1, <2>2, <2>3, <2>4, <2>5 DEF WindowExact, MessageEnds
<1>18. RawsInUse' = RawsInUse /\ \A r \in RawsInUse : r.buffer # buffer /\ r.buffer # b
  BY <1>3, <1>8, FreeBuffer DEF RawsInUse, Grow
<1>19. Held'
  <2>1. UnderWay' = UnderWay /\ (live => UnderWay \subseteq RawsInUse)
    BY DEF UnderWay, RawsInUse, Grow
  <2> QED BY <1>3, <1>18, <2>1 DEF IInv, Held, Grow
<1>20. Unread'
  BY <1>3, <1>6, <1>14 DEF Unread, Grow
<1>21. (live => Parsed(RawsInUse))'
  BY <1>6, <1>18 DEF Parsed
<1>22. ASSUME NEW r \in RawsInUse' PROVE RawOK(heap', r)
  <2>1. r.buffer \in Buffers /\ RawOK(heap, r)
    BY <1>18, ObjectType DEF IInv, Types, RawsInUse, Raw
  <2> QED BY <1>11, <1>18, <2>1 DEF RawOK
<1> QED BY <1>13, <1>15, <1>16, <1>17, <1>19, <1>20, <1>21, <1>22 DEF IInv

LEMMA ReplaceKeeps == ASSUME NEW size \in Sizes PROVE IInv /\ Replace(size) => IInv'
<1> SUFFICES ASSUME IInv, Replace(size) PROVE IInv'
  OBVIOUS
<1> DEFINE notParsed == used - off
           next == Doubled(FirstSize, size + notParsed + CounterSize)
           b == Least(FreeBuffers)
           bytes == [o \in 0..(next - 1) |->
                        IF o - CounterSize \in 0..(notParsed - 1)
                        THEN heap[buffer].bytes[o - CounterSize + off] ELSE 0]
           h == [heap EXCEPT ![b] = NewBuffer(next, bytes)]
<1>1. /\ live /\ live' /\ ~MayRewind /\ off # CounterSize /\ FreeBuffers # {}
      /\ LetGo(h) /\ buffer' = b /\ off' = CounterSize
      /\ used' = notParsed + CounterSize /\ free' = next - (notParsed + CounterSize)
      /\ UNCHANGED <<parsed, live, z, cell, raws, result, kept, fed>>
  BY DEF Replace, Expanding, Unchanged, context, client, OffNow
<1>2. /\ buffer \in Buffers /\ zones \in ZoneTable /\ HeapOK(heap) /\ z \in Zones
      /\ used \in Nat /\ free \in Nat /\ off \in Nat /\ size \in Nat /\ fed \in Nat
      /\ CounterSize <= off /\ off <= used /\ used + free = heap[buffer].size
      /\ CountsOK(heap, zones, {buffer}) /\ OwnBuffer = {buffer}
  BY <1>1, SizesType DEF IInv, Types, WindowExact, OwnBuffer
<1>3. notParsed \in Nat /\ next \in Nat /\ next >= size + notParsed + CounterSize
  <2>1. notParsed \in Nat /\ size + notParsed + CounterSize \in Nat
    BY <1>2, SizesType
  <2> QED BY <2>1, SizesType, DoubledEnough
<1>4. b \in FreeBuffers
  <2>1. FreeBuffers \subseteq Nat
    BY UnpackerAssumption DEF FreeBuffers, UnpackerAssumption
  <2> QED BY <1>1, <2>1, LeastIsMember
<1> HIDE DEF next, b
<1>5. /\ b \in Buffers /\ b # buffer /\ \A y \in Zones : zones[y].gives[b] = 0
      /\ \A r \in RawsInUse : r.buffer # b
  BY <1>2, <1>4, FreeBuffer
<1>6. BufferOK(heap[buffer]) /\ heap[buffer].bytes \in [0..(heap[buffer].size - 1) -> 0..Length]
  <2>1. heap[buffer].count > 0
    BY <1>2, CountPositive
  <2> QED BY <1>2, <2>1 DEF HeapOK, BufferOK
<1>7. bytes \in [0..(next - 1) -> 0..Length]
  <2>1. Length \in Nat
    BY CellsType, EndFacts DEF Length
  <2>2. ASSUME NEW o \in 0..(next - 1), o - CounterSize \in 0..(notParsed - 1)
        PROVE  heap[buffer].bytes[o - CounterSize + off] \in 0..Length
    <3>1. o - CounterSize + off \in 0..(heap[buffer].size - 1)
      BY <1>2, <2>2, SizesType
    <3> QED BY <1>6, <3>1
  <2> QED BY <2>1, <2>2
<1>8. /\ h[b].count = 1 /\ h[b].size = next /\ h[b].bytes = bytes
      /\ \A c \in Buffers \ {b} : h[c] = heap[c]
      /\ h = [c \in Buffers |-> h[c]] /\ BufferOK(h[b])
  <2>1. /\ h[b] = [count |-> 1, size |-> next, bytes |-> bytes]
        /\ \A c \in Buffers \ {b} : h[c] = heap[c]
        /\ h = [c \in Buffers |-> h[c]]
    BY <1>2, <1>5 DEF HeapOK, NewBuffer
  <2> HIDE DEF h, bytes
  <2>2. BufferOK(h[b])
    BY <1>3, <1>7, <2>1 DEF BufferOK
  <2> QED BY <2>1, <2>2
<1> HIDE DEF h
<1>9. HeapOK(h) /\ CountsOK(h, zones, {buffer, b})
  <2>1. HeapOK(h)
    BY <1>2, <1>8 DEF HeapOK
  <2>2. ASSUME NEW c \in Buffers
        PROVE  /\ IsFiniteSet(GivenBy(zones, c))
               /\ h[c].count = (IF c \in {buffer, b} THEN 1 ELSE 0) + Cardinality(GivenBy(zones, c))
    <3>1. CASE c = b
      <4>1. IsFiniteSet(GivenBy(zones, c)) /\ Cardinality(GivenBy(zones, c)) = 0
        BY <1>5, <3>1, GivenNone
      <4> QED BY <1>8, <3>1, <4>1
    <3>2. CASE c # b
      BY <1>2, <1>8, <3>2 DEF CountsOK
    <3> QED BY <3>1, <3>2
  <2> QED BY <2>1, <2>2 DEF CountsOK
<1>10. /\ HeapOK(heap') /\ zones' \in ZoneTable /\ CountsOK(heap', zones', {b})
       /\ Preserves(h, heap') /\ heap'[b] = h[b] /\ referenced' = FALSE
       /\ \A y \in Zones :
             /\ zones'[y].live = zones[y].live
             /\ y # z => zones'[y] = zones[y]
             /\ \A c \in Buffers \ {b} : zones[y].gives[c] > 0 => zones'[y].gives[c] > 0
             /\ zones'[y].gives[b] = 0
       /\ referenced => zones'[z].gives[buffer] > 0
  <2>1. CASE referenced
    <3>1. /\ zones' = Pushed(zones, z, buffer) /\ heap' = h /\ referenced' = FALSE
      BY <1>1, <2>1 DEF LetGo
    <3>2. /\ zones' \in ZoneTable
          /\ \A y \in Zones \ {z} : zones'[y] = zones[y]
          /\ zones'[z].live = zones[z].live
          /\ \A c \in Buffers : zones'[z].gives[c] = zones[z].gives[c] + (IF c = buffer THEN 1 ELSE 0)
      BY <1>2, <3>1 DEF Pushed, ZoneTable, ZoneRecord
    <3>3. \A y \in Zones, c \in Buffers : zones[y].gives[c] \in Nat
      BY <1>2 DEF ZoneTable, ZoneRecord
    <3>4. CountsOK(heap', zones', {b})
      <4>1. ASSUME NEW c \in Buffers
            PROVE  /\ IsFiniteSet(GivenBy(zones', c))
                   /\ heap'[c].count = (IF c \in {b} THEN 1 ELSE 0) + Cardinality(GivenBy(zones', c))
        <5>1. /\ IsFiniteSet(GivenBy(zones, c)) /\ Cardinality(GivenBy(zones, c)) \in Nat
              /\ h[c].count = (IF c \in {buffer, b} THEN 1 ELSE 0) + Cardinality(GivenBy(zones, c))
          BY <1>9, FS_CardinalityType DEF CountsOK
        <5>2. /\ IsFiniteSet(GivenBy(zones', c))
              /\ Cardinality(GivenBy(zones', c)) =
                     Cardinality(GivenBy(zones, c)) + (IF buffer = c THEN 1 ELSE 0)
          BY <1>2, <3>1, <5>1, GivenPushed
        <5> QED BY <1>5, <3>1, <5>1, <5>2
      <4> QED BY <4>1 DEF CountsOK
    <3>5. Preserves(h, heap')
      BY <3>1 DEF Preserves
    <3>6. \A y \in Zones : \A c \in Buffers \ {b} : zones[y].gives[c] > 0 => zones'[y].gives[c] > 0
      BY <3>2, <3>3
    <3>7. \A y \in Zones : zones'[y].gives[b] = 0
      BY <1>5, <3>2
    <3> QED BY <1>2, <1>9, <2>1, <3>1, <3>2, <3>3, <3>4, <3>5, <3>6, <3>7
  <2>2. CASE ~referenced
    <3>1. zones' = zones /\ heap' = DeclCount(h, buffer, 1) /\ referenced' = FALSE
      BY <1>1, <2>2 DEF LetGo
    <3>2. {buffer, b} \ {buffer} = {b}
      BY <1>5
    <3>3. /\ HeapOK(heap') /\ CountsOK(heap', zones, {buffer, b} \ {buffer}) /\ Preserves(h, heap')
          /\ \A c \in Buffers \ {buffer} : heap'[c] = h[c]
      <4>1. buffer \in {buffer, b}
        OBVIOUS
      <4> QED BY <1>2, <1>9, <3>1, <4>1, LetGoKeeps
    <3> QED BY <1>2, <1>5, <2>2, <3>1, <3>2, <3>3
  <2> QED BY <1>2, <2>1, <2>2 DEF IInv, Types
<1> HIDE DEF bytes
<1>11. Types'
  <2>1. used' \in Nat /\ free' \in Nat /\ off' \in Nat
    BY <1>1, <1>2, <1>3, SizesType
  <2> HIDE DEF notParsed
  <2> QED BY <1>1, <1>5, <1>10, <2>1 DEF IInv, Types
<1>12. CountsOK(heap, zones, OwnBuffer)'
  BY <1>1, <1>10 DEF OwnBuffer
<1>13. Owned'
  <2>1. \A y \in Zones : ~zones'[y].live => GivesNothing(zones'[y])
    BY <1>1, <1>10 DEF IInv, Owned
  <2> QED BY <1>1, <1>10, <2>1 DEF IInv, Owned
<1>14. WindowExact'
  <2>1. /\ used - off = fed - Done /\ parsed = Done - Max(MessageEnds(cell)) /\ Done' = Done
        /\ \A i \in 0..(used - off - 1) : heap[buffer].bytes[off + i] = Done + 1 + i
    BY <1>1 DEF IInv, WindowExact, Done
  <2>2. ASSUME NEW i \in 0..(notParsed - 1)
        PROVE  heap'[b].bytes[CounterSize + i] = Done + 1 + i
    <3>1. /\ CounterSize + i \in 0..(next - 1)
          /\ (CounterSize + i) - CounterSize = i /\ i + off = off + i
      BY <1>2, <1>3, <2>2, SizesType
    <3>2. bytes[CounterSize + i] = heap[buffer].bytes[i + off]
      BY <2>2, <3>1 DEF bytes
    <3> QED BY <1>8, <1>10, <2>1, <2>2, <3>1, <3>2
  <2>3. /\ CounterSize <= off' /\ off' <= used' /\ used' - off' = notParsed
        /\ used' + free' = heap'[b].size
    BY <1>1, <1>3, <1>8, <1>10, SizesType
  <2> QED BY <1>1, <2>1, <2>2, <2>3 DEF WindowExact, MessageEnds
<1>15. RawsInUse' = RawsInUse /\ UnderWay' = UnderWay
  BY <1>1 DEF RawsInUse, UnderWay
<1>16. \A r \in RawsInUse : r \in Raw /\ r.buffer \in Buffers \ {b}
  BY <1>5, ObjectType DEF IInv, Types, RawsInUse, Raw
<1>17. Held'
  <2>1. \A r \in UnderWay : zones'[z].gives[r.buffer] > 0
    <3>1. UnderWay \subseteq RawsInUse
      BY <1>1 DEF UnderWay, RawsInUse
    <3> QED BY <1>1, <1>2, <1>10, <1>16, <3>1 DEF IInv, Held
  <2>2. result.zone # NoZone => HeldBy(zones', result.zone, result.raws)
    BY <1>10, <1>16, ObjectType DEF IInv, Held, HeldBy, RawsInUse, Types
  <2>3. \A o \in kept : HeldBy(zones', o.zone, o.raws)
    <3> SUFFICES ASSUME NEW o \in kept, NEW r \in o.raws PROVE zones'[o.zone].gives[r.buffer] > 0
      BY DEF HeldBy
    <3>1. r \in RawsInUse /\ o.zone \in Zones /\ zones[o.zone].gives[r.buffer] > 0
      BY ObjectType DEF RawsInUse, IInv, Types, Owned, Held, HeldBy
    <3> QED BY <1>10, <1>16, <3>1
  <2> QED BY <1>1, <1>15, <2>1, <2>2, <2>3 DEF Held
<1>18. Unread'
  BY <1>1, <1>10 DEF Unread
<1>19. (live => Parsed(RawsInUse))'
  BY <1>1, <1>15, <1>16 DEF Parsed
<1>20. ASSUME NEW r \in RawsInUse' PROVE RawOK(heap', r)
  <2>1. r \in RawsInUse /\ r \in Raw /\ RawOK(heap, r)
    BY <1>15, <1>16 DEF IInv
  <2>2. RawOK(h, r)
    BY <1>8, <1>16, <2>1 DEF RawOK
  <2>3. \E y \in Zones : zones'[y].gives[r.buffer] > 0
    <3>1. CASE r \in UnderWay
      BY <1>1, <1>2, <1>15, <1>17, <1>10, <3>1 DEF Held
    <3>2. CASE result.zone # NoZone /\ r \in result.raws
      BY <1>1, <1>17, <3>2, ObjectType DEF Held, HeldBy, IInv, Types
    <3>3. CASE \E o \in kept : r \in o.raws
      BY <1>1, <1>17, <3>3, ObjectType DEF Held, HeldBy, IInv, Types, Owned
    <3> QED BY <2>1, <3>1, <3>2, <3>3 DEF RawsInUse, UnderWay
  <2> QED BY <1>10, <2>1, <2>2, <2>3, RawStays
<1> QED BY <1>11, <1>12, <1>13, <1>14, <1>17, <1>18, <1>19, <1>20 DEF IInv

-----------------------------------------------------------------------------
(* Feeding                                                                 *)

LEMMA FeedKeeps == ASSUME NEW n PROVE IInv /\ Feed(n) => IInv'
<1> SUFFICES ASSUME IInv, Feed(n) PROVE IInv'
  OBVIOUS
<1> DEFINE bytes == [o \in DOMAIN heap[buffer].bytes |->
                        IF o - used \in 0..(n - 1) THEN fed + 1 + o - used
                        ELSE heap[buffer].bytes[o]]
<1>1. /\ live /\ n \in 1..free /\ fed + n <= Length
      /\ heap' = [heap EXCEPT ![buffer].bytes = bytes]
      /\ fed' = fed + n /\ used' = used + n /\ free' = free - n
      /\ UNCHANGED <<zones, buffer, off, parsed, live, z, referenced, cell, raws, result, kept>>
  BY DEF Feed, context
<1>2. /\ buffer \in Buffers /\ zones \in ZoneTable /\ HeapOK(heap)
      /\ used \in Nat /\ free \in Nat /\ off \in Nat /\ fed \in Nat
      /\ CounterSize <= off /\ off <= used /\ used + free = heap[buffer].size
      /\ CountsOK(heap, zones, {buffer}) /\ OwnBuffer = {buffer}
  BY <1>1, SizesType DEF IInv, Types, WindowExact, OwnBuffer
<1>3. BufferOK(heap[buffer]) /\ heap[buffer].bytes \in [0..(heap[buffer].size - 1) -> 0..Length]
  <2>1. heap[buffer].count > 0
    BY <1>2, CountPositive
  <2> QED BY <1>2, <2>1 DEF HeapOK, BufferOK
<1>4. Length \in Nat /\ n \in Nat \ {0} /\ n <= free
  <2>1. Length \in Nat
    BY CellsType, EndFacts DEF Length
  <2> HIDE DEF bytes
  <2> QED BY <1>1, <1>2, <2>1
<1>5. bytes \in [0..(heap[buffer].size - 1) -> 0..Length]
  <2>1. ASSUME NEW o \in 0..(heap[buffer].size - 1)
        PROVE  (IF o - used \in 0..(n - 1) THEN fed + 1 + o - used ELSE heap[buffer].bytes[o])
                  \in 0..Length
    <3>1. heap[buffer].bytes[o] \in 0..Length
      BY <1>3, <2>1
    <3>2. o - used \in 0..(n - 1) => fed + 1 + o - used \in 0..Length
      <4> HIDE DEF bytes
      <4> QED BY <1>1, <1>2, <1>4, <2>1
    <3> QED BY <3>1, <3>2
  <2> QED BY <1>3, <2>1
<1>6. /\ heap'[buffer].count = heap[buffer].count /\ heap'[buffer].size = heap[buffer].size
      /\ heap'[buffer].bytes = bytes /\ heap' = [c \in Buffers |-> heap'[c]]
      /\ \A c \in Buffers \ {buffer} : heap'[c] = heap[c]
      /\ BufferOK(heap'[buffer])
  <2> HIDE DEF bytes
  <2>1. /\ heap'[buffer] = [heap[buffer] EXCEPT !.bytes = bytes]
        /\ heap' = [c \in Buffers |-> heap'[c]]
        /\ \A c \in Buffers \ {buffer} : heap'[c] = heap[c]
    BY <1>1, <1>2 DEF HeapOK
  <2>2. heap'[buffer] = [count |-> heap[buffer].count, size |-> heap[buffer].size, bytes |-> bytes]
    BY <1>3, <2>1 DEF BufferOK
  <2>3. BufferOK(heap'[buffer])
    BY <1>3, <1>5, <2>2 DEF BufferOK
  <2> QED BY <2>1, <2>2, <2>3
<1>7. \A o \in 0..(heap[buffer].size - 1) :
         bytes[o] = IF o - used \in 0..(n - 1) THEN fed + 1 + o - used ELSE heap[buffer].bytes[o]
  BY <1>3
<1> HIDE DEF bytes
<1>8. Types'
  <2>1. HeapOK(heap')
    BY <1>2, <1>6 DEF HeapOK
  <2>2. used' \in Nat /\ free' \in Nat /\ fed' \in 0..Length
    BY <1>1, <1>2, <1>4
  <2> QED BY <1>1, <2>1, <2>2 DEF IInv, Types
<1>9. CountsOK(heap, zones, OwnBuffer)'
  BY <1>1, <1>2, <1>6 DEF CountsOK, OwnBuffer
<1>10. WindowExact'
  <2>1. /\ used - off = fed - Done /\ parsed = Done - Max(MessageEnds(cell)) /\ Done' = Done
        /\ \A i \in 0..(used - off - 1) : heap[buffer].bytes[off + i] = Done + 1 + i
        /\ Done \in Nat
    BY <1>1, DoneType DEF IInv, WindowExact, Done, Types
  <2>2. ASSUME NEW i \in 0..(used + n - off - 1)
        PROVE  heap'[buffer].bytes[off + i] = Done + 1 + i
    <3>1. off + i \in 0..(heap[buffer].size - 1)
      BY <1>2, <1>4, <2>2
    <3>2. CASE i < used - off
      BY <1>2, <1>4, <1>6, <1>7, <2>1, <2>2, <3>1, <3>2
    <3>3. CASE i >= used - off
      BY <1>2, <1>4, <1>6, <1>7, <2>1, <2>2, <3>1, <3>3
    <3> QED BY <1>2, <2>2, <3>2, <3>3
  <2>3. /\ CounterSize <= off' /\ off' <= used' /\ used' - off' = fed' - Done
        /\ used' + free' = heap'[buffer].size /\ used' - off' = used + n - off
    BY <1>1, <1>2, <1>4, <1>6, <2>1, SizesType
  <2>4. UNCHANGED <<cell, parsed, buffer, off>>
    BY <1>1
  <2>5. \A i \in 0..(used' - off' - 1) : heap'[buffer'].bytes[off' + i] = Done' + 1 + i
    <3>1. used' - off' - 1 = used + n - off - 1
      <4>1. used' = used + n /\ off' = off
        BY <1>1
      <4> QED BY <1>2, <1>4, <4>1
    <3>2. buffer' = buffer /\ off' = off /\ Done' = Done
      BY <2>1, <2>4
    <3> QED BY <2>2, <3>1, <3>2
  <2> QED BY <2>1, <2>3, <2>4, <2>5 DEF WindowExact, MessageEnds
<1>11. Owned' /\ Held' /\ Unread' /\ (live => Parsed(RawsInUse))'
  BY <1>1 DEF IInv, Owned, Held, HeldBy, UnderWay, Unread, Parsed, RawsInUse
<1>12. ASSUME NEW r \in RawsInUse' PROVE RawOK(heap', r)
  <2>1. r \in RawsInUse /\ r \in Raw /\ RawOK(heap, r)
        /\ (r.buffer = buffer => CounterSize <= r.at /\ r.at + r.len <= off)
    BY <1>1, ObjectType DEF IInv, Types, RawsInUse, Parsed
  <2>2. CASE r.buffer # buffer
    BY <1>6, <2>1, <2>2 DEF RawOK, Raw
  <2>3. CASE r.buffer = buffer
    <3> SUFFICES ASSUME NEW i \in 0..(r.len - 1)
                 PROVE  /\ r.at + i < heap'[buffer].size
                        /\ heap'[buffer].bytes[r.at + i] = r.from + i
      BY <2>3 DEF RawOK
    <3>1. /\ r.at + i < heap[buffer].size
          /\ heap[buffer].bytes[r.at + i] = r.from + i
      BY <2>1, <2>3 DEF RawOK
    <3>2. r.at \in Nat /\ r.len \in Nat /\ r.at + i < used
      BY <1>2, <2>1, <2>3 DEF Raw
    <3>3. r.at + i \in 0..(heap[buffer].size - 1) /\ ~(r.at + i - used \in 0..(n - 1))
      BY <1>2, <1>4, <3>2
    <3>4. bytes[r.at + i] = heap[buffer].bytes[r.at + i]
      BY <1>2, <1>4, <1>7, <3>2, <3>3
    <3> QED BY <1>6, <3>1, <3>4
  <2> QED BY <2>2, <2>3
<1> QED BY <1>8, <1>9, <1>10, <1>11, <1>12 DEF IInv

-----------------------------------------------------------------------------
(* The beginning                                                           *)

LEMMA InitHolds == Init => IInv
<1> SUFFICES ASSUME Init PROVE IInv
  OBVIOUS
<1> USE DEF Init
<1>1. /\ CounterSize \in Nat \ {0} /\ FirstSize \in Nat \ {0} /\ FirstSize >= CounterSize
      /\ 1 \in Buffers /\ 1 \in Zones /\ NoZone \notin Zones /\ Length \in Nat
  BY SizesType, UnpackerAssumption, CellsType, EndFacts DEF UnpackerAssumption, Length
<1>2. NothingIn(FirstSize) \in [0..(FirstSize - 1) -> 0..Length]
  BY <1>1 DEF NothingIn
<1>3. BufferOK(NewBuffer(FirstSize, NothingIn(FirstSize))) /\ BufferOK(NoBuffer)
  <2> DEFINE nothing == NothingIn(FirstSize)
  <2> HIDE DEF nothing
  <2>1. nothing \in [0..(FirstSize - 1) -> 0..Length]
    BY <1>2 DEF nothing
  <2>2. BufferOK(NewBuffer(FirstSize, nothing))
    BY <1>1, <2>1 DEF BufferOK, NewBuffer
  <2> QED BY <2>2 DEF BufferOK, NoBuffer, nothing
<1>4. heap[1].count = 1 /\ heap[1].size = FirstSize /\ \A b \in Buffers \ {1} : heap[b].count = 0
  BY <1>1 DEF NewBuffer, NoBuffer
<1>5. NoResult \in Object /\ NoResult.zone = NoZone /\ NoResult.raws = {}
  BY DEF NoResult, Object
<1>6. Types
  <2>1. HeapOK(heap)
    BY <1>3 DEF HeapOK
  <2>2. zones \in ZoneTable
    BY NoZoneRecords DEF ZoneTable
  <2>3. cell \in 1..(Len(Cells) + 1)
    BY CellsType
  <2>4. used \in Nat /\ free \in Nat /\ off \in Nat /\ parsed \in Nat /\ fed \in 0..Length
    BY <1>1
  <2>5. raws \subseteq Raw /\ result \in Object /\ kept \subseteq Object
    BY <1>5
  <2>6. live \in BOOLEAN /\ referenced \in BOOLEAN /\ buffer \in Buffers /\ z \in Zones
    BY <1>1
  <2> HIDE DEF Init
  <2> QED BY <2>1, <2>2, <2>3, <2>4, <2>5, <2>6 DEF Types
<1>7. \A y \in Zones : GivesNothing(zones[y])
  BY NoZoneRecords
<1>8. CountsOK(heap, zones, OwnBuffer)
  <2>1. \A b \in Buffers : IsFiniteSet(GivenBy(zones, b)) /\ Cardinality(GivenBy(zones, b)) = 0
    BY <1>7, GivenNone DEF GivesNothing
  <2>2. OwnBuffer = {1}
    BY DEF OwnBuffer
  <2> HIDE DEF Init
  <2> QED BY <1>4, <2>1, <2>2 DEF CountsOK
<1>9. Owned
  <2>1. \A y \in Zones : zones[y].live <=> y = 1
    BY NoZoneRecords
  <2> QED BY <1>1, <1>5, <1>7, <2>1 DEF Owned
<1>10. WindowExact
  <2>1. Done = 0 /\ cell - 1 = 0
    BY EndFacts DEF Done
  <2>2. MessageEnds(cell) = {0}
    BY DEF MessageEnds
  <2>3. Max({0}) = 0
    <3>1. {0} \subseteq 0..0 /\ {0} # {}
      OBVIOUS
    <3>2. Max({0}) \in {0}
      BY <3>1, GreatestIsMember
    <3> QED BY <3>2
  <2> QED BY <1>1, <1>4, <2>1, <2>2, <2>3 DEF WindowExact
<1>11. RawsInUse = {} /\ UnderWay = {} /\ Held
  BY <1>5 DEF RawsInUse, UnderWay, Held
<1>12. Unread
  BY <1>1, <1>7 DEF Unread, GivesNothing
<1> QED BY <1>6, <1>8, <1>9, <1>10, <1>11, <1>12 DEF IInv, Parsed

-----------------------------------------------------------------------------
(* Taking the next object                                                  *)

\* template_execute consumes whole cells, of what has been fed.
LEMMA ReachedFacts ==
    ASSUME IInv, live
    PROVE  /\ Reached \in (cell - 1)..Len(Cells) /\ Reached \in Int
           /\ Done \in Nat /\ End[Reached] \in Nat
           /\ Done <= End[Reached] /\ End[Reached] - Done <= used - off
           /\ \A i \in cell..(Reached - 1) : ~Cells[i].last
<1> DEFINE T == {cell - 1} \cup {j \in cell..Len(Cells) : Consumes(j)}
<1>1. /\ cell \in 1..(Len(Cells) + 1) /\ cell - 1 \in 0..Len(Cells) /\ Done \in Nat
      /\ used \in Nat /\ off \in Nat /\ off <= used /\ Len(Cells) \in Nat
  BY DoneType, CellsType DEF IInv, Types, WindowExact
<1>2. T \subseteq 0..Len(Cells) /\ T # {}
  BY <1>1
<1>3. Reached = Max(T) /\ Max(T) \in T /\ \A y \in T : y <= Max(T)
  <2> HIDE DEF T
  <2>1. Max(T) \in T /\ \A y \in T : y <= Max(T)
    BY <1>1, <1>2, GreatestIsMember
  <2> QED BY <2>1 DEF T, Reached
<1>4. cell - 1 \in T
  OBVIOUS
<1> HIDE DEF T
<1>5. Reached \in 0..Len(Cells) /\ cell - 1 <= Reached
  BY <1>2, <1>3, <1>4
<1>6. End[Reached] \in Nat /\ Done <= End[Reached]
  BY SMTT(60), <1>1, <1>5, EndFacts, EndMonotone DEF Done
<1>7. CASE Reached = cell - 1
  BY <1>1, <1>5, <1>6, <1>7 DEF Done
<1>8. CASE Reached # cell - 1
  <2>1. Consumes(Reached)
    BY <1>3, <1>8 DEF T
  <2> QED BY <1>1, <1>5, <1>6, <2>1 DEF Consumes
<1> QED BY <1>7, <1>8

\* The raws of those cells lie between the old off and the new one, and hold the
\* bytes they should.
LEMMA NewRawsFacts ==
    ASSUME IInv, live, NEW r \in NewRaws
    PROVE  /\ r \in Raw /\ r.buffer = buffer /\ RawOK(heap, r)
           /\ off <= r.at /\ r.at + r.len <= off + End[Reached] - Done
<1>1. PICK i \in cell..Reached : r = RawAt(i)
  BY DEF NewRaws
<1>2. /\ Reached \in (cell - 1)..Len(Cells) /\ Done \in Nat /\ End[Reached] \in Nat
      /\ Done <= End[Reached] /\ End[Reached] - Done <= used - off
  BY ReachedFacts
<1>3. /\ cell \in 1..(Len(Cells) + 1) /\ cell - 1 \in 0..Len(Cells) /\ Len(Cells) \in Nat
      /\ used \in Nat /\ off \in Nat /\ free \in Nat /\ buffer \in Buffers
      /\ used + free = heap[buffer].size
      /\ \A k \in 0..(used - off - 1) : heap[buffer].bytes[off + k] = Done + 1 + k
  BY CellsType, DoneType DEF IInv, Types, WindowExact
<1>4. i \in 1..Len(Cells) /\ i - 1 \in (cell - 1)..Len(Cells) /\ Reached \in i..Len(Cells)
  BY <1>2, <1>3
<1> DEFINE from == End[i - 1]
           len == Cells[i].len
<1>5. /\ from \in Nat /\ len \in Nat \ {0} /\ End[i] = from + len
      /\ Done <= from /\ from + len <= End[Reached] /\ End[Reached] <= Length /\ Length \in Nat
  <2>1. from \in Nat /\ len \in Nat \ {0} /\ End[i] = from + len
    BY <1>3, <1>4, EndFacts
  <2>2. Done <= from /\ End[i] <= End[Reached] /\ End[Reached] <= Length
    <3>1. /\ cell - 1 \in 0..Len(Cells) /\ i - 1 \in (cell - 1)..Len(Cells)
          /\ i \in 0..Len(Cells) /\ Reached \in i..Len(Cells)
          /\ Reached \in 0..Len(Cells) /\ Len(Cells) \in Reached..Len(Cells)
      BY <1>2, <1>3, <1>4
    <3>2. End[cell - 1] <= End[i - 1]
      BY <3>1, EndMonotone
    <3>3. End[i] <= End[Reached]
      BY <3>1, EndMonotone
    <3>4. End[Reached] <= End[Len(Cells)]
      BY <3>1, EndMonotone
    <3> QED BY <3>2, <3>3, <3>4 DEF Done, Length
  <2>3. Length \in Nat
    BY CellsType, EndFacts DEF Length
  <2> QED BY <2>1, <2>2, <2>3
<1>6. r = [buffer |-> buffer, at |-> off + from - Done, from |-> from + 1, len |-> len]
  BY <1>1 DEF RawAt
<1> HIDE DEF from, len
<1>7. off + from - Done \in Nat /\ from + 1 \in 1..Length
  BY <1>3, <1>2, <1>5
<1>8. r \in Raw
  BY <1>3, <1>5, <1>6, <1>7 DEF Raw
<1>9. off <= r.at /\ r.at + r.len <= off + End[Reached] - Done
  <2>1. r.at = off + from - Done /\ r.len = len
    BY <1>6
  <2>2. off <= off + from - Done
    BY <1>2, <1>3, <1>5
  <2>3. off + from - Done + len <= off + End[Reached] - Done
    BY <1>2, <1>3, <1>5
  <2> QED BY <2>1, <2>2, <2>3
<1>10. ASSUME NEW j \in 0..(len - 1)
       PROVE  /\ off + from - Done + j < heap[buffer].size
              /\ heap[buffer].bytes[off + from - Done + j] = from + 1 + j
  <2> DEFINE k == from - Done + j
  <2>1. k \in 0..(used - off - 1) /\ off + k = off + from - Done + j /\ Done + 1 + k = from + 1 + j
    BY <1>2, <1>3, <1>5
  <2>2. off + k < used + free
    BY <1>2, <1>3, <1>5
  <2> HIDE DEF k
  <2> QED BY <1>3, <2>1, <2>2
<1>11. RawOK(heap, r)
  BY <1>6, <1>10 DEF RawOK
<1> QED BY <1>6, <1>8, <1>9, <1>11

\* When a message ends, nothing of the next one has been parsed.
LEMMA MessageEndsFacts ==
    ASSUME IInv, live
    PROVE  /\ ~Finished => MessageEnds(Reached + 1) = MessageEnds(cell)
           /\ Finished => Max(MessageEnds(Reached + 1)) = End[Reached]
<1>1. /\ Reached \in (cell - 1)..Len(Cells) /\ Reached \in Int /\ End[Reached] \in Nat
      /\ \A i \in cell..(Reached - 1) : ~Cells[i].last
      /\ cell \in 1..(Len(Cells) + 1) /\ Len(Cells) \in Nat
  BY ReachedFacts, CellsType DEF IInv, Types
<1>2. CASE ~Finished
  <2>1. \A i \in cell..Reached : ~Cells[i].last
    BY <1>1, <1>2 DEF Finished
  <2>2. {i \in 1..Reached : Cells[i].last} = {i \in 1..(cell - 1) : Cells[i].last}
    BY <1>1, <2>1
  <2>3. (Reached + 1) - 1 = Reached
    BY <1>1
  <2>4. {i \in 1..((Reached + 1) - 1) : Cells[i].last} = {i \in 1..(cell - 1) : Cells[i].last}
    BY <2>2, <2>3
  <2>5. MessageEnds(Reached + 1) = MessageEnds(cell)
    BY <2>4, Zenon DEF MessageEnds
  <2> QED BY <1>2, <2>5
<1>3. CASE Finished
  <2> DEFINE T == MessageEnds(Reached + 1)
  <2>1. Reached \in 1..Len(Cells) /\ Cells[Reached].last /\ Reached + 1 - 1 = Reached
    BY <1>1, <1>3 DEF Finished
  <2>2. End[Reached] \in T
    BY <2>1 DEF MessageEnds
  <2>3. T \subseteq 0..End[Reached]
    <3>1. ASSUME NEW i \in 1..Reached PROVE End[i] \in 0..End[Reached]
      BY <1>1, <2>1, EndFacts, EndMonotone
    <3> QED BY <1>1, <2>1, <3>1 DEF MessageEnds
  <2> HIDE DEF T
  <2>4. Max(T) \in T /\ \A y \in T : y <= Max(T)
    BY <1>1, <2>2, <2>3, GreatestIsMember
  <2>5. Max(T) = End[Reached]
    <3>1. Max(T) \in 0..End[Reached] /\ End[Reached] <= Max(T)
      BY <2>2, <2>3, <2>4
    <3> QED BY <1>1, <3>1
  <2> QED BY <1>3, <2>5 DEF T
<1> QED BY <1>2, <1>3

\* The zone of the object returned before is gone.
LEMMA ResultFreed ==
    ASSUME IInv, live
    PROVE  /\ HeapOK(HeapNow) /\ ZonesNow \in ZoneTable
           /\ CountsOK(HeapNow, ZonesNow, {buffer}) /\ Preserves(heap, HeapNow)
           /\ \A y \in Zones : ZonesNow[y] = IF y = result.zone THEN NoZoneThere ELSE zones[y]
<1>1. /\ HeapOK(heap) /\ zones \in ZoneTable /\ CountsOK(heap, zones, {buffer})
      /\ NoZone \notin Zones /\ result.zone \in Zones \cup {NoZone}
  BY ObjectType, UnpackerAssumption DEF IInv, Types, OwnBuffer, UnpackerAssumption
<1>2. CASE result.zone = NoZone
  <2>1. HeapNow = heap /\ ZonesNow = zones /\ Preserves(heap, heap)
    BY <1>2 DEF HeapNow, ZonesNow, Preserves
  <2> QED BY <1>1, <1>2, <2>1
<1>3. CASE result.zone # NoZone
  <2>1. HeapNow = Finalized(heap, result.zone)
        /\ ZonesNow = [zones EXCEPT ![result.zone] = NoZoneThere] /\ result.zone \in Zones
    BY <1>1, <1>3 DEF HeapNow, ZonesNow
  <2>2. \A y \in Zones : ZonesNow[y] = IF y = result.zone THEN NoZoneThere ELSE zones[y]
    BY <1>1, <2>1 DEF ZoneTable
  <2> QED BY <1>1, <2>1, <2>2, NoZoneRecords, FinalizedKeeps
<1> QED BY <1>2, <1>3

\* What any of the three ways to return keeps: heap and zones are those after the
\* old result is freed, and what refers to the buffer is marked or counted.
Returning ==
    /\ HeapOK(heap') /\ zones' \in ZoneTable /\ CountsOK(heap', zones', {buffer})
    /\ Preserves(heap, heap')
    /\ UNCHANGED <<kept, fed>>
    /\ parsed' = IF Finished THEN 0 ELSE parsed + End[Reached] - Done
    /\ result'.raws \cup raws' \subseteq raws \cup NewRaws
    /\ \A y \in Zones, c \in Buffers :
          /\ y # result.zone /\ zones[y].gives[c] > 0 => zones'[y].gives[c] > 0
          /\ zones[y].gives[c] = 0 => zones'[y].gives[c] = 0 \/ (c = buffer /\ ReferencedNow)
    /\ ReferencedNow => referenced' \/ zones'[z].gives[buffer] > 0
    /\ referenced' => ReferencedNow

\* The window moves up by what is consumed.
LEMMA WindowMoves ==
    ASSUME NEW u \in Nat, NEW o \in Nat, NEW f \in Nat, NEW d \in Nat, NEW e \in Nat, NEW p,
           NEW s \in Nat, o <= u, d <= e, e - d <= u - o, u - o = f - d, p = o + e - d
    PROVE  /\ s + e - d \in Nat
           /\ p \in Nat /\ o <= p /\ p <= u /\ u - p = f - e
           /\ \A i \in 0..(u - p - 1) :
                 /\ e - d + i \in 0..(u - o - 1)
                 /\ p + i = o + (e - d + i) /\ d + 1 + (e - d + i) = e + 1 + i
<1>1. s + e - d \in Nat /\ p \in Nat /\ o <= p /\ p <= u /\ u - p = f - e
  OBVIOUS
<1> QED BY <1>1

LEMMA ReturningKeeps ==
    ASSUME IInv, live, Executes, Returning
    PROVE  /\ CountsOK(heap, zones, OwnBuffer)'
           /\ cell' \in 1..(Len(Cells) + 1) /\ off' \in Nat /\ parsed' \in Nat
           /\ raws \cup NewRaws \subseteq Raw
           /\ WindowExact' /\ Unread' /\ Parsed(RawsInUse)'
           /\ \A r \in raws \cup NewRaws :
                 zones'[z].gives[r.buffer] > 0 \/ (r.buffer = buffer /\ referenced')
           /\ \A o \in kept : HeldBy(zones', o.zone, o.raws)
           /\ \A r \in RawsInUse' : RawOK(heap', r)
<1>1. /\ UNCHANGED <<live, buffer, used, free, kept, fed>>
      /\ cell' = Reached + 1 /\ off' = off + End[Reached] - Done
  BY DEF Executes, Returning
<1>2. /\ Reached \in (cell - 1)..Len(Cells) /\ Reached \in Int
      /\ Done \in Nat /\ End[Reached] \in Nat
      /\ Done <= End[Reached] /\ End[Reached] - Done <= used - off
  BY ReachedFacts
<1>3. /\ cell \in 1..(Len(Cells) + 1) /\ Len(Cells) \in Nat
      /\ used \in Nat /\ off \in Nat /\ free \in Nat /\ fed \in Nat /\ parsed \in Nat
      /\ buffer \in Buffers /\ z \in Zones /\ CounterSize <= off /\ off <= used
  <2>1. Length \in Nat
    BY CellsType, EndFacts DEF Length
  <2> QED BY <2>1, CellsType DEF IInv, Types, WindowExact
<1>17. used + free = heap[buffer].size /\ used - off = fed - Done
  BY DEF IInv, WindowExact
<1>18. \A i \in 0..(used - off - 1) : heap[buffer].bytes[off + i] = Done + 1 + i
  BY DEF IInv, WindowExact
<1>19. /\ off' \in Nat /\ off <= off' /\ off' <= used /\ used - off' = fed - End[Reached]
       /\ \A i \in 0..(used - off' - 1) :
             /\ End[Reached] - Done + i \in 0..(used - off - 1)
             /\ off' + i = off + (End[Reached] - Done + i)
             /\ Done + 1 + (End[Reached] - Done + i) = End[Reached] + 1 + i
       /\ parsed + End[Reached] - Done \in Nat
  <2> DEFINE e == End[Reached]
             d == Done
  <2>1. /\ used \in Nat /\ off \in Nat /\ fed \in Nat /\ d \in Nat /\ e \in Nat /\ parsed \in Nat
        /\ off <= used /\ d <= e /\ e - d <= used - off
    BY <1>2, <1>3
  <2>2. used - off = fed - d /\ off' = off + e - d
    BY <1>1, <1>17
  <2> HIDE DEF e, d
  <2>3. /\ off' \in Nat /\ off <= off' /\ off' <= used /\ used - off' = fed - e
        /\ \A i \in 0..(used - off' - 1) :
              /\ e - d + i \in 0..(used - off - 1)
              /\ off' + i = off + (e - d + i) /\ d + 1 + (e - d + i) = e + 1 + i
        /\ parsed + e - d \in Nat
    BY <2>1, <2>2, WindowMoves
  <2> QED BY <2>3 DEF e, d
<1>4. /\ cell' \in 1..(Len(Cells) + 1)
      /\ off' \in Nat /\ off <= off' /\ off' <= used
      /\ parsed' \in Nat
  <2>1. cell' \in 1..(Len(Cells) + 1)
    BY <1>1, <1>2, <1>3
  <2>2. off' \in Nat /\ off <= off' /\ off' <= used
    BY <1>19
  <2>3. parsed' = 0 \/ parsed' = parsed + End[Reached] - Done
    BY DEF Returning
  <2> QED BY <1>19, <2>1, <2>2, <2>3
<1>5. raws \cup NewRaws \subseteq Raw
  BY NewRawsFacts DEF IInv, Types
<1>6. CountsOK(heap', zones', {buffer}) /\ Preserves(heap, heap') /\ zones' \in ZoneTable
  BY DEF Returning
<1>7. CountsOK(heap, zones, OwnBuffer)'
  BY <1>1, <1>6 DEF OwnBuffer
<1>8. heap'[buffer].size = heap[buffer].size /\ heap'[buffer].bytes = heap[buffer].bytes
  <2>1. heap'[buffer].count > 0
    BY <1>3, <1>6, CountPositive
  <2> QED BY <1>3, <1>6, <2>1 DEF Preserves
<1>9. WindowExact'
  <2>1. Done' = End[Reached]
    <3>1. cell' - 1 = Reached
      BY <1>1, <1>2
    <3> QED BY <3>1 DEF Done
  <2>2. /\ CounterSize <= off' /\ off' <= used' /\ used' + free' = heap'[buffer'].size
        /\ used' - off' = fed' - Done'
    <3>1. used' = used /\ free' = free /\ fed' = fed /\ buffer' = buffer
      BY <1>1
    <3>2. CounterSize <= off' /\ off' <= used'
      BY <1>3, <1>4, <3>1, SizesType
    <3>3. used' + free' = heap'[buffer'].size
      BY <1>8, <1>17, <3>1
    <3>4. used' - off' = fed' - Done'
      BY <1>19, <2>1, <3>1
    <3> QED BY <3>2, <3>3, <3>4
  <2>3. ASSUME NEW i \in 0..(used' - off' - 1)
        PROVE  heap'[buffer'].bytes[off' + i] = Done' + 1 + i
    <3> DEFINE k == End[Reached] - Done + i
    <3>1. /\ k \in 0..(used - off - 1) /\ off' + i = off + k
          /\ Done + 1 + k = End[Reached] + 1 + i
      <4>1. used' = used
        BY <1>1
      <4> QED BY <1>19, <2>3, <4>1
    <3>2. heap[buffer].bytes[off + k] = Done + 1 + k
      BY <1>18, <3>1
    <3> HIDE DEF k
    <3> QED BY <1>1, <1>8, <2>1, <3>1, <3>2
  <2>4. parsed' = Done' - Max(MessageEnds(cell'))
    <3>1. CASE Finished
      BY <1>1, <1>2, <2>1, <3>1, MessageEndsFacts DEF Returning
    <3>2. CASE ~Finished
      <4>1. MessageEnds(cell') = MessageEnds(cell)
        BY <1>1, <3>2, MessageEndsFacts
      <4>2. Max(MessageEnds(cell)) = Done - parsed
        <5> DEFINE m == Max(MessageEnds(cell))
        <5>1. m \in Int
          <6>1. MessageEnds(cell) \subseteq 0..Done
            <7>1. ASSUME NEW i \in 1..(cell - 1) PROVE End[i] \in 0..Done
              <8>1. i \in 0..Len(Cells) /\ cell - 1 \in i..Len(Cells)
                BY <1>3
              <8>2. End[i] <= Done
                BY <8>1, EndMonotone DEF Done
              <8>3. End[i] \in Nat
                BY <8>1, EndFacts
              <8> QED BY <1>2, <8>2, <8>3
            <7> QED BY <1>2, <7>1 DEF MessageEnds
          <6>2. MessageEnds(cell) # {}
            BY DEF MessageEnds
          <6> QED BY <1>2, <6>1, <6>2, GreatestIsMember
        <5>2. parsed = Done - m
          BY DEF IInv, WindowExact
        <5> HIDE DEF m
        <5>3. m = Done - parsed
          BY <1>2, <1>3, <5>1, <5>2
        <5> QED BY <5>3 DEF m
      <4>3. parsed' = parsed + End[Reached] - Done
        BY <3>2 DEF Returning
      <4>4. End[Reached] - (Done - parsed) = parsed + End[Reached] - Done
        BY <1>2, <1>3
      <4> QED BY <2>1, <4>1, <4>2, <4>3, <4>4
    <3> QED BY <3>1, <3>2
  <2> QED BY <2>2, <2>3, <2>4 DEF WindowExact, MessageEnds
<1>10. ASSUME off' = CounterSize PROVE off = CounterSize /\ NewRaws = {}
  <2>1. off = CounterSize
    BY <1>3, <1>4, <1>10, SizesType
  <2>2. ASSUME NEW r \in NewRaws PROVE FALSE
    <3>1. r \in Raw /\ off <= r.at /\ r.at + r.len <= off'
      BY <1>1, <2>2, NewRawsFacts
    <3>2. r.at \in Nat /\ r.len \in Nat \ {0}
      BY <3>1 DEF Raw
    <3> QED BY <1>3, <1>10, <2>1, <3>1, <3>2
  <2> QED BY <2>1, <2>2
<1>11. Unread'
  <2> SUFFICES ASSUME off' = CounterSize
               PROVE  ~referenced' /\ \A y \in Zones : zones'[y].gives[buffer'] = 0
    BY DEF Unread
  <2>1. ~ReferencedNow /\ \A y \in Zones : zones[y].gives[buffer] = 0
    BY <1>10 DEF IInv, Unread, ReferencedNow
  <2> QED BY <1>1, <1>3, <2>1 DEF Returning
<1>12. \A r \in raws \cup NewRaws :
          zones'[z].gives[r.buffer] > 0 \/ (r.buffer = buffer /\ referenced')
  <2> TAKE r \in raws \cup NewRaws
  <2>1. r.buffer \in Buffers /\ z # result.zone
    BY <1>5 DEF Raw, IInv, Owned
  <2>2. CASE r \in raws
    <3>1. zones[z].gives[r.buffer] > 0 \/ (r.buffer = buffer /\ referenced)
      BY <2>2 DEF IInv, Held, UnderWay
    <3> QED BY <1>3, <2>1, <3>1 DEF Returning, ReferencedNow
  <2>3. CASE r \in NewRaws
    <3>1. r.buffer = buffer /\ ReferencedNow
      BY <2>3, NewRawsFacts DEF ReferencedNow
    <3> QED BY <3>1 DEF Returning
  <2> QED BY <2>2, <2>3
<1>13. ASSUME NEW o \in kept
       PROVE  /\ o.zone \in Zones /\ o.raws \subseteq Raw /\ HeldBy(zones', o.zone, o.raws)
  <2>1. o.zone \in Zones /\ o.zone # result.zone /\ o.raws \subseteq Raw
    BY ObjectType DEF IInv, Types, Owned
  <2> SUFFICES ASSUME NEW r \in o.raws PROVE zones'[o.zone].gives[r.buffer] > 0
    BY <2>1 DEF HeldBy
  <2>2. zones[o.zone].gives[r.buffer] > 0 /\ r.buffer \in Buffers
    BY <2>1 DEF IInv, Held, HeldBy, Raw
  <2> QED BY <2>1, <2>2 DEF Returning
<1>14. ASSUME NEW r \in RawsInUse'
       PROVE  r \in Raw /\ (r \in NewRaws \/ r \in RawsInUse)
              /\ (r \in raws \cup NewRaws \/ \E o \in kept : r \in o.raws)
  BY <1>1, <1>5, <1>13, <1>14 DEF RawsInUse, Returning
<1>15. Parsed(RawsInUse)'
  <2> SUFFICES ASSUME NEW r \in RawsInUse', r.buffer = buffer
               PROVE  CounterSize <= r.at /\ r.at + r.len <= off'
    BY <1>1 DEF Parsed
  <2>1. r.at \in Nat /\ r.len \in Nat
    BY <1>14 DEF Raw
  <2>2. CASE r \in RawsInUse
    <3>1. CounterSize <= r.at /\ r.at + r.len <= off
      BY <2>2 DEF IInv, Parsed
    <3> QED BY <1>3, <1>4, <2>1, <3>1
  <2>3. CASE r \in NewRaws
    <3>1. off <= r.at /\ r.at + r.len <= off'
      BY <1>1, <2>3, NewRawsFacts
    <3> QED BY <1>3, <2>1, <3>1, SizesType
  <2> QED BY <1>14, <2>2, <2>3
<1>16. ASSUME NEW r \in RawsInUse' PROVE RawOK(heap', r)
  <2>1. r \in Raw /\ RawOK(heap, r)
    BY <1>14, NewRawsFacts DEF IInv
  <2>2. r.buffer \in {buffer} \/ \E y \in Zones : zones'[y].gives[r.buffer] > 0
    BY <1>3, <1>12, <1>13, <1>14 DEF HeldBy
  <2> QED BY <1>6, <2>1, <2>2, RawStays
<1> QED BY <1>4, <1>5, <1>7, <1>9, <1>11, <1>12, <1>13, <1>15, <1>16

\* flush_zone: one more count, and one more finalizer that gives it back.
LEMMA FlushKeeps ==
    ASSUME NEW h, HeapOK(h), NEW zs \in ZoneTable, NEW own, CountsOK(h, zs, own),
           NEW y \in Zones, NEW b \in Buffers, b \in own
    PROVE  /\ HeapOK(InclCount(h, b)) /\ Preserves(h, InclCount(h, b))
           /\ CountsOK(InclCount(h, b), Pushed(zs, y, b), own)
           /\ Pushed(zs, y, b) \in ZoneTable
           /\ \A x \in Zones :
                 /\ Pushed(zs, y, b)[x].live = zs[x].live
                 /\ x # y => Pushed(zs, y, b)[x] = zs[x]
                 /\ \A c \in Buffers : Pushed(zs, y, b)[x].gives[c] =
                        zs[x].gives[c] + (IF x = y /\ c = b THEN 1 ELSE 0)
<1> DEFINE k == InclCount(h, b)
           zt == Pushed(zs, y, b)
<1>1. BufferOK(h[b]) /\ h[b].count \in Nat /\ h[b].count > 0 /\ h = [c \in Buffers |-> h[c]]
  BY CountPositive DEF HeapOK, BufferOK
<1>2. k = [h EXCEPT ![b] = [h[b] EXCEPT !.count = h[b].count + 1]]
  BY <1>1 DEF InclCount
<1>3. /\ k[b] = [count |-> h[b].count + 1, size |-> h[b].size, bytes |-> h[b].bytes]
      /\ \A c \in Buffers \ {b} : k[c] = h[c]
      /\ k = [c \in Buffers |-> k[c]]
  <2> HIDE DEF k
  <2>1. /\ k[b] = [h[b] EXCEPT !.count = h[b].count + 1]
        /\ \A c \in Buffers \ {b} : k[c] = h[c]
        /\ k = [c \in Buffers |-> k[c]]
    BY <1>1, <1>2
  <2>2. [h[b] EXCEPT !.count = h[b].count + 1]
           = [count |-> h[b].count + 1, size |-> h[b].size, bytes |-> h[b].bytes]
    BY <1>1 DEF BufferOK
  <2> QED BY <2>1, <2>2
<1>4. zt \in ZoneTable
      /\ \A x \in Zones :
            /\ zt[x].live = zs[x].live
            /\ x # y => zt[x] = zs[x]
            /\ \A c \in Buffers : zt[x].gives[c] = zs[x].gives[c] + (IF x = y /\ c = b THEN 1 ELSE 0)
  <2>1. \A x \in Zones, c \in Buffers : zs[x].gives[c] \in Nat
    BY DEF ZoneTable, ZoneRecord
  <2>2. zt = [zs EXCEPT ![y] = [zs[y] EXCEPT !.gives = [zs[y].gives EXCEPT ![b] = zs[y].gives[b] + 1]]]
    BY DEF Pushed, ZoneTable, ZoneRecord
  <2> HIDE DEF zt
  <2>3. zt \in ZoneTable
    <3>1. zs[y] \in ZoneRecord
      BY DEF ZoneTable
    <3>2. [zs[y].gives EXCEPT ![b] = zs[y].gives[b] + 1] \in [Buffers -> Nat]
      BY <2>1, <3>1 DEF ZoneRecord
    <3>3. [zs[y] EXCEPT !.gives = [zs[y].gives EXCEPT ![b] = zs[y].gives[b] + 1]] \in ZoneRecord
      BY <3>1, <3>2 DEF ZoneRecord
    <3> QED BY <2>2, <3>3 DEF ZoneTable
  <2>4. \A x \in Zones : zt[x].live = zs[x].live /\ (x # y => zt[x] = zs[x])
    BY <2>2 DEF ZoneTable, ZoneRecord
  <2>5. \A x \in Zones, c \in Buffers :
           zt[x].gives[c] = zs[x].gives[c] + (IF x = y /\ c = b THEN 1 ELSE 0)
    BY <2>1, <2>2 DEF ZoneTable, ZoneRecord
  <2> QED BY <2>3, <2>4, <2>5
<1> HIDE DEF k
<1>5. BufferOK(k[b])
  BY <1>1, <1>3 DEF BufferOK
<1>6. HeapOK(k) /\ Preserves(h, k)
  BY <1>1, <1>3, <1>5 DEF HeapOK, Preserves
<1>7. ASSUME NEW c \in Buffers
      PROVE  /\ IsFiniteSet(GivenBy(zt, c))
             /\ k[c].count = (IF c \in own THEN 1 ELSE 0) + Cardinality(GivenBy(zt, c))
  <2>1. /\ IsFiniteSet(GivenBy(zs, c)) /\ Cardinality(GivenBy(zs, c)) \in Nat
        /\ h[c].count = (IF c \in own THEN 1 ELSE 0) + Cardinality(GivenBy(zs, c))
    BY FS_CardinalityType DEF CountsOK
  <2>2. /\ IsFiniteSet(GivenBy(zt, c))
        /\ Cardinality(GivenBy(zt, c)) = Cardinality(GivenBy(zs, c)) + (IF b = c THEN 1 ELSE 0)
    BY <2>1, GivenPushed
  <2> HIDE DEF zt
  <2>3. CASE c = b
    BY <1>1, <1>3, <2>1, <2>2, <2>3
  <2>4. CASE c # b
    BY <1>3, <2>1, <2>2, <2>4
  <2> QED BY <2>3, <2>4
<1> HIDE DEF zt
<1>8. CountsOK(k, zt, own)
  BY <1>7 DEF CountsOK
<1> QED BY <1>4, <1>6, <1>8 DEF k, zt

\* A new zone gives nothing back.
LEMMA NewZoneKeeps ==
    ASSUME NEW h, NEW zs \in ZoneTable, NEW own, CountsOK(h, zs, own),
           NEW w \in Zones, GivesNothing(zs[w])
    PROVE  [zs EXCEPT ![w] = NewZone] \in ZoneTable /\ CountsOK(h, [zs EXCEPT ![w] = NewZone], own)
<1> DEFINE zt == [zs EXCEPT ![w] = NewZone]
<1>1. zt \in ZoneTable
  BY NoZoneRecords DEF ZoneTable
<1>2. ASSUME NEW c \in Buffers
      PROVE  /\ IsFiniteSet(GivenBy(zt, c))
             /\ h[c].count = (IF c \in own THEN 1 ELSE 0) + Cardinality(GivenBy(zt, c))
  <2>1. \A x \in Zones : zt[x].gives[c] = zs[x].gives[c]
    BY NoZoneRecords DEF GivesNothing, ZoneTable
  <2>2. GivenBy(zt, c) = GivenBy(zs, c)
    <3> HIDE DEF zt
    <3> QED BY <2>1 DEF GivenBy
  <2> QED BY <2>2 DEF CountsOK
<1> HIDE DEF zt
<1>3. CountsOK(h, zt, own)
  BY <1>2 DEF CountsOK
<1> QED BY <1>1, <1>3 DEF zt

\* The heap and the zones after flush_zone, when it is called.
LEMMA FlushedFacts ==
    ASSUME IInv, live
    PROVE  /\ HeapOK(Flushed(HeapNow)) /\ FlushedZones \in ZoneTable
           /\ CountsOK(Flushed(HeapNow), FlushedZones, {buffer})
           /\ Preserves(heap, Flushed(HeapNow))
           /\ \A y \in Zones : FlushedZones[y].live = ZonesNow[y].live
           /\ \A y \in Zones \ {z} : FlushedZones[y] = ZonesNow[y]
           /\ \A y \in Zones, c \in Buffers :
                 /\ ZonesNow[y].gives[c] > 0 => FlushedZones[y].gives[c] > 0
                 /\ ZonesNow[y].gives[c] = 0 =>
                       FlushedZones[y].gives[c] = 0 \/ (c = buffer /\ ReferencedNow)
           /\ ReferencedNow => FlushedZones[z].gives[buffer] > 0
<1>1. /\ HeapOK(HeapNow) /\ ZonesNow \in ZoneTable
      /\ CountsOK(HeapNow, ZonesNow, {buffer}) /\ Preserves(heap, HeapNow)
      /\ buffer \in Buffers /\ z \in Zones
  BY ResultFreed DEF IInv, Types
<1>2. \A y \in Zones, c \in Buffers : ZonesNow[y].gives[c] \in Nat
  BY <1>1 DEF ZoneTable, ZoneRecord
<1>3. CASE ~ReferencedNow
  BY <1>1, <1>3 DEF Flushed, FlushedZones
<1>4. CASE ReferencedNow
  <2> DEFINE h == HeapNow
             k == Flushed(HeapNow)
             zn == ZonesNow
             zt == FlushedZones
  <2>1. k = InclCount(h, buffer) /\ zt = Pushed(zn, z, buffer)
    BY <1>4 DEF Flushed, FlushedZones
  <2> HIDE DEF h, k, zn, zt
  <2>2. HeapOK(h) /\ zn \in ZoneTable /\ CountsOK(h, zn, {buffer}) /\ Preserves(heap, h)
        /\ buffer \in {buffer}
        /\ \A y \in Zones, c \in Buffers : zn[y].gives[c] \in Nat
    BY <1>1, <1>2 DEF h, zn
  <2>3. /\ HeapOK(k) /\ Preserves(h, k) /\ CountsOK(k, zt, {buffer}) /\ zt \in ZoneTable
        /\ \A x \in Zones :
              /\ zt[x].live = zn[x].live
              /\ x # z => zt[x] = zn[x]
              /\ \A c \in Buffers :
                    zt[x].gives[c] = zn[x].gives[c] + (IF x = z /\ c = buffer THEN 1 ELSE 0)
    BY <1>1, <2>1, <2>2, FlushKeeps
  <2>4. Preserves(heap, k)
    <3>1. \A b \in Buffers : k[b].count > 0 => h[b].count > 0
      <4> TAKE b \in Buffers
      <4>1. CASE b = buffer
        BY <1>1, <2>2, <4>1, CountPositive
      <4>2. CASE b # buffer
        <5>1. k[b] = h[b]
          BY <2>1, <4>2, <1>1, <2>2 DEF InclCount, HeapOK
        <5> QED BY <5>1
      <4> QED BY <4>1, <4>2
    <3> QED BY <2>2, <2>3, <3>1 DEF Preserves
  <2>5. \A y \in Zones, c \in Buffers :
           /\ zn[y].gives[c] > 0 => zt[y].gives[c] > 0
           /\ zn[y].gives[c] = 0 => zt[y].gives[c] = 0 \/ (c = buffer /\ ReferencedNow)
    BY <1>4, <2>2, <2>3
  <2>6. zt[z].gives[buffer] > 0
    BY <1>1, <2>2, <2>3
  <2> QED BY <2>3, <2>4, <2>5, <2>6 DEF k, zn, zt
<1> QED BY <1>3, <1>4

LEMMA NextReturnsFalseKeeps == IInv /\ NextReturnsFalse => IInv'
<1> SUFFICES ASSUME IInv, NextReturnsFalse PROVE IInv'
  OBVIOUS
<1>1. /\ live /\ ~Finished /\ Executes /\ heap' = HeapNow /\ zones' = ZonesNow
      /\ result' = NoResult /\ parsed' = parsed + End[Reached] - Done
      /\ raws' = raws \cup NewRaws /\ referenced' = ReferencedNow
      /\ UNCHANGED <<z, kept, fed>>
  BY DEF NextReturnsFalse
<1>2. /\ NoResult \in Object /\ NoResult.zone = NoZone /\ NoResult.raws = {}
      /\ z \in Zones /\ NoZone \notin Zones /\ buffer \in Buffers
  BY UnpackerAssumption DEF NoResult, Object, IInv, Types, UnpackerAssumption
<1>3. /\ HeapOK(heap') /\ zones' \in ZoneTable
      /\ CountsOK(heap', zones', {buffer}) /\ Preserves(heap, heap')
      /\ \A y \in Zones : zones'[y] = IF y = result.zone THEN NoZoneThere ELSE zones[y]
  BY <1>1, ResultFreed
<1>4. Returning
  <2>1. \A y \in Zones, c \in Buffers :
          /\ y # result.zone /\ zones[y].gives[c] > 0 => zones'[y].gives[c] > 0
          /\ zones[y].gives[c] = 0 => zones'[y].gives[c] = 0
    BY <1>3, NoZoneRecords DEF GivesNothing
  <2> QED BY <1>1, <1>2, <1>3, <2>1 DEF Returning
<1>5. /\ CountsOK(heap, zones, OwnBuffer)'
      /\ cell' \in 1..(Len(Cells) + 1) /\ off' \in Nat /\ parsed' \in Nat
      /\ raws \cup NewRaws \subseteq Raw
      /\ WindowExact' /\ Unread' /\ Parsed(RawsInUse)'
      /\ \A r \in raws \cup NewRaws :
            zones'[z].gives[r.buffer] > 0 \/ (r.buffer = buffer /\ referenced')
      /\ \A o \in kept : HeldBy(zones', o.zone, o.raws)
      /\ \A r \in RawsInUse' : RawOK(heap', r)
  BY <1>1, <1>4, ReturningKeeps
<1>6. Types'
  <2>1. referenced' \in BOOLEAN
    BY <1>1 DEF ReferencedNow, IInv, Types
  <2>2. UNCHANGED <<live, buffer, used, free>>
    BY <1>1 DEF Executes
  <2> QED BY <1>1, <1>2, <1>3, <1>5, <2>1, <2>2 DEF IInv, Types
<1>7. Owned'
  <2>1. \A y \in Zones :
          /\ zones'[y].live <=> y = z \/ \E p \in kept : y = p.zone
          /\ ~zones'[y].live => GivesNothing(zones'[y])
    BY <1>1, <1>3, NoZoneRecords DEF IInv, Owned
  <2>2. live' /\ result'.zone = NoZone
    BY <1>1, <1>2 DEF Executes
  <2> QED BY <1>1, <1>2, <2>1, <2>2 DEF IInv, Owned
<1>8. Held'
  <2>1. live' /\ buffer' = buffer /\ UnderWay' = raws \cup NewRaws /\ result'.zone = NoZone
    BY <1>1, <1>2 DEF Executes, UnderWay
  <2> QED BY <1>1, <1>5, <2>1 DEF Held
<1> QED BY <1>5, <1>6, <1>7, <1>8 DEF IInv

LEMMA NextReturnsObjectKeeps == IInv /\ NextReturnsObject => IInv'
<1> SUFFICES ASSUME IInv, NextReturnsObject PROVE IInv'
  OBVIOUS
<1> DEFINE others == {y \in Zones : ~ZonesNow[y].live}
           w == Least(others)
<1>1. /\ live /\ Finished /\ Executes /\ heap' = Flushed(HeapNow)
      /\ others # {} /\ z' = w /\ zones' = [FlushedZones EXCEPT ![w] = NewZone]
      /\ referenced' = FALSE
      /\ result' = [zone |-> z, raws |-> raws \cup NewRaws] /\ parsed' = 0
      /\ raws' = {} /\ UNCHANGED <<kept, fed>>
  BY DEF NextReturnsObject, Returns
<1>2. z \in Zones /\ NoZone \notin Zones /\ buffer \in Buffers
  BY UnpackerAssumption DEF IInv, Types, UnpackerAssumption
<1>3. \A y \in Zones : ZonesNow[y] = IF y = result.zone THEN NoZoneThere ELSE zones[y]
  BY <1>1, ResultFreed
<1>4. w \in Zones /\ ~ZonesNow[w].live
  <2>1. others \subseteq Nat
    BY UnpackerAssumption DEF UnpackerAssumption
  <2>2. w \in others
    BY <1>1, <2>1, LeastIsMember
  <2> QED BY <2>2
<1> HIDE DEF others, w
<1>5. w # z /\ GivesNothing(ZonesNow[w]) /\ \A o \in kept : o.zone # w
  BY <1>1, <1>2, <1>3, <1>4, NoZoneRecords DEF IInv, Owned
<1>6. /\ HeapOK(heap') /\ FlushedZones \in ZoneTable
      /\ CountsOK(heap', FlushedZones, {buffer})
      /\ Preserves(heap, heap')
      /\ \A y \in Zones : FlushedZones[y].live = ZonesNow[y].live
      /\ \A y \in Zones \ {z} : FlushedZones[y] = ZonesNow[y]
      /\ \A y \in Zones, c \in Buffers :
            /\ ZonesNow[y].gives[c] > 0 => FlushedZones[y].gives[c] > 0
            /\ ZonesNow[y].gives[c] = 0 =>
                  FlushedZones[y].gives[c] = 0 \/ (c = buffer /\ ReferencedNow)
      /\ ReferencedNow => FlushedZones[z].gives[buffer] > 0
  BY <1>1, FlushedFacts
<1>7. zones' \in ZoneTable /\ CountsOK(heap', zones', {buffer})
  <2> DEFINE zt == FlushedZones
  <2> HIDE DEF zt
  <2>1. zt \in ZoneTable /\ CountsOK(heap', zt, {buffer}) /\ GivesNothing(zt[w])
        /\ zones' = [zt EXCEPT ![w] = NewZone]
    BY <1>1, <1>4, <1>5, <1>6 DEF zt
  <2> QED BY <1>4, <2>1, NewZoneKeeps
<1>8. zones'[w] = NewZone /\ \A y \in Zones \ {w} : zones'[y] = FlushedZones[y]
  BY <1>1, <1>4, <1>6 DEF ZoneTable
<1>9. Returning
  <2>1. ASSUME NEW y \in Zones, NEW c \in Buffers
        PROVE  /\ y # result.zone /\ zones[y].gives[c] > 0 => zones'[y].gives[c] > 0
               /\ zones[y].gives[c] = 0 => zones'[y].gives[c] = 0 \/ (c = buffer /\ ReferencedNow)
    <3>1. CASE y = w
      <4>1. zones'[w].gives[c] = 0 /\ ZonesNow[w].gives[c] = 0
        BY <1>5, <1>8, NoZoneRecords DEF GivesNothing
      <4> QED BY <1>3, <1>4, <3>1, <4>1
    <3>2. CASE y # w
      <4>1. zones'[y] = FlushedZones[y]
        BY <1>8, <3>2
      <4>2. ZonesNow[y] = IF y = result.zone THEN NoZoneThere ELSE zones[y]
        BY <1>3
      <4> QED BY <1>6, <4>1, <4>2, NoZoneRecords DEF GivesNothing
    <3> QED BY <3>1, <3>2
  <2>2. ReferencedNow => zones'[z].gives[buffer] > 0
    BY <1>2, <1>5, <1>6, <1>8
  <2>3. result'.raws \cup raws' = raws \cup NewRaws
    BY <1>1
  <2> QED BY <1>1, <1>6, <1>7, <2>1, <2>2, <2>3 DEF Returning
<1>10. /\ CountsOK(heap, zones, OwnBuffer)'
       /\ cell' \in 1..(Len(Cells) + 1) /\ off' \in Nat /\ parsed' \in Nat
       /\ raws \cup NewRaws \subseteq Raw
       /\ WindowExact' /\ Unread' /\ Parsed(RawsInUse)'
       /\ \A r \in raws \cup NewRaws :
             zones'[z].gives[r.buffer] > 0 \/ (r.buffer = buffer /\ referenced')
       /\ \A o \in kept : HeldBy(zones', o.zone, o.raws)
       /\ \A r \in RawsInUse' : RawOK(heap', r)
  BY <1>1, <1>9, ReturningKeeps
<1>11. live' /\ result'.zone = z /\ result'.raws = raws \cup NewRaws /\ result' \in Object
  BY <1>1, <1>2, <1>10 DEF Executes, Object
<1>12. Types'
  <2>1. UNCHANGED <<live, buffer, used, free>>
    BY <1>1 DEF Executes
  <2> QED BY <1>1, <1>4, <1>6, <1>7, <1>10, <1>11, <2>1 DEF IInv, Types
<1>13. Owned'
  <2>1. ASSUME NEW y \in Zones
        PROVE  /\ zones'[y].live <=> y = w \/ y = z \/ \E p \in kept : y = p.zone
               /\ ~zones'[y].live => GivesNothing(zones'[y])
    <3>1. CASE y = w
      BY <1>8, <3>1, NoZoneRecords
    <3>2. CASE y # w
      <4>1. zones'[y].live = ZonesNow[y].live /\ (y # z => zones'[y] = ZonesNow[y])
        BY <1>6, <1>8, <3>2
      <4>2. ZonesNow[y].live <=> y = z \/ \E p \in kept : y = p.zone
        BY <1>1, <1>2, <1>3, NoZoneRecords DEF IInv, Owned
      <4>3. y # z /\ ~ZonesNow[y].live => GivesNothing(ZonesNow[y])
        BY <1>3, NoZoneRecords DEF IInv, Owned
      <4> QED BY <3>2, <4>1, <4>2, <4>3
    <3> QED BY <3>1, <3>2
  <2>2. \A o \in kept : o.zone # NoZone /\ o.zone # z
    BY <1>1 DEF IInv, Owned
  <2>3. \A o, p \in kept : o.zone = p.zone => o = p
    BY DEF IInv, Owned
  <2> QED BY <1>1, <1>5, <1>11, <2>1, <2>2, <2>3 DEF Owned
<1>14. Held'
  <2>1. UnderWay' = {}
    BY <1>1, <1>2, <1>11 DEF UnderWay
  <2>2. HeldBy(zones', z, raws \cup NewRaws)
    BY <1>1, <1>10 DEF HeldBy
  <2> QED BY <1>1, <1>10, <1>11, <2>1, <2>2 DEF Held
<1> QED BY <1>10, <1>12, <1>13, <1>14 DEF IInv

LEMMA NextReturnsBareKeeps == IInv /\ NextReturnsBare => IInv'
<1> SUFFICES ASSUME IInv, NextReturnsBare PROVE IInv'
  OBVIOUS
<1>1. /\ live /\ Finished /\ Executes
      /\ \/ heap' = HeapNow /\ zones' = ZonesNow /\ ReferencedNow /\ referenced' = TRUE
         \/ heap' = Flushed(HeapNow) /\ zones' = FlushedZones /\ referenced' = FALSE
      /\ result' = [zone |-> NoZone, raws |-> raws \cup NewRaws] /\ parsed' = 0
      /\ raws' = {} /\ UNCHANGED <<z, kept, fed>>
  BY DEF NextReturnsBare, Returns
<1>2. z \in Zones /\ NoZone \notin Zones /\ buffer \in Buffers
  BY UnpackerAssumption DEF IInv, Types, UnpackerAssumption
<1>3. /\ HeapOK(HeapNow) /\ ZonesNow \in ZoneTable
      /\ CountsOK(HeapNow, ZonesNow, {buffer}) /\ Preserves(heap, HeapNow)
      /\ \A y \in Zones : ZonesNow[y] = IF y = result.zone THEN NoZoneThere ELSE zones[y]
  BY <1>1, ResultFreed
<1>4. /\ HeapOK(heap') /\ zones' \in ZoneTable
      /\ CountsOK(heap', zones', {buffer})
      /\ Preserves(heap, heap')
      /\ \A y \in Zones : zones'[y].live = ZonesNow[y].live
      /\ \A y \in Zones \ {z} : zones'[y] = ZonesNow[y]
      /\ \A y \in Zones, c \in Buffers :
            /\ ZonesNow[y].gives[c] > 0 => zones'[y].gives[c] > 0
            /\ ZonesNow[y].gives[c] = 0 =>
                  zones'[y].gives[c] = 0 \/ (c = buffer /\ ReferencedNow)
      /\ ReferencedNow => referenced' \/ zones'[z].gives[buffer] > 0
      /\ referenced' \in BOOLEAN /\ (referenced' => ReferencedNow)
  <2>1. CASE heap' = HeapNow /\ zones' = ZonesNow /\ ReferencedNow /\ referenced' = TRUE
    BY <1>3, <2>1
  <2>2. CASE heap' = Flushed(HeapNow) /\ zones' = FlushedZones /\ referenced' = FALSE
    BY <1>1, <2>2, FlushedFacts
  <2> QED BY <1>1, <2>1, <2>2
<1>5. Returning
  <2>1. ASSUME NEW y \in Zones, NEW c \in Buffers
        PROVE  /\ y # result.zone /\ zones[y].gives[c] > 0 => zones'[y].gives[c] > 0
               /\ zones[y].gives[c] = 0 => zones'[y].gives[c] = 0 \/ (c = buffer /\ ReferencedNow)
    <3>1. ZonesNow[y] = IF y = result.zone THEN NoZoneThere ELSE zones[y]
      BY <1>3
    <3> QED BY <1>4, <3>1, NoZoneRecords DEF GivesNothing
  <2>2. result'.raws \cup raws' = raws \cup NewRaws
    BY <1>1
  <2> QED BY <1>1, <1>4, <2>1, <2>2 DEF Returning
<1>6. /\ CountsOK(heap, zones, OwnBuffer)'
      /\ cell' \in 1..(Len(Cells) + 1) /\ off' \in Nat /\ parsed' \in Nat
      /\ raws \cup NewRaws \subseteq Raw
      /\ WindowExact' /\ Unread' /\ Parsed(RawsInUse)'
      /\ \A r \in raws \cup NewRaws :
            zones'[z].gives[r.buffer] > 0 \/ (r.buffer = buffer /\ referenced')
      /\ \A o \in kept : HeldBy(zones', o.zone, o.raws)
      /\ \A r \in RawsInUse' : RawOK(heap', r)
  BY <1>1, <1>5, ReturningKeeps
<1>7. live' /\ result'.zone = NoZone /\ result'.raws = raws \cup NewRaws /\ result' \in Object
  BY <1>1, <1>2, <1>6 DEF Executes, Object
<1>8. Types'
  <2>1. UNCHANGED <<live, buffer, used, free>>
    BY <1>1 DEF Executes
  <2> QED BY <1>1, <1>4, <1>6, <1>7, <2>1 DEF IInv, Types
<1>9. Owned'
  <2>1. ASSUME NEW y \in Zones
        PROVE  /\ zones'[y].live <=> y = z \/ \E p \in kept : y = p.zone
               /\ ~zones'[y].live => GivesNothing(zones'[y])
    <3>1. ZonesNow[y].live <=> y = z \/ \E p \in kept : y = p.zone
      BY <1>1, <1>2, <1>3, NoZoneRecords DEF IInv, Owned
    <3>2. y # z /\ ~ZonesNow[y].live => GivesNothing(ZonesNow[y])
      BY <1>3, NoZoneRecords DEF IInv, Owned
    <3> QED BY <1>4, <3>1, <3>2
  <2> QED BY <1>1, <1>2, <1>7, <2>1 DEF IInv, Owned
<1>10. Held'
  <2>1. UnderWay' = raws \cup NewRaws /\ buffer' = buffer
    BY <1>1, <1>7 DEF UnderWay, Executes
  <2> QED BY <1>1, <1>6, <1>7, <2>1 DEF Held
<1> QED BY <1>6, <1>8, <1>9, <1>10 DEF IInv

-----------------------------------------------------------------------------
(* The theorems                                                            *)

LEMMA NextKeeps == IInv /\ [Next]_vars => IInv'
<1> SUFFICES ASSUME IInv, [Next]_vars PROVE IInv'
  OBVIOUS
<1>1. CASE Expand
  BY <1>1, RewindKeeps, GrowKeeps, GrowFailsKeeps, ReplaceKeeps DEF Expand
<1>2. CASE \E n \in 1..Length : Feed(n)
  BY <1>2, FeedKeeps
<1>3. CASE NextReturnsFalse \/ NextReturnsObject \/ NextReturnsBare
  BY <1>3, NextReturnsFalseKeeps, NextReturnsObjectKeeps, NextReturnsBareKeeps
<1>4. CASE KeepObject \/ (\E o \in kept : FreeKept(o)) \/ DestroyResult \/ ResetZone \/ Destroy
  BY <1>4, KeepObjectKeeps, FreeKeptKeeps, DestroyResultKeeps, ResetZoneKeeps, DestroyKeeps
<1>5. CASE UNCHANGED vars
  <2>1. UNCHANGED <<heap, zones, live, buffer, used, free, off, parsed, z, referenced,
                    cell, raws, result, kept, fed>>
    BY <1>5 DEF vars, unpacker, context, client
  <2>2. Types' /\ CountsOK(heap, zones, OwnBuffer)' /\ Owned' /\ WindowExact'
    BY <2>1 DEF IInv, Types, CountsOK, OwnBuffer, Owned, WindowExact, Done
  <2>3. RawsInUse' = RawsInUse /\ Held' /\ Unread'
    BY <2>1 DEF IInv, Held, HeldBy, UnderWay, Unread, RawsInUse
  <2> QED BY <2>1, <2>2, <2>3 DEF IInv, Parsed, RawOK
<1> QED BY <1>1, <1>2, <1>3, <1>4, <1>5 DEF Next

\* The inductive invariant.
LEMMA Invariance == Spec => []IInv
<1> QED BY InitHolds, NextKeeps, PTL DEF Spec

\* Every variable of unpack.c's msgpack_unpacker, of the zones and of the heap keeps
\* its type: sizes and counts never go below zero, and a buffer in use has all its
\* bytes.
THEOREM TypeCorrect == Spec => []TypeOK
<1>1. IInv => TypeOK
  <2> SUFFICES ASSUME IInv PROVE TypeOK
    OBVIOUS
  <2>1. /\ DOMAIN heap = Buffers
        /\ \A b \in Buffers :
              /\ heap[b].count \in Nat /\ heap[b].size \in Nat
              /\ heap[b].count # 0 => heap[b].bytes \in [0..(heap[b].size - 1) -> 0..Length]
    BY DEF IInv, Types, HeapOK, BufferOK
  <2>2. zones \in [Zones -> [live : BOOLEAN, gives : [Buffers -> Nat]]]
    BY DEF IInv, Types, ZoneTable, ZoneRecord
  <2> QED BY <2>1, <2>2 DEF TypeOK, IInv, Types
<1> QED BY <1>1, Invariance, PTL

\* However the client interleaves reserving, feeding, taking and freeing, a raw of
\* an object whose zone is not freed points into a buffer that is still there and
\* still holds its bytes: msgpack_unpacker_expand_buffer never moves, reuses or
\* frees what an object refers to.
THEOREM RawsStayIntact == Spec => []RawsIntact
<1>1. IInv => RawsIntact
  <2> SUFFICES ASSUME IInv, NEW r \in RawsInUse
               PROVE  heap[r.buffer].count > 0 /\ RawOK(heap, r)
    BY DEF RawsIntact, RawOK
  <2>1. r \in Raw /\ RawOK(heap, r)
    BY ObjectType DEF IInv, Types, RawsInUse
  <2>2. r.buffer \in OwnBuffer \/ \E y \in Zones : zones[y].gives[r.buffer] > 0
    <3>1. CASE live /\ r \in UnderWay
      BY <3>1 DEF IInv, Held, Types, OwnBuffer
    <3>2. CASE result.zone # NoZone /\ r \in result.raws
      BY <3>2, ObjectType DEF IInv, Held, Types, HeldBy
    <3>3. CASE \E o \in kept : r \in o.raws
      BY <3>3, ObjectType DEF IInv, Held, Types, HeldBy, Owned
    <3> QED BY <3>1, <3>2, <3>3 DEF RawsInUse, UnderWay, IInv, Owned
  <2> QED BY <2>1, <2>2, CountPositive DEF IInv, Types, Raw
<1> QED BY <1>1, Invariance, PTL

\* Every buffer's count is the unpacker and the finalizers that will give it back,
\* and every zone has one owner: nothing is freed twice and nothing is left,
\* whichever allocation of unpack.c failed on the way.
THEOREM CountsAreExact == Spec => []CountsExact
<1>1. IInv => CountsExact
  <2> SUFFICES ASSUME IInv PROVE CountsExact
    OBVIOUS
  <2>1. \A b \in Buffers :
           heap[b].count = (IF live /\ buffer = b THEN 1 ELSE 0) + Cardinality(GivenBy(zones, b))
    BY DEF IInv, CountsOK, OwnBuffer
  <2>2. {y \in Zones : zones[y].live} =
          ((IF live THEN {z} ELSE {}) \cup {result.zone} \cup {o.zone : o \in kept}) \ {NoZone}
    <3> DEFINE owners == (IF live THEN {z} ELSE {}) \cup {result.zone} \cup {o.zone : o \in kept}
    <3>1. owners \subseteq Zones \cup {NoZone} /\ NoZone \notin Zones
      BY ObjectType, UnpackerAssumption DEF IInv, Types, UnpackerAssumption
    <3>2. \A y \in Zones : zones[y].live <=> y \in owners
      BY DEF IInv, Owned
    <3> HIDE DEF owners
    <3>3. {y \in Zones : zones[y].live} = owners \ {NoZone}
      BY <3>1, <3>2
    <3> QED BY <3>3 DEF owners
  <2> QED BY <2>1, <2>2 DEF CountsExact
<1> QED BY <1>1, Invariance, PTL

\* Between off and used are exactly the bytes that were fed and not parsed, in their
\* order, and parsed counts the bytes of the message under way: no expansion and no
\* failed allocation loses, repeats or moves a byte.
THEOREM WindowIsExact == Spec => []WindowExact
<1>1. IInv => WindowExact
  BY DEF IInv
<1> QED BY <1>1, Invariance, PTL
=============================================================================
