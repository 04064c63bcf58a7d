------------------------- MODULE ObjectStorageProofs -------------------------
(***************************************************************************)
(* What ObjectStorage guarantees for every set of properties, entities,    *)
(* objects and values: what is saved is read, the same values make the     *)
(* same blob, and a fetch returns what was asked for.                      *)
(***************************************************************************)
EXTENDS ObjectStorage, SetInduction

-----------------------------------------------------------------------------
(* Among: the elements of a sequence that are in a set                     *)

\* The recursion: f[i] is what is taken of the first i elements.
Taken(s, S, f, m) ==
    /\ f[0] = <<>>
    /\ \A i \in 1..m : f[i] = IF s[i] \in S THEN Append(f[i - 1], s[i]) ELSE f[i - 1]

LEMMA TakenExists ==
    ASSUME NEW E, NEW s \in Seq(E), NEW S
    PROVE  \E f \in [0..Len(s) -> Seq(E)] : Taken(s, S, f, Len(s))
<1> DEFINE N == {n \in Nat : n <= Len(s) => \E f \in [0..n -> Seq(E)] : Taken(s, S, f, n)}
<1>0. Len(s) \in Nat /\ \A i \in 1..Len(s) : s[i] \in E
  OBVIOUS
<1>1. 0 \in N
  <2>1. [i \in 0..0 |-> <<>>] \in [0..0 -> Seq(E)]
    OBVIOUS
  <2>2. Taken(s, S, [i \in 0..0 |-> <<>>], 0)
    BY DEF Taken
  <2> QED BY <2>1, <2>2
<1>2. ASSUME NEW n \in Nat, n \in N PROVE n + 1 \in N
  <2> SUFFICES ASSUME n + 1 <= Len(s)
               PROVE  \E g \in [0..(n + 1) -> Seq(E)] : Taken(s, S, g, n + 1)
    OBVIOUS
  <2>1. PICK f \in [0..n -> Seq(E)] : Taken(s, S, f, n)
    <3>1. n <= Len(s)
      BY <1>0
    <3> QED BY <1>2, <3>1
  <2> DEFINE last == IF s[n + 1] \in S THEN Append(f[n], s[n + 1]) ELSE f[n]
             g == [i \in 0..(n + 1) |-> IF i <= n THEN f[i] ELSE last]
  <2>2. last \in Seq(E)
    <3>1. n \in 0..n /\ n + 1 \in 1..Len(s)
      BY <1>0
    <3> QED BY <1>0, <3>1
  <2>3. last = IF s[n + 1] \in S THEN Append(f[n], s[n + 1]) ELSE f[n]
    OBVIOUS
  <2> HIDE DEF last
  <2>4. /\ g \in [0..(n + 1) -> Seq(E)] /\ g[n + 1] = last
        /\ \A i \in 0..n : g[i] = f[i]
    BY <2>2
  <2> HIDE DEF g
  <2>5. g[0] = <<>>
    BY <2>1, <2>4 DEF Taken
  <2>6. ASSUME NEW i \in 1..(n + 1)
        PROVE  g[i] = IF s[i] \in S THEN Append(g[i - 1], s[i]) ELSE g[i - 1]
    <3>1. CASE i = n + 1
      <4>1. i - 1 = n /\ n \in 0..n
        BY <3>1
      <4> QED BY <2>3, <2>4, <3>1, <4>1
    <3>2. CASE i # n + 1
      <4>1. i \in 1..n /\ i \in 0..n /\ i - 1 \in 0..n
        BY <3>2
      <4> QED BY <2>1, <2>4, <4>1 DEF Taken
    <3> QED BY <3>1, <3>2
  <2> QED BY <2>4, <2>5, <2>6 DEF Taken
<1>3. Len(s) \in N
  <2> HIDE DEF N
  <2> QED BY <1>0, <1>1, <1>2, NaturalInduction
<1> QED BY <1>0, <1>3

\* What is taken: of the elements those in S, and none more often than it is there.
LEMMA TakenElements ==
    ASSUME NEW E, NEW s \in Seq(E), NEW S, NEW m \in Nat, m <= Len(s),
           NEW f, Taken(s, S, f, m)
    PROVE  /\ f[m] \in Seq(E)
           /\ ToSet(f[m]) = {s[i] : i \in 1..m} \cap S
           /\ IsInjective(s) => IsInjective(f[m])
<1> DEFINE Good(n) == /\ f[n] \in Seq(E)
                      /\ ToSet(f[n]) = {s[i] : i \in 1..n} \cap S
                      /\ IsInjective(s) => IsInjective(f[n])
           N == {n \in Nat : n <= m => Good(n)}
<1>0. Len(s) \in Nat /\ DOMAIN s = 1..Len(s) /\ \A i \in 1..Len(s) : s[i] \in E
  OBVIOUS
<1>1. 0 \in N
  <2>1. f[0] = <<>> /\ ToSet(<<>>) = {} /\ IsInjective(<<>>) /\ <<>> \in Seq(E)
    BY DEF Taken, ToSet, IsInjective
  <2>2. {s[i] : i \in 1..0} = {}
    OBVIOUS
  <2> QED BY <2>1, <2>2
<1>2. ASSUME NEW n \in Nat, n \in N PROVE n + 1 \in N
  <2> SUFFICES ASSUME n + 1 <= m PROVE Good(n + 1)
    OBVIOUS
  <2>1. Good(n)
    BY <1>2
  <2> DEFINE x == s[n + 1]
             T(k) == {s[i] : i \in 1..k}
  <2>2. /\ f[n + 1] = IF x \in S THEN Append(f[n], x) ELSE f[n]
        /\ x \in E /\ n + 1 \in 1..Len(s)
    <3>1. n + 1 \in 1..m /\ (n + 1) - 1 = n /\ n + 1 \in 1..Len(s)
      BY <1>0
    <3> QED BY <1>0, <3>1 DEF Taken
  <2>3. T(n + 1) = T(n) \cup {x}
    BY <2>2
  <2>4. IsInjective(s) => x \notin T(n)
    BY <1>0, <2>2 DEF IsInjective
  <2> HIDE DEF x
  <2>5. CASE x \in S
    <3>1. f[n + 1] = Append(f[n], x)
      BY <2>2, <2>5
    <3>2. ToSet(f[n + 1]) = ToSet(f[n]) \cup {x} /\ f[n + 1] \in Seq(E)
      BY <2>1, <2>2, <3>1, OneMoreElement
    <3>3. IsInjective(s) => IsInjective(f[n + 1])
      <4>1. IsInjective(s) => x \notin ToSet(f[n])
        BY <2>1, <2>4
      <4> QED BY <2>1, <2>2, <3>1, <4>1, OneMoreElement
    <3> QED BY <2>1, <2>3, <2>5, <3>2, <3>3
  <2>6. CASE x \notin S
    BY <2>1, <2>2, <2>3, <2>6
  <2> QED BY <2>5, <2>6
<1>3. m \in N
  <2> HIDE DEF N
  <2> QED BY <1>1, <1>2, NaturalInduction
<1> QED BY <1>3

\* Among takes exactly the elements in the set.
LEMMA AmongElements ==
    ASSUME NEW E, NEW s \in Seq(E), NEW S
    PROVE  /\ Among(s, S) \in Seq(E)
           /\ ToSet(Among(s, S)) = ToSet(s) \cap S
           /\ IsInjective(s) => IsInjective(Among(s, S))
<1> DEFINE n == Len(s)
           Def(f) == [i \in 0..n |-> IF i = 0 THEN <<>>
                                     ELSE IF s[i] \in S THEN Append(f[i - 1], s[i]) ELSE f[i - 1]]
           k == CHOOSE f : f = Def(f)
<1>0. n \in Nat /\ n <= Len(s)
  OBVIOUS
<1>1. PICK f \in [0..n -> Seq(E)] : Taken(s, S, f, n)
  BY TakenExists
<1>2. f = Def(f)
  <2>1. ASSUME NEW i \in 0..n
        PROVE  f[i] = IF i = 0 THEN <<>>
                      ELSE IF s[i] \in S THEN Append(f[i - 1], s[i]) ELSE f[i - 1]
    <3>1. CASE i = 0
      BY <1>1, <3>1 DEF Taken
    <3>2. CASE i # 0
      <4>1. i \in 1..n
        BY <1>0, <3>2
      <4> QED BY <1>1, <3>2, <4>1 DEF Taken
    <3> QED BY <3>1, <3>2
  <2> HIDE DEF n
  <2> QED BY <1>1, <2>1
<1>3. Among(s, S) = k[n]
  BY DEF Among
<1>4. \A g : Def(g) = [i \in 0..n |-> IF i = 0 THEN <<>>
                            ELSE IF s[i] \in S THEN Append(g[i - 1], s[i]) ELSE g[i - 1]]
  OBVIOUS
<1>5. k = Def(k)
  <2> HIDE DEF Def
  <2> QED BY <1>2
<1> HIDE DEF Def, k, n
<1>6. Taken(s, S, k, n)
  <2>1. \A i \in 0..n : k[i] = IF i = 0 THEN <<>>
                               ELSE IF s[i] \in S THEN Append(k[i - 1], s[i]) ELSE k[i - 1]
    BY <1>4, <1>5
  <2>2. k[0] = <<>>
    BY <1>0, <2>1
  <2>3. \A i \in 1..n : k[i] = IF s[i] \in S THEN Append(k[i - 1], s[i]) ELSE k[i - 1]
    BY <1>0, <2>1
  <2> QED BY <2>2, <2>3 DEF Taken
<1>7. /\ k[n] \in Seq(E)
      /\ ToSet(k[n]) = {s[i] : i \in 1..n} \cap S
      /\ IsInjective(s) => IsInjective(k[n])
  BY <1>0, <1>6, TakenElements
<1>8. ToSet(s) = {s[i] : i \in 1..n}
  BY DEF ToSet, n
<1> QED BY <1>3, <1>7, <1>8

-----------------------------------------------------------------------------
(* What a save makes of an object                                          *)

\* The members of relationships in the order of RefOrder, as an enumeration.
Listed(c) == [n \in Unordered |-> Among(RefOrder, c[n])]
TheDictionary(c) == Dictionary(c, Listed(c))
ThePacking(c) == MsgPackData(TheDictionary(c), Among(KeyOrder, DOMAIN TheDictionary(c)))

\* The members of a relationship are finitely many objects.
LEMMA MembersFinite ==
    ASSUME NEW S, S \subseteq Refs
    PROVE  IsFiniteSet(S)
<1>1. IsFiniteSet(ToSet(RefOrder))
  BY CodecAssumption, ElementsFinite
<1> QED BY <1>1, StorageAssumption, FS_Subset

LEMMA MembersOf ==
    ASSUME NEW c, IsContent(c), NEW n \in Unordered
    PROVE  c[n] \subseteq Refs /\ IsFiniteSet(c[n])
<1>1. c[n] \subseteq Refs
  BY DEF IsContent, Unordered
<1> QED BY <1>1, MembersFinite

\* However a relationship is enumerated, its members are sorted into one order.
LEMMA SortedMembers ==
    ASSUME NEW c, IsContent(c), NEW e \in Enumerations(c), NEW n \in Unordered
    PROVE  Sorted(e[n]) = Among(RefOrder, c[n])
<1>1. e[n] \in SetToSeqs(c[n])
  BY DEF Enumerations
<1>2. ToSet(e[n]) = c[n]
  BY <1>1, MembersOf, Listings
<1> QED BY <1>2 DEF Sorted

\* Which is an enumeration of them.
LEMMA SortedListing ==
    ASSUME NEW S, S \subseteq Refs
    PROVE  /\ Among(RefOrder, S) \in SetToSeqs(S)
           /\ Among(RefOrder, S) \in Seq(Refs)
           /\ ToSet(Among(RefOrder, S)) = S
<1>1. /\ Among(RefOrder, S) \in Seq(Refs) /\ ToSet(Among(RefOrder, S)) = ToSet(RefOrder) \cap S
      /\ IsInjective(Among(RefOrder, S))
  BY CodecAssumption, StorageAssumption, AmongElements
<1>2. ToSet(Among(RefOrder, S)) = S
  BY <1>1, StorageAssumption
<1>3. Among(RefOrder, S) \in Seq(S)
  <2> DEFINE a == Among(RefOrder, S)
  <2>1. a \in Seq(Refs) /\ \A i \in 1..Len(a) : a[i] \in ToSet(a)
    BY <1>1 DEF ToSet
  <2> HIDE DEF a
  <2>2. \A i \in 1..Len(a) : a[i] \in S
    BY <1>2, <2>1 DEF a
  <2> QED BY <2>1, <2>2 DEF a
<1> QED BY <1>1, <1>2, <1>3, MembersFinite, Listings

LEMMA SortedListed ==
    ASSUME NEW c, IsContent(c), NEW n \in Unordered
    PROVE  Sorted(Listed(c)[n]) = Among(RefOrder, c[n])
<1>1. Listed(c)[n] = Among(RefOrder, c[n])
  BY DEF Listed
<1>2. ToSet(Listed(c)[n]) = c[n]
  BY <1>1, MembersOf, SortedListing
<1> QED BY <1>2 DEF Sorted

\* The dictionary does not depend on the enumerations.
LEMMA SameDictionary ==
    ASSUME NEW c, IsContent(c), NEW e \in Enumerations(c)
    PROVE  Dictionary(c, e) = TheDictionary(c)
<1>1. ASSUME NEW n \in Permanent PROVE Entry(n, c, e) = Entry(n, c, Listed(c))
  <2>1. CASE Property[n].kind = "many"
    <3>1. n \in Unordered
      BY <2>1 DEF Permanent, Unordered
    <3>2. Sorted(e[n]) = Sorted(Listed(c)[n])
      BY <3>1, SortedMembers, SortedListed
    <3> QED BY <2>1, <3>2 DEF Entry
  <2>2. CASE Property[n].kind # "many"
    BY <2>2, CodecAssumption DEF Entry, Permanent
  <2> QED BY <2>1, <2>2
<1>2. [n \in Permanent |-> Entry(n, c, e)] = [n \in Permanent |-> Entry(n, c, Listed(c))]
  BY <1>1
<1> QED BY <1>2 DEF Dictionary, TheDictionary

LEMMA DictionaryKeys ==
    ASSUME NEW c
    PROVE  DOMAIN TheDictionary(c) \subseteq Permanent /\ Permanent \subseteq DOMAIN Property
BY DEF TheDictionary, Dictionary, Permanent

\* Nor do the packed bytes depend on the order in which the dictionary lists its keys.
LEMMA SameKeys ==
    ASSUME NEW d, DOMAIN d \subseteq DOMAIN Property,
           NEW order \in Seq(DOMAIN Property), ToSet(order) = DOMAIN Property
    PROVE  SortedKeys(Among(order, DOMAIN d)) = Among(KeyOrder, DOMAIN d)
<1>1. ToSet(Among(order, DOMAIN d)) = ToSet(order) \cap DOMAIN d
  BY AmongElements
<1>2. ToSet(Among(order, DOMAIN d)) = DOMAIN d
  BY <1>1
<1> QED BY <1>2 DEF SortedKeys

LEMMA SamePacking ==
    ASSUME NEW c, NEW order \in HashOrders
    PROVE  MsgPackData(TheDictionary(c), Among(order, DOMAIN TheDictionary(c))) = ThePacking(c)
<1> DEFINE d == TheDictionary(c)
<1>1. DOMAIN d \subseteq DOMAIN Property
  BY DictionaryKeys
<1> HIDE DEF d
<1>2. SortedKeys(Among(order, DOMAIN d)) = Among(KeyOrder, DOMAIN d)
  BY <1>1, StorageAssumption, SameKeys
<1>3. SortedKeys(Among(KeyOrder, DOMAIN d)) = Among(KeyOrder, DOMAIN d)
  BY <1>1, CodecAssumption, SameKeys
<1> QED BY <1>2, <1>3 DEF MsgPackData, ThePacking, d

-----------------------------------------------------------------------------
(* The inductive invariant: each blob is what a save made of the values    *)

Made(c, blob) ==
    \/ blob = ThePacking(c)
    \/ blob = JSONBlob(TheDictionary(c)) /\ \A n \in DOMAIN TheDictionary(c) : HasJSON(TheDictionary(c)[n])

BlobsMade ==
    /\ DOMAIN tree = Refs /\ DOMAIN saved = Refs
    /\ useJSON \in BOOLEAN
    /\ now \in 0..MaxTime
    /\ \A r \in Refs : \/ saved[r] = None /\ tree[r] = NoBlob
                       \/ saved[r] \in Contents[r] /\ Made(saved[r], tree[r])

LEMMA SaveMakes ==
    ASSUME NEW r \in Refs, NEW c \in Contents[r], Save(r, c)
    PROVE  /\ \E blob : tree' = [tree EXCEPT ![r] = blob] /\ Made(c, blob)
           /\ saved' = [saved EXCEPT ![r] = c] /\ UNCHANGED <<useJSON, now>>
<1>1. IsContent(c)
  BY StorageAssumption
<1>2. PICK e \in Enumerations(c) :
          \/ \E order \in HashOrders : SaveMsgPack(r, c, Dictionary(c, e), order)
          \/ SaveJSON(r, c, Dictionary(c, e))
  BY DEF Save
<1>3. Dictionary(c, e) = TheDictionary(c)
  BY <1>1, SameDictionary
<1>4. CASE SaveJSON(r, c, Dictionary(c, e))
  BY <1>3, <1>4 DEF SaveJSON, Made, Save
<1>5. CASE \E order \in HashOrders : SaveMsgPack(r, c, Dictionary(c, e), order)
  <2>1. PICK order \in HashOrders : SaveMsgPack(r, c, TheDictionary(c), order)
    BY <1>3, <1>5
  <2>2. tree' = [tree EXCEPT ![r] = ThePacking(c)]
    BY <2>1, SamePacking DEF SaveMsgPack
  <2> QED BY <2>2 DEF Made, Save
<1> QED BY <1>2, <1>4, <1>5

LEMMA BlobsMadeNext ==
    ASSUME BlobsMade, [Next]_vars
    PROVE  BlobsMade'
<1> USE DEF BlobsMade
<1>1. ASSUME NEW r \in Refs, NEW c \in Contents[r], Save(r, c)
      PROVE  BlobsMade'
  <2>1. PICK blob : tree' = [tree EXCEPT ![r] = blob] /\ Made(c, blob)
    BY <1>1, SaveMakes
  <2>2. saved' = [saved EXCEPT ![r] = c] /\ UNCHANGED <<useJSON, now>>
    BY <1>1, SaveMakes
  <2> QED BY <2>1, <2>2
<1>2. ASSUME NEW r \in Refs, Delete(r)
      PROVE  BlobsMade'
  BY <1>2 DEF Delete
<1>3. CASE SetUseJSON
  BY <1>3 DEF SetUseJSON
<1>4. CASE Reopen
  BY <1>4 DEF Reopen
<1>5. CASE Tick
  BY <1>5, StorageAssumption DEF Tick
<1>6. CASE UNCHANGED vars
  BY <1>6 DEF vars
<1> QED BY <1>1, <1>2, <1>3, <1>4, <1>5, <1>6 DEF Next

LEMMA BlobsMadeAlways == Spec => []BlobsMade
<1>1. Init => BlobsMade
  <2>1. 0 \in 0..MaxTime
    BY StorageAssumption
  <2> QED BY <2>1 DEF Init, BlobsMade
<1>2. BlobsMade /\ [Next]_vars => BlobsMade'
  BY BlobsMadeNext
<1> QED BY <1>1, <1>2, PTL DEF Spec

-----------------------------------------------------------------------------
(* Types, and what the same values make                                    *)

LEMMA PackingFormat ==
    ASSUME NEW c
    PROVE  ThePacking(c).format \in {"empty", "msgpack"}
BY DEF ThePacking, MsgPackData, EmptyBlob, MsgPackBlob

LEMMA MadeFormat ==
    ASSUME NEW c, NEW blob, Made(c, blob)
    PROVE  /\ blob.format \in {"empty", "msgpack", "json"} /\ blob # NoBlob
           /\ blob.format = "json" =>
                  /\ blob = JSONBlob(TheDictionary(c))
                  /\ \A n \in DOMAIN TheDictionary(c) : HasJSON(TheDictionary(c)[n])
           /\ blob.format # "json" => blob = ThePacking(c)
<1>1. JSONBlob(TheDictionary(c)).format = "json" /\ NoBlob.format = "none"
  BY DEF JSONBlob, NoBlob
<1>2. CASE blob = ThePacking(c)
  BY <1>1, <1>2, PackingFormat
<1>3. CASE /\ blob = JSONBlob(TheDictionary(c))
           /\ \A n \in DOMAIN TheDictionary(c) : HasJSON(TheDictionary(c)[n])
  BY <1>1, <1>3
<1> QED BY <1>2, <1>3 DEF Made

\* The objects that have a blob are those that have values, which Core Data gave them.
LEMMA ObjectsSaved ==
    ASSUME BlobsMade, NEW r \in Refs
    PROVE  \/ tree[r] = NoBlob /\ saved[r] = None
           \/ /\ tree[r] # NoBlob /\ saved[r] # None
              /\ saved[r] \in Contents[r] /\ IsContent(saved[r]) /\ Made(saved[r], tree[r])
<1>1. CASE saved[r] = None /\ tree[r] = NoBlob
  BY <1>1
<1>2. CASE saved[r] \in Contents[r] /\ Made(saved[r], tree[r])
  <2>1. IsContent(saved[r])
    BY <1>2, StorageAssumption
  <2>2. saved[r] # None
    BY <2>1 DEF IsContent
  <2> QED BY <1>2, <2>1, <2>2, MadeFormat
<1> QED BY <1>1, <1>2 DEF BlobsMade

\* An object is in the tree exactly if it was saved, and with a blob of a known format
\* (ObjectStorage's TypeOK).
THEOREM TypeCorrect == Spec => []TypeOK
<1>1. BlobsMade => TypeOK
  <2> SUFFICES ASSUME BlobsMade PROVE TypeOK
    OBVIOUS
  <2>1. ASSUME NEW r \in Refs
        PROVE  /\ tree[r].format \in Formats
               /\ saved[r] \in Contents[r] \cup {None}
               /\ saved[r] = None <=> tree[r] = NoBlob
    <3>1. NoBlob.format = "none"
      BY DEF NoBlob
    <3>2. Made(saved[r], tree[r]) => tree[r].format \in {"empty", "msgpack", "json"}
      BY MadeFormat
    <3> QED BY <3>1, <3>2, ObjectsSaved DEF Formats
  <2> QED BY <2>1 DEF BlobsMade, TypeOK
<1> QED BY <1>1, BlobsMadeAlways, PTL

\* Saving values again, in the same format, leaves the blob as it was: neither the
\* order of a relationship's members nor that of the keys shows (the comments at lines
\* 152 and 158 of GitIncrementalStore.m).
THEOREM SameValuesMakeSameBlob == Spec => SameValuesSameBlob
<1>1. ASSUME BlobsMade, BlobsMade'
      PROVE  \A r \in Refs :
                 saved'[r] = saved[r] /\ tree'[r].format = tree[r].format => tree'[r] = tree[r]
  <2> SUFFICES ASSUME NEW r \in Refs, saved'[r] = saved[r], tree'[r].format = tree[r].format
               PROVE  tree'[r] = tree[r]
    OBVIOUS
  <2>1. \/ tree[r] = NoBlob /\ saved[r] = None
        \/ saved[r] # None /\ Made(saved[r], tree[r])
    BY <1>1, ObjectsSaved
  <2>2. \/ tree'[r] = NoBlob /\ saved'[r] = None
        \/ saved'[r] \in Contents[r] /\ IsContent(saved'[r]) /\ Made(saved'[r], tree'[r])
    <3>1. \/ saved'[r] = None /\ tree'[r] = NoBlob
          \/ saved'[r] \in Contents[r] /\ Made(saved'[r], tree'[r])
      BY <1>1 DEF BlobsMade
    <3> QED BY <3>1, StorageAssumption
  <2>3. CASE saved[r] = None
    <3>1. ~IsContent(saved'[r])
      BY <2>3 DEF IsContent
    <3> QED BY <2>1, <2>2, <2>3, <3>1
  <2>4. CASE saved[r] # None
    <3>1. Made(saved[r], tree[r]) /\ Made(saved[r], tree'[r])
      BY <2>1, <2>2, <2>4
    <3> QED BY <3>1, MadeFormat
  <2> QED BY <2>3, <2>4
<1>2. BlobsMade /\ BlobsMade' =>
          [\A r \in Refs :
              saved'[r] = saved[r] /\ tree'[r].format = tree[r].format => tree'[r] = tree[r]]_vars
  BY <1>1
<1> QED BY <1>2, BlobsMadeAlways, PTL DEF SameValuesSameBlob

-----------------------------------------------------------------------------
(* What is packed is unpacked                                              *)

\* The form of a number holds it, or is the integer that is wide enough for any.
LEMMA FormHolds ==
    ASSUME NEW n \in DOMAIN Holds
    PROVE  NumberForm(n) \in Holds[n] \cup {"uint64"}
<1>1. Holds[n] \subseteq CTypes
  BY CodecAssumption
<1>2. CASE "int32" \in Holds[n]
  BY <1>2 DEF NumberForm
<1>3. CASE "int32" \notin Holds[n] /\ "float" \in Holds[n]
  <2>1. Holds[n] \cap {"int32", "float"} = {"float"}
    BY <1>3
  <2>2. Holds[n] \cap {"int32", "float", "int64"} # {"int64"} /\ Holds[n] # {"double"} /\ Holds[n] # {}
    BY <1>3
  <2> QED BY <1>3, <2>1, <2>2 DEF NumberForm
<1>4. CASE "int32" \notin Holds[n] /\ "float" \notin Holds[n] /\ "int64" \in Holds[n]
  <2>1. Holds[n] \cap {"int32", "float", "int64"} = {"int64"}
    BY <1>4
  <2>2. Holds[n] \cap {"int32", "float"} # {"float"} /\ Holds[n] # {"double"} /\ Holds[n] # {}
    BY <1>4
  <2> QED BY <1>4, <2>1, <2>2 DEF NumberForm
<1>5. CASE Holds[n] = {"double"}
  <2>1. Holds[n] \cap {"int32", "float"} # {"float"} /\ "int32" \notin Holds[n]
        /\ Holds[n] \cap {"int32", "float", "int64"} # {"int64"} /\ Holds[n] # {}
    BY <1>5
  <2> QED BY <1>5, <2>1 DEF NumberForm
<1>6. CASE Holds[n] = {}
  <2>1. Holds[n] \cap {"int32", "float"} # {"float"} /\ "int32" \notin Holds[n]
        /\ Holds[n] \cap {"int32", "float", "int64"} # {"int64"} /\ Holds[n] # {"double"}
    BY <1>6
  <2> QED BY <1>6, <2>1 DEF NumberForm
<1>7. \/ "int32" \in Holds[n] \/ "float" \in Holds[n] \/ "int64" \in Holds[n]
      \/ Holds[n] = {"double"} \/ Holds[n] = {}
  BY <1>1 DEF CTypes
<1> QED BY <1>2, <1>3, <1>4, <1>5, <1>6, <1>7

LEMMA NumberUnpacked ==
    ASSUME NEW n \in DOMAIN Holds
    PROVE  Unpacked(Packed(Number(n))) = Number(n)
<1> DEFINE o == [type |-> "number", form |-> NumberForm(n), n |-> n]
<1>1. Packed(Number(n)) = o
  BY DEF Packed, Number
<1>2. o.type = "number" /\ o.form \in Holds[n] \cup {"uint64"} /\ o.n = n
  BY FormHolds
<1> HIDE DEF o
<1>3. Unpacked(o) = Number(n)
  BY <1>2 DEF Unpacked
<1> QED BY <1>1, <1>3

LEMMA BoolUnpacked ==
    ASSUME NEW b
    PROVE  Unpacked(Packed(Bool(b))) = Bool(b)
<1>1. Packed(Bool(b)) = [type |-> "boolean", boolean |-> b]
  BY DEF Packed, Bool, Boolean
<1>2. Unpacked([type |-> "boolean", boolean |-> b]) = Bool(b)
  BY DEF Unpacked
<1> QED BY <1>1, <1>2

LEMMA StringUnpacked ==
    ASSUME NEW text
    PROVE  Unpacked(Packed(String(text))) = String(text)
<1>1. Packed(String(text)) = [type |-> "text", text |-> text]
  BY DEF Packed, String, PackedText
<1>2. Unpacked([type |-> "text", text |-> text]) = String(text)
  BY DEF Unpacked
<1> QED BY <1>1, <1>2

LEMMA ListUnpacked ==
    ASSUME NEW E, NEW refs \in Seq(E)
    PROVE  Unpacked(Packed(List(refs))) = List(refs)
<1> DEFINE texts == [i \in DOMAIN refs |-> PackedText(<<refs[i]>>)]
<1>1. Packed(List(refs)) = [type |-> "array", array |-> texts]
  BY DEF Packed, List, Array
<1>2. DOMAIN texts = DOMAIN refs /\ \A i \in DOMAIN refs : texts[i].text = <<refs[i]>>
  BY DEF PackedText
<1> HIDE DEF texts
<1>3. Unpacked([type |-> "array", array |-> texts]) = List([i \in DOMAIN texts |-> Head(texts[i].text)])
  BY DEF Unpacked
<1>4. ASSUME NEW i \in DOMAIN refs PROVE Head(texts[i].text) = refs[i]
  BY <1>2
<1>5. [i \in DOMAIN texts |-> Head(texts[i].text)] = [i \in DOMAIN refs |-> refs[i]]
  BY <1>2, <1>4
<1>6. [i \in DOMAIN refs |-> refs[i]] = refs
  OBVIOUS
<1> QED BY <1>1, <1>3, <1>5, <1>6
-----------------------------------------------------------------------------
(* The property dictionary restores the values                             *)

TheEntry(n, c) == Entry(n, c, Listed(c))

LEMMA DictionaryIs ==
    ASSUME NEW c
    PROVE  /\ DOMAIN TheDictionary(c) = {n \in Permanent : TheEntry(n, c) # None}
           /\ \A n \in DOMAIN TheDictionary(c) : TheDictionary(c)[n] = TheEntry(n, c)
BY DEF TheDictionary, Dictionary, TheEntry

LEMMA InDictionary ==
    ASSUME NEW c, NEW n \in DOMAIN Property, ~Property[n].transient
    PROVE  /\ n \in DOMAIN TheDictionary(c) <=> TheEntry(n, c) # None
           /\ n \in DOMAIN TheDictionary(c) => TheDictionary(c)[n] = TheEntry(n, c)
<1>1. n \in Permanent
  BY DEF Permanent
<1>2. DOMAIN TheDictionary(c) = {m \in Permanent : TheEntry(m, c) # None}
  BY DictionaryIs
<1>3. n \in DOMAIN TheDictionary(c) <=> TheEntry(n, c) # None
  BY <1>1, <1>2
<1> QED BY <1>3, DictionaryIs

LEMMA TransientLeftOut ==
    ASSUME NEW c, NEW n \in DOMAIN Property, Property[n].transient
    PROVE  n \notin DOMAIN TheDictionary(c)
BY DictionaryIs DEF Permanent

LEMMA KindOf ==
    ASSUME NEW n \in DOMAIN Property
    PROVE  /\ n \in Attributes <=> Property[n].kind = "attribute"
           /\ n \in Unordered <=> Property[n].kind = "many"
           /\ n \in Permanent <=> ~Property[n].transient
           /\ Property[n].kind \in {"attribute", "one", "many", "ordered"}
           /\ Property[n].type \in {"plain", "date", "base64"}
BY CodecAssumption DEF Attributes, Unordered, Permanent

LEMMA PlainRestored ==
    ASSUME NEW c, NEW n \in DOMAIN Property, NEW t,
           Property[n].kind = "attribute", Property[n].type = "plain"
    PROVE  LET kept == IF Property[n].transient THEN None ELSE c[n]
           IN  Restored(n, TheDictionary(c), t) = IF kept = None THEN Property[n].default ELSE kept
<1>1. Restored(n, TheDictionary(c), t) = OrDefault(n, TheDictionary(c))
  BY KindOf DEF Restored
<1>2. CASE Property[n].transient
  BY <1>1, <1>2, TransientLeftOut DEF OrDefault
<1>3. CASE ~Property[n].transient
  <2>1. TheEntry(n, c) = IF c[n] = Property[n].default THEN None ELSE c[n]
    BY DEF TheEntry, Entry
  <2>2. n \in DOMAIN TheDictionary(c) <=> c[n] # Property[n].default /\ c[n] # None
    <3>1. n \in DOMAIN TheDictionary(c) <=> TheEntry(n, c) # None
      BY <1>3, InDictionary
    <3> QED BY <2>1, <3>1
  <2>3. n \in DOMAIN TheDictionary(c) => TheDictionary(c)[n] = c[n]
    BY <1>3, <2>1, <2>2, InDictionary
  <2> QED BY <1>1, <1>3, <2>2, <2>3 DEF OrDefault
<1> QED BY <1>2, <1>3

\* A date is read as late after now as it was after the reference date.
LEMMA DateRestored ==
    ASSUME NEW c, NEW n \in DOMAIN Property, IsDate(n)
    PROVE  Restored(n, TheDictionary(c), now) = DateRead(n, c)
<1> DEFINE m == IF c[n] = None THEN 0 ELSE c[n].t
<1>0. Property[n].kind = "attribute" /\ Property[n].type = "date" /\ Property[n].default = None
  BY KindOf, CodecAssumption DEF IsDate
<1>1. Restored(n, TheDictionary(c), now) = Reversed("date", OrDefault(n, TheDictionary(c)), now)
  BY <1>0, KindOf DEF Restored
<1>2. CASE Property[n].transient
  <2>1. OrDefault(n, TheDictionary(c)) = None
    BY <1>0, <1>2, TransientLeftOut DEF OrDefault
  <2> QED BY <1>1, <1>2, <2>1 DEF Reversed, DateRead
<1>3. CASE ~Property[n].transient
  <2>1. TheEntry(n, c) = Number(m)
    BY <1>0 DEF TheEntry, Entry, Transformed
  <2>2. Number(m) # None /\ Number(m).n = m
    <3> HIDE DEF m
    <3> QED BY DEF Number, None
  <2>3. OrDefault(n, TheDictionary(c)) = Number(m)
    BY <1>3, <2>1, <2>2, InDictionary DEF OrDefault
  <2>4. Reversed("date", Number(m), now) = Date(now + m)
    BY <2>2 DEF Reversed
  <2> QED BY <1>1, <1>3, <2>3, <2>4 DEF DateRead
<1> QED BY <1>2, <1>3

LEMMA CodedDecoded ==
    ASSUME NEW bytes \in Seq(Nat)
    PROVE  Tail(<<Coded>> \o bytes) = bytes
<1>1. <<Coded>> \in Seq(Nat) /\ Len(<<Coded>>) = 1
  BY DEF Coded
<1> QED BY <1>1

LEMMA Base64Restored ==
    ASSUME NEW c, IsContent(c), NEW n \in DOMAIN Property, NEW t,
           Property[n].kind = "attribute", Property[n].type = "base64"
    PROVE  LET kept == IF Property[n].transient THEN None ELSE c[n]
           IN  Restored(n, TheDictionary(c), t) = kept
<1>1. Restored(n, TheDictionary(c), t) = Reversed("base64", OrDefault(n, TheDictionary(c)), t)
  BY KindOf DEF Restored
<1>0. Property[n].default = None
  BY CodecAssumption
<1>2. CASE Property[n].transient
  BY <1>0, <1>1, <1>2, TransientLeftOut DEF OrDefault, Reversed
<1>3. CASE ~Property[n].transient /\ c[n] = None
  <2>1. TheEntry(n, c) = None
    BY <1>3 DEF TheEntry, Entry, Transformed
  <2> QED BY <1>0, <1>1, <1>3, <2>1, InDictionary DEF OrDefault, Reversed
<1>4. CASE ~Property[n].transient /\ c[n] # None
  <2>1. c[n] = Data(c[n].bytes) /\ c[n].bytes \in Seq(Nat)
    BY <1>4, KindOf DEF IsContent
  <2> DEFINE text == <<Coded>> \o c[n].bytes
  <2>2. TheEntry(n, c) = String(text)
    BY <1>4 DEF TheEntry, Entry, Transformed
  <2>3. Tail(text) = c[n].bytes
    BY <2>1, CodedDecoded
  <2> HIDE DEF text
  <2>4. String(text) # None /\ String(text).text = text
    BY DEF String, None
  <2>5. OrDefault(n, TheDictionary(c)) = String(text)
    BY <1>4, <2>2, <2>4, InDictionary DEF OrDefault
  <2>6. Reversed("base64", String(text), t) = Data(c[n].bytes)
    BY <2>3, <2>4 DEF Reversed
  <2> QED BY <1>1, <1>4, <2>1, <2>5, <2>6
<1> QED BY <1>2, <1>3, <1>4

LEMMA RelationshipRestored ==
    ASSUME NEW c, IsContent(c), NEW n \in DOMAIN Property, NEW t,
           Property[n].kind # "attribute"
    PROVE  Restored(n, TheDictionary(c), t) =
               IF Property[n].transient THEN None
               ELSE CASE Property[n].kind = "one"     -> c[n]
                      [] Property[n].kind = "many"    -> List(Among(RefOrder, c[n]))
                      [] Property[n].kind = "ordered" -> List(c[n])
<1> DEFINE d == TheDictionary(c)
<1>1. Restored(n, d, t) = IF n \in DOMAIN d THEN d[n] ELSE None
  BY KindOf DEF Restored
<1>2. CASE Property[n].transient
  BY <1>1, <1>2, TransientLeftOut
<1>3. CASE ~Property[n].transient
  <2>1. Restored(n, d, t) = TheEntry(n, c)
    <3>1. /\ n \in DOMAIN d <=> TheEntry(n, c) # None
          /\ n \in DOMAIN d => d[n] = TheEntry(n, c)
      BY <1>3, InDictionary
    <3> HIDE DEF d
    <3> QED BY <1>1, <3>1
  <2>2. CASE Property[n].kind = "one"
    BY <1>3, <2>1, <2>2 DEF TheEntry, Entry
  <2>3. CASE Property[n].kind = "many"
    <3>1. Sorted(Listed(c)[n]) = Among(RefOrder, c[n])
      BY <2>3, KindOf, SortedListed
    <3> QED BY <1>3, <2>1, <2>3, <3>1 DEF TheEntry, Entry
  <2>4. CASE Property[n].kind = "ordered"
    BY <1>3, <2>1, <2>4 DEF TheEntry, Entry
  <2> QED BY <2>2, <2>3, <2>4, KindOf
<1> QED BY <1>2, <1>3

\* Of every property but a date, what was saved is read.
LEMMA DictionaryRestores ==
    ASSUME NEW c, IsContent(c), NEW n \in DOMAIN Property, ~IsDate(n),
           NEW v, v[n] = Restored(n, TheDictionary(c), now)
    PROVE  SameValue(n, c, v)
<1>1. CASE n \in Attributes /\ Property[n].type = "plain"
  <2>1. Property[n].kind = "attribute"
    BY <1>1 DEF Attributes
  <2> QED BY <1>1, <2>1, PlainRestored DEF SameValue
<1>2. CASE n \in Attributes /\ Property[n].type = "base64"
  <2>1. Property[n].default = None /\ Property[n].kind = "attribute"
    BY <1>2, CodecAssumption DEF Attributes
  <2> QED BY <1>2, <2>1, Base64Restored DEF SameValue
<1>3. CASE n \notin Attributes
  <2>1. Property[n].kind \in {"one", "many", "ordered"}
    BY <1>3, KindOf DEF Attributes
  <2>2. CASE Property[n].transient
    BY <1>3, <2>1, <2>2, RelationshipRestored DEF SameValue
  <2>3. CASE ~Property[n].transient /\ Property[n].kind = "one"
    BY <1>3, <2>3, RelationshipRestored DEF SameValue
  <2>4. CASE ~Property[n].transient /\ Property[n].kind = "ordered"
    BY <1>3, <2>4, RelationshipRestored DEF SameValue
  <2>5. CASE ~Property[n].transient /\ Property[n].kind = "many"
    <3>1. v[n] = List(Among(RefOrder, c[n]))
      BY <2>5, RelationshipRestored
    <3>2. Among(RefOrder, c[n]) \in SetToSeqs(c[n])
      BY <2>5, KindOf, MembersOf, SortedListing
    <3>3. List(Among(RefOrder, c[n])).refs = Among(RefOrder, c[n])
      BY DEF List
    <3>4. v[n] = List(v[n].refs) /\ v[n].refs \in SetToSeqs(c[n])
      BY <3>1, <3>2, <3>3
    <3> QED BY <1>3, <2>5, <3>4 DEF SameValue
  <2> QED BY <2>1, <2>2, <2>3, <2>4, <2>5
<1>4. n \in Attributes => Property[n].type \in {"plain", "base64"}
  BY CodecAssumption DEF IsDate
<1> QED BY <1>1, <1>2, <1>3, <1>4
-----------------------------------------------------------------------------
(* What a blob is read as                                                  *)

\* Data are unpacked as a text if they begin with a mark, and without three bytes.
LEMMA DataUnpacked ==
    ASSUME NEW bytes, Len(bytes) >= 3
    PROVE  Unpacked(Packed(Data(bytes))) = DataRead(bytes)
<1> DEFINE rest == SubSeq(bytes, 4, Len(bytes))
<1>1. Packed(Data(bytes)) = IF IsPrefix(BOM, bytes) THEN PackedText(rest) ELSE Raw(bytes)
  BY DEF Packed, Data, PackedData
<1>2. Unpacked(Raw(bytes)) = Data(rest)
  BY DEF Unpacked, Raw
<1> HIDE DEF rest
<1>3. Unpacked(PackedText(rest)) = String(rest)
  BY DEF Unpacked, PackedText
<1> QED BY <1>1, <1>2, <1>3 DEF DataRead, rest

\* What is in the dictionary for data without a transformer.
LEMMA DataEntry ==
    ASSUME NEW c, IsContent(c), NEW n \in DOMAIN Property, IsPlainData(n, c)
    PROVE  /\ n \in DOMAIN TheDictionary(c) /\ TheDictionary(c)[n] = c[n]
           /\ c[n] = Data(c[n].bytes)
<1>1. Property[n].kind = "attribute" /\ Property[n].type = "plain" /\ ~Property[n].transient
  BY KindOf DEF IsPlainData
<1>2. c[n] = Data(c[n].bytes) /\ c[n] # None
  <2>1. PlainValue(c[n])
    BY <1>1, KindOf DEF IsContent
  <2>2. c[n].is = "data"
    BY DEF IsPlainData
  <2> QED BY <2>1, <2>2 DEF PlainValue, None, Number, Bool, String, Date
<1>3. TheEntry(n, c) = c[n]
  BY <1>1 DEF TheEntry, Entry, IsPlainData
<1> QED BY <1>1, <1>2, <1>3, InDictionary

\* An entry, other than data, is unpacked as it was packed.
LEMMA EntryUnpacked ==
    ASSUME NEW c, IsContent(c), NEW n \in DOMAIN TheDictionary(c),
           HasMsgPack(TheDictionary(c)[n]),
           Property[n].kind = "attribute" /\ Property[n].type = "plain" => c[n].is # "data"
    PROVE  Unpacked(Packed(TheDictionary(c)[n])) = TheDictionary(c)[n]
<1> DEFINE v == TheDictionary(c)[n]
<1>1. /\ n \in DOMAIN Property /\ ~Property[n].transient
      /\ v = TheEntry(n, c) /\ v # None /\ v.is # "date"
  BY DictionaryIs DEF Permanent, HasMsgPack
<1> HIDE DEF v
<1>2. CASE Property[n].kind = "attribute" /\ Property[n].type = "plain"
  <2>1. v = c[n] /\ PlainValue(v) /\ v.is # "data"
    <3>1. v = c[n]
      BY <1>1, <1>2 DEF TheEntry, Entry
    <3>2. PlainValue(c[n])
      BY <1>1, <1>2, KindOf DEF IsContent
    <3> QED BY <1>2, <3>1, <3>2
  <2>2. \/ v.n \in DOMAIN Holds /\ v = Number(v.n)
        \/ v = Bool(v.b)
        \/ v = String(v.text)
    BY <1>1, <2>1 DEF PlainValue
  <2>3. Unpacked(Packed(v)) = v
    BY <2>2, NumberUnpacked, BoolUnpacked, StringUnpacked
  <2> QED BY <2>3 DEF v
<1>3. CASE Property[n].kind = "attribute" /\ Property[n].type = "date"
  <2>1. v = Number(IF c[n] = None THEN 0 ELSE c[n].t)
    BY <1>1, <1>3 DEF TheEntry, Entry, Transformed
  <2>2. (IF c[n] = None THEN 0 ELSE c[n].t) \in DOMAIN Holds
    <3>1. c[n] = None \/ c[n].t \in DOMAIN Holds
      BY <1>1, <1>3, KindOf DEF IsContent
    <3> QED BY <3>1, CodecAssumption
  <2>3. Unpacked(Packed(v)) = v
    BY <2>1, <2>2, NumberUnpacked
  <2> QED BY <2>3 DEF v
<1>4. CASE Property[n].kind = "attribute" /\ Property[n].type = "base64"
  <2>1. c[n] # None
    BY <1>1, <1>4 DEF TheEntry, Entry, Transformed
  <2>2. v = String(<<Coded>> \o c[n].bytes)
    BY <1>1, <1>4, <2>1 DEF TheEntry, Entry, Transformed
  <2>3. Unpacked(Packed(v)) = v
    BY <2>2, StringUnpacked
  <2> QED BY <2>3 DEF v
<1>5. CASE Property[n].kind = "one"
  <2>1. v = c[n]
    BY <1>1, <1>5 DEF TheEntry, Entry
  <2>2. PICK r \in Refs : v = Ref(r)
    BY <1>1, <1>5, <2>1 DEF IsContent
  <2>3. Unpacked(Packed(v)) = v
    BY <2>2, StringUnpacked DEF Ref
  <2> QED BY <2>3 DEF v
<1>6. CASE Property[n].kind = "many"
  <2>1. v = List(Sorted(Listed(c)[n]))
    BY <1>1, <1>6 DEF TheEntry, Entry
  <2>2. v = List(Among(RefOrder, c[n])) /\ Among(RefOrder, c[n]) \in Seq(Refs)
    BY <1>1, <1>6, <2>1, KindOf, SortedListed, MembersOf, SortedListing
  <2>3. Unpacked(Packed(v)) = v
    BY <2>2, ListUnpacked
  <2> QED BY <2>3 DEF v
<1>7. CASE Property[n].kind = "ordered"
  <2>1. v = List(c[n])
    BY <1>1, <1>7 DEF TheEntry, Entry
  <2>2. c[n] \in Seq(Refs)
    BY <1>1, <1>7 DEF IsContent
  <2>3. Unpacked(Packed(v)) = v
    BY <2>1, <2>2, ListUnpacked
  <2> QED BY <2>3 DEF v
<1> QED BY <1>1, <1>2, <1>3, <1>4, <1>5, <1>6, <1>7, KindOf

\* The map of a blob has the keys of the dictionary, each with its entry.
LEMMA PackingRead ==
    ASSUME NEW c, ThePacking(c).format = "msgpack"
    PROVE  LET d == TheDictionary(c)
           IN  /\ \A n \in DOMAIN d : HasMsgPack(d[n])
               /\ MsgPackObject(ThePacking(c)) =
                      ADictionary([n \in DOMAIN d |-> Unpacked(Packed(d[n]))])
<1> DEFINE d == TheDictionary(c)
           ks == Among(KeyOrder, DOMAIN d)
           entries == [i \in DOMAIN ks |-> <<ks[i], Packed(d[ks[i]])>>]
<1>0. DOMAIN d \subseteq DOMAIN Property
  BY DictionaryKeys
<1>1. SortedKeys(ks) = ks
  <2> HIDE DEF d
  <2> QED BY <1>0, CodecAssumption, SameKeys
<1>2. ThePacking(c) = IF \A n \in DOMAIN d : HasMsgPack(d[n]) THEN MsgPackBlob(entries) ELSE EmptyBlob
  <2> HIDE DEF ks
  <2>1. MsgPackData(d, ks) = IF \A n \in DOMAIN d : HasMsgPack(d[n])
            THEN MsgPackBlob([i \in DOMAIN SortedKeys(ks) |->
                     <<SortedKeys(ks)[i], Packed(d[SortedKeys(ks)[i]])>>])
            ELSE EmptyBlob
    BY DEF MsgPackData
  <2> QED BY <1>1, <2>1 DEF ThePacking, ks
<1>3. /\ \A n \in DOMAIN d : HasMsgPack(d[n])
      /\ ThePacking(c) = MsgPackBlob(entries)
  <2> HIDE DEF entries, d
  <2>1. EmptyBlob.format = "empty"
    BY DEF EmptyBlob
  <2> QED BY <1>2, <2>1
<1>4. ks \in Seq(DOMAIN Property) /\ ToSet(ks) = DOMAIN d
  <2>1. ks \in Seq(DOMAIN Property) /\ ToSet(ks) = ToSet(KeyOrder) \cap DOMAIN d
    BY CodecAssumption, AmongElements
  <2> QED BY <1>0, <2>1, CodecAssumption
<1> DEFINE es == ToSet(entries)
<1>5. es = {<<n, Packed(d[n])>> : n \in DOMAIN d}
  <2>1. ToSet(ks) = {ks[i] : i \in DOMAIN ks}
    BY DEF ToSet
  <2>2. ToSet(entries) = {<<ks[i], Packed(d[ks[i]])>> : i \in DOMAIN ks}
    BY DEF ToSet
  <2> HIDE DEF ks, d, entries
  <2> QED BY <1>4, <2>1, <2>2
<1> HIDE DEF es, entries, ks, d
<1>6. {e[1] : e \in es} = DOMAIN d
  <2>1. \A n \in DOMAIN d : <<n, Packed(d[n])>> \in es /\ <<n, Packed(d[n])>>[1] = n
    BY <1>5
  <2>2. \A e \in es : e[1] \in DOMAIN d
    BY <1>5
  <2> QED BY <2>1, <2>2
<1> DEFINE at(n) == CHOOSE e \in es : e[1] = n
<1>7. ASSUME NEW n \in DOMAIN d PROVE at(n) = <<n, Packed(d[n])>>
  <2>1. <<n, Packed(d[n])>> \in es /\ \A e \in es : e[1] = n => e = <<n, Packed(d[n])>>
    BY <1>5
  <2> QED BY <2>1
<1>8. MsgPackObject(MsgPackBlob(entries)) =
          ADictionary([n \in {e[1] : e \in es} |-> Unpacked(at(n)[2])])
  BY DEF MsgPackObject, MsgPackBlob, es
<1> HIDE DEF at
<1>9. ASSUME NEW n \in DOMAIN d PROVE Unpacked(at(n)[2]) = Unpacked(Packed(d[n]))
  <2>1. at(n)[2] = Packed(d[n])
    BY <1>7
  <2> QED BY <2>1
<1>10. [n \in {e[1] : e \in es} |-> Unpacked(at(n)[2])] = [n \in DOMAIN d |-> Unpacked(Packed(d[n]))]
  BY <1>6, <1>9
<1> QED BY <1>3, <1>8, <1>10 DEF d

\* What a serialization makes of the other one's blobs, and of an empty one.
LEMMA OthersRead ==
    ASSUME NEW blob
    PROVE  /\ blob.format = "empty" => MsgPackObject(blob) = NoObject
           /\ blob.format = "json" => MsgPackObject(blob) = ANumber
           /\ blob.format # "json" => JSONObject(blob) = NoObject
<1>1. HeaderCell(Brace).is = "value"
  BY DEF HeaderCell, Brace, Value
<1> QED BY <1>1 DEF MsgPackObject, JSONObject

LEMMA NoObjectValues ==
    ASSUME NEW u, NEW t
    PROVE  /\ NewValues(NoObject, u, t) \subseteq {Nothing, Raised}
           /\ NewValues(ANumber, u, t) = {Raised}
<1>1. NoObject.is = "nil" /\ ANumber.is = "number"
  BY DEF NoObject, ANumber
<1>2. NewValues(NoObject, u, t) \subseteq {Nothing, Raised}
  BY <1>1 DEF NewValues
<1>3. NewValues(ANumber, u, t) = {Raised}
  BY <1>1 DEF NewValues
<1> QED BY <1>2, <1>3

LEMMA DictionaryValues ==
    ASSUME NEW d, NEW u, NEW t
    PROVE  LET v == Values([n \in DOMAIN Property |-> Restored(n, d, t)])
           IN  /\ v \in NewValues(ADictionary(d), u, t)
               /\ NewValues(ADictionary(d), u, t) \subseteq {v, Raised}
<1>1. ADictionary(d).is = "dictionary" /\ ADictionary(d).entries = d
  BY DEF ADictionary
<1> QED BY <1>1 DEF NewValues
-----------------------------------------------------------------------------
(* What was saved is read                                                  *)

ReadsOf(r) == Reads(IdOf(r))

LEMMA ReadsAre ==
    ASSUME NEW r \in Objects
    PROVE  ReadsOf(r) = NewValues(IF useJSON THEN JSONObject(tree[r]) ELSE MsgPackObject(tree[r]),
                                  useJSON, now)
<1>1. IdOf(r).ref = r
  BY DEF IdOf, ID
<1> QED BY <1>1 DEF ReadsOf, Reads

\* What is claimed of a property.
BackAsSaved(r, v) == \A n \in DOMAIN Property : ComesBack(r, n, v)

LEMMA JSONRead ==
    ASSUME BlobsMade, NEW r \in Objects, useJSON, tree[r].format = "json"
    PROVE  \E v : /\ Values(v) \in ReadsOf(r) /\ ReadsOf(r) \subseteq {Values(v), Raised}
                  /\ BackAsSaved(r, v)
<1> DEFINE d == TheDictionary(saved[r])
           v == [n \in DOMAIN Property |-> Restored(n, d, now)]
<1>1. /\ tree[r] = JSONBlob(d) /\ IsContent(saved[r])
      /\ \A n \in DOMAIN d : HasJSON(d[n])
  BY ObjectsSaved, MadeFormat DEF Objects
<1>2. JSONObject(tree[r]) = ADictionary(d)
  <2> HIDE DEF d
  <2> QED BY <1>1 DEF JSONObject, JSONBlob
<1>3. ReadsOf(r) = NewValues(ADictionary(d), useJSON, now)
  BY <1>2, ReadsAre
<1>4. Values(v) \in ReadsOf(r) /\ ReadsOf(r) \subseteq {Values(v), Raised}
  <2> HIDE DEF d
  <2> QED BY <1>3, DictionaryValues
<1>5. ASSUME NEW n \in DOMAIN Property
      PROVE  ComesBack(r, n, v)
  <2>1. v[n] = Restored(n, TheDictionary(saved[r]), now)
    OBVIOUS
  <2>2. ~IsPlainData(n, saved[r])
    <3>1. IsPlainData(n, saved[r]) => HasJSON(saved[r][n])
      <4> HIDE DEF d
      <4> QED BY <1>1, DataEntry DEF d
    <3> QED BY <3>1 DEF HasJSON, IsPlainData
  <2> HIDE DEF v
  <2>3. CASE IsDate(n)
    BY <2>1, <2>3, DateRestored DEF ComesBack
  <2>4. CASE ~IsDate(n)
    <3>1. SameValue(n, saved[r], v)
      BY <1>1, <2>1, <2>4, DictionaryRestores
    <3> QED BY <2>2, <2>4, <3>1 DEF ComesBack
  <2> QED BY <2>3, <2>4
<1>6. BackAsSaved(r, v)
  <2> HIDE DEF v
  <2> QED BY <1>5 DEF BackAsSaved
<1> HIDE DEF v
<1> QED BY <1>4, <1>6

LEMMA MsgPackRead ==
    ASSUME BlobsMade, NEW r \in Objects, ~useJSON, tree[r].format = "msgpack"
    PROVE  \E v : /\ Values(v) \in ReadsOf(r) /\ ReadsOf(r) \subseteq {Values(v), Raised}
                  /\ BackAsSaved(r, v)
<1> DEFINE c == saved[r]
           d == TheDictionary(c)
           u == [n \in DOMAIN d |-> Unpacked(Packed(d[n]))]
           v == [n \in DOMAIN Property |-> Restored(n, u, now)]
<1>1. tree[r] = ThePacking(c) /\ IsContent(c)
  BY ObjectsSaved, MadeFormat DEF Objects
<1>2. /\ \A n \in DOMAIN d : HasMsgPack(d[n])
      /\ MsgPackObject(tree[r]) = ADictionary(u)
  BY <1>1, PackingRead
<1>3. ReadsOf(r) = NewValues(ADictionary(u), useJSON, now)
  BY <1>2, ReadsAre
<1>4. Values(v) \in ReadsOf(r) /\ ReadsOf(r) \subseteq {Values(v), Raised}
  <2> HIDE DEF u
  <2> QED BY <1>3, DictionaryValues
<1>5. ASSUME NEW n \in DOMAIN Property
      PROVE  ComesBack(r, n, v)
  <2>1. ASSUME n \in DOMAIN d, ~IsPlainData(n, c)
        PROVE  u[n] = d[n]
    <3>1. n \in Permanent
      BY <2>1, DictionaryKeys
    <3>2. Property[n].kind = "attribute" /\ Property[n].type = "plain" => c[n].is # "data"
      <4>1. Property[n].kind = "attribute" /\ Property[n].type = "plain" => c[n] # Property[n].default
        <5>1. d[n] = TheEntry(n, c) /\ TheEntry(n, c) # None
          <6> HIDE DEF c
          <6> QED BY <2>1, DictionaryIs
        <5> HIDE DEF u, d, v, c
        <5> QED BY <5>1 DEF TheEntry, Entry
      <4> QED BY <2>1, <3>1, <4>1 DEF IsPlainData, Attributes
    <3>3. Unpacked(Packed(d[n])) = d[n]
      BY <1>1, <1>2, <2>1, <3>2, EntryUnpacked
    <3> HIDE DEF d
    <3> QED BY <2>1, <3>3
  <2>2. DOMAIN u = DOMAIN d
    OBVIOUS
  <2>3. v[n] = Restored(n, u, now)
    OBVIOUS
  <2>4. CASE IsPlainData(n, c)
    <3>1. n \in DOMAIN d /\ d[n] = c[n] /\ c[n] = Data(c[n].bytes)
      BY <1>1, <2>4, DataEntry
    <3>2. u[n] = Unpacked(Packed(d[n]))
      BY <3>1
    <3>3. n \in Attributes /\ Property[n].type = "plain"
      BY <2>4 DEF IsPlainData
    <3> HIDE DEF u, d, v, c
    <3>4. v[n] = u[n]
      BY <2>2, <2>3, <3>1, <3>3 DEF Restored, OrDefault
    <3>5. Len(c[n].bytes) >= 3 => v[n] = DataRead(c[n].bytes)
      BY <3>1, <3>2, <3>4, DataUnpacked
    <3> QED BY <2>4, <3>3, <3>5 DEF ComesBack, IsDate, c
  <2>5. CASE ~IsPlainData(n, c)
    <3> HIDE DEF u, d, v
    <3>1. Restored(n, u, now) = Restored(n, d, now)
      BY <2>1, <2>2, <2>5 DEF Restored, OrDefault
    <3>2. v[n] = Restored(n, TheDictionary(c), now)
      BY <2>3, <3>1 DEF d
    <3>3. CASE IsDate(n)
      BY <3>2, <3>3, DateRestored DEF ComesBack
    <3>4. CASE ~IsDate(n)
      <4>1. SameValue(n, c, v)
        <5> HIDE DEF c
        <5> QED BY <1>1, <3>2, <3>4, DictionaryRestores
      <4> QED BY <2>5, <3>4, <4>1 DEF ComesBack
    <3> QED BY <3>3, <3>4
  <2> QED BY <2>4, <2>5
<1>6. BackAsSaved(r, v)
  <2> HIDE DEF v
  <2> QED BY <1>5 DEF BackAsSaved
<1> HIDE DEF v
<1> QED BY <1>4, <1>6

LEMMA OtherFormatRead ==
    ASSUME BlobsMade, NEW r \in Objects,
           tree[r].format # FormatInUse
    PROVE  ReadsOf(r) \subseteq {Raised, Nothing}
<1>1. tree[r].format \in {"empty", "msgpack", "json"}
  BY ObjectsSaved, MadeFormat DEF Objects
<1>2. CASE useJSON
  <2>1. JSONObject(tree[r]) = NoObject
    BY <1>2, OthersRead DEF FormatInUse
  <2>2. ReadsOf(r) = NewValues(NoObject, useJSON, now)
    BY <1>2, <2>1, ReadsAre
  <2> QED BY <2>2, NoObjectValues
<1>3. CASE ~useJSON
  <2>1. MsgPackObject(tree[r]) \in {NoObject, ANumber}
    BY <1>1, <1>3, OthersRead DEF FormatInUse
  <2>2. ReadsOf(r) = NewValues(MsgPackObject(tree[r]), useJSON, now)
    BY <1>3, ReadsAre
  <2> QED BY <2>1, <2>2, NoObjectValues
<1> QED BY <1>2, <1>3

\* Each blob that a save made is read as ReadBack says.
LEMMA BlobsReadBack == BlobsMade => ReadBack
<1>1. ASSUME BlobsMade, NEW r \in Objects
      PROVE  IF tree[r].format = FormatInUse
             THEN /\ \E v \in ReadsOf(r) : v.is = "values"
                  /\ \A v \in ReadsOf(r) \ {Raised} : v.is = "values" /\ BackAsSaved(r, v.of)
             ELSE ReadsOf(r) \subseteq {Raised, Nothing}
  <2>1. CASE tree[r].format = FormatInUse
    <3>1. PICK v : /\ Values(v) \in ReadsOf(r) /\ ReadsOf(r) \subseteq {Values(v), Raised}
                   /\ BackAsSaved(r, v)
      <4>1. CASE useJSON
        BY <1>1, <2>1, <4>1, JSONRead DEF FormatInUse
      <4>2. CASE ~useJSON
        BY <1>1, <2>1, <4>2, MsgPackRead DEF FormatInUse
      <4> QED BY <4>1, <4>2
    <3>2. Values(v).is = "values" /\ Values(v).of = v
      BY DEF Values
    <3> QED BY <2>1, <3>1, <3>2
  <2>2. CASE tree[r].format # FormatInUse
    BY <1>1, <2>2, OtherFormatRead
  <2> QED BY <2>1, <2>2
<1> QED BY <1>1 DEF ReadBack, ReadsOf, BackAsSaved

\* In every state, at any later time and after any restart, every property is read with
\* the value it was saved with, a date later by the time of the reading, and data without
\* a transformer without three bytes; an object that another serialization wrote, or
\* that MsgPack had no form for, is never read with values (newValuesForObjectWithID:
\* reads what saveRequest: wrote, lines 116-167, 299-330).
THEOREM WhatIsSavedIsRead == Spec => []ReadBack
BY BlobsReadBack, BlobsMadeAlways, PTL
-----------------------------------------------------------------------------
(* What is fetched: the objects that are asked for                         *)

\* The ids that match, and the ids of any objects that a fetch may make.
Match(req, prefix, read) == {id \in Asked(req, prefix) : req.predicate => NumberOf(read[id]) > 0}
Ids(req, prefix) == {ID(req.entity, prefix, r) : r \in Refs}
IdsOf(req, prefix, e) == {ID(req.entity, prefix, r) : r \in {o \in Objects : EntityOf[o] = e}}

LEMMA ReadsReadings ==
    ASSUME NEW S, NEW read \in Readings(S), NEW id \in S
    PROVE  read[id] \in Reads(id)
BY DEF Readings

\* No two objects get the same id in one fetch.
LEMMA SameIds ==
    ASSUME NEW e, NEW prefix, NEW r, NEW q
    PROVE  ID(e, prefix, r) = ID(e, prefix, q) <=> r = q
BY DEF ID

\* No entity is collected twice.
LEMMA EntitiesOnce ==
    ASSUME NEW req \in Requests
    PROVE  Collected(req) \in Seq(DOMAIN Subentities) /\ IsInjective(Collected(req))
<1> DEFINE e == req.entity
<1>1. e \in DOMAIN Subentities
  BY DEF Requests
<1>2. /\ Subentities[e] \in Seq(DOMAIN Subentities \ {e})
      /\ IsInjective(Subentities[e])
  BY <1>1, StorageAssumption
<1> HIDE DEF e
<1>3. /\ Subentities[e] \in Seq(DOMAIN Subentities)
      /\ e \notin ToSet(Subentities[e])
  BY <1>2 DEF ToSet
<1>4. CASE req.subentities
  <2>1. Collected(req) = Append(Subentities[e], e)
    BY <1>4 DEF Collected, e
  <2> QED BY <1>1, <1>2, <1>3, <2>1, OneMoreElement
<1>5. CASE ~req.subentities
  <2>1. Collected(req) = <<e>>
    BY <1>5 DEF Collected, e
  <2>2. <<e>> \in Seq(DOMAIN Subentities) /\ IsInjective(<<e>>)
    BY <1>1 DEF IsInjective
  <2> QED BY <2>1, <2>2
<1> QED BY <1>4, <1>5

LEMMA TreeObjects ==
    ASSUME NEW entity
    PROVE  /\ InTree(entity) \in Seq(Refs) /\ IsInjective(InTree(entity))
           /\ ToSet(InTree(entity)) = {r \in Objects : EntityOf[r] = entity}
<1> DEFINE S == {r \in Objects : EntityOf[r] = entity}
<1>1. S \subseteq Refs
  BY DEF Objects
<1> HIDE DEF S
<1>2. /\ Among(RefOrder, S) \in Seq(Refs) /\ ToSet(Among(RefOrder, S)) = ToSet(RefOrder) \cap S
      /\ IsInjective(Among(RefOrder, S))
  BY CodecAssumption, StorageAssumption, AmongElements
<1>3. ToSet(Among(RefOrder, S)) = S
  BY <1>1, <1>2, StorageAssumption
<1> QED BY <1>2, <1>3 DEF InTree, S

\* The ids that are made of the names in a tree.
LEMMA TreeIds ==
    ASSUME NEW req, NEW prefix, NEW i \in DOMAIN Collected(req)
    PROVE  /\ Found(req, prefix)[i] \in Seq(Ids(req, prefix))
           /\ IsInjective(Found(req, prefix)[i])
           /\ ToSet(Found(req, prefix)[i]) = IdsOf(req, prefix, Collected(req)[i])
           /\ Found(req, prefix)[i] = <<>> <=> InTree(Collected(req)[i]) = <<>>
<1> DEFINE names == InTree(Collected(req)[i])
           id(r) == ID(req.entity, prefix, r)
           ids == [j \in DOMAIN names |-> id(names[j])]
<1>1. Found(req, prefix)[i] = ids
  BY DEF Found
<1>2. /\ names \in Seq(Refs) /\ IsInjective(names)
      /\ ToSet(names) = {r \in Objects : EntityOf[r] = Collected(req)[i]}
  BY TreeObjects
<1> HIDE DEF names
<1>3. /\ Len(names) \in Nat /\ DOMAIN names = 1..Len(names)
      /\ \A j \in 1..Len(names) : names[j] \in Refs
  BY <1>2
<1>4. \A r, q : id(r) = id(q) => r = q
  BY SameIds
<1>5. \A r \in Refs : id(r) \in Ids(req, prefix)
  BY DEF Ids
<1> HIDE DEF id
<1>6. ids \in Seq(Ids(req, prefix)) /\ Len(ids) = Len(names)
  <2>1. ids \in [1..Len(names) -> Ids(req, prefix)]
    BY <1>3, <1>5
  <2> QED BY <1>3, <2>1
<1>7. IsInjective(ids)
  <2>1. \A j \in DOMAIN ids, k \in DOMAIN ids : ids[j] = ids[k] => names[j] = names[k]
    BY <1>4
  <2>2. \A j \in DOMAIN names, k \in DOMAIN names : names[j] = names[k] => j = k
    BY <1>2 DEF IsInjective
  <2> QED BY <2>1, <2>2 DEF IsInjective
<1>8. ToSet(ids) = {id(r) : r \in ToSet(names)}
  BY DEF ToSet
<1>9. ids = <<>> <=> names = <<>>
  BY <1>2, <1>3, <1>6
<1>10. ToSet(ids) = IdsOf(req, prefix, Collected(req)[i])
  BY <1>2, <1>8 DEF IdsOf, id
<1> HIDE DEF ids
<1> QED BY <1>1, <1>6, <1>7, <1>9, <1>10 DEF names

\* The fetch makes the id of each object that is asked for, once.
LEMMA AllFound ==
    ASSUME NEW req \in Requests, NEW prefix
    PROVE  /\ FlattenSeq(Found(req, prefix)) \in Seq(Ids(req, prefix))
           /\ IsInjective(FlattenSeq(Found(req, prefix)))
           /\ ToSet(FlattenSeq(Found(req, prefix))) = Asked(req, prefix)
<1> DEFINE es == Collected(req)
           n == Len(es)
           found == Found(req, prefix)
           id(r) == ID(req.entity, prefix, r)
           of(e) == {o \in Objects : EntityOf[o] = e}
<1>1. es \in Seq(DOMAIN Subentities) /\ IsInjective(es) /\ n \in Nat /\ DOMAIN es = 1..n
  BY EntitiesOnce
<1>2. DOMAIN found = 1..n /\ found = [i \in 1..n |-> found[i]]
  BY <1>1 DEF Found
<1>3. \A i \in 1..n : /\ found[i] \in Seq(Ids(req, prefix)) /\ IsInjective(found[i])
                     /\ ToSet(found[i]) = IdsOf(req, prefix, es[i])
  BY <1>1, TreeIds
<1>4. found \in Lists(Ids(req, prefix))
  <2> DEFINE I == Ids(req, prefix)
  <2>0. n \in Nat /\ found = [i \in 1..n |-> found[i]] /\ \A i \in 1..n : found[i] \in Seq(I)
    BY <1>1, <1>2, <1>3
  <2> HIDE DEF found, n, I
  <2>1. found \in Seq(Seq(Ids(req, prefix)))
    BY <2>0 DEF I
  <2> QED BY <2>1 DEF Lists
<1>5. Asked(req, prefix) = {id(r) : r \in {o \in Objects : EntityOf[o] \in ToSet(es)}}
  BY DEF Asked
<1>6. \A r, q : id(r) = id(q) => r = q
  BY SameIds
<1>10. \A e : IdsOf(req, prefix, e) = {id(r) : r \in of(e)}
  BY DEF IdsOf
<1> HIDE DEF found, es, n, id
<1>7. Apart(found)
  <2>1. ASSUME NEW i \in 1..n, NEW j \in 1..n, i # j
        PROVE  ToSet(found[i]) \cap ToSet(found[j]) = {}
    <3>1. es[i] # es[j]
      BY <1>1, <2>1 DEF IsInjective
    <3>2. ASSUME NEW x \in ToSet(found[i]), x \in ToSet(found[j])
          PROVE  FALSE
      <4>1. PICK r \in of(es[i]) : x = id(r)
        BY <1>3, <1>10
      <4>2. PICK q \in of(es[j]) : x = id(q)
        BY <1>3, <1>10, <3>2
      <4> QED BY <1>6, <3>1, <4>1, <4>2
    <3> QED BY <3>2
  <2> QED BY <1>2, <1>3, <2>1 DEF Apart
<1>8. Parts(found) = Asked(req, prefix)
  <2>1. ToSet(es) = {es[i] : i \in 1..n}
    BY <1>1 DEF ToSet
  <2>2. Parts(found) = UNION {ToSet(found[i]) : i \in 1..n}
    BY <1>2 DEF Parts
  <2>3. ASSUME NEW x \in Parts(found) PROVE x \in Asked(req, prefix)
    <3>1. PICK i \in 1..n : x \in ToSet(found[i])
      BY <2>2
    <3>2. PICK r \in of(es[i]) : x = id(r)
      BY <1>3, <1>10, <3>1
    <3> QED BY <1>5, <2>1, <3>2
  <2>4. ASSUME NEW x \in Asked(req, prefix) PROVE x \in Parts(found)
    <3>1. PICK r \in Objects : EntityOf[r] \in ToSet(es) /\ x = id(r)
      BY <1>5
    <3>2. PICK i \in 1..n : EntityOf[r] = es[i]
      BY <2>1, <3>1
    <3> QED BY <1>3, <1>10, <2>2, <3>1, <3>2
  <2> QED BY <2>3, <2>4
<1>9. FlattenSeq(found) \in Seq(Ids(req, prefix))
  BY <1>4, FlattenType
<1> QED BY <1>4, <1>7, <1>8, <1>9, FlattenElements DEF found

\* A tree that is missing has no object.
LEMMA MissingTree ==
    ASSUME NEW req \in Requests, NEW prefix, <<>> \in ToSet(Found(req, prefix))
    PROVE  \E e \in ToSet(Collected(req)) : \A r \in Objects : EntityOf[r] # e
<1>1. PICK i \in DOMAIN Found(req, prefix) : Found(req, prefix)[i] = <<>>
  BY DEF ToSet
<1>2. i \in DOMAIN Collected(req)
  BY DEF Found
<1> DEFINE e == Collected(req)[i]
<1>3. e \in ToSet(Collected(req))
  BY <1>2 DEF ToSet
<1>4. InTree(e) = <<>>
  BY <1>1, <1>2, TreeIds
<1>5. ToSet(<<>>) = {}
  BY DEF ToSet
<1>6. \A r \in Objects : EntityOf[r] # e
  <2> HIDE DEF e
  <2>1. ToSet(InTree(e)) = {r \in Objects : EntityOf[r] = e}
    BY TreeObjects
  <2> QED BY <1>4, <1>5, <2>1
<1> QED BY <1>3, <1>6

\* What the window is taken of: the ids that match, once, in the order asked for.
InOrder(req, read, u) ==
    req.sorted => \A i, j \in DOMAIN u : i < j => NumberOf(read[u[i]]) <= NumberOf(read[u[j]])

LEMMA FetchedMatches ==
    ASSUME NEW req \in Requests, NEW prefix, NEW read, NEW f \in Fetched(req, prefix, read)
    PROVE  \/ /\ f = Raised
              /\ \/ \E e \in ToSet(Collected(req)) : \A r \in Objects : EntityOf[r] # e
                 \/ \E id \in Asked(req, prefix) : read[id] = Raised
           \/ /\ f # Raised
              /\ f.of \in Seq(Ids(req, prefix)) /\ IsInjective(f.of) /\ ToSet(f.of) = Match(req, prefix, read)
              /\ InOrder(req, read, f.of)
<1> DEFINE s == FlattenSeq(Found(req, prefix))
           t == Chosen(req, s, read)
           raises == \/ <<>> \in ToSet(Found(req, prefix))
                     \/ req.predicate /\ \E id \in ToSet(s) : read[id] = Raised
                     \/ req.sorted /\ Len(t) > 1 /\ \E id \in ToSet(t) : read[id] = Raised
<1>1. s \in Seq(Ids(req, prefix)) /\ IsInjective(s) /\ ToSet(s) = Asked(req, prefix)
  BY AllFound
<1>2. Fetched(req, prefix, read) =
          IF raises THEN {Raised}
          ELSE {[is |-> "fetched", of |-> u] : u \in IF req.sorted THEN SortedBy(t, read) ELSE {t}}
  BY DEF Fetched
<1> HIDE DEF s
<1>3. t \in Seq(Ids(req, prefix)) /\ IsInjective(t) /\ ToSet(t) = Match(req, prefix, read)
  <2>1. CASE req.predicate
    <3> DEFINE S == {id \in ToSet(s) : NumberOf(read[id]) > 0}
    <3>1. t = Among(s, S)
      BY <2>1 DEF Chosen
    <3>2. S = Match(req, prefix, read) /\ S \subseteq ToSet(s)
      BY <1>1, <2>1 DEF Match
    <3> HIDE DEF S, t
    <3>3. /\ Among(s, S) \in Seq(Ids(req, prefix)) /\ ToSet(Among(s, S)) = ToSet(s) \cap S
          /\ IsInjective(Among(s, S))
      BY <1>1, AmongElements
    <3>4. ToSet(s) \cap S = S
      BY <3>2
    <3> QED BY <3>1, <3>2, <3>3, <3>4
  <2>2. CASE ~req.predicate
    <3>1. t = s /\ Match(req, prefix, read) = Asked(req, prefix)
      BY <2>2 DEF Chosen, Match
    <3> QED BY <1>1, <3>1
  <2> QED BY <2>1, <2>2
<1> HIDE DEF t
<1>4. CASE raises
  <2>1. f = Raised
    BY <1>2, <1>4
  <2>2. ToSet(t) \subseteq Asked(req, prefix)
    BY <1>3 DEF Match
  <2> QED BY <1>1, <1>4, <2>1, <2>2, MissingTree
<1>5. CASE ~raises
  <2> HIDE DEF raises
  <2>1. PICK u \in IF req.sorted THEN SortedBy(t, read) ELSE {t} : f = [is |-> "fetched", of |-> u]
    BY <1>2, <1>5
  <2>2. f # Raised /\ f.of = u
    BY <2>1 DEF Raised
  <2>3. CASE req.sorted
    <3>1. /\ u \in SetToSeqs(ToSet(t))
          /\ \A i, j \in DOMAIN u : i < j => NumberOf(read[u[i]]) <= NumberOf(read[u[j]])
      BY <2>1, <2>3 DEF SortedBy
    <3>2. IsFiniteSet(ToSet(t)) /\ ToSet(t) \subseteq Ids(req, prefix)
      <4>1. ToSet(t) \subseteq Ids(req, prefix)
        BY <1>3 DEF ToSet
      <4> QED BY <1>3, <4>1, ElementsFinite
    <3>3. u \in Seq(ToSet(t)) /\ IsInjective(u) /\ ToSet(u) = ToSet(t)
      BY <3>1, <3>2, Listings
    <3>4. u \in Seq(Ids(req, prefix))
      BY <3>2, <3>3
    <3> QED BY <1>3, <2>2, <3>1, <3>3, <3>4 DEF InOrder
  <2>4. CASE ~req.sorted
    BY <1>3, <2>1, <2>2, <2>4 DEF InOrder
  <2> QED BY <2>3, <2>4
<1> QED BY <1>4, <1>5
-----------------------------------------------------------------------------
(* What is fetched: the numbers it is sorted by                            *)

IsNumber(v) == v = None \/ (v = Number(v.n) /\ v.n \in Int)

LEMMA PlainNumber ==
    ASSUME NEW v, PlainValue(v), v.is \in {"nil", "number"}
    PROVE  v = None \/ (v = Number(v.n) /\ v.n \in DOMAIN Holds)
BY DEF PlainValue

LEMMA NumberProperty ==
    /\ "number" \in DOMAIN Property /\ "number" \in Attributes
    /\ Property["number"].kind = "attribute" /\ Property["number"].type = "plain"
    /\ IsNumber(Property["number"].default)
<1>1. /\ "number" \in DOMAIN Property /\ "number" \in Attributes
      /\ Property["number"].kind = "attribute" /\ Property["number"].type = "plain"
  BY StorageAssumption DEF Attributes
<1>2. PlainValue(Property["number"].default)
  BY <1>1, CodecAssumption
<1>3. Property["number"].default.is \in {"nil", "number"}
  BY StorageAssumption
<1> QED BY <1>1, <1>2, <1>3, PlainNumber, CodecAssumption DEF IsNumber

LEMMA DictionaryNumber ==
    ASSUME NEW r \in Refs, NEW c \in Contents[r], "number" \in DOMAIN TheDictionary(c)
    PROVE  LET v == TheDictionary(c)["number"] IN v = Number(v.n) /\ v.n \in DOMAIN Holds
<1>1. PlainValue(c["number"]) /\ c["number"].is \in {"nil", "number"}
  <2>1. IsContent(c) /\ c["number"].is \in {"nil", "number"}
    BY StorageAssumption, Zenon
  <2>2. PlainValue(c["number"])
    BY <2>1, NumberProperty DEF IsContent
  <2> QED BY <2>1, <2>2
<1>2. TheDictionary(c)["number"] = c["number"] /\ c["number"] # None
  BY NumberProperty, DictionaryIs, ZenonT(60) DEF TheEntry, Entry
<1> QED BY <1>1, <1>2, PlainNumber

\* Whatever blob an object has, the number it is read with is a number or none.
LEMMA StoredNumber ==
    ASSUME BlobsMade, NEW r \in Objects, NEW read \in ReadsOf(r)
    PROVE  NumberOf(read) \in Int
<1> DEFINE obj == IF useJSON THEN JSONObject(tree[r]) ELSE MsgPackObject(tree[r])
           c == saved[r]
           d == TheDictionary(c)
           Typed(v) == v = ADictionary(v.entries) /\
               ("number" \in DOMAIN v.entries => IsNumber(v.entries["number"]))
<1>1. r \in Refs /\ c \in Contents[r] /\ Made(c, tree[r])
  BY ObjectsSaved DEF Objects
<1>2. "number" \in DOMAIN d => IsNumber(d["number"])
  <2> HIDE DEF d
  <2> QED BY <1>1, DictionaryNumber, CodecAssumption DEF IsNumber, d
<1>3. Typed(ADictionary(d))
  <2> HIDE DEF d
  <2> QED BY <1>2 DEF ADictionary
<1>4. obj \in {NoObject, ANumber} \/ Typed(obj)
  <2>1. CASE tree[r].format = "json"
    <3>1. tree[r] = JSONBlob(d)
      BY <1>1, <2>1, MadeFormat
    <3>2. JSONObject(tree[r]) = ADictionary(d)
      <4> HIDE DEF d
      <4> QED BY <3>1 DEF JSONObject, JSONBlob
    <3> HIDE DEF Typed, d
    <3> QED BY <1>3, <2>1, <3>2, OthersRead
  <2>2. CASE tree[r].format = "empty"
    BY <2>2, OthersRead
  <2>3. CASE tree[r].format = "msgpack"
    <3> DEFINE u == [n \in DOMAIN d |-> Unpacked(Packed(d[n]))]
    <3>1. tree[r] = ThePacking(c)
      BY <1>1, <2>3, MadeFormat
    <3>2. MsgPackObject(tree[r]) = ADictionary(u)
      BY <2>3, <3>1, PackingRead
    <3>3. ASSUME "number" \in DOMAIN d PROVE IsNumber(u["number"])
      <4>1. d["number"] = Number(d["number"].n) /\ d["number"].n \in DOMAIN Holds
        BY <1>1, <3>3, DictionaryNumber
      <4>2. u["number"] = Unpacked(Packed(d["number"]))
        BY <3>3
      <4>3. u["number"] = d["number"]
        <5> HIDE DEF d, u
        <5> QED BY <4>1, <4>2, NumberUnpacked
      <4> HIDE DEF d, u
      <4> QED BY <1>2, <3>3, <4>3
    <3>4. DOMAIN u = DOMAIN d
      OBVIOUS
    <3> HIDE DEF u, d
    <3>5. Typed(ADictionary(u))
      BY <3>3, <3>4 DEF ADictionary
    <3>6. JSONObject(tree[r]) = NoObject
      BY <2>3, OthersRead
    <3> HIDE DEF Typed
    <3> QED BY <3>2, <3>5, <3>6
  <2>4. tree[r].format \in {"empty", "msgpack", "json"}
    BY <1>1, MadeFormat
  <2> QED BY <2>1, <2>2, <2>3, <2>4
<1>5. read \in NewValues(obj, useJSON, now)
  BY ReadsAre
<1> HIDE DEF obj
<1>6. CASE read \in {Raised, Nothing}
  BY <1>6 DEF NumberOf, Raised, Nothing
<1>7. CASE read \notin {Raised, Nothing}
  <2>1. obj \notin {NoObject, ANumber}
    BY <1>5, <1>7, NoObjectValues
  <2>2. Typed(obj)
    BY <1>4, <2>1
  <2> DEFINE e == obj.entries
             v == [n \in DOMAIN Property |-> Restored(n, e, now)]
  <2>3. obj = ADictionary(e) /\ ("number" \in DOMAIN e => IsNumber(e["number"]))
    BY <2>2
  <2> HIDE DEF e
  <2>4. read = Values(v)
    BY <1>5, <1>7, <2>3, DictionaryValues
  <2>5. v["number"] = OrDefault("number", e)
    BY NumberProperty DEF Restored
  <2>6. IsNumber(v["number"])
    BY <2>3, <2>5, NumberProperty DEF OrDefault
  <2> HIDE DEF v
  <2>7. Values(v).is = "values" /\ Values(v).of = v
    BY DEF Values
  <2>8. NumberOf(read) = IF v["number"] # None THEN v["number"].n ELSE -1
    BY <2>4, <2>7 DEF NumberOf
  <2> QED BY <2>6, <2>8 DEF IsNumber
<1> QED BY <1>6, <1>7

LEMMA NumberTyped ==
    ASSUME BlobsMade, NEW id, NEW read \in Reads(id)
    PROVE  NumberOf(read) \in Int
<1>1. CASE id.ref \in Objects /\ id = IdOf(id.ref)
  <2>1. read \in ReadsOf(id.ref)
    BY <1>1 DEF ReadsOf
  <2> QED BY <1>1, <2>1, StoredNumber
<1>2. CASE ~(id.ref \in Objects /\ id = IdOf(id.ref))
  <2>1. read = Raised
    BY <1>2 DEF Reads
  <2> QED BY <2>1 DEF NumberOf, Raised
<1> QED BY <1>1, <1>2

-----------------------------------------------------------------------------
(* What is fetched: the window                                             *)

LEMMA MaxTwo ==
    ASSUME NEW a \in Int, NEW b \in Int
    PROVE  Max({a, b}) = IF a >= b THEN a ELSE b
BY DEF Max

LEMMA MinTwo ==
    ASSUME NEW a \in Int, NEW b \in Int
    PROVE  Min({a, b}) = IF a <= b THEN a ELSE b
BY DEF Min

LEMMA WithoutFirst ==
    ASSUME NEW E, NEW u \in Seq(E), NEW a \in Nat, a <= Len(u)
    PROVE  /\ SubSeq(u, a + 1, Len(u)) \in Seq(E)
           /\ Len(SubSeq(u, a + 1, Len(u))) = Len(u) - a
           /\ \A i \in 1..(Len(u) - a) : SubSeq(u, a + 1, Len(u))[i] = u[a + i]
<1> DEFINE n == Len(u)
<1>0. n \in Nat /\ \A i \in 1..n : u[i] \in E
  OBVIOUS
<1>1. SubSeq(u, a + 1, n) = [i \in 1..(n - a) |-> u[(a + 1) + i - 1]]
  <2>1. 1 + n - (a + 1) = n - a
    BY <1>0
  <2> QED BY <1>0, <2>1
<1> HIDE DEF n
<1>2. \A i \in 1..(n - a) : (a + 1) + i - 1 = a + i /\ a + i \in 1..n
  BY <1>0
<1>3. n - a \in Nat
  BY <1>0 DEF n
<1>4. SubSeq(u, a + 1, n) \in [1..(n - a) -> E]
  <2>1. \A i \in 1..(n - a) : u[(a + 1) + i - 1] \in E
    BY <1>0, <1>2
  <2>2. [i \in 1..(n - a) |-> u[(a + 1) + i - 1]] \in [1..(n - a) -> E]
    BY <2>1
  <2> QED BY <1>1, <2>2, Zenon
<1>5. SubSeq(u, a + 1, n) \in Seq(E) /\ Len(SubSeq(u, a + 1, n)) = n - a
  <2> DEFINE t == SubSeq(u, a + 1, n)
             m == n - a
  <2>1. m \in Nat /\ t \in [1..m -> E]
    BY <1>3, <1>4
  <2> HIDE DEF t, m
  <2>2. t \in Seq(E) /\ Len(t) = m
    BY <2>1
  <2> QED BY <2>2 DEF t, m
<1>6. \A i \in 1..(n - a) : SubSeq(u, a + 1, n)[i] = u[a + i]
  BY <1>1, <1>2
<1> QED BY <1>5, <1>6 DEF n

\* The offset drops what is before it, or everything.
LEMMA Skipped ==
    ASSUME NEW E, NEW u \in Seq(E), NEW o \in Nat
    PROVE  /\ AfterOffset(u, o) \in Seq(E)
           /\ Len(AfterOffset(u, o)) = Max({0, Len(u) - o})
           /\ \A i \in 1..Len(AfterOffset(u, o)) :
                  o + i \in 1..Len(u) /\ AfterOffset(u, o)[i] = u[o + i]
<1> DEFINE n == Len(u)
           v == AfterOffset(u, o)
<1>0. n \in Nat /\ DOMAIN u = 1..n
  OBVIOUS
<1>1. Max({0, n - o}) = IF o >= n THEN 0 ELSE n - o
  BY <1>0, MaxTwo
<1>2. CASE o # 0 /\ u # <<>>
  <2> DEFINE a == Min({o, n})
  <2>1. a = (IF o <= n THEN o ELSE n) /\ a \in Nat /\ a <= n
    BY <1>0, MinTwo
  <2>2. v = SubSeq(u, a + 1, n)
    BY <1>2 DEF AfterOffset
  <2> HIDE DEF a, v
  <2>3. /\ v \in Seq(E) /\ Len(v) = n - a
        /\ \A i \in 1..(n - a) : v[i] = u[a + i]
    BY <2>1, <2>2, WithoutFirst
  <2> HIDE DEF n
  <2>4. \A i \in 1..(n - a) : a = o /\ o + i \in 1..n
    BY <1>0, <2>1
  <2>5. n - a = Max({0, n - o})
    BY <1>0, <1>1, <2>1
  <2>6. \A i \in 1..Len(v) : o + i \in 1..n /\ v[i] = u[o + i]
    BY <2>3, <2>4
  <2> QED BY <2>3, <2>5, <2>6 DEF n, v
<1>3. CASE ~(o # 0 /\ u # <<>>)
  <2>1. v = u
    BY <1>3 DEF AfterOffset
  <2>2. o = 0 \/ n = 0
    BY <1>3
  <2> HIDE DEF v
  <2> QED BY <1>0, <1>1, <2>1, <2>2 DEF v
<1> QED BY <1>2, <1>3

LEMMA Limited ==
    ASSUME NEW E, NEW u \in Seq(E), NEW l \in Nat
    PROVE  /\ AfterLimit(u, l) \in Seq(E)
           /\ Len(AfterLimit(u, l)) = IF l = 0 THEN Len(u) ELSE Min({l, Len(u)})
           /\ \A i \in 1..Len(AfterLimit(u, l)) : i \in 1..Len(u) /\ AfterLimit(u, l)[i] = u[i]
<1>0. Len(u) \in Nat
  OBVIOUS
<1>1. Min({l, Len(u)}) = IF l <= Len(u) THEN l ELSE Len(u)
  BY <1>0, MinTwo
<1>2. CASE l # 0 /\ Len(u) > l
  <2>1. AfterLimit(u, l) = SubSeq(u, 1, l)
    BY <1>2 DEF AfterLimit
  <2> QED BY <1>0, <1>1, <1>2, <2>1
<1>3. CASE ~(l # 0 /\ Len(u) > l)
  <2>1. AfterLimit(u, l) = u
    BY <1>3 DEF AfterLimit
  <2> QED BY <1>0, <1>1, <1>3, <2>1
<1> QED BY <1>2, <1>3

LEMMA WindowIs ==
    ASSUME NEW E, NEW u \in Seq(E), NEW w \in Windows
    PROVE  LET got == Window(u, w)
               rest == Max({0, Len(u) - w.offset})
           IN  /\ got \in Seq(E)
               /\ Len(got) = IF w.limit = 0 THEN rest ELSE Min({w.limit, rest})
               /\ \A i \in 1..Len(got) : w.offset + i \in 1..Len(u) /\ got[i] = u[w.offset + i]
<1> DEFINE v == AfterOffset(u, w.offset)
           got == Window(u, w)
<1>0. w.offset \in Nat /\ w.limit \in Nat
  BY StorageAssumption DEF Windows
<1>1. /\ v \in Seq(E) /\ Len(v) = Max({0, Len(u) - w.offset})
      /\ \A i \in 1..Len(v) : w.offset + i \in 1..Len(u) /\ v[i] = u[w.offset + i]
  BY <1>0, Skipped
<1>2. got = AfterLimit(v, w.limit)
  BY DEF Window
<1> HIDE DEF v, got
<1>3. /\ got \in Seq(E)
      /\ Len(got) = IF w.limit = 0 THEN Len(v) ELSE Min({w.limit, Len(v)})
      /\ \A i \in 1..Len(got) : i \in 1..Len(v) /\ got[i] = v[i]
  BY <1>0, <1>1, <1>2, Limited
<1>4. \A i \in 1..Len(got) : w.offset + i \in 1..Len(u) /\ got[i] = u[w.offset + i]
  BY <1>1, <1>3
<1> QED BY <1>1, <1>3, <1>4 DEF got

\* Of what is sorted, as many are below an element as are before it, or fewer.
LEMMA RankOf ==
    ASSUME NEW E, NEW read, NEW u \in Seq(E), IsInjective(u),
           \A r \in ToSet(u) : NumberOf(read[r]) \in Int,
           \A i, j \in DOMAIN u : i < j => NumberOf(read[u[i]]) <= NumberOf(read[u[j]]),
           NEW p \in 1..Len(u)
    PROVE  LET n == NumberOf(read[u[p]])
           IN  /\ Cardinality({r \in ToSet(u) : NumberOf(read[r]) < n}) < p
               /\ p <= Cardinality({r \in ToSet(u) : NumberOf(read[r]) <= n})
<1> DEFINE N(r) == NumberOf(read[r])
           n == N(u[p])
           before == SubSeq(u, 1, p - 1)
           upto == SubSeq(u, 1, p)
           low == {r \in ToSet(u) : N(r) < n}
           high == {r \in ToSet(u) : N(r) <= n}
<1>0. /\ Len(u) \in Nat /\ DOMAIN u = 1..Len(u) /\ p \in Nat
      /\ ToSet(u) = {u[i] : i \in 1..Len(u)}
  BY DEF ToSet
<1>1. \A i \in 1..Len(u) : N(u[i]) \in Int
  BY <1>0
<1>2. \A i, j \in 1..Len(u) : i < j => N(u[i]) <= N(u[j])
  BY <1>0
<1> HIDE DEF N
<1>3. /\ before \in Seq(E) /\ Len(before) = p - 1 /\ DOMAIN before = 1..(p - 1)
      /\ \A i \in 1..(p - 1) : before[i] = u[i]
  BY <1>0
<1>4. /\ upto \in Seq(E) /\ Len(upto) = p /\ DOMAIN upto = 1..p
      /\ \A i \in 1..p : upto[i] = u[i]
  BY <1>0
<1> HIDE DEF before, upto
<1>5. IsInjective(before) /\ IsInjective(upto)
  <2>1. 1..(p - 1) \subseteq DOMAIN u /\ 1..p \subseteq DOMAIN u
    BY <1>0
  <2> QED BY <1>3, <1>4, <2>1 DEF IsInjective
<1>6. /\ IsFiniteSet(ToSet(before)) /\ Cardinality(ToSet(before)) = p - 1
      /\ Cardinality(ToSet(upto)) = p
  BY <1>3, <1>4, <1>5, ElementsCount
<1>7. low \subseteq ToSet(before)
  <2> SUFFICES ASSUME NEW r \in low PROVE r \in ToSet(before)
    OBVIOUS
  <2>1. PICK i \in 1..Len(u) : r = u[i] /\ N(u[i]) < n
    BY <1>0
  <2>2. ~(p <= i)
    <3>1. p < i => N(u[p]) <= N(u[i])
      BY <1>2
    <3> QED BY <1>0, <1>1, <2>1, <3>1
  <2>3. i \in 1..(p - 1)
    BY <1>0, <2>2
  <2> QED BY <1>3, <2>1, <2>3 DEF ToSet
<1>8. ToSet(upto) \subseteq high
  <2> SUFFICES ASSUME NEW i \in 1..p PROVE u[i] \in high
    BY <1>4 DEF ToSet
  <2>1. i \in 1..Len(u) /\ (i < p \/ i = p)
    BY <1>0
  <2>2. N(u[i]) <= n
    BY <1>1, <1>2, <2>1
  <2> QED BY <1>0, <2>1, <2>2
<1>9. Cardinality(low) <= p - 1 /\ Cardinality(low) \in Nat
  BY <1>6, <1>7, FS_Subset, FS_CardinalityType
<1>10. p <= Cardinality(high) /\ Cardinality(high) \in Nat
  <2>1. IsFiniteSet(high)
    <3>1. IsFiniteSet(ToSet(u)) /\ high \subseteq ToSet(u)
      BY ElementsFinite
    <3> QED BY <3>1, FS_Subset
  <2> QED BY <1>6, <1>8, <2>1, FS_Subset, FS_CardinalityType
<1>11. Cardinality(low) < p
  BY <1>0, <1>9
<1> QED BY <1>10, <1>11 DEF N

\* An id of the object's own entity, behind nothing, is read with the number that was
\* saved, and any other id is that of nothing.
LEMMA AskedReads ==
    ASSUME BlobsMade, NEW req, NEW prefix, NEW read \in Readings(Asked(req, prefix))
    PROVE  IdsRead(req, prefix, read)
<1> SUFFICES ASSUME NEW id \in Asked(req, prefix)
             PROVE  IF EntityOf[id.ref] = req.entity /\ prefix = ""
                    THEN read[id].is = "values" => NumberOf(read[id]) = SavedNumber(id.ref)
                    ELSE read[id] = Raised
  BY DEF IdsRead
<1>1. PICK r \in Objects : id = ID(req.entity, prefix, r)
  BY DEF Asked
<1>2. id.ref = r /\ read[id] \in Reads(id)
  BY <1>1, ReadsReadings DEF ID
<1>3. id = IdOf(r) <=> EntityOf[r] = req.entity /\ prefix = ""
  BY <1>1 DEF IdOf, ID
<1>4. CASE id # IdOf(r)
  <2>1. Reads(id) = {Raised}
    BY <1>2, <1>4 DEF Reads
  <2> QED BY <1>2, <1>3, <1>4, <2>1
<1>5. CASE id = IdOf(r)
  <2> SUFFICES ASSUME read[id].is = "values"
               PROVE  NumberOf(read[id]) = SavedNumber(r)
    BY <1>2, <1>3, <1>5
  <2>1. read[id] \notin {Raised, Nothing}
    BY DEF Raised, Nothing
  <2>2. \A n \in DOMAIN Property : ComesBack(r, n, read[id].of)
    BY <1>2, <1>5, <2>1, BlobsReadBack DEF ReadBack
  <2> DEFINE v == read[id].of["number"]
             c == saved[r]
  <2>3. ~IsDate("number") /\ ~IsPlainData("number", c)
    <3>1. c["number"].is \in {"nil", "number"}
      BY ObjectsSaved, StorageAssumption DEF Objects
    <3> QED BY <3>1, NumberProperty DEF IsDate, IsPlainData
  <2>4. SameValue("number", c, read[id].of)
    BY <2>2, <2>3, NumberProperty DEF ComesBack
  <2>5. v = IF Property["number"].transient \/ c["number"] = None
            THEN Property["number"].default ELSE c["number"]
    BY <2>4, NumberProperty DEF SameValue
  <2>6. NumberOf(read[id]) = IF v # None THEN v.n ELSE -1
    BY DEF NumberOf
  <2> HIDE DEF v
  <2> QED BY <2>5, <2>6 DEF SavedNumber
<1> QED BY <1>4, <1>5

\* Every fetch, in every state, of every request and whatever the prefix is printed as,
\* answers an id for each object that was asked for and matches, once: at most the
\* limit, those after the offset, in order.  Ids of objects of its own entity, behind
\* nothing, are read with what was saved; any other is of nothing that is stored
\* (fetchRequest:, lines 219-260).
THEOREM FetchesAreExact == Spec => []FetchExact
<1> DEFINE Exact(req, prefix, read, f) ==
        IF f = Raised
        THEN \/ \E e \in ToSet(Collected(req)) : \A r \in Objects : EntityOf[r] # e
             \/ \E id \in Asked(req, prefix) : read[id] = Raised
        ELSE \A w \in Windows :
                 LET got == Window(f.of, w)
                     rest == Max({0, Cardinality(Match(req, prefix, read)) - w.offset})
                 IN  /\ ToSet(got) \subseteq Match(req, prefix, read)
                     /\ IsInjective(got)
                     /\ Len(got) = IF w.limit = 0 THEN rest ELSE Min({w.limit, rest})
                     /\ req.sorted => \A i \in DOMAIN got :
                            LET n == NumberOf(read[got[i]])
                            IN  /\ Cardinality({id \in Match(req, prefix, read) : NumberOf(read[id]) < n})
                                       < w.offset + i
                                /\ w.offset + i
                                       <= Cardinality({id \in Match(req, prefix, read) : NumberOf(read[id]) <= n})
<1>1. ASSUME BlobsMade, NEW req \in Requests, NEW prefix \in Printed,
             NEW read \in Readings(Asked(req, prefix)), NEW f \in Fetched(req, prefix, read)
      PROVE  Exact(req, prefix, read, f)
  <2> DEFINE match == Match(req, prefix, read)
             u == f.of
  <2>1. CASE f = Raised
    BY <2>1, FetchedMatches
  <2>2. CASE f # Raised
    <3>1. u \in Seq(Ids(req, prefix)) /\ IsInjective(u) /\ ToSet(u) = match /\ InOrder(req, read, u)
      BY <2>2, FetchedMatches
    <3>2. Cardinality(match) = Len(u)
      BY <3>1, ElementsCount
    <3>3. \A id \in match : NumberOf(read[id]) \in Int
      <4>1. ASSUME NEW id \in match PROVE NumberOf(read[id]) \in Int
        <5>1. id \in Asked(req, prefix)
          BY DEF Match
        <5> QED BY <1>1, <5>1, ReadsReadings, NumberTyped
      <4> QED BY <4>1
    <3> HIDE DEF match, u
    <3>4. ASSUME NEW w \in Windows
          PROVE  LET got == Window(u, w)
                     rest == Max({0, Cardinality(match) - w.offset})
                 IN  /\ ToSet(got) \subseteq match
                     /\ IsInjective(got)
                     /\ Len(got) = IF w.limit = 0 THEN rest ELSE Min({w.limit, rest})
                     /\ req.sorted => \A i \in DOMAIN got :
                            LET n == NumberOf(read[got[i]])
                            IN  /\ Cardinality({id \in match : NumberOf(read[id]) < n}) < w.offset + i
                                /\ w.offset + i <= Cardinality({id \in match : NumberOf(read[id]) <= n})
      <4> DEFINE got == Window(u, w)
                 rest == Max({0, Cardinality(match) - w.offset})
      <4>1. /\ got \in Seq(Ids(req, prefix))
            /\ Len(got) = IF w.limit = 0 THEN rest ELSE Min({w.limit, rest})
            /\ \A i \in 1..Len(got) : w.offset + i \in 1..Len(u) /\ got[i] = u[w.offset + i]
        <5>1. Len(u) = Cardinality(match) /\ u \in Seq(Ids(req, prefix)) /\ w \in Windows
          BY <3>1, <3>2
        <5>2. /\ got \in Seq(Ids(req, prefix))
              /\ Len(got) = LET r == Max({0, Len(u) - w.offset})
                            IN  IF w.limit = 0 THEN r ELSE Min({w.limit, r})
              /\ \A i \in 1..Len(got) : w.offset + i \in 1..Len(u) /\ got[i] = u[w.offset + i]
          BY <5>1, WindowIs, Zenon
        <5> QED BY <5>1, <5>2, Zenon
      <4>2. /\ w.offset \in Nat /\ Len(got) \in Nat /\ DOMAIN got = 1..Len(got)
            /\ DOMAIN u = 1..Len(u)
        BY <3>1, <4>1, StorageAssumption DEF Windows
      <4> HIDE DEF got, rest
      <4>3. ToSet(got) \subseteq match
        BY <3>1, <4>1, <4>2 DEF ToSet
      <4>4. IsInjective(got)
        <5> SUFFICES ASSUME NEW i \in 1..Len(got), NEW j \in 1..Len(got), got[i] = got[j]
                     PROVE  i = j
          BY <4>2 DEF IsInjective
        <5>1. w.offset + i = w.offset + j
          BY <3>1, <4>1, <4>2 DEF IsInjective
        <5> QED BY <4>2, <5>1
      <4>5. ASSUME req.sorted, NEW i \in 1..Len(got)
            PROVE  LET n == NumberOf(read[got[i]])
                   IN  /\ Cardinality({id \in match : NumberOf(read[id]) < n}) < w.offset + i
                       /\ w.offset + i <= Cardinality({id \in match : NumberOf(read[id]) <= n})
        <5> DEFINE p == w.offset + i
        <5>1. p \in 1..Len(u) /\ got[i] = u[p]
          BY <4>1
        <5>2. \A k, j \in DOMAIN u : k < j => NumberOf(read[u[k]]) <= NumberOf(read[u[j]])
          BY <3>1, <4>5 DEF InOrder
        <5> HIDE DEF p
        <5>3. LET n == NumberOf(read[u[p]])
              IN  /\ Cardinality({id \in ToSet(u) : NumberOf(read[id]) < n}) < p
                  /\ p <= Cardinality({id \in ToSet(u) : NumberOf(read[id]) <= n})
          BY <3>1, <3>3, <5>1, <5>2, RankOf
        <5> QED BY <3>1, <5>1, <5>3 DEF p
      <4> QED BY <4>1, <4>2, <4>3, <4>4, <4>5 DEF got, rest
    <3> QED BY <2>2, <3>4 DEF match, u
  <2> QED BY <2>1, <2>2
<1>2. BlobsMade => FetchExact
  <2>1. BlobsMade => \A req \in Requests, prefix \in Printed :
                         \A read \in Readings(Asked(req, prefix)) :
                             /\ IdsRead(req, prefix, read)
                             /\ \A f \in Fetched(req, prefix, read) : Exact(req, prefix, read, f)
    <3> HIDE DEF Exact
    <3> QED BY <1>1, AskedReads
  <2> QED BY <2>1 DEF FetchExact, Match
<1> QED BY <1>2, BlobsMadeAlways, PTL
=============================================================================
