---------------------------- MODULE SetInduction ----------------------------
(***************************************************************************)
(* Induction on the natural numbers, stated with sets: the library states  *)
(* it with an operator parameter.  What is to be proved of every number is *)
(* written as the set of the numbers it holds of.                          *)
(***************************************************************************)
EXTENDS Integers, SequencesExt, SequenceTheorems, FiniteSetTheorems, WellFoundedInduction, TLAPS

\* A set of natural numbers has a least member.
LEMMA LeastNatural ==
    ASSUME NEW T, T \subseteq Nat, T # {}
    PROVE  \E x \in T : \A y \in T : x <= y
<1> DEFINE R == OpToRel(<, Nat)
<1>1. IsWellFoundedOn(R, Nat)
  BY NatLessThanWellFounded
<1>2. PICK x \in T : \A y \in T : ~ (<<y, x>> \in R)
  <2> HIDE DEF R
  <2> QED BY <1>1, WFMin
<1>3. \A y \in T : <<y, x>> \in Nat \X Nat
  BY <1>2
<1>4. \A y \in T : ~ (y < x)
  BY <1>2, <1>3 DEF OpToRel
<1>5. x \in T
  BY <1>2
<1> HIDE DEF R
<1> QED BY <1>4, <1>5

\* Induction: what holds of 0, and of n + 1 when it holds of n, holds of all.
LEMMA NaturalInduction ==
    ASSUME NEW S, 0 \in S, \A n \in Nat : n \in S => n + 1 \in S
    PROVE  Nat \subseteq S
<1> SUFFICES ASSUME Nat \ S # {} PROVE FALSE
  OBVIOUS
<1>1. PICK x \in Nat \ S : \A y \in Nat \ S : x <= y
  BY LeastNatural
<1>2. x # 0 /\ x - 1 \in Nat /\ x - 1 \notin Nat \ S
  BY <1>1
<1> QED BY <1>1, <1>2

\* Doubling reaches any size.
LEMMA PowerOfTwo == \A k \in Nat : 2^k \in Nat /\ k <= 2^k
<1> TAKE k \in Nat
<1>1. IsFiniteSet(1..k) /\ Cardinality(1..k) = k
  BY FS_Interval
<1>2. /\ IsFiniteSet(SUBSET (1..k))
      /\ Cardinality(SUBSET (1..k)) = 2^k
  BY <1>1, FS_SUBSET
<1>3. 2^k \in Nat
  BY <1>2, FS_CardinalityType
<1> DEFINE f == [x \in 1..k |-> {x}]
<1>4. f \in Injection(1..k, SUBSET (1..k))
  BY DEF Injection, IsInjective
<1> HIDE DEF f
<1>5. Cardinality(1..k) <= Cardinality(SUBSET (1..k))
  BY <1>2, <1>4, FS_Injection
<1> QED BY <1>1, <1>2, <1>3, <1>5
-----------------------------------------------------------------------------
(* The elements of a sequence                                              *)

\* Of two sequences, one after the other; no element is there twice if none is
\* in either.
LEMMA JoinedElements ==
    ASSUME NEW E, NEW s \in Seq(E), NEW t \in Seq(E)
    PROVE  /\ s \o t \in Seq(E)
           /\ ToSet(s \o t) = ToSet(s) \cup ToSet(t)
           /\ IsInjective(s) /\ IsInjective(t) /\ ToSet(s) \cap ToSet(t) = {}
                 => IsInjective(s \o t)
<1>1. /\ s \o t \in Seq(E) /\ DOMAIN (s \o t) = 1..(Len(s) + Len(t))
      /\ DOMAIN s = 1..Len(s) /\ DOMAIN t = 1..Len(t)
      /\ Len(s) \in Nat /\ Len(t) \in Nat
  OBVIOUS
<1>2. \A i \in 1..Len(s) : (s \o t)[i] = s[i]
  BY <1>1
<1>3. \A i \in 1..Len(t) : (s \o t)[Len(s) + i] = t[i]
  BY <1>1
<1>4. \A i \in 1..(Len(s) + Len(t)) :
          \/ i \in 1..Len(s)
          \/ \E j \in 1..Len(t) : i = Len(s) + j
  <2> SUFFICES ASSUME NEW i \in 1..(Len(s) + Len(t)), i \notin 1..Len(s)
               PROVE  \E j \in 1..Len(t) : i = Len(s) + j
    OBVIOUS
  <2>1. i - Len(s) \in 1..Len(t) /\ i = Len(s) + (i - Len(s))
    BY <1>1
  <2> QED
    BY <2>1
<1>5. ToSet(s \o t) = ToSet(s) \cup ToSet(t)
  <2>1. ASSUME NEW x \in ToSet(s \o t)
        PROVE  x \in ToSet(s) \cup ToSet(t)
    <3>1. PICK i \in 1..(Len(s) + Len(t)) : x = (s \o t)[i]
      BY <1>1 DEF ToSet
    <3>2. CASE i \in 1..Len(s)
      <4>1. x = s[i]
        BY <1>2, <3>1, <3>2
      <4> QED
        BY <1>1, <3>2, <4>1 DEF ToSet
    <3>3. CASE i \notin 1..Len(s)
      <4>1. PICK j \in 1..Len(t) : i = Len(s) + j
        BY <1>4, <3>3
      <4>2. x = t[j]
        BY <1>3, <3>1, <4>1
      <4> QED
        BY <1>1, <4>2 DEF ToSet
    <3> QED
      BY <3>2, <3>3
  <2>2. ToSet(s) \subseteq ToSet(s \o t)
    BY <1>1, <1>2 DEF ToSet
  <2>3. \A i \in 1..Len(t) : Len(s) + i \in 1..(Len(s) + Len(t))
    BY <1>1
  <2>4. ToSet(t) \subseteq ToSet(s \o t)
    BY <1>1, <1>3, <2>3 DEF ToSet
  <2> QED
    BY <2>1, <2>2, <2>4
<1>6. ASSUME IsInjective(s), IsInjective(t), ToSet(s) \cap ToSet(t) = {}
      PROVE  IsInjective(s \o t)
  <2> SUFFICES ASSUME NEW a \in 1..(Len(s) + Len(t)), NEW b \in 1..(Len(s) + Len(t)),
                      (s \o t)[a] = (s \o t)[b]
               PROVE  a = b
    BY <1>1 DEF IsInjective
  <2>1. CASE a \in 1..Len(s) /\ b \in 1..Len(s)
    BY <1>1, <1>2, <1>6, <2>1 DEF IsInjective
  <2>2. CASE a \notin 1..Len(s) /\ b \notin 1..Len(s)
    <3>1. PICK i \in 1..Len(t), j \in 1..Len(t) : a = Len(s) + i /\ b = Len(s) + j
      BY <1>4, <2>2
    <3>2. t[i] = t[j]
      BY <1>3, <3>1
    <3> QED
      BY <1>1, <1>6, <3>1, <3>2 DEF IsInjective
  <2>3. CASE a \in 1..Len(s) /\ b \notin 1..Len(s)
    <3>1. PICK j \in 1..Len(t) : b = Len(s) + j
      BY <1>4, <2>3
    <3>2. s[a] \in ToSet(s) /\ t[j] \in ToSet(t) /\ s[a] = t[j]
      BY <1>1, <1>2, <1>3, <2>3, <3>1 DEF ToSet
    <3> QED
      BY <1>6, <3>2
  <2>4. CASE a \notin 1..Len(s) /\ b \in 1..Len(s)
    <3>1. PICK j \in 1..Len(t) : a = Len(s) + j
      BY <1>4, <2>4
    <3>2. s[b] \in ToSet(s) /\ t[j] \in ToSet(t) /\ s[b] = t[j]
      BY <1>1, <1>2, <1>3, <2>4, <3>1 DEF ToSet
    <3> QED
      BY <1>6, <3>2
  <2> QED
    BY <2>1, <2>2, <2>3, <2>4
<1> QED
  BY <1>1, <1>5, <1>6

\* One more element.
LEMMA OneMoreElement ==
    ASSUME NEW E, NEW s \in Seq(E), NEW x \in E
    PROVE  /\ Append(s, x) \in Seq(E)
           /\ ToSet(Append(s, x)) = ToSet(s) \cup {x}
           /\ IsInjective(s) /\ x \notin ToSet(s) => IsInjective(Append(s, x))
<1>1. /\ Append(s, x) \in Seq(E) /\ DOMAIN Append(s, x) = 1..(Len(s) + 1)
      /\ Len(s) \in Nat /\ DOMAIN s = 1..Len(s)
      /\ Append(s, x)[Len(s) + 1] = x /\ \A i \in 1..Len(s) : Append(s, x)[i] = s[i]
  OBVIOUS
<1>2. ToSet(Append(s, x)) = ToSet(s) \cup {x}
  BY <1>1 DEF ToSet
<1>3. ASSUME IsInjective(s), x \notin ToSet(s) PROVE IsInjective(Append(s, x))
  BY <1>1, <1>3 DEF IsInjective, ToSet
<1> QED BY <1>1, <1>2, <1>3

\* A sequence without repetition has as many elements as places.
LEMMA ElementsCount ==
    ASSUME NEW E, NEW s \in Seq(E), IsInjective(s)
    PROVE  IsFiniteSet(ToSet(s)) /\ Cardinality(ToSet(s)) = Len(s)
<1>1. /\ Len(s) \in Nat /\ DOMAIN s = 1..Len(s) /\ s \in [1..Len(s) -> ToSet(s)]
      /\ \A x \in ToSet(s) : \E i \in 1..Len(s) : s[i] = x
  BY DEF ToSet
<1>2. s \in Bijection(1..Len(s), ToSet(s))
  BY <1>1 DEF Bijection, Injection, Surjection, IsInjective
<1>3. ExistsBijection(1..Len(s), ToSet(s))
  BY <1>2 DEF ExistsBijection
<1> QED BY <1>1, <1>3, FS_CountingElements, FS_NatBijection

\* The elements of a sequence are finitely many.
LEMMA ElementsFinite ==
    ASSUME NEW E, NEW s \in Seq(E)
    PROVE  IsFiniteSet(ToSet(s))
<1>1. /\ Len(s) \in Nat /\ s \in [1..Len(s) -> ToSet(s)]
      /\ \A x \in ToSet(s) : \E i \in 1..Len(s) : s[i] = x
  BY DEF ToSet
<1>2. s \in Surjection(1..Len(s), ToSet(s))
  BY <1>1 DEF Surjection
<1>3. ExistsSurjection(1..Len(s), ToSet(s))
  BY <1>2 DEF ExistsSurjection
<1> QED BY <1>1, <1>3, FS_NatSurjection

\* SetToSeqs are the sequences that list a finite set.
LEMMA Listings ==
    ASSUME NEW S, IsFiniteSet(S)
    PROVE  /\ \A s \in SetToSeqs(S) : /\ s \in Seq(S) /\ Len(s) = Cardinality(S)
                                      /\ IsInjective(s) /\ ToSet(s) = S
           /\ \A s \in Seq(S) : IsInjective(s) /\ ToSet(s) = S => s \in SetToSeqs(S)
<1> DEFINE n == Cardinality(S)
<1>1. n \in Nat
  BY FS_CardinalityType
<1>2. ASSUME NEW s \in SetToSeqs(S)
      PROVE  s \in Seq(S) /\ Len(s) = n /\ IsInjective(s) /\ ToSet(s) = S
  <2>1. s \in [1..n -> S] /\ \A i, j \in 1..n : i # j => s[i] # s[j]
    BY DEF SetToSeqs
  <2> HIDE DEF n
  <2>2. s \in Seq(S) /\ Len(s) = n /\ DOMAIN s = 1..n
    BY <1>1, <2>1
  <2>3. s \in Injection(1..n, S) /\ IsInjective(s)
    BY <2>1 DEF Injection, IsInjective
  <2>4. IsFiniteSet(1..n) /\ Cardinality(1..n) = n
    BY <1>1, FS_Interval
  <2>5. s \in Surjection(1..n, S)
    BY <2>3, <2>4, FS_Injection DEF n
  <2>6. ToSet(s) = S
    BY <2>1, <2>2, <2>5 DEF Surjection, ToSet
  <2> QED BY <2>2, <2>3, <2>6
<1>3. ASSUME NEW s \in Seq(S), IsInjective(s), ToSet(s) = S
      PROVE  s \in SetToSeqs(S)
  <2>1. Len(s) = n
    BY <1>3, ElementsCount
  <2>2. s \in [1..n -> S] /\ \A i, j \in 1..n : i # j => s[i] # s[j]
    BY <1>3, <2>1 DEF IsInjective
  <2> QED BY <2>2 DEF SetToSeqs
<1> QED BY <1>2, <1>3

-----------------------------------------------------------------------------
(* Concatenations: FlattenSeq                                              *)

\* The recursion of FlattenSeq: f[i] is what the first i of the sequences make.
Lists(E) == Seq(Seq(E))
Cat(x, y) == x \o y
Flattens(s, f, m) ==
    /\ m >= 1 => f[1] = s[1]
    /\ \A i \in 2..m : f[i] = Cat(f[i - 1], s[i])

LEMMA CatType == \A E : \A x, y \in Seq(E) : Cat(x, y) \in Seq(E)
BY DEF Cat

LEMMA ListsType ==
    ASSUME NEW E, NEW s \in Lists(E)
    PROVE  Len(s) \in Nat /\ \A i \in 1..Len(s) : s[i] \in Seq(E)
BY DEF Lists

LEMMA FlatExists ==
    ASSUME NEW E, NEW s \in Lists(E)
    PROVE  \E f \in [1..Len(s) -> Seq(E)] : Flattens(s, f, Len(s))
<1> DEFINE S == {n \in Nat : n <= Len(s) => \E f \in [1..n -> Seq(E)] : Flattens(s, f, n)}
<1>0. Len(s) \in Nat /\ \A i \in 1..Len(s) : s[i] \in Seq(E)
  BY ListsType
<1>1. 0 \in S
  <2>1. [i \in 1..0 |-> <<>>] \in [1..0 -> Seq(E)] /\ 2..0 = {}
    OBVIOUS
  <2>2. Flattens(s, [i \in 1..0 |-> <<>>], 0)
    BY <2>1 DEF Flattens
  <2> QED BY <2>1, <2>2
<1>2. ASSUME NEW n \in Nat, n \in S PROVE n + 1 \in S
  <2> SUFFICES ASSUME n + 1 <= Len(s)
               PROVE  \E g \in [1..(n + 1) -> Seq(E)] : Flattens(s, g, n + 1)
    OBVIOUS
  <2>1. PICK f \in [1..n -> Seq(E)] : Flattens(s, f, n)
    <3>1. n <= Len(s)
      BY <1>0
    <3> QED BY <1>2, <3>1
  <2> DEFINE last == IF n = 0 THEN s[1] ELSE Cat(f[n], s[n + 1])
             g == [i \in 1..(n + 1) |-> IF i <= n THEN f[i] ELSE last]
  <2>2. last \in Seq(E)
    <3>1. n + 1 \in 1..Len(s) /\ s[n + 1] \in Seq(E)
      BY <1>0
    <3>2. CASE n = 0
      BY <3>1, <3>2
    <3>3. CASE n # 0
      <4>1. f[n] \in Seq(E)
        BY <3>3
      <4> QED BY <3>1, <3>3, <4>1, CatType
    <3> QED BY <3>2, <3>3
  <2>3. n = 0 => last = s[1]
    OBVIOUS
  <2>4. n # 0 => last = Cat(f[n], s[n + 1])
    OBVIOUS
  <2> HIDE DEF last
  <2>5. /\ g \in [1..(n + 1) -> Seq(E)] /\ g[n + 1] = last
        /\ \A i \in 1..n : g[i] = f[i]
    BY <2>2
  <2> HIDE DEF g
  <2>6. g[1] = s[1]
    <3>1. CASE n = 0
      BY <3>1, <2>3, <2>5
    <3>2. CASE n # 0
      <4>1. 1 \in 1..n /\ n >= 1
        BY <3>2
      <4> QED BY <4>1, <2>1, <2>5 DEF Flattens
    <3> QED BY <3>1, <3>2
  <2>7. ASSUME NEW i \in 2..(n + 1) PROVE g[i] = Cat(g[i - 1], s[i])
    <3>1. CASE i = n + 1
      <4>1. i - 1 = n /\ n \in 1..n /\ n # 0
        BY <3>1
      <4>2. g[i - 1] = f[n]
        BY <2>5, <4>1
      <4> QED BY <3>1, <4>1, <4>2, <2>4, <2>5
    <3>2. CASE i # n + 1
      <4>1. i \in 2..n /\ i \in 1..n /\ i - 1 \in 1..n
        BY <3>2
      <4> QED BY <4>1, <2>1, <2>5 DEF Flattens
    <3> QED BY <3>1, <3>2
  <2> QED BY <2>5, <2>6, <2>7 DEF Flattens
<1>3. Len(s) \in S
  <2> HIDE DEF S
  <2> QED BY <1>0, <1>1, <1>2, NaturalInduction
<1> QED BY <1>0, <1>3

\* Sequences that begin alike make the same of what they share.
LEMMA FlatShared ==
    ASSUME NEW m \in Nat, NEW s, NEW t, NEW f, NEW g,
           \A i \in 1..m : s[i] = t[i], Flattens(s, f, m), Flattens(t, g, m)
    PROVE  \A i \in 1..m : f[i] = g[i]
<1> DEFINE S == {n \in Nat : \A i \in 1..m : i <= n => f[i] = g[i]}
<1>1. 0 \in S
  OBVIOUS
<1>2. ASSUME NEW n \in Nat, n \in S PROVE n + 1 \in S
  <2>1. ASSUME n + 1 <= m PROVE f[n + 1] = g[n + 1]
    <3>0. n + 1 \in 1..m
      BY <2>1
    <3>1. CASE n = 0
      <4>1. m >= 1 /\ 1 \in 1..m
        BY <2>1, <3>1
      <4>2. f[1] = g[1]
        BY <4>1 DEF Flattens
      <4> QED BY <3>1, <4>2
    <3>2. CASE n # 0
      <4>1. n + 1 \in 2..m /\ (n + 1) - 1 = n /\ n \in 1..m
        BY <2>1, <3>2
      <4>2. f[n + 1] = Cat(f[n], s[n + 1]) /\ g[n + 1] = Cat(g[n], t[n + 1])
        <5>1. f[n + 1] = Cat(f[(n + 1) - 1], s[n + 1]) /\ g[n + 1] = Cat(g[(n + 1) - 1], t[n + 1])
          BY <4>1 DEF Flattens
        <5> QED BY <4>1, <5>1
      <4>3. f[n] = g[n] /\ s[n + 1] = t[n + 1]
        BY <1>2, <3>0, <4>1
      <4> QED BY <4>2, <4>3
    <3> QED BY <3>1, <3>2
  <2> QED BY <1>2, <2>1
<1>3. m \in S
  <2> HIDE DEF S
  <2> QED BY <1>1, <1>2, NaturalInduction
<1> QED BY <1>3

FlatOf(s) ==
    CHOOSE f : f = [i \in 1..Len(s) |-> IF i = 1 THEN s[i] ELSE f[i - 1] \o s[i]]

LEMMA FlattenIs ==
    ASSUME NEW E, NEW s \in Lists(E)
    PROVE  /\ FlattenSeq(s) = IF Len(s) = 0 THEN s ELSE FlatOf(s)[Len(s)]
           /\ FlatOf(s) \in [1..Len(s) -> Seq(E)]
           /\ Flattens(s, FlatOf(s), Len(s))
<1> DEFINE n == Len(s)
           Def(f) == [i \in 1..n |-> IF i = 1 THEN s[i] ELSE Cat(f[i - 1], s[i])]
           k == FlatOf(s)
<1>0. n \in Nat
  BY ListsType
<1>1. PICK f \in [1..n -> Seq(E)] : Flattens(s, f, n)
  BY FlatExists
<1>2. f = Def(f)
  <2>1. ASSUME NEW i \in 1..n PROVE f[i] = IF i = 1 THEN s[i] ELSE Cat(f[i - 1], s[i])
    <3>1. CASE i = 1
      <4>1. n >= 1
        BY <1>0, <3>1
      <4> QED BY <1>1, <3>1, <4>1 DEF Flattens
    <3>2. CASE i # 1
      <4>1. i \in 2..n
        BY <1>0, <3>2
      <4> QED BY <1>1, <3>2, <4>1 DEF Flattens
    <3> QED BY <3>1, <3>2
  <2> HIDE DEF n
  <2> QED BY <1>1, <2>1
<1>3. k = CHOOSE g : g = Def(g)
  BY DEF FlatOf, Cat
<1>4. \A g : Def(g) = [i \in 1..n |-> IF i = 1 THEN s[i] ELSE Cat(g[i - 1], s[i])]
  OBVIOUS
<1> HIDE DEF Def, k, n
<1>5. k = Def(k)
  BY <1>2, <1>3
<1>6. DOMAIN k = 1..n /\ \A i \in 1..n : k[i] = IF i = 1 THEN s[i] ELSE Cat(k[i - 1], s[i])
  BY <1>4, <1>5
<1>7. Flattens(s, k, n)
  <2>1. n >= 1 => k[1] = s[1]
    BY <1>0, <1>6
  <2>2. ASSUME NEW i \in 2..n PROVE k[i] = Cat(k[i - 1], s[i])
    <3>1. i \in 1..n /\ i # 1
      BY <1>0
    <3> QED BY <1>6, <3>1
  <2> QED BY <2>1, <2>2 DEF Flattens
<1>8. \A i \in 1..n : f[i] = k[i]
  BY <1>0, <1>1, <1>7, FlatShared
<1>9. k \in [1..n -> Seq(E)]
  <2>1. k = [i \in 1..n |-> k[i]]
    BY <1>4, <1>5
  <2> QED BY <1>1, <1>8, <2>1
<1>10. FlattenSeq(s) = IF n = 0 THEN s ELSE k[n]
  BY DEF FlattenSeq, FlatOf, k, n
<1> QED BY <1>7, <1>9, <1>10 DEF k, n

LEMMA FlattenType ==
    ASSUME NEW E, NEW s \in Lists(E)
    PROVE  FlattenSeq(s) \in Seq(E) /\ (Len(s) = 0 => FlattenSeq(s) = <<>>)
<1>0. Len(s) \in Nat
  BY DEF Lists
<1>1. CASE Len(s) = 0
  <2>1. s = <<>>
    BY <1>1 DEF Lists
  <2> QED BY <1>1, <2>1, FlattenIs
<1>2. CASE Len(s) # 0
  <2>1. Len(s) \in 1..Len(s)
    BY <1>0, <1>2
  <2> QED BY <1>2, <2>1, FlattenIs
<1> QED BY <1>1, <1>2

LEMMA FlattenMore ==
    ASSUME NEW E, NEW s \in Lists(E), NEW x \in Seq(E)
    PROVE  Append(s, x) \in Lists(E) /\ FlattenSeq(Append(s, x)) = FlattenSeq(s) \o x
<1> DEFINE t == Append(s, x)
           n == Len(s)
           f == FlatOf(s)
           g == FlatOf(t)
<1>1. /\ n \in Nat /\ t \in Lists(E) /\ Len(t) = n + 1 /\ t[n + 1] = x
      /\ \A i \in 1..n : s[i] = t[i]
  BY AppendProperties DEF Lists
<1>2. FlattenSeq(s) = (IF n = 0 THEN s ELSE f[n]) /\ Flattens(s, f, n)
  BY FlattenIs
<1> HIDE DEF t
<1>3. FlattenSeq(t) = (IF Len(t) = 0 THEN t ELSE g[Len(t)]) /\ Flattens(t, g, Len(t))
  BY <1>1, FlattenIs
<1> HIDE DEF f, g, n
<1>4. FlattenSeq(t) = g[n + 1] /\ Flattens(t, g, n + 1)
  BY <1>1, <1>3
<1>5. CASE n = 0
  <2>1. g[1] = x
    BY <1>1, <1>4, <1>5 DEF Flattens
  <2>2. FlattenSeq(s) = <<>>
    BY <1>5, FlattenType DEF n
  <2>3. <<>> \o x = x
    BY ConcatEmptySeq
  <2> QED BY <1>1, <1>4, <1>5, <2>1, <2>2, <2>3 DEF t
<1>6. CASE n # 0
  <2>1. n \in 1..n /\ n + 1 \in 2..(n + 1) /\ (n + 1) - 1 = n
    BY <1>1, <1>6
  <2>2. g[n + 1] = Cat(g[n], x)
    <3>1. g[n + 1] = Cat(g[(n + 1) - 1], t[n + 1])
      BY <1>4, <2>1 DEF Flattens
    <3> QED BY <1>1, <2>1, <3>1
  <2>3. Flattens(t, g, n)
    <3>1. n + 1 >= 1 /\ \A i \in 2..n : i \in 2..(n + 1)
      BY <1>1
    <3> QED BY <1>4, <3>1 DEF Flattens
  <2>4. f[n] = g[n]
    <3>1. \A i \in 1..n : f[i] = g[i]
      BY <1>1, <1>2, <2>3, FlatShared
    <3> QED BY <2>1, <3>1
  <2> QED BY <1>1, <1>2, <1>4, <1>6, <2>2, <2>4 DEF t, Cat
<1> QED BY <1>5, <1>6

LEMMA CatThree ==
    ASSUME NEW E, NEW a \in Seq(E), NEW b \in Seq(E), NEW x \in Seq(E)
    PROVE  (a \o b) \o x = a \o (b \o x)
OBVIOUS

LEMMA CatThreeLists ==
    ASSUME NEW E, NEW a \in Seq(Seq(E)), NEW b \in Seq(Seq(E)), NEW x \in Seq(Seq(E))
    PROVE  (a \o b) \o x = a \o (b \o x)
OBVIOUS

LEMMA FlattenTwo ==
    ASSUME NEW E, NEW s \in Lists(E), NEW t \in Lists(E)
    PROVE  s \o t \in Lists(E) /\ FlattenSeq(s \o t) = FlattenSeq(s) \o FlattenSeq(t)
<1> DEFINE S == {n \in Nat : \A u \in Lists(E) : Len(u) = n =>
                    FlattenSeq(s \o u) = FlattenSeq(s) \o FlattenSeq(u)}
<1>0. s \in Seq(Seq(E)) /\ t \in Seq(Seq(E)) /\ Len(t) \in Nat
  BY DEF Lists
<1>1. 0 \in S
  <2> SUFFICES ASSUME NEW u \in Lists(E), Len(u) = 0
               PROVE  FlattenSeq(s \o u) = FlattenSeq(s) \o FlattenSeq(u)
    OBVIOUS
  <2>1. u = <<>>
    BY EmptySeq DEF Lists
  <2>2. s \o u = s
    BY <1>0, <2>1, ConcatEmptySeq
  <2>3. FlattenSeq(s) \o <<>> = FlattenSeq(s)
    BY FlattenType, ConcatEmptySeq
  <2> QED BY <2>2, <2>3, FlattenType
<1>2. ASSUME NEW n \in Nat, n \in S PROVE n + 1 \in S
  <2> SUFFICES ASSUME NEW u \in Lists(E), Len(u) = n + 1
               PROVE  FlattenSeq(s \o u) = FlattenSeq(s) \o FlattenSeq(u)
    OBVIOUS
  <2>0. u \in Seq(Seq(E)) /\ u # <<>>
    BY DEF Lists
  <2>1. PICK r \in Seq(Seq(E)), x \in Seq(E) : u = Append(r, x)
    BY <2>0, SequenceEmptyOrAppend
  <2>2. Len(r) = n /\ r \in Lists(E)
    BY <2>1 DEF Lists
  <2>3. FlattenSeq(u) = FlattenSeq(r) \o x
    BY <2>1, <2>2, FlattenMore
  <2>4. s \o u = Append(s \o r, x) /\ s \o r \in Lists(E)
    <3>1. r \in Seq(Seq(E)) /\ s \o r \in Seq(Seq(E))
      BY <1>0, <2>1
    <3>2. Append(r, x) = r \o <<x>> /\ Append(s \o r, x) = (s \o r) \o <<x>> /\ <<x>> \in Seq(Seq(E))
      <4> DEFINE sr == s \o r
      <4>1. sr \in Seq(Seq(E)) /\ r \in Seq(Seq(E)) /\ <<x>> \in Seq(Seq(E))
        BY <3>1
      <4> HIDE DEF sr
      <4>2. Append(r, x) = r \o <<x>> /\ Append(sr, x) = sr \o <<x>>
        BY <4>1, AppendIsConcat, Zenon
      <4> QED BY <4>1, <4>2 DEF sr
    <3>3. (s \o r) \o <<x>> = s \o (r \o <<x>>)
      <4>1. s \in Seq(Seq(E)) /\ r \in Seq(Seq(E)) /\ <<x>> \in Seq(Seq(E))
        BY <1>0, <3>1, <3>2
      <4> QED BY <4>1, CatThreeLists
    <3> QED BY <2>1, <3>1, <3>2, <3>3 DEF Lists
  <2>5. FlattenSeq(s \o u) = FlattenSeq(s \o r) \o x
    BY <2>4, FlattenMore
  <2>6. FlattenSeq(s \o r) = FlattenSeq(s) \o FlattenSeq(r)
    BY <1>2, <2>2
  <2>7. FlattenSeq(s) \in Seq(E) /\ FlattenSeq(r) \in Seq(E)
    BY <2>2, FlattenType
  <2>8. (FlattenSeq(s) \o FlattenSeq(r)) \o x = FlattenSeq(s) \o (FlattenSeq(r) \o x)
    <3> DEFINE a == FlattenSeq(s)
               b == FlattenSeq(r)
    <3>1. a \in Seq(E) /\ b \in Seq(E) /\ x \in Seq(E)
      BY <2>7
    <3> HIDE DEF a, b
    <3>2. (a \o b) \o x = a \o (b \o x)
      BY <3>1, CatThree
    <3> QED BY <3>2 DEF a, b
  <2> QED BY <2>3, <2>5, <2>6, <2>8
<1>3. Len(t) \in S
  <2> HIDE DEF S
  <2> QED BY <1>0, <1>1, <1>2, NaturalInduction
<1>4. s \o t \in Lists(E)
  BY <1>0 DEF Lists
<1> QED BY <1>3, <1>4

\* The elements of a concatenation are those of the sequences; none is there twice
\* if none is in one of them twice or in two of them.
Parts(s) == UNION {ToSet(s[i]) : i \in DOMAIN s}
Apart(s) ==
    /\ \A i \in DOMAIN s : IsInjective(s[i])
    /\ \A i, j \in DOMAIN s : i # j => ToSet(s[i]) \cap ToSet(s[j]) = {}

LEMMA FlattenElements ==
    ASSUME NEW E, NEW s \in Lists(E)
    PROVE  /\ ToSet(FlattenSeq(s)) = Parts(s)
           /\ Apart(s) => IsInjective(FlattenSeq(s))
<1> DEFINE Good(u) == /\ ToSet(FlattenSeq(u)) = Parts(u)
                      /\ Apart(u) => IsInjective(FlattenSeq(u))
           N == {n \in Nat : \A u \in Lists(E) : Len(u) = n => Good(u)}
<1>1. 0 \in N
  <2> SUFFICES ASSUME NEW u \in Lists(E), Len(u) = 0 PROVE Good(u)
    OBVIOUS
  <2>1. FlattenSeq(u) = <<>> /\ DOMAIN u = {}
    <3>1. DOMAIN u = 1..0
      BY DEF Lists
    <3> QED BY <3>1, FlattenType
  <2>2. ToSet(<<>>) = {} /\ IsInjective(<<>>)
    BY DEF ToSet, IsInjective
  <2> QED BY <2>1, <2>2 DEF Parts
<1>2. ASSUME NEW n \in Nat, n \in N PROVE n + 1 \in N
  <2> SUFFICES ASSUME NEW u \in Lists(E), Len(u) = n + 1 PROVE Good(u)
    OBVIOUS
  <2>0. u \in Seq(Seq(E)) /\ u # <<>>
    BY DEF Lists
  <2>1. PICK r \in Seq(Seq(E)), x \in Seq(E) : u = Append(r, x)
    BY <2>0, SequenceEmptyOrAppend
  <2>2. /\ Len(r) = n /\ r \in Lists(E) /\ DOMAIN r = 1..n /\ DOMAIN u = 1..(n + 1)
        /\ u[n + 1] = x /\ \A i \in 1..n : u[i] = r[i]
    BY <2>1 DEF Lists
  <2>3. FlattenSeq(u) = FlattenSeq(r) \o x /\ FlattenSeq(r) \in Seq(E)
    BY <2>1, <2>2, FlattenMore, FlattenType
  <2>4. Good(r)
    BY <1>2, <2>2
  <2>5. ToSet(FlattenSeq(u)) = ToSet(FlattenSeq(r)) \cup ToSet(x)
    BY <2>3, JoinedElements
  <2>6. Parts(u) = Parts(r) \cup ToSet(x)
    BY <2>2 DEF Parts
  <2>7. ASSUME Apart(u) PROVE IsInjective(FlattenSeq(u))
    <3>1. Apart(r) /\ IsInjective(x)
      <4>1. \A i \in 1..n : i \in DOMAIN u /\ n + 1 \in DOMAIN u
        BY <2>2
      <4>2. n + 1 \in DOMAIN u
        BY <2>2
      <4> QED BY <2>2, <2>7, <4>1, <4>2 DEF Apart
    <3>2. ASSUME NEW i \in 1..n PROVE ToSet(r[i]) \cap ToSet(x) = {}
      <4>1. i \in DOMAIN u /\ n + 1 \in DOMAIN u /\ i # n + 1
        BY <2>2
      <4> QED BY <2>2, <2>7, <4>1 DEF Apart
    <3>3. Parts(r) \cap ToSet(x) = {}
      BY <2>2, <3>2 DEF Parts
    <3>4. IsInjective(FlattenSeq(r)) /\ ToSet(FlattenSeq(r)) \cap ToSet(x) = {}
      BY <2>4, <3>1, <3>3
    <3> QED BY <2>3, <3>1, <3>4, JoinedElements
  <2> QED BY <2>4, <2>5, <2>6, <2>7
<1>3. Len(s) \in N
  <2>1. Len(s) \in Nat
    BY DEF Lists
  <2> HIDE DEF N
  <2> QED BY <1>1, <1>2, <2>1, NaturalInduction
<1> QED BY <1>3

-----------------------------------------------------------------------------
(* Pieces of sequences                                                     *)

\* One sequence, and one sequence and others.
LEMMA FlattenOne ==
    ASSUME NEW E, NEW x \in Seq(E)
    PROVE  <<x>> \in Lists(E) /\ FlattenSeq(<<x>>) = x
<1>1. <<>> \in Lists(E) /\ Append(<<>>, x) = <<x>> /\ Len(<<>>) = 0
  BY DEF Lists
<1>2. FlattenSeq(<<>>) = <<>>
  BY <1>1, FlattenType
<1>3. <<x>> \in Lists(E) /\ FlattenSeq(<<x>>) = <<>> \o x
  BY <1>1, <1>2, FlattenMore
<1>4. <<>> \o x = x
  BY ConcatEmptySeq
<1> QED BY <1>3, <1>4

LEMMA FlattenAfter ==
    ASSUME NEW E, NEW x \in Seq(E), NEW t \in Lists(E)
    PROVE  <<x>> \o t \in Lists(E) /\ FlattenSeq(<<x>> \o t) = x \o FlattenSeq(t)
<1>1. <<x>> \in Lists(E) /\ FlattenSeq(<<x>>) = x
  BY FlattenOne, Zenon
<1>2. /\ <<x>> \o t \in Lists(E)
      /\ FlattenSeq(<<x>> \o t) = FlattenSeq(<<x>>) \o FlattenSeq(t)
  BY <1>1, FlattenTwo, Zenon
<1> QED BY <1>1, <1>2, Zenon

LEMMA Middle ==
    ASSUME NEW E, NEW a \in Seq(E), NEW b \in Seq(E), NEW c \in Seq(E)
    PROVE  LET s == (a \o b) \o c
           IN  /\ Len(s) = Len(a) + Len(b) + Len(c)
               /\ SubSeq(s, Len(a) + 1, Len(a) + Len(b)) = b
               /\ b # <<>> => s[Len(a) + 1] = b[1]
<1> DEFINE s == (a \o b) \o c
           m == SubSeq(s, Len(a) + 1, Len(a) + Len(b))
<1>1. Len(a) \in Nat /\ Len(b) \in Nat /\ Len(c) \in Nat
  OBVIOUS
<1>2. s \in Seq(E) /\ Len(s) = Len(a) + Len(b) + Len(c)
  OBVIOUS
<1>3. \A i \in 1..Len(b) : s[Len(a) + i] = b[i]
  OBVIOUS
<1>4. Len(a) + 1 \in 1..(Len(s) + 1) /\ Len(a) + Len(b) \in Len(a)..Len(s)
  BY <1>1, <1>2
<1> HIDE DEF s
<1>5. m \in Seq(E) /\ Len(m) = Len(b)
  <2>1. m \in Seq(E) /\ Len(m) = IF Len(a) + 1 <= Len(a) + Len(b)
                                 THEN (Len(a) + Len(b)) - (Len(a) + 1) + 1 ELSE 0
    BY <1>2, <1>4, SubSeqProperties
  <2> QED BY <1>1, <2>1
<1>6. \A i \in 1..Len(b) : m[i] = b[i]
  <2>1. \A i \in 1..((Len(a) + Len(b)) - (Len(a) + 1) + 1) : m[i] = s[Len(a) + 1 + i - 1]
    BY <1>2, <1>4, SubSeqProperties
  <2>2. \A i \in 1..Len(b) : /\ i \in 1..((Len(a) + Len(b)) - (Len(a) + 1) + 1)
                             /\ Len(a) + 1 + i - 1 = Len(a) + i
    BY <1>1
  <2> QED BY <1>3, <2>1, <2>2
<1>7. m = b
  <2> HIDE DEF m
  <2> QED BY <1>5, <1>6
<1>8. b # <<>> => s[Len(a) + 1] = b[1]
  <2>1. b # <<>> => 1 \in 1..Len(b)
    BY <1>1
  <2> QED BY <1>3, <2>1
<1> QED BY <1>2, <1>7, <1>8 DEF s

LEMMA CatLists ==
    ASSUME NEW E, NEW x \in Lists(E), NEW y \in Lists(E), NEW z \in Lists(E)
    PROVE  Cat(Cat(x, y), z) = Cat(x, Cat(y, z)) /\ Cat(x, y) \in Lists(E)
BY DEF Lists, Cat

LEMMA Regrouped ==
    ASSUME NEW E, NEW x \in Lists(E), NEW y \in Lists(E), NEW z \in Lists(E), NEW w \in Lists(E)
    PROVE  Cat(Cat(Cat(x, y), z), w) = Cat(x, Cat(y, Cat(z, w)))
BY CatLists

LEMMA NothingBefore ==
    ASSUME NEW E, NEW x \in Lists(E)
    PROVE  <<>> \o x = x /\ x \o <<>> = x
BY ConcatEmptySeq DEF Lists

LEMMA OneCell ==
    ASSUME NEW E, NEW s \in Seq(E), Len(s) = 1
    PROVE  s[1] \in E /\ s = <<s[1]>>
OBVIOUS

LEMMA TwoCells ==
    ASSUME NEW E, NEW s \in Seq(E), Len(s) = 2
    PROVE  s[1] \in E /\ s[2] \in E /\ s = <<s[1], s[2]>>
OBVIOUS

LEMMA BeginningOf ==
    ASSUME NEW E, NEW s \in Seq(E), NEW t \in Seq(E), Len(s) <= Len(t),
           \A i \in 1..Len(s) : s[i] = t[i]
    PROVE  IsPrefix(s, t)
<1> DEFINE n == Len(s)
           u == SubSeq(s, 1, n)
           v == SubSeq(t, 1, n)
<1>1. n \in Nat /\ Len(t) \in Nat /\ n <= Len(t)
  BY LenProperties
<1> HIDE DEF n
<1>2. /\ u \in Seq(E) /\ v \in Seq(E) /\ Len(u) = n /\ Len(v) = n
      /\ \A i \in 1..n : u[i] = s[i] /\ v[i] = t[i]
  BY <1>1 DEF n
<1> HIDE DEF u, v
<1>3. u = v
  BY <1>2 DEF n
<1> QED BY <1>1, <1>3 DEF IsPrefix, u, v, n

LEMMA CutAt ==
    ASSUME NEW E, NEW s \in Seq(E), NEW i \in Nat, NEW k \in 0..Len(s), i <= k
    PROVE  /\ SubSeq(s, 1, i) \in Seq(E) /\ SubSeq(s, i + 1, k) \in Seq(E)
           /\ SubSeq(s, 1, k) = SubSeq(s, 1, i) \o SubSeq(s, i + 1, k)
OBVIOUS

LEMMA FirstOf ==
    ASSUME NEW E, NEW x \in Seq(E), NEW y \in Seq(E)
    PROVE  /\ Len(x \o y) = Len(x) + Len(y)
           /\ SubSeq(x \o y, 1, Len(x)) = x
           /\ y # <<>> => SubSeq(x \o y, 1, Len(x) + 1) = x \o <<y[1]>> /\ y[1] \in E /\ Len(y) >= 1
<1>1. Len(x) \in Nat /\ Len(y) \in Nat /\ x \o y \in Seq(E) /\ Len(x \o y) = Len(x) + Len(y)
  OBVIOUS
<1>2. SubSeq(x \o y, 1, Len(x)) = x
  OBVIOUS
<1>3. ASSUME y # <<>> PROVE SubSeq(x \o y, 1, Len(x) + 1) = x \o <<y[1]>> /\ y[1] \in E /\ Len(y) >= 1
  <2>1. Len(y) >= 1 /\ y[1] \in E
    BY <1>3
  <2> QED BY <1>1, <2>1
<1> QED BY <1>1, <1>2, <1>3
=============================================================================
