---------------------------- MODULE LibraryProofs ----------------------------
(***************************************************************************)
(* Proofs about the sbuffer, the zbuffer and the zone, for memory of any   *)
(* size: what was written is what is held, what was handed on is the new   *)
(* owner's alone, and pieces of zones never overlap.                       *)
(***************************************************************************)
EXTENDS Library, SetInduction, SequenceTheorems

-----------------------------------------------------------------------------
(* Sequences                                                               *)

LEMMA SubSeqPrefix ==
    ASSUME NEW S, NEW h, NEW n \in Nat, \A i \in 1..n : h[i] \in S
    PROVE  /\ SubSeq(h, 1, n) \in Seq(S)
           /\ Len(SubSeq(h, 1, n)) = n
           /\ \A i \in 1..n : SubSeq(h, 1, n)[i] = h[i]
<1>1. /\ SubSeq(h, 1, n) \in Seq(S)
      /\ Len(SubSeq(h, 1, n)) = IF 1 <= n THEN n - 1 + 1 ELSE 0
      /\ \A i \in 1..(n - 1 + 1) : SubSeq(h, 1, n)[i] = h[1 + i - 1]
  BY SubSeqProperties
<1> QED BY <1>1

-----------------------------------------------------------------------------
(* The sbuffer                                                             *)

\* The fields describe the block.
SFields ==
    /\ size \in Nat /\ alloc \in Nat /\ size <= alloc
    /\ data \in Addresses \cup {Null}
    /\ data = Null => alloc = 0
    /\ data # Null => data \in DOMAIN blocks /\ Len(blocks[data]) = alloc

SBlocks ==
    /\ DOMAIN blocks \subseteq Addresses
    /\ \A a \in DOMAIN blocks : blocks[a] \in Seq(Nat)

\* What was handed over is nobody else's.
SReleased ==
    /\ \A r \in released :
          /\ r.at \in DOMAIN blocks /\ r.at # data
          /\ r.bytes \in Seq(Nat)
          /\ Len(r.bytes) <= Len(blocks[r.at])
          /\ \A i \in 1..Len(r.bytes) : r.bytes[i] = blocks[r.at][i]
    /\ \A r, q \in released : r.at = q.at => r = q

SInv == SFields /\ SBlocks /\ SReleased

LEMMA SInit == Simple!Init => SInv
BY LibraryAssumption DEF Simple!Init, SInv, SFields, SBlocks, SReleased

\* realloc keeps what is held.
LEMMA ExtendedBlock ==
    ASSUME SFields, SBlocks, NEW n \in Nat, n >= size
    PROVE  /\ Simple!Extended(n) \in Seq(Nat) /\ Len(Simple!Extended(n)) = n
           /\ \A i \in 1..size : Simple!Extended(n)[i] = Simple!Held[i]
<1>1. /\ Simple!Held \in Seq(Nat)
      /\ size <= Len(Simple!Held)
  BY DEF Simple!Held, SFields, SBlocks
<1> DEFINE e == Simple!Extended(n)
<1>2. e = [i \in 1..n |-> IF i <= Len(Simple!Held) THEN Simple!Held[i] ELSE 0]
  BY DEF Simple!Extended
<1>3. \A i \in 1..n : e[i] \in Nat
  BY <1>2, <1>1
<1>4. e \in [1..n -> Nat]
  BY <1>2, <1>3
<1> HIDE DEF e
<1>5. e \in Seq(Nat) /\ Len(e) = n
  BY <1>4
<1>6. size \in Nat /\ size <= n
  BY DEF SFields
<1> QED BY <1>1, <1>2, <1>5, <1>6 DEF e

\* memcpy keeps the first size bytes and puts the write behind them.
LEMMA FilledBlock ==
    ASSUME SFields, NEW w \in Seq(Nat), NEW e \in Seq(Nat), Len(e) >= size + Len(w)
    PROVE  LET f == Simple!Filled(e, w)
           IN  /\ f \in Seq(Nat) /\ Len(f) = Len(e)
               /\ \A i \in 1..size : f[i] = e[i]
               /\ \A i \in 1..Len(w) : f[size + i] = w[i]
<1> DEFINE f == Simple!Filled(e, w)
           n == Len(e)
<1>0. n \in Nat /\ size \in Nat /\ Len(w) \in Nat /\ e \in [1..n -> Nat]
  BY DEF SFields
<1>1. f = [i \in 1..n |-> IF size < i /\ i <= size + Len(w) THEN w[i - size] ELSE e[i]]
  BY DEF Simple!Filled
<1>2. f \in Seq(Nat) /\ Len(f) = n
  <2>1. ASSUME NEW i \in 1..n PROVE f[i] \in Nat
    <3>1. CASE size < i /\ i <= size + Len(w)
      <4>1. f[i] = w[i - size] /\ i - size \in 1..Len(w)
        BY <3>1, <1>0, <1>1
      <4> HIDE DEF f
      <4> QED BY <4>1
    <3>2. CASE ~(size < i /\ i <= size + Len(w))
      <4>1. f[i] = e[i]
        BY <1>1, <3>2
      <4> QED BY <4>1, <1>0
    <3> QED BY <3>1, <3>2
  <2>2. f \in [1..n -> Nat]
    BY <2>1, <1>1
  <2> HIDE DEF f, n
  <2> QED BY <2>2, <1>0
<1>3. \A i \in 1..size : f[i] = e[i]
  BY <1>1 DEF SFields
<1>4. \A i \in 1..Len(w) : f[size + i] = w[i]
  BY <1>1 DEF SFields
<1> QED BY <1>2, <1>3, <1>4

\* What a buffer of n bytes in the block h holds, as WriteBuffer has it.
FirstBytes(n, h) == [i \in 1..n |-> IF i <= Len(h) THEN h[i] ELSE 0]
Contents == FirstBytes(size, Simple!Held)

LEMMA FirstBytesAre ==
    ASSUME NEW h \in Seq(Nat), NEW n \in Nat, n <= Len(h)
    PROVE  /\ FirstBytes(n, h) \in Seq(Nat) /\ Len(FirstBytes(n, h)) = n
           /\ \A i \in 1..n : FirstBytes(n, h)[i] = h[i]
<1> DEFINE c == FirstBytes(n, h)
<1>1. c = [i \in 1..n |-> IF i <= Len(h) THEN h[i] ELSE 0]
  BY DEF FirstBytes
<1>2. \A i \in 1..n : c[i] = h[i] /\ c[i] \in Nat
  BY <1>1
<1>3. c \in [1..n -> Nat]
  BY <1>1, <1>2
<1> HIDE DEF c
<1>4. c \in Seq(Nat) /\ Len(c) = n
  BY <1>3
<1> QED BY <1>2, <1>4 DEF c

\* The block f has w behind the first n bytes of the block e.
LEMMA FirstBytesGrow ==
    ASSUME NEW e \in Seq(Nat), NEW f \in Seq(Nat), NEW w \in Seq(Nat), NEW n \in Nat,
           n <= Len(e), n + Len(w) <= Len(f),
           \A i \in 1..n : f[i] = e[i],
           \A i \in 1..Len(w) : f[n + i] = w[i]
    PROVE  FirstBytes(n + Len(w), f) = FirstBytes(n, e) \o w
<1> DEFINE c == FirstBytes(n, e)
           d == FirstBytes(n + Len(w), f)
<1>1. c \in Seq(Nat) /\ Len(c) = n /\ \A i \in 1..n : c[i] = e[i]
  BY FirstBytesAre
<1>2. Len(w) \in Nat /\ n + Len(w) \in Nat
  OBVIOUS
<1>3. /\ d \in Seq(Nat) /\ Len(d) = n + Len(w)
      /\ \A i \in 1..(n + Len(w)) : d[i] = f[i]
  BY <1>2, FirstBytesAre
<1> HIDE DEF c, d
<1>4. /\ c \o w \in Seq(Nat) /\ Len(c \o w) = n + Len(w)
      /\ \A i \in 1..(n + Len(w)) : (c \o w)[i] = IF i <= n THEN c[i] ELSE w[i - n]
  BY ZenonT(60), <1>1, ConcatProperties
<1>5. ASSUME NEW i \in 1..(n + Len(w)) PROVE d[i] = (c \o w)[i]
  <2>1. CASE i <= n
    <3>1. i \in 1..n
      BY <2>1, <1>2
    <3>2. d[i] = e[i] /\ (c \o w)[i] = e[i]
      BY <3>1, <2>1, <1>1, <1>3, <1>4
    <3> QED BY <3>2
  <2>2. CASE i > n
    <3>1. i - n \in 1..Len(w) /\ n + (i - n) = i
      BY <2>2, <1>2
    <3>2. d[i] = w[i - n]
      BY <3>1, <1>3
    <3>3. (c \o w)[i] = w[i - n]
      BY <2>2, <1>4, <1>2
    <3> QED BY <3>2, <3>3
  <2>3. i <= n \/ i > n
    BY <1>2
  <2> QED BY <2>1, <2>2, <2>3, Zenon
<1>6. d = c \o w
  BY <1>3, <1>4, <1>5, SeqEqual
<1> QED BY <1>6 DEF c, d

\* A write either appends what was written or changes nothing.
Appended(w) == Contents' = Contents \o w

\* A write in place: the block at data, with w behind what is held.
LEMMA SWriteInPlace ==
    ASSUME SInv, NEW w \in Seq(Nat), Len(w) <= alloc - size,
           blocks' = IF data = Null THEN blocks
                     ELSE [blocks EXCEPT ![data] = Simple!Filled(@, w)],
           size' = size + Len(w), UNCHANGED <<data, alloc, released>>
    PROVE  SInv' /\ Appended(w)
<1>0. Len(w) \in Nat /\ size \in Nat /\ alloc \in Nat /\ size + Len(w) <= alloc
  BY DEF SInv, SFields
<1>1. CASE data = Null
  <2>1. Len(w) = 0 /\ size = 0 /\ alloc = 0
    BY <1>0, <1>1 DEF SInv, SFields
  <2>2. w = <<>>
    BY <2>1
  <2>3. blocks' = blocks /\ size' = size
    BY <1>1, <2>1
  <2>4. SInv'
    BY <2>3 DEF SInv, SFields, SBlocks, SReleased
  <2>5. Contents' = Contents
    BY <2>3 DEF Contents, Simple!Held
  <2>6. Contents \in Seq(Nat)
    <3>1. Contents = FirstBytes(0, <<>>)
      BY <1>1, <2>1 DEF Simple!Held, Contents
    <3>2. <<>> \in Seq(Nat) /\ 0 <= Len(<<>>)
      OBVIOUS
    <3> QED BY <3>1, <3>2, FirstBytesAre
  <2> QED BY <2>2, <2>4, <2>5, <2>6 DEF Appended
<1>2. CASE data # Null
  <2> DEFINE e == blocks[data]
             f == Simple!Filled(e, w)
  <2>1. e \in Seq(Nat) /\ Len(e) = alloc /\ data \in DOMAIN blocks
    BY <1>2 DEF SInv, SFields, SBlocks
  <2>2. /\ f \in Seq(Nat) /\ Len(f) = alloc
        /\ \A i \in 1..size : f[i] = e[i]
        /\ \A i \in 1..Len(w) : f[size + i] = w[i]
    BY <2>1, <1>0, FilledBlock DEF SInv
  <2>3. /\ DOMAIN blocks' = DOMAIN blocks
        /\ blocks'[data] = f
        /\ \A a \in DOMAIN blocks \ {data} : blocks'[a] = blocks[a]
    BY <1>2, <2>1
  <2> HIDE DEF f, e
  <2>4. SFields'
    BY <2>2, <2>3, <1>0, <1>2 DEF SInv, SFields
  <2>5. SBlocks'
    BY <2>2, <2>3 DEF SInv, SBlocks
  <2>6. SReleased'
    BY <2>3 DEF SInv, SReleased
  <2>7. Simple!Held = e /\ Simple!Held' = f
    BY <1>2, <2>3 DEF Simple!Held, e
  <2>8. Appended(w)
    <3>1. FirstBytes(size + Len(w), f) = FirstBytes(size, e) \o w
      <4>1. size <= Len(e) /\ size + Len(w) <= Len(f)
        BY <2>1, <2>2, <1>0
      <4>2. f \in Seq(Nat) /\ e \in Seq(Nat) /\ w \in Seq(Nat) /\ size \in Nat
        BY <2>1, <2>2, <1>0
      <4>3. (\A i \in 1..size : f[i] = e[i]) /\ \A i \in 1..Len(w) : f[size + i] = w[i]
        BY <2>2
      <4> QED BY ONLY <4>1, <4>2, <4>3, FirstBytesGrow
    <3> QED BY <3>1, <2>7 DEF Appended, Contents
  <2> QED BY <2>4, <2>5, <2>6, <2>8 DEF SInv
<1> QED BY <1>1, <1>2

\* A write that reallocates: the block is at a, has n bytes, and the old one is gone.
LEMMA SWriteMoved ==
    ASSUME SInv, NEW w \in Seq(Nat),
           NEW a \in (Addresses \ DOMAIN blocks) \cup (Addresses \cap {data}),
           NEW n \in 1..SimpleMax, n >= size + Len(w),
           data' = a, alloc' = n,
           blocks' = [b \in (DOMAIN blocks \ {data}) \cup {a} |->
                         IF b = a THEN Simple!Filled(Simple!Extended(n), w) ELSE blocks[b]],
           size' = size + Len(w), UNCHANGED released
    PROVE  SInv' /\ Appended(w)
<1> DEFINE g == Simple!Extended(n)
           f == Simple!Filled(g, w)
<1>0. Len(w) \in Nat /\ size \in Nat /\ n \in Nat /\ n >= size
  BY LibraryAssumption DEF SInv, SFields
<1>1. g \in Seq(Nat) /\ Len(g) = n /\ \A i \in 1..size : g[i] = Simple!Held[i]
  BY <1>0, ExtendedBlock DEF SInv
<1>2. /\ f \in Seq(Nat) /\ Len(f) = n
      /\ \A i \in 1..size : f[i] = g[i]
      /\ \A i \in 1..Len(w) : f[size + i] = w[i]
  <2> HIDE DEF g
  <2> QED BY <1>1, <1>0, FilledBlock DEF SInv
<1>3. blocks' = [b \in (DOMAIN blocks \ {data}) \cup {a} |-> IF b = a THEN f ELSE blocks[b]]
  OBVIOUS
<1> HIDE DEF f, g
<1>4. /\ DOMAIN blocks' = (DOMAIN blocks \ {data}) \cup {a}
      /\ blocks'[a] = f
      /\ \A b \in DOMAIN blocks \ {data, a} : blocks'[b] = blocks[b]
  BY <1>3
<1>5. a \in Addresses /\ a # Null /\ (a \in DOMAIN blocks => a = data)
  BY LibraryAssumption
<1>6. SFields'
  BY <1>0, <1>2, <1>4, <1>5 DEF SFields
<1>7. SBlocks'
  BY <1>2, <1>4, <1>5 DEF SInv, SBlocks
<1>8. SReleased'
  <2>1. \A r \in released : r.at \in DOMAIN blocks \ {data, a}
    BY <1>5 DEF SInv, SReleased
  <2> QED BY <2>1, <1>4, <1>5 DEF SInv, SReleased
<1>9. Appended(w)
  <2> DEFINE h == Simple!Held
  <2>1. h \in Seq(Nat) /\ size <= Len(h)
    BY DEF SInv, SFields, SBlocks, Simple!Held
  <2>2. Simple!Held' = f
    BY <1>4, <1>5 DEF Simple!Held
  <2>3. (\A i \in 1..size : f[i] = h[i]) /\ \A i \in 1..Len(w) : f[size + i] = w[i]
    BY <1>1, <1>2
  <2>4. f \in Seq(Nat) /\ w \in Seq(Nat) /\ size \in Nat /\ size + Len(w) <= Len(f)
    BY <1>0, <1>2
  <2> HIDE DEF h
  <2>5. FirstBytes(size + Len(w), f) = FirstBytes(size, h) \o w
    BY ONLY <2>1, <2>3, <2>4, FirstBytesGrow
  <2> QED BY <2>2, <2>5 DEF Appended, Contents, h
<1> QED BY <1>6, <1>7, <1>8, <1>9 DEF SInv

\* What a step does to the contents.
Emptied == Contents' = <<>>

LEMMA SWrite ==
    ASSUME SInv, NEW w \in SimpleWrites, Simple!Write(w)
    PROVE  /\ SInv'
           /\ \/ Appended(w) /\ sbufferAnswer' = 0
              \/ Contents' = Contents /\ sbufferAnswer' = -1
<1>0. w \in Seq(Nat)
  BY LibraryAssumption
<1>1. CASE /\ Len(w) <= alloc - size
           /\ blocks' = IF data = Null THEN blocks
                        ELSE [blocks EXCEPT ![data] = Simple!Filled(@, w)]
           /\ size' = size + Len(w)
           /\ sbufferAnswer' = 0
           /\ UNCHANGED <<data, alloc, released>>
  BY <1>0, <1>1, SWriteInPlace
<1>2. ASSUME NEW a \in (Addresses \ DOMAIN blocks) \cup (Addresses \cap {data}),
             NEW n \in 1..SimpleMax, Simple!IsEnough(n, w),
             data' = a, alloc' = n,
             blocks' = [b \in (DOMAIN blocks \ {data}) \cup {a} |->
                           IF b = a THEN Simple!Filled(Simple!Extended(n), w) ELSE blocks[b]],
             size' = size + Len(w), sbufferAnswer' = 0, UNCHANGED released
      PROVE  SInv' /\ Appended(w)
  <2>1. n >= size + Len(w)
    BY <1>2 DEF Simple!IsEnough
  <2> QED BY <2>1, <1>0, <1>2, SWriteMoved
<1>3. CASE sbufferAnswer' = -1 /\ UNCHANGED <<Simple!sbuffer, blocks, released>>
  <2>1. UNCHANGED <<size, data, alloc, blocks, released>>
    BY <1>3 DEF Simple!sbuffer
  <2>2. SInv'
    BY <2>1 DEF SInv, SFields, SBlocks, SReleased
  <2>3. Contents' = Contents
    BY <2>1 DEF Contents, Simple!Held
  <2> QED BY <2>2, <2>3, <1>3
<1> QED BY <1>1, <1>2, <1>3 DEF Simple!Write

LEMMA SRelease == SInv /\ Simple!Release => SInv' /\ Emptied
<1> SUFFICES ASSUME SInv, Simple!Release PROVE SInv' /\ Emptied
  OBVIOUS
<1> DEFINE new == [at |-> data, bytes |-> SubSeq(Simple!Held, 1, size)]
<1>1. /\ size' = 0 /\ data' = Null /\ alloc' = 0 /\ blocks' = blocks
      /\ data # Null /\ released' = released \cup {new}
  BY DEF Simple!Release
<1>2. /\ data \in DOMAIN blocks /\ Simple!Held = blocks[data]
      /\ blocks[data] \in Seq(Nat) /\ size \in Nat /\ size <= Len(blocks[data])
  BY <1>1 DEF SInv, SFields, SBlocks, Simple!Held
<1>3. /\ new.at = data /\ new.bytes \in Seq(Nat) /\ Len(new.bytes) = size
      /\ \A i \in 1..size : new.bytes[i] = blocks[data][i]
  <2> DEFINE h == blocks[data]
  <2>1. \A i \in 1..size : h[i] \in Nat
    BY <1>2
  <2>2. new.bytes = SubSeq(h, 1, size)
    BY <1>2
  <2> HIDE DEF h
  <2>3. /\ SubSeq(h, 1, size) \in Seq(Nat)
        /\ Len(SubSeq(h, 1, size)) = size
        /\ \A i \in 1..size : SubSeq(h, 1, size)[i] = h[i]
    BY <2>1, <1>2, SubSeqPrefix
  <2> QED BY <2>2, <2>3, <1>2 DEF h
<1> HIDE DEF new
<1>4. SFields' /\ SBlocks'
  BY <1>1 DEF SInv, SFields, SBlocks
<1>5. SReleased'
  <2>1. \A r \in released' : r.at # Null
    BY <1>1, <1>3, LibraryAssumption DEF SInv, SReleased, SBlocks
  <2> QED BY <2>1, <1>1, <1>2, <1>3 DEF SInv, SReleased
<1>6. Emptied
  BY <1>1 DEF Emptied, Contents, FirstBytes
<1> QED BY <1>4, <1>5, <1>6 DEF SInv

LEMMA SClear == SInv /\ Simple!Clear => SInv' /\ Emptied
<1> SUFFICES ASSUME SInv, Simple!Clear PROVE SInv' /\ Emptied
  OBVIOUS
<1>1. size' = 0 /\ UNCHANGED <<data, alloc, blocks, released>>
  BY DEF Simple!Clear
<1>2. SInv'
  BY <1>1 DEF SInv, SFields, SBlocks, SReleased
<1>3. Emptied
  BY <1>1 DEF Emptied, Contents, FirstBytes
<1> QED BY <1>2, <1>3

LEMMA SFree ==
    ASSUME SInv, NEW r \in released, Simple!Free(r)
    PROVE  SInv' /\ Contents' = Contents
<1>1. /\ UNCHANGED <<size, data, alloc, sbufferAnswer>>
      /\ released' = released \ {r}
      /\ blocks' = [a \in DOMAIN blocks \ {r.at} |-> blocks[a]]
  BY DEF Simple!Free, Simple!sbuffer
<1>2. r.at # data
  BY DEF SInv, SReleased
<1>3. SFields' /\ SBlocks'
  BY <1>1, <1>2 DEF SInv, SFields, SBlocks
<1>4. SReleased'
  <2>1. \A q \in released' : q \in released /\ q.at # r.at
    BY <1>1 DEF SInv, SReleased
  <2> QED BY <2>1, <1>1 DEF SInv, SReleased
<1>5. Simple!Held' = Simple!Held
  BY <1>1, <1>2 DEF Simple!Held, SInv, SFields
<1> QED BY <1>1, <1>3, <1>4, <1>5 DEF SInv, Contents

LEMMA SNext == SInv /\ [Simple!Next]_(Simple!vars) => SInv'
<1> SUFFICES ASSUME SInv, [Simple!Next]_(Simple!vars) PROVE SInv'
  OBVIOUS
<1>1. CASE UNCHANGED Simple!vars
  BY <1>1 DEF Simple!vars, Simple!sbuffer, SInv, SFields, SBlocks, SReleased
<1> QED BY <1>1, SWrite, SRelease, SClear, SFree DEF Simple!Next

LEMMA SInvariance == Simple!Spec => []SInv
<1> QED BY SInit, SNext, PTL DEF Simple!Spec

\* A block that the caller took over is the caller's: msgpack_sbuffer_write neither
\* writes to it nor moves or frees it, whatever is written later (sbuffer.h:67-96).
THEOREM ReleasedStaysIntact == Simple!Spec => []SBufferReleasedIntact
<1>1. SInv => SBufferReleasedIntact
  <2> SUFFICES ASSUME SInv, NEW r \in released
               PROVE  /\ r.at \in DOMAIN blocks /\ r.at # data
                      /\ Simple!IsPrefix(r.bytes, blocks[r.at])
    BY DEF SBufferReleasedIntact, Simple!ReleasedIntact
  <2>1. /\ r.at \in DOMAIN blocks /\ r.at # data
        /\ r.bytes \in Seq(Nat) /\ blocks[r.at] \in Seq(Nat)
        /\ Len(r.bytes) <= Len(blocks[r.at])
        /\ \A i \in 1..Len(r.bytes) : r.bytes[i] = blocks[r.at][i]
    BY DEF SInv, SReleased, SBlocks
  <2> DEFINE b == r.bytes
             h == blocks[r.at]
  <2>2. \A i \in 1..Len(b) : b[i] \in Nat /\ h[i] \in Nat
    BY <2>1
  <2>3. Len(b) \in Nat
    BY <2>1
  <2>4. \A i \in 1..Len(b) : b[i] = h[i]
    BY <2>1
  <2>5. b \in Seq(Nat) /\ Len(b) <= Len(h)
    BY <2>1
  <2> HIDE DEF b, h
  <2>6. /\ SubSeq(b, 1, Len(b)) \in Seq(Nat)
        /\ Len(SubSeq(b, 1, Len(b))) = Len(b)
        /\ \A i \in 1..Len(b) : SubSeq(b, 1, Len(b))[i] = b[i]
    BY <2>2, <2>3, <2>5, SubSeqFull
  <2>7. /\ SubSeq(h, 1, Len(b)) \in Seq(Nat)
        /\ Len(SubSeq(h, 1, Len(b))) = Len(b)
        /\ \A i \in 1..Len(b) : SubSeq(h, 1, Len(b))[i] = h[i]
    BY <2>2, <2>3, SubSeqPrefix
  <2>8. SubSeq(b, 1, Len(b)) = SubSeq(h, 1, Len(b))
    BY <2>4, <2>6, <2>7, SeqEqual
  <2> QED BY <2>1, <2>5, <2>8 DEF Simple!IsPrefix, b, h
<1> QED BY <1>1, SInvariance, PTL

\* What an sbuffer holds is what was written to it since it was cleared or released:
\* the writes that answered 0, in order, through every realloc (sbuffer.h:67-101).
THEOREM SBufferKeepsOrder == Simple!Spec => SBufferAppends
<1> DEFINE contents == [b \in {Null} |-> Contents]
<1>1. Simple!Init => Simple!Abstract!Init
  BY DEF Simple!Init, Simple!Abstract!Init
<1>2. SInv /\ [Simple!Next]_(Simple!vars) => [Simple!Abstract!Next]_(Simple!Abstract!vars)
  <2> SUFFICES ASSUME SInv, [Simple!Next]_(Simple!vars)
               PROVE  [Simple!Abstract!Next]_(Simple!Abstract!vars)
    OBVIOUS
  <2>0. Simple!Abstract!vars = <<contents, sbufferAnswer, FALSE>>
    BY DEF Simple!Abstract!vars, Contents, FirstBytes
  <2>1. ASSUME NEW w \in SimpleWrites, Simple!Write(w) PROVE Simple!Abstract!Next
    <3>1. \/ contents' = [contents EXCEPT ![Null] = @ \o w] /\ sbufferAnswer' = 0
          \/ contents' = contents /\ sbufferAnswer' = -1
      BY <2>1, SWrite DEF Appended
    <3>2. Simple!Abstract!Write(Null, w)
      BY <3>1 DEF Simple!Abstract!Write, Contents, FirstBytes
    <3> QED BY <3>2 DEF Simple!Abstract!Next
  <2>2. ASSUME Simple!Release \/ Simple!Clear PROVE Simple!Abstract!Next
    <3>1. Contents' = <<>> /\ sbufferAnswer' = 0
      BY <2>2, SRelease, SClear DEF Emptied, Simple!Release, Simple!Clear
    <3>2. contents' = [contents EXCEPT ![Null] = <<>>]
      BY <3>1
    <3>3. Simple!Abstract!Clear(Null)
      BY <3>1, <3>2 DEF Simple!Abstract!Clear, Contents, FirstBytes
    <3> QED BY <3>3 DEF Simple!Abstract!Next
  <2>3. ASSUME NEW r \in released, Simple!Free(r) PROVE UNCHANGED Simple!Abstract!vars
    <3>1. Contents' = Contents
      BY <2>3, SFree
    <3>2. sbufferAnswer' = sbufferAnswer
      BY <2>3 DEF Simple!Free
    <3> QED BY <3>1, <3>2, <2>0 DEF Simple!Abstract!vars, Contents, FirstBytes
  <2>4. CASE UNCHANGED Simple!vars
    BY <2>4 DEF Simple!vars, Simple!sbuffer, Simple!Abstract!vars, Simple!Held
  <2> QED BY <2>1, <2>2, <2>3, <2>4 DEF Simple!Next
<1> QED BY <1>1, <1>2, SInvariance, PTL
        DEF Simple!Spec, SBufferAppends, Simple!Appends, Simple!Abstract!Spec

-----------------------------------------------------------------------------
(* The zbuffer                                                             *)

ZTypes ==
    /\ at \in {"idle", "write", "flush", "expand"}
    /\ finishing \in {"no", "asked", "done"}
    /\ avail_out \in Nat
    /\ out \in Seq(Nat) /\ input \in Seq(Nat) /\ pending \in Seq(Nat)
    /\ written \in Seq(Nat) /\ given \in Seq(Nat)

Mark(f) == IF f = "no" THEN <<>> ELSE <<Compressed!End>>

\* Where the bytes are that were written, while no write has failed: given away, put
\* out, read by deflate and, during a write, still in the input.  A write after deflate
\* was asked to finish fails, so nothing is said of the input then.
ZFlow(f, a, w, g, o, p, i, fin) ==
    ~f => /\ a # "write" => i = <<>> /\ (g \o o) \o p = w \o Mark(fin)
          /\ a = "write" /\ fin = "no" => ((g \o o) \o p) \o i = w

ZInv ==
    /\ ZTypes
    /\ ZFlow(failed, at, written, given, out, pending, input, finishing)
    /\ finishing = "done" => pending = <<>>

LEMMA Concatenated == \A s, t \in Seq(Nat) : s \o t \in Seq(Nat)
BY ConcatProperties

\* Concatenation by its laws alone: Cat(s, t) is s \o t.
LEMMA CatLaws ==
    /\ \A s, t \in Seq(Nat) : Cat(s, t) \in Seq(Nat)
    /\ \A s, t, u \in Seq(Nat) : Cat(Cat(s, t), u) = Cat(s, Cat(t, u))
BY ConcatProperties, ConcatAssociative DEF Cat

\* All bytes on their way, and what is left of them when i1 of the input was read and
\* a1 of what was pending then was put out.
Flow(g, o, p, i) == ((g \o o) \o p) \o i
Deflated(g, o, p, i, o1, a2, i2) ==
    /\ g \in Seq(Nat) /\ o \in Seq(Nat) /\ p \in Seq(Nat) /\ i \in Seq(Nat)
    /\ \E i1, a1 \in Seq(Nat) : a1 \o a2 = p \o i1 /\ i1 \o i2 = i /\ o1 = o \o a1
    /\ a2 \in Seq(Nat) /\ i2 \in Seq(Nat)

\* What deflate reads and puts out, wherever the bytes are cut.
LEMMA DeflateKeeps ==
    ASSUME NEW g, NEW o, NEW p, NEW i, NEW o1, NEW a2, NEW i2,
           Deflated(g, o, p, i, o1, a2, i2)
    PROVE  Flow(g, o1, a2, i2) = Flow(g, o, p, i)
<1>0. PICK i1 \in Seq(Nat), a1 \in Seq(Nat) :
           a1 \o a2 = p \o i1 /\ i1 \o i2 = i /\ o1 = o \o a1
  BY DEF Deflated
<1> USE DEF Deflated
<1>1. Cat(a1, a2) = Cat(p, i1) /\ Cat(i1, i2) = i
  BY <1>0 DEF Cat
<1> DEFINE x == Cat(g, o)
<1>2. x \in Seq(Nat) /\ Cat(g, Cat(o, a1)) = Cat(x, a1)
  BY CatLaws
<1> HIDE DEF x
<1>3. Cat(Cat(x, a1), a2) = Cat(x, Cat(p, i1))
  BY <1>1, <1>2, CatLaws
<1>4. Cat(Cat(Cat(x, a1), a2), i2) = Cat(Cat(x, p), i)
  <2>1. Cat(x, p) \in Seq(Nat) /\ Cat(x, Cat(p, i1)) = Cat(Cat(x, p), i1)
    BY <1>2, CatLaws
  <2>2. Cat(Cat(Cat(x, p), i1), i2) = Cat(Cat(x, p), i)
    BY <1>1, <2>1, CatLaws
  <2> QED BY <1>3, <2>1, <2>2
<1>5. Cat(Cat(Cat(g, Cat(o, a1)), a2), i2) = Cat(Cat(Cat(g, o), p), i)
  BY <1>2, <1>4 DEF x
<1> QED BY <1>0, <1>5 DEF Cat, Flow

\* A sequence cut in two.
LEMMA Cut ==
    ASSUME NEW s \in Seq(Nat), NEW n \in 0..Len(s)
    PROVE  /\ SubSeq(s, 1, n) \in Seq(Nat) /\ SubSeq(s, n + 1, Len(s)) \in Seq(Nat)
           /\ Len(SubSeq(s, 1, n)) = n
           /\ n = Len(s) => SubSeq(s, n + 1, Len(s)) = <<>>
           /\ SubSeq(s, 1, n) \o SubSeq(s, n + 1, Len(s)) = s
<1>1. Len(s) \in Nat /\ n \in Nat /\ \A j \in 1..Len(s) : s[j] \in Nat
  OBVIOUS
<1>2. SubSeq(s, 1, n) \in Seq(Nat) /\ Len(SubSeq(s, 1, n)) = n
  <2>1. \A j \in 1..n : s[j] \in Nat
    BY <1>1
  <2> QED BY <1>1, <2>1, SubSeqPrefix
<1>3. SubSeq(s, n + 1, Len(s)) \in Seq(Nat)
  <2>1. \A j \in (n + 1)..Len(s) : s[j] \in Nat
    BY <1>1
  <2> QED BY <1>1, <2>1, SubSeqProperties
<1>4. n = Len(s) => SubSeq(s, n + 1, Len(s)) = <<>>
  <2>1. n = Len(s) => Len(s) < n + 1
    BY <1>1
  <2> QED BY <1>1, <2>1, SubSeqEmpty
<1>5. SubSeq(s, 1, n) \o SubSeq(s, n + 1, Len(s)) = SubSeq(s, 1, Len(s))
  <2>1. 1 \in 1..(Len(s) + 1) /\ n \in (1 - 1)..Len(s) /\ Len(s) \in n..Len(s)
    BY <1>1
  <2> QED BY <2>1, ConcatAdjacentSubSeq
<1>6. SubSeq(s, 1, Len(s)) = s
  BY SubSeqFull
<1>7. SubSeq(s, 1, n) \o SubSeq(s, n + 1, Len(s)) = s
  BY <1>5, <1>6, Zenon
<1> QED BY <1>2, <1>3, <1>4, <1>7, Zenon

\* The state after deflate, of which all bytes are those before and the mark.
LEMMA DeflateFlow ==
    ASSUME ZTypes, NEW k \in 0..Len(input), NEW m \in Nat, NEW room \in Nat, m <= room,
           NEW mark \in Seq(Nat),
           Compressed!Deflate(k, m, room, mark)
    PROVE  /\ out' \in Seq(Nat) /\ pending' \in Seq(Nat) /\ input' \in Seq(Nat)
           /\ avail_out' \in Nat
           /\ mark = <<>> \/ input = <<>> =>
                  ((given \o out') \o pending') \o input' = (((given \o out) \o pending) \o input) \o mark
           /\ k = Len(input) => input' = <<>>
           /\ m = Len(pending) + k + Len(mark) => pending' = <<>>
<1> DEFINE i1 == SubSeq(input, 1, k)
           i2 == SubSeq(input, k + 1, Len(input))
           all == (pending \o i1) \o mark
           a1 == SubSeq(all, 1, m)
           a2 == SubSeq(all, m + 1, Len(all))
<1>1. /\ m <= Len(all) /\ out' = out \o a1 /\ pending' = a2
      /\ avail_out' = room - m /\ input' = i2
  BY DEF Compressed!Deflate
<1>2. /\ i1 \in Seq(Nat) /\ i2 \in Seq(Nat) /\ Len(i1) = k
      /\ i1 \o i2 = input /\ (k = Len(input) => i2 = <<>>)
  BY Cut DEF ZTypes
<1> HIDE DEF i1, i2
<1>3. /\ pending \in Seq(Nat) /\ given \in Seq(Nat) /\ out \in Seq(Nat) /\ input \in Seq(Nat)
  BY DEF ZTypes
<1>4. pending \o i1 \in Seq(Nat) /\ Len(pending \o i1) = Len(pending) + k
  BY <1>2, <1>3, ConcatProperties
<1>5. all \in Seq(Nat) /\ Len(all) = Len(pending) + k + Len(mark)
  BY <1>4, ConcatProperties
<1> HIDE DEF all
<1>6. m \in 0..Len(all)
  BY <1>1, <1>5
<1>7. /\ a1 \in Seq(Nat) /\ a2 \in Seq(Nat) /\ a1 \o a2 = all
      /\ m = Len(all) => a2 = <<>>
  BY <1>5, <1>6, Cut
<1> HIDE DEF a1, a2
<1>8. out' \in Seq(Nat) /\ avail_out' \in Nat
  BY <1>1, <1>3, <1>7, ConcatProperties
<1>9. mark = <<>> \/ input = <<>> =>
          ((given \o out') \o pending') \o input' = (((given \o out) \o pending) \o input) \o mark
  <2> DEFINE x == (given \o out) \o pending
  <2>0. x \in Seq(Nat) /\ x \o input \in Seq(Nat)
    <3>1. given \o out \in Seq(Nat)
      BY <1>3, ConcatProperties
    <3>2. x \in Seq(Nat)
      BY <1>3, <3>1, ConcatProperties
    <3> QED BY <1>3, <3>2, ConcatProperties
  <2>1. CASE mark = <<>>
    <3>1. all = pending \o i1
      BY <2>1, <1>4, ConcatEmptySeq DEF all
    <3>2. Deflated(given, out, pending, input, out', a2, i2)
      BY <3>1, <1>1, <1>2, <1>3, <1>7 DEF Deflated
    <3>3. Flow(given, out', a2, i2) = Flow(given, out, pending, input)
      BY <3>2, DeflateKeeps
    <3>4. (x \o input) \o mark = x \o input
      BY <2>0, <2>1, ConcatEmptySeq
    <3> QED BY <3>3, <3>4, <1>1 DEF Flow
  <2>2. CASE mark # <<>> /\ input = <<>>
    <3>1. input = <<>> /\ k = 0
      BY <2>2
    <3>2. i1 = <<>> /\ i2 = <<>>
      BY <3>1, <1>2
    <3>3. all = pending \o mark
      BY <3>2, <1>3, ConcatEmptySeq DEF all
    <3>4. Deflated(given, out, pending, mark, out', a2, i2)
      BY <3>2, <3>3, <1>1, <1>2, <1>3, <1>7, ConcatEmptySeq DEF Deflated
    <3>5. Flow(given, out', a2, i2) = Flow(given, out, pending, mark)
      BY <3>4, DeflateKeeps
    <3>6. x \o input = x
      BY <2>0, <3>1, ConcatEmptySeq
    <3> QED BY <3>5, <3>6, <1>1 DEF Flow
  <2> QED BY <2>1, <2>2
<1> QED BY <1>1, <1>2, <1>5, <1>7, <1>8, <1>9

\* What the steps of the zbuffer need to know of its constants.
LEMMA ExpandedRoom ==
    ASSUME ZTypes
    PROVE  Compressed!Expanded \subseteq Nat
<1>1. Len(out) \in Nat /\ avail_out \in Nat
  BY DEF ZTypes
<1>2. CASE Len(out) + avail_out = 0
  <2>1. Len(out) = 0
    BY <1>1, <1>2
  <2> QED BY <1>2, <2>1, LibraryAssumption DEF Compressed!Expanded
<1>3. CASE Len(out) + avail_out # 0
  <2>1. 2 * (Len(out) + avail_out) - Len(out) \in Nat
    BY <1>1
  <2> QED BY <1>3, <2>1 DEF Compressed!Expanded
<1> QED BY <1>2, <1>3

LEMMA ZInit == Compressed!Init => ZInv
<1> SUFFICES ASSUME Compressed!Init PROVE ZInv
  OBVIOUS
<1>1. ZTypes
  BY DEF Compressed!Init, ZTypes
<1>2. /\ out = <<>> /\ given = <<>> /\ pending = <<>> /\ input = <<>> /\ written = <<>>
      /\ finishing = "no" /\ at = "idle"
  BY DEF Compressed!Init
<1>3. (given \o out) \o pending = written \o Mark(finishing)
  BY <1>2 DEF Mark
<1> QED BY <1>1, <1>2, <1>3 DEF ZInv, ZFlow

\* A write hands its bytes to the stream.
LEMMA ZWrite ==
    ASSUME ZInv, NEW w \in CompressedWrites, Compressed!Write(w)
    PROVE  ZInv'
<1>1. /\ at = "idle" /\ at' = "write" /\ input' = w /\ written' = written \o w
      /\ UNCHANGED <<out, avail_out, pending, finishing, zbufferAnswer, given, failed>>
  BY DEF Compressed!Write
<1>2. w \in Seq(Nat) /\ written \in Seq(Nat)
  BY LibraryAssumption DEF ZInv, ZTypes
<1>3. ZTypes'
  BY <1>1, <1>2, Concatenated DEF ZInv, ZTypes
<1>4. ~failed' /\ finishing' = "no" => ((given' \o out') \o pending') \o input' = written'
  <2> SUFFICES ASSUME ~failed', finishing' = "no"
               PROVE  ((given' \o out') \o pending') \o input' = written'
    OBVIOUS
  <2>1. (given \o out) \o pending = written \o <<>>
    BY <1>1 DEF ZInv, ZFlow, Mark
  <2>2. (given \o out) \o pending = written
    BY <2>1, <1>2, ConcatEmptySeq
  <2> QED BY <1>1, <2>2
<1> QED BY <1>1, <1>3, <1>4 DEF ZInv, ZFlow

\* A write that fails leaves its rest in the stream.
LEMMA ZWriteFails ==
    ASSUME ZInv, Compressed!WriteFails, avail_out' \in Nat
    PROVE  ZInv'
<1>1. /\ failed' = TRUE /\ at' = "idle"
      /\ UNCHANGED <<out, input, pending, finishing, written, given>>
  BY DEF Compressed!WriteFails, Compressed!Return
<1> QED BY <1>1 DEF ZInv, ZTypes, ZFlow

LEMMA ZWriteRound ==
    ASSUME ZInv, Compressed!WriteRound
    PROVE  ZInv'
<1>0. Compressed!Expanded \subseteq Nat /\ avail_out \in Nat /\ at = "write" /\ ZTypes
  BY ExpandedRoom DEF ZInv, ZTypes, Compressed!WriteRound
<1>1. CASE Compressed!WriteFails /\ UNCHANGED avail_out
  BY <1>0, <1>1, ZWriteFails
<1>2. ASSUME NEW room \in IF avail_out < ReserveSize THEN Compressed!Expanded ELSE {avail_out},
             \/ /\ finishing # "no" \/ input = <<>>
                /\ Compressed!WriteFails
                /\ avail_out' = room
             \/ /\ finishing = "no"
                /\ \E k \in 0..Len(input), m \in 0..room :
                      /\ k = Len(input) \/ m = room
                      /\ Compressed!Deflate(k, m, room, <<>>)
                /\ IF Compressed!ReadAll(input', avail_out') THEN Compressed!Return(0)
                   ELSE UNCHANGED <<at, zbufferAnswer>>
                /\ UNCHANGED <<finishing, written, given, failed>>
      PROVE  ZInv'
  <2>0. room \in Nat
    BY <1>0, <1>2
  <2>1. CASE Compressed!WriteFails /\ avail_out' = room
    BY <2>0, <2>1, ZWriteFails
  <2>2. ASSUME NEW k \in 0..Len(input), NEW m \in 0..room,
               Compressed!Deflate(k, m, room, <<>>),
               finishing = "no",
               IF Compressed!ReadAll(input', avail_out') THEN Compressed!Return(0)
               ELSE UNCHANGED <<at, zbufferAnswer>>,
               UNCHANGED <<finishing, written, given, failed>>
        PROVE  ZInv'
    <3>1. m \in Nat /\ m <= room /\ <<>> \in Seq(Nat)
      BY <2>0
    <3>2. /\ out' \in Seq(Nat) /\ pending' \in Seq(Nat) /\ input' \in Seq(Nat)
          /\ avail_out' \in Nat
          /\ ((given \o out') \o pending') \o input' = (((given \o out) \o pending) \o input) \o <<>>
      BY <1>0, <2>0, <2>2, <3>1, DeflateFlow
    <3>3. at' = "write" \/ (at' = "idle" /\ input' = <<>>)
      BY <1>0, <2>2 DEF Compressed!ReadAll, Compressed!Return
    <3>4. ZTypes'
      BY <2>2, <3>2, <3>3, <1>0 DEF ZTypes
    <3>5. ~failed => ((given \o out') \o pending') \o input' = written
      <4> SUFFICES ASSUME ~failed PROVE ((given \o out') \o pending') \o input' = written
        OBVIOUS
      <4>1. ((given \o out) \o pending) \o input = written
        BY <1>0, <2>2 DEF ZInv, ZFlow
      <4>2. written \o <<>> = written
        BY <1>0, ConcatEmptySeq DEF ZTypes
      <4> QED BY <3>2, <4>1, <4>2
    <3>6. CASE at' = "write"
      BY <2>2, <3>4, <3>5, <3>6 DEF ZInv, ZFlow
    <3>7. CASE at' = "idle" /\ input' = <<>>
      <4>1. (given \o out') \o pending' \in Seq(Nat)
        BY <1>0, <3>2, Concatenated DEF ZTypes
      <4>2. ~failed => (given \o out') \o pending' = written \o Mark(finishing)
        <5>1. ((given \o out') \o pending') \o <<>> = (given \o out') \o pending'
          BY <4>1, ConcatEmptySeq
        <5>2. written \o Mark(finishing) = written
          BY <2>2, <1>0, ConcatEmptySeq DEF Mark, ZTypes
        <5> QED BY <3>5, <3>7, <5>1, <5>2
      <4> QED BY <2>2, <3>4, <3>7, <4>2 DEF ZInv, ZFlow
    <3> QED BY <3>3, <3>6, <3>7
  <2> QED BY <1>2, <2>1, <2>2
<1> QED BY <1>1, <1>2 DEF Compressed!WriteRound, Compressed!history

LEMMA ZFlushRound ==
    ASSUME ZInv, Compressed!FlushRound
    PROVE  ZInv'
<1> DEFINE mark == IF finishing = "no" THEN <<Compressed!End>> ELSE <<>>
           all == Len(pending) + Len(input) + Len(mark)
<1>0. /\ at = "flush" /\ ZTypes /\ UNCHANGED <<written, given, failed>>
      /\ mark \in Seq(Nat) /\ Len(mark) \in Nat
  BY DEF ZInv, Compressed!FlushRound, Compressed!history, Compressed!End
<1>1. ~failed => /\ input = <<>> /\ (given \o out) \o pending = written \o Mark(finishing)
                 /\ written \o Mark(finishing) \in Seq(Nat)
  <2>1. Mark(finishing) \in Seq(Nat)
    BY DEF Mark, Compressed!End
  <2>2. written \o Mark(finishing) \in Seq(Nat)
    BY <1>0, <2>1, Concatenated DEF ZTypes
  <2> QED BY <1>0, <2>2 DEF ZInv, ZFlow
<1>2. CASE avail_out = 0 /\ Compressed!Return(-1) /\ UNCHANGED Compressed!stream
  BY <1>0, <1>2 DEF ZInv, ZTypes, ZFlow, Compressed!Return, Compressed!stream
\* A round reads all of the input and puts out m bytes.
<1>3. ASSUME NEW m \in Nat, m <= avail_out, Compressed!Deflate(Len(input), m, avail_out, mark)
      PROVE  /\ out' \in Seq(Nat) /\ pending' \in Seq(Nat) /\ input' \in Seq(Nat)
             /\ avail_out' \in Nat
             /\ ~failed => input' = <<>> /\ (given \o out') \o pending' = written \o <<Compressed!End>>
             /\ m = all => pending' = <<>>
  <2>0. avail_out \in Nat /\ Len(input) \in Nat /\ Len(input) \in 0..Len(input)
    BY <1>0 DEF ZTypes
  <2> HIDE DEF mark
  <2>1. /\ out' \in Seq(Nat) /\ pending' \in Seq(Nat) /\ input' \in Seq(Nat)
        /\ avail_out' \in Nat /\ input' = <<>>
        /\ mark = <<>> \/ input = <<>> =>
               ((given \o out') \o pending') \o input' = (((given \o out) \o pending) \o input) \o mark
        /\ m = all => pending' = <<>>
    BY <1>0, <2>0, <1>3, DeflateFlow
  <2>2. ASSUME ~failed
        PROVE  (given \o out') \o pending' = written \o <<Compressed!End>>
    <3>1. (given \o out') \o pending' \in Seq(Nat)
      BY <1>0, <2>1, Concatenated DEF ZTypes
    <3>2. ((given \o out') \o pending') \o <<>> = (given \o out') \o pending'
      BY <3>1, ConcatEmptySeq
    <3>3. (written \o Mark(finishing)) \o <<>> = written \o Mark(finishing)
      BY <1>1, <2>2, ConcatEmptySeq
    <3>4. (given \o out') \o pending' = (written \o Mark(finishing)) \o mark
      BY <1>1, <2>1, <2>2, <3>2, <3>3
    <3>5. CASE finishing = "no"
      <4>1. Mark(finishing) = <<>> /\ mark = <<Compressed!End>>
        BY <3>5 DEF Mark, mark
      <4>2. written \o <<>> = written
        BY <1>0, ConcatEmptySeq DEF ZTypes
      <4> QED BY <3>4, <4>1, <4>2
    <3>6. CASE finishing # "no"
      <4>1. Mark(finishing) = <<Compressed!End>> /\ mark = <<>>
        BY <3>6 DEF Mark, mark
      <4> QED BY <3>3, <3>4, <4>1
    <3> QED BY <3>5, <3>6
  <2> QED BY <2>1, <2>2
<1>4. CASE /\ all <= avail_out
           /\ Compressed!Deflate(Len(input), all, avail_out, mark)
           /\ finishing' = "done" /\ Compressed!Return(0)
  <2>1. all \in Nat
    BY <1>0 DEF ZTypes
  <2> HIDE DEF mark, all
  <2>2. ZTypes' /\ pending' = <<>>
    BY <1>0, <1>3, <1>4, <2>1 DEF ZTypes, Compressed!Return
  <2> QED BY <1>0, <1>3, <1>4, <2>1, <2>2 DEF ZInv, ZFlow, Mark, Compressed!Return
<1>5. CASE /\ Compressed!Deflate(Len(input), avail_out, avail_out, mark)
           /\ finishing' = "asked" /\ at' = "expand"
  <2>1. avail_out \in Nat /\ avail_out <= avail_out
    BY <1>0 DEF ZTypes
  <2> HIDE DEF mark, all
  <2>2. ZTypes'
    BY <1>0, <1>3, <1>5, <2>1 DEF ZTypes
  <2> QED BY <1>0, <1>3, <1>5, <2>1, <2>2 DEF ZInv, ZFlow, Mark
<1> QED BY <1>2, <1>4, <1>5 DEF Compressed!FlushRound

\* The steps that leave the bytes where they are.
LEMMA ZStays ==
    ASSUME ZInv, Compressed!Flush \/ Compressed!FlushExpand
    PROVE  ZInv'
<1>1. CASE Compressed!Flush
  BY <1>1 DEF ZInv, ZTypes, ZFlow, Compressed!Flush, Compressed!stream, Compressed!history
<1>2. CASE Compressed!FlushExpand
  <2>1. Compressed!Expanded \subseteq Nat
    BY ExpandedRoom DEF ZInv
  <2>2. avail_out' \in Nat /\ at' \in {"idle", "flush"}
    BY <1>2, <2>1 DEF Compressed!FlushExpand, Compressed!Return, ZInv, ZTypes
  <2>3. at = "expand" /\ UNCHANGED <<out, input, pending, finishing, written, given, failed>>
    BY <1>2 DEF Compressed!FlushExpand, Compressed!history
  <2> QED BY <2>2, <2>3 DEF ZInv, ZTypes, ZFlow
<1> QED BY <1>1, <1>2

\* The buffer is given away, or emptied by reset_buffer.
LEMMA ZGivesAway ==
    ASSUME ZInv, Compressed!ResetBuffer \/ Compressed!ReleaseBuffer
    PROVE  ZInv'
<1>1. /\ at = "idle" /\ out' = <<>> /\ given' = given \o out
      /\ avail_out' = 0 \/ avail_out' = avail_out + Len(out)
      /\ UNCHANGED <<at, input, pending, finishing, written, failed>>
  BY DEF Compressed!ResetBuffer, Compressed!ReleaseBuffer
<1>2. ZTypes
  BY DEF ZInv
<1>3. given \o out \in Seq(Nat) /\ (given \o out) \o <<>> = given \o out
  BY <1>2, Concatenated, ConcatEmptySeq DEF ZTypes
<1>4. ZTypes'
  BY <1>1, <1>2, <1>3 DEF ZTypes
<1>5. given' \o out' = given \o out
  BY <1>1, <1>3
<1> QED BY <1>1, <1>4, <1>5 DEF ZInv, ZFlow

LEMMA ZReset ==
    ASSUME ZInv, Compressed!Reset
    PROVE  ZInv'
<1>1. /\ at = "idle" /\ at' = at /\ out' = <<>> /\ avail_out' = avail_out + Len(out)
      /\ pending' = <<>> /\ finishing' = "no" /\ written' = <<>> /\ given' = <<>>
      /\ failed' = (input # <<>>) /\ input' = input
  BY DEF Compressed!Reset
<1>2. ZTypes'
  BY <1>1 DEF ZInv, ZTypes
<1>3. (given' \o out') \o pending' = written' \o Mark(finishing')
  BY <1>1 DEF Mark
<1> QED BY <1>1, <1>2, <1>3 DEF ZInv, ZFlow

LEMMA ZNext == ZInv /\ [Compressed!Next]_(Compressed!vars) => ZInv'
<1> SUFFICES ASSUME ZInv, [Compressed!Next]_(Compressed!vars) PROVE ZInv'
  OBVIOUS
<1>1. CASE UNCHANGED Compressed!vars
  BY <1>1 DEF Compressed!vars, Compressed!stream, Compressed!history, ZInv, ZTypes, ZFlow
<1> QED BY <1>1, ZWrite, ZWriteRound, ZFlushRound, ZStays, ZGivesAway, ZReset
        DEF Compressed!Next

LEMMA ZInvariance == Compressed!Spec => []ZInv
<1> QED BY ZInit, ZNext, PTL DEF Compressed!Spec

\* What a zbuffer has put out, in the buffers that were given away and in its own, is
\* once its flush has answered all that was written and the end, in order, for any
\* cutting of the bytes by deflate (zbuffer.h:108-197).
THEOREM FlushPutsOutAll == Compressed!Spec => []ZBufferFlushedIsWritten
<1>1. ZInv => ZBufferFlushedIsWritten
  BY DEF ZInv, ZFlow, Mark, ZBufferFlushedIsWritten, Compressed!FlushedIsWritten
<1> QED BY <1>1, ZInvariance, PTL

-----------------------------------------------------------------------------
(* The zone                                                                *)

PieceType == [chunk : Places, off : Nat, len : Nat]
ZoneType == [chunks : Seq(Places), chunk : Places, ptr : Nat, free : Nat, chunk_size : Nat,
             fins : Seq(PieceType), end : Nat]

OwnOf(y) == {y.chunks[i] : i \in 1..Len(y.chunks)}

\* The list of chunks of a zone y, with their lengths l: the newest is the one in use,
\* and the oldest has chunk_size bytes.
Chain(y, l) ==
    /\ Len(y.chunks) >= 1 /\ y.chunk = y.chunks[1]
    /\ \A i, j \in 1..Len(y.chunks) : y.chunks[i] = y.chunks[j] => i = j
    /\ \A c \in OwnOf(y) : c \in DOMAIN l /\ l[c] \in Nat
    /\ y.ptr + y.free = l[y.chunk]
    /\ l[y.chunks[Len(y.chunks)]] = y.chunk_size /\ y.chunk_size >= 1

\* The pieces P of y are in its chunks, below what is free, and apart.
Laid(y, l, P) ==
    /\ P \subseteq PieceType
    /\ \A p \in P : /\ p.chunk \in OwnOf(y)
                    /\ p.off + p.len <= l[p.chunk]
                    /\ p.chunk = y.chunk => p.off + p.len <= y.ptr
    /\ \A p, q \in P : p # q => ~Memory!Overlap(p, q)

\* The finalizers of y are those of the objects B, among the pieces P.
Registered(y, P, B) ==
    /\ B \in Seq(PieceType) /\ y.fins = B
    /\ \A i, j \in 1..Len(B) : B[i] = B[j] => i = j
    /\ \A i \in 1..Len(B) : B[i] \in P

Good(y, l, P, B) == y \in ZoneType /\ Chain(y, l) /\ Laid(y, l, P) /\ Registered(y, P, B)

MInv ==
    /\ DOMAIN zone = Zones /\ DOMAIN pieces = Zones /\ DOMAIN built = Zones
    /\ \A z \in Zones : Good(zone[z], length, pieces[z], built[z])
    /\ \A y, z \in Zones : y # z => OwnOf(zone[y]) \cap OwnOf(zone[z]) = {}

-----------------------------------------------------------------------------
(* Sizes                                                                   *)

\* Rounding up.
LEMMA AlignedUp == \A n \in Nat : Memory!Aligned(n) \in Nat /\ Memory!Aligned(n) >= n
<1> TAKE n \in Nat
<1> DEFINE a == Align
           q == (n + a - 1) \div a
<1>1. a \in Nat /\ a >= 1
  BY LibraryAssumption
<1> HIDE DEF a
<1>2. q \in Nat /\ q * a <= n + a - 1 /\ n + a - 1 < (q + 1) * a
  BY <1>1
<1> HIDE DEF q
<1>3. (q + 1) * a = q * a + a /\ q * a \in Nat
  BY <1>1, <1>2
<1>4. q * a >= n
  BY <1>1, <1>2, <1>3
<1> QED BY <1>3, <1>4 DEF Memory!Aligned, q, a

\* A new chunk is long enough.
LEMMA ChunkFits ==
    ASSUME NEW z \in Zones, zone[z].chunk_size \in Nat, zone[z].chunk_size >= 1, NEW n \in Nat
    PROVE  Memory!ChunkFor(z, n) \in Nat /\ Memory!ChunkFor(z, n) >= n
<1> DEFINE c == zone[z].chunk_size
           enough == {m \in {c * 2^k : k \in 0..n} : m >= n}
<1>1. c \in Nat /\ c >= 1
  OBVIOUS
<1> HIDE DEF c
<1>2. \A k \in 0..n : c * 2^k \in Nat
  <2> TAKE k \in 0..n
  <2>1. 2^k \in Nat
    BY PowerOfTwo
  <2> QED BY <1>1, <2>1
<1>3. c * 2^n >= n
  <2> DEFINE p == 2^n
  <2>1. p \in Nat /\ n <= p
    BY PowerOfTwo
  <2> HIDE DEF p
  <2>2. c * p >= p
    BY <1>1, <2>1
  <2>3. c * p \in Nat
    BY <1>1, <2>1
  <2> QED BY <2>1, <2>2, <2>3 DEF p
<1>4. c * 2^n \in enough
  BY <1>3
<1>5. enough \subseteq Nat
  BY <1>2
<1>6. \A m \in enough : m >= n
  OBVIOUS
<1> HIDE DEF enough
<1>7. \E m \in enough : \A l \in enough : m <= l
  BY <1>4, <1>5, LeastNatural
<1>8. Memory!ChunkFor(z, n) = CHOOSE m \in enough : \A l \in enough : m <= l
  BY DEF Memory!ChunkFor, enough, c
<1>9. Memory!ChunkFor(z, n) \in enough
  BY <1>7, <1>8
<1> QED BY <1>5, <1>6, <1>9

-----------------------------------------------------------------------------
(* One zone                                                                *)

\* Lengths of other chunks do not matter.
LEMMA GoodElse ==
    ASSUME NEW y, NEW l, NEW m, NEW P, NEW B, Good(y, l, P, B),
           \A c \in OwnOf(y) : c \in DOMAIN m /\ m[c] = l[c]
    PROVE  Good(y, m, P, B)
<1>1. y.chunk \in OwnOf(y) /\ y.chunks[Len(y.chunks)] \in OwnOf(y)
  BY DEF Good, Chain, OwnOf, ZoneType
<1>2. Chain(y, m)
  BY <1>1 DEF Good, Chain
<1>3. Laid(y, m, P)
  BY DEF Good, Laid
<1> QED BY <1>2, <1>3 DEF Good

\* The fields malloc and undo_malloc set.
LEMMA GoodRoom ==
    ASSUME NEW y, NEW l, NEW P, NEW B, Good(y, l, P, B),
           NEW x \in ZoneType, x.ptr + x.free = y.ptr + y.free, x.chunks = y.chunks,
           x.chunk = y.chunk, x.chunk_size = y.chunk_size, x.fins = y.fins,
           \A p \in P : p.chunk = y.chunk => p.off + p.len <= x.ptr
    PROVE  Good(x, l, P, B)
<1>1. Chain(x, l)
  BY DEF Good, Chain, OwnOf
<1>2. Laid(x, l, P)
  BY DEF Good, Laid, OwnOf
<1>3. Registered(x, P, B)
  BY DEF Good, Registered
<1> QED BY <1>1, <1>2, <1>3 DEF Good

\* A piece that ends where what is free begins.
LEMMA GoodPiece ==
    ASSUME NEW y, NEW l, NEW P, NEW B, Good(y, l, P, B),
           NEW p \in PieceType, p.chunk = y.chunk, p.off + p.len <= y.ptr,
           \A q \in P : q.chunk = y.chunk => q.off + q.len <= p.off
    PROVE  /\ Good(y, l, P \cup {p}, B)
           /\ p.len > 0 => p \notin P
<1>1. p.off \in Nat /\ p.len \in Nat /\ y.ptr \in Nat /\ y.free \in Nat
  BY DEF PieceType, Good, ZoneType
<1>2. y.chunk \in OwnOf(y) /\ l[y.chunk] \in Nat
  BY DEF Good, Chain, OwnOf
<1>3. p.off + p.len <= l[p.chunk]
  BY <1>1, <1>2 DEF Good, Chain
<1>4. \A q \in P : q.off \in Nat /\ q.len \in Nat
  BY DEF Good, Laid, PieceType
<1>5. \A q \in P : ~Memory!Overlap(p, q) /\ ~Memory!Overlap(q, p)
  BY <1>1, <1>4 DEF Memory!Overlap
<1>6. Laid(y, l, P \cup {p})
  BY <1>1, <1>2, <1>3, <1>5 DEF Good, Laid
<1>7. Registered(y, P \cup {p}, B)
  BY DEF Good, Registered
<1>8. p.len > 0 => p \notin P
  BY <1>1
<1> QED BY <1>6, <1>7, <1>8 DEF Good

\* A new chunk in front.
LEMMA GoodChunk ==
    ASSUME NEW y, NEW l, NEW P, NEW B, Good(y, l, P, B),
           NEW c, c \notin OwnOf(y),
           NEW x \in ZoneType, x.chunks = <<c>> \o y.chunks, x.chunk = c,
           x.chunk_size = y.chunk_size, x.fins = y.fins,
           NEW m, c \in DOMAIN m, m[c] = x.ptr + x.free,
           \A d \in OwnOf(y) : d \in DOMAIN m /\ m[d] = l[d]
    PROVE  Good(x, m, P, B) /\ OwnOf(x) = OwnOf(y) \cup {c}
<1> DEFINE s == y.chunks
           t == <<c>> \o s
<1>1. s \in Seq(Places) /\ Len(s) >= 1 /\ Len(s) \in Nat
  BY DEF Good, Chain, ZoneType
<1> HIDE DEF s
<1>2. /\ t \in Seq(Places) /\ Len(t) = Len(s) + 1
      /\ t[1] = c /\ \A i \in 2..(Len(s) + 1) : t[i] = s[i - 1]
  <2>0. c \in Places
    BY DEF ZoneType
  <2>1. <<c>> \in Seq(Places) /\ Len(<<c>>) = 1 /\ <<c>>[1] = c
    BY <2>0
  <2>2. /\ t \in Seq(Places) /\ Len(t) = 1 + Len(s)
        /\ \A i \in 1..(1 + Len(s)) : t[i] = IF i <= 1 THEN <<c>>[i] ELSE s[i - 1]
    BY <1>1, <2>1, ConcatProperties
  <2> HIDE DEF t
  <2> QED BY <1>1, <2>1, <2>2
<1> HIDE DEF t
<1>3. /\ x \in ZoneType /\ x.ptr \in Nat /\ x.free \in Nat /\ x.chunks = t /\ c \in Places
  BY DEF ZoneType, t, s
<1>4. OwnOf(y) = {s[i] : i \in 1..Len(s)} /\ OwnOf(x) = {t[i] : i \in 1..Len(t)}
  BY <1>3 DEF OwnOf, s
<1>5. OwnOf(x) = OwnOf(y) \cup {c}
  <2>1. ASSUME NEW i \in 1..Len(t) PROVE t[i] \in OwnOf(y) \cup {c}
    <3>1. CASE i = 1
      BY <3>1, <1>2
    <3>2. CASE i # 1
      <4>1. i \in 2..(Len(s) + 1) /\ i - 1 \in 1..Len(s)
        BY <3>2, <1>1, <1>2
      <4> QED BY <4>1, <1>2, <1>4
    <3> QED BY <3>1, <3>2
  <2>2. ASSUME NEW i \in 1..Len(s) PROVE s[i] \in OwnOf(x)
    <3>1. i + 1 \in 2..(Len(s) + 1) /\ i + 1 \in 1..Len(t) /\ (i + 1) - 1 = i
      BY <1>1, <1>2
    <3>2. t[i + 1] = s[i]
      BY <3>1, <1>2
    <3> QED BY <3>1, <3>2, <1>4
  <2>3. c \in OwnOf(x)
    <3>1. 1 \in 1..Len(t)
      BY <1>1, <1>2
    <3> QED BY <3>1, <1>2, <1>4
  <2> QED BY <2>1, <2>2, <2>3, <1>4
<1>6. \A i, j \in 1..Len(t) : t[i] = t[j] => i = j
  <2> SUFFICES ASSUME NEW i \in 1..Len(t), NEW j \in 1..Len(t), t[i] = t[j] PROVE i = j
    OBVIOUS
  <2>1. \A k \in 1..Len(t) : k # 1 => k - 1 \in 1..Len(s) /\ t[k] = s[k - 1] /\ t[k] # c
    <3> SUFFICES ASSUME NEW k \in 1..Len(t), k # 1
                 PROVE  k - 1 \in 1..Len(s) /\ t[k] = s[k - 1] /\ t[k] # c
      OBVIOUS
    <3>1. k \in 2..(Len(s) + 1) /\ k - 1 \in 1..Len(s)
      BY <1>1, <1>2
    <3>2. t[k] = s[k - 1] /\ s[k - 1] \in OwnOf(y)
      BY <3>1, <1>2, <1>4
    <3> QED BY <3>1, <3>2
  <2>0. \A a, b \in 1..Len(s) : s[a] = s[b] => a = b
    BY DEF Good, Chain, s
  <2>2. i # 1 /\ j # 1 => i - 1 = j - 1
    BY <2>0, <2>1
  <2> QED BY <2>1, <2>2, <1>2
<1>7. Chain(x, m)
  <2>1. t[Len(t)] = s[Len(s)] /\ s[Len(s)] \in OwnOf(y)
    <3>1. Len(t) \in 2..(Len(s) + 1) /\ Len(t) - 1 = Len(s) /\ Len(s) \in 1..Len(s)
      BY <1>1, <1>2
    <3> QED BY <3>1, <1>2, <1>4
  <2>2. \A d \in OwnOf(x) : d \in DOMAIN m /\ m[d] \in Nat
    BY <1>3, <1>5 DEF Good, Chain
  <2>3. m[t[Len(t)]] = y.chunk_size /\ y.chunk_size >= 1
    BY <2>1 DEF Good, Chain, s
  <2>4. Len(x.chunks) >= 1 /\ x.chunk = x.chunks[1]
    BY <1>1, <1>2, <1>3
  <2>5. m[x.chunks[Len(x.chunks)]] = x.chunk_size /\ x.chunk_size >= 1
    BY <1>3, <2>3
  <2>6. \A i, j \in 1..Len(x.chunks) : x.chunks[i] = x.chunks[j] => i = j
    BY <1>3, <1>6
  <2> QED BY <2>2, <2>4, <2>5, <2>6 DEF Chain
<1>8. Laid(x, m, P)
  <2>1. \A p \in P : p.chunk \in OwnOf(y)
    BY DEF Good, Laid
  <2> QED BY <2>1, <1>3, <1>5 DEF Good, Laid
<1>9. Registered(x, P, B)
  BY <1>3 DEF Good, Registered
<1> QED BY <1>3, <1>5, <1>7, <1>8, <1>9 DEF Good

\* A finalizer for a piece, and the same taken off again.
LEMMA GoodFin ==
    ASSUME NEW y, NEW l, NEW P, NEW B, Good(y, l, P, B),
           NEW p \in P, \A i \in 1..Len(B) : B[i] # p,
           NEW x, x \in Memory!PushFin(y, p)
    PROVE  Good(x, l, P, Append(B, p)) /\ OwnOf(x) = OwnOf(y)
<1>1. /\ B \in Seq(PieceType) /\ y.fins = B /\ p \in PieceType /\ y \in ZoneType
  BY DEF Good, Laid, Registered
<1>2. /\ Append(B, p) \in Seq(PieceType) /\ Len(Append(B, p)) = Len(B) + 1
      /\ Append(B, p)[Len(B) + 1] = p
      /\ \A i \in 1..Len(B) : Append(B, p)[i] = B[i]
  BY <1>1
<1>3. /\ x \in ZoneType /\ x.ptr = y.ptr /\ x.free = y.free /\ x.chunks = y.chunks
      /\ x.chunk = y.chunk /\ x.chunk_size = y.chunk_size /\ x.fins = Append(B, p)
  <2>1. CASE Len(y.fins) < y.end
    <3>1. x = [y EXCEPT !.fins = Append(@, p)]
      BY <2>1 DEF Memory!PushFin
    <3> QED BY <1>1, <1>2, <3>1 DEF ZoneType
  <2>2. CASE ~(Len(y.fins) < y.end)
    <3> DEFINE e == IF y.end = 0 THEN FirstFins ELSE 2 * y.end
    <3>1. x = [y EXCEPT !.fins = Append(@, p), !.end = e]
      BY <2>2 DEF Memory!PushFin
    <3>2. e \in Nat
      BY <1>1, LibraryAssumption DEF ZoneType
    <3> HIDE DEF e
    <3> QED BY <1>1, <1>2, <3>1, <3>2 DEF ZoneType
  <2> QED BY <2>1, <2>2
<1>4. Chain(x, l) /\ Laid(x, l, P) /\ OwnOf(x) = OwnOf(y)
  BY <1>3 DEF Good, Chain, Laid, OwnOf
<1>5. Registered(x, P, Append(B, p))
  <2> DEFINE A == Append(B, p)
  <2>0. Len(B) \in Nat
    BY <1>1
  <2> HIDE DEF A
  <2>1. \A i \in 1..Len(A) : (i = Len(B) + 1 /\ A[i] = p) \/ (i \in 1..Len(B) /\ A[i] = B[i])
    BY <1>2, <2>0 DEF A
  <2>2. \A i \in 1..Len(B) : B[i] \in P
    BY DEF Good, Registered
  <2>3. \A i, j \in 1..Len(B) : B[i] = B[j] => i = j
    BY DEF Good, Registered
  <2> QED BY <1>2, <1>3, <2>1, <2>2, <2>3 DEF Registered, A
<1> QED BY <1>3, <1>4, <1>5 DEF Good

\* --tail takes the last finalizer off again.
LEMMA GoodThrown ==
    ASSUME NEW y, NEW l, NEW P, NEW B \in Seq(PieceType), NEW p,
           Good(y, l, P, Append(B, p))
    PROVE  /\ Good(Memory!Thrown(y), l, P, B)
           /\ Memory!Thrown(y).chunk = y.chunk /\ Memory!Thrown(y).ptr = y.ptr
           /\ OwnOf(Memory!Thrown(y)) = OwnOf(y)
<1> DEFINE x == Memory!Thrown(y)
<1>0. y \in ZoneType /\ p \in PieceType
  <2>1. Append(B, p) \in Seq(PieceType) /\ Append(B, p)[Len(Append(B, p))] = p
    BY DEF Good, Registered
  <2> QED BY <2>1 DEF Good
<1>1. Memory!Front(Append(B, p)) = B
  <2> DEFINE A == Append(B, p)
  <2>1. /\ A \in Seq(PieceType) /\ Len(A) = Len(B) + 1 /\ Len(B) \in Nat
        /\ \A i \in 1..Len(B) : A[i] = B[i]
    BY <1>0
  <2>2. Memory!Front(A) = SubSeq(A, 1, Len(B))
    BY <2>1 DEF Memory!Front
  <2> HIDE DEF A
  <2>3. \A i \in 1..Len(B) : A[i] \in PieceType
    BY <2>1
  <2>4. /\ SubSeq(A, 1, Len(B)) \in Seq(PieceType) /\ Len(SubSeq(A, 1, Len(B))) = Len(B)
        /\ \A i \in 1..Len(B) : SubSeq(A, 1, Len(B))[i] = A[i]
    BY <2>1, <2>3, SubSeqPrefix
  <2>5. SubSeq(A, 1, Len(B)) = B
    BY <2>1, <2>4, SeqEqual
  <2> QED BY <2>2, <2>5 DEF A
<1>2. x = [y EXCEPT !.fins = B]
  BY <1>1 DEF Memory!Thrown, Good, Registered
<1>3. /\ x \in ZoneType /\ x.ptr = y.ptr /\ x.free = y.free /\ x.chunks = y.chunks
      /\ x.chunk = y.chunk /\ x.chunk_size = y.chunk_size /\ x.fins = B
  BY <1>0, <1>2 DEF ZoneType
<1> HIDE DEF x
<1>4. Chain(x, l) /\ Laid(x, l, P) /\ OwnOf(x) = OwnOf(y)
  BY <1>3 DEF Good, Chain, Laid, OwnOf
<1>5. \A i \in 1..Len(B) : Append(B, p)[i] = B[i] /\ i \in 1..Len(Append(B, p))
  BY <1>0
<1>6. Registered(x, P, B)
  BY <1>3, <1>5 DEF Good, Registered
<1> QED BY <1>3, <1>4, <1>6 DEF Good, x

\* A piece that is forgotten before it is registered.
LEMMA GoodDrop ==
    ASSUME NEW y, NEW l, NEW P, NEW B, NEW Q, Good(y, l, P, B), Q \subseteq P,
           \A i \in 1..Len(B) : B[i] \in Q
    PROVE  Good(y, l, Q, B)
<1>1. Laid(y, l, Q)
  BY DEF Good, Laid
<1>2. Registered(y, Q, B)
  BY DEF Good, Registered
<1> QED BY <1>1, <1>2 DEF Good

-----------------------------------------------------------------------------
(* The steps of the zones                                                  *)

\* Lengths m that keep those of the chunks there are.
Extends(m) == \A c \in DOMAIN length : c \in DOMAIN m /\ m[c] = length[c]

\* What malloc takes: a piece behind all others, in the chunk in use or in a new one.
LEMMA MTaken ==
    ASSUME MInv, NEW z \in Zones, NEW n \in Nat, NEW t \in Memory!Taken(z, n)
    PROVE  /\ Good(t.zone, t.length, pieces[z], built[z])
           /\ t.piece \in PieceType /\ t.piece.len = n
           /\ t.piece.chunk = t.zone.chunk /\ t.piece.off + n = t.zone.ptr
           /\ \A q \in pieces[z] : q.chunk = t.zone.chunk => q.off + q.len <= t.piece.off
           /\ OwnOf(t.zone) \subseteq OwnOf(zone[z]) \cup Memory!Unused
           /\ Extends(t.length)
<1> DEFINE y == zone[z]
           P == pieces[z]
           B == built[z]
<1>1. Good(y, length, P, B)
  BY DEF MInv
<1>2. /\ y \in ZoneType /\ y.ptr \in Nat /\ y.free \in Nat /\ y.chunk \in Places
      /\ y.chunk_size \in Nat /\ y.chunk_size >= 1
  BY <1>1 DEF Good, ZoneType, Chain
<1>3. \A q \in P : q.chunk \in OwnOf(y) /\ q.off \in Nat /\ q.len \in Nat
                   /\ (q.chunk = y.chunk => q.off + q.len <= y.ptr)
  BY <1>1 DEF Good, Laid, PieceType
<1>4. OwnOf(y) \subseteq DOMAIN length
  BY <1>1 DEF Good, Chain
<1>5. CASE n <= y.free
  <2>1. t = [zone |-> [y EXCEPT !.ptr = @ + n, !.free = @ - n],
             piece |-> Memory!Piece(y.chunk, y.ptr, n), length |-> length]
    BY <1>5 DEF Memory!Taken
  <2>2. t.zone = [y EXCEPT !.ptr = y.ptr + n, !.free = y.free - n] /\ t.length = length
        /\ t.piece = [chunk |-> y.chunk, off |-> y.ptr, len |-> n]
    BY <2>1 DEF Memory!Piece
  <2> HIDE DEF y, P, B
  <2>4. /\ t.zone \in ZoneType /\ t.zone.ptr = y.ptr + n /\ t.zone.free = y.free - n
        /\ t.zone.chunks = y.chunks /\ t.zone.chunk = y.chunk
        /\ t.zone.chunk_size = y.chunk_size /\ t.zone.fins = y.fins
    <3>1. y.ptr + n \in Nat /\ y.free - n \in Nat
      BY <1>2, <1>5
    <3> QED BY <1>2, <2>2, <3>1 DEF ZoneType
  <2>6. OwnOf(t.zone) = OwnOf(y)
    BY <2>4 DEF OwnOf
  <2>3. Good(t.zone, length, P, B)
    <3>1. t.zone.ptr + t.zone.free = y.ptr + y.free
      BY <1>2, <2>4
    <3>2. \A q \in P : q.chunk = y.chunk => q.off + q.len <= t.zone.ptr
      BY <1>2, <1>3, <2>4
    <3> QED BY <1>1, <2>4, <3>1, <3>2, GoodRoom
  <2>5. t.piece \in PieceType
    BY <1>2, <2>2 DEF PieceType
  <2> QED BY <1>3, <2>2, <2>3, <2>4, <2>5, <2>6 DEF Extends, y, P, B
<1>6. CASE ~(n <= y.free)
  <2> DEFINE s == Memory!ChunkFor(z, n)
  <2>0. s \in Nat /\ s >= n /\ s - n \in Nat /\ n + (s - n) = s
    <3>1. s \in Nat /\ s >= n
      BY <1>2, ChunkFits
    <3> HIDE DEF s
    <3> QED BY <3>1
  <2>1. PICK c \in Memory!Unused :
            t = [zone |-> [y EXCEPT !.chunks = <<c>> \o @, !.chunk = c, !.ptr = n, !.free = s - n],
                 piece |-> Memory!Piece(c, 0, n),
                 length |-> [d \in DOMAIN length \cup {c} |-> IF d = c THEN s ELSE length[d]]]
    BY <1>6, Zenon DEF Memory!Taken
  <2>2. c \in Places /\ c \notin DOMAIN length /\ c \notin OwnOf(y)
    BY <1>4 DEF Memory!Unused
  <2> HIDE DEF s
  <2>3. /\ t.zone = [y EXCEPT !.chunks = <<c>> \o @, !.chunk = c, !.ptr = n, !.free = s - n]
        /\ t.piece = [chunk |-> c, off |-> 0, len |-> n]
        /\ t.length = [d \in DOMAIN length \cup {c} |-> IF d = c THEN s ELSE length[d]]
    BY <2>1 DEF Memory!Piece
  <2> HIDE DEF y, P, B
  <2>4. c \in DOMAIN t.length /\ t.length[c] = n + (s - n) /\ Extends(t.length)
    BY <2>0, <2>2, <2>3 DEF Extends
  <2>5. \A d \in OwnOf(y) : d \in DOMAIN t.length /\ t.length[d] = length[d]
    BY <1>4, <2>4 DEF Extends
  <2>7. /\ t.zone \in ZoneType /\ t.zone.ptr = n /\ t.zone.free = s - n
        /\ t.zone.chunks = <<c>> \o y.chunks /\ t.zone.chunk = c
        /\ t.zone.chunk_size = y.chunk_size /\ t.zone.fins = y.fins
    <3>1. <<c>> \o y.chunks \in Seq(Places)
      <4>1. <<c>> \in Seq(Places) /\ y.chunks \in Seq(Places)
        BY <1>2, <2>2 DEF ZoneType
      <4> QED BY <4>1, ConcatProperties
    <3> QED BY <1>2, <2>0, <2>2, <2>3, <3>1 DEF ZoneType
  <2>6. Good(t.zone, t.length, P, B) /\ OwnOf(t.zone) = OwnOf(y) \cup {c}
    BY <1>1, <2>2, <2>4, <2>5, <2>7, GoodChunk
  <2>8. t.piece \in PieceType
    BY <2>2, <2>3 DEF PieceType
  <2>9. \A q \in P : q.chunk # c
    BY <1>3, <2>2
  <2> QED BY <2>3, <2>4, <2>6, <2>7, <2>8, <2>9 DEF y, P, B
<1> QED BY <1>5, <1>6

\* g is f but for z, where it is v.
Becomes(f, g, z, v) == DOMAIN g = Zones /\ g[z] = v /\ \A y \in Zones \ {z} : g[y] = f[y]

LEMMA MBecomes ==
    ASSUME NEW f, DOMAIN f = Zones, NEW z \in Zones
    PROVE  Becomes(f, f, z, f[z]) /\ \A v : Becomes(f, [f EXCEPT ![z] = v], z, v)
BY DEF Becomes

\* One zone changes, and the others keep their chunks.
LEMMA MUpdate ==
    ASSUME MInv, NEW z \in Zones, NEW x, NEW m, NEW P, NEW B, Good(x, m, P, B),
           OwnOf(x) \subseteq OwnOf(zone[z]) \cup Memory!Unused,
           \A y \in Zones \ {z} : \A c \in OwnOf(zone[y]) : c \in DOMAIN m /\ m[c] = length[c],
           Becomes(zone, zone', z, x), length' = m,
           Becomes(pieces, pieces', z, P), Becomes(built, built', z, B)
    PROVE  MInv'
<1>1. /\ DOMAIN zone' = Zones /\ DOMAIN pieces' = Zones /\ DOMAIN built' = Zones
      /\ zone'[z] = x /\ pieces'[z] = P /\ built'[z] = B
      /\ \A y \in Zones \ {z} : zone'[y] = zone[y] /\ pieces'[y] = pieces[y] /\ built'[y] = built[y]
  BY DEF MInv, Becomes
<1>2. \A y \in Zones : OwnOf(zone[y]) \subseteq DOMAIN length
  BY DEF MInv, Good, Chain
<1>3. ASSUME NEW y \in Zones \ {z} PROVE Good(zone[y], m, pieces[y], built[y])
  <2>1. Good(zone[y], length, pieces[y], built[y])
    BY DEF MInv
  <2> QED BY <2>1, GoodElse
<1>4. \A y \in Zones : Good(zone'[y], m, pieces'[y], built'[y])
  BY <1>1, <1>3
<1>5. ASSUME NEW y \in Zones \ {z} PROVE OwnOf(x) \cap OwnOf(zone[y]) = {}
  BY <1>2 DEF MInv, Memory!Unused
<1>6. \A y, w \in Zones : y # w => OwnOf(zone'[y]) \cap OwnOf(zone'[w]) = {}
  <2> SUFFICES ASSUME NEW y \in Zones, NEW w \in Zones, y # w
               PROVE  OwnOf(zone'[y]) \cap OwnOf(zone'[w]) = {}
    OBVIOUS
  <2>1. CASE y = z
    BY <2>1, <1>1, <1>5
  <2>2. CASE w = z
    BY <2>2, <1>1, <1>5
  <2>3. CASE y # z /\ w # z
    BY <2>3, <1>1 DEF MInv
  <2> QED BY <2>1, <2>2, <2>3
<1> QED BY <1>1, <1>4, <1>6 DEF MInv

LEMMA MSame == ASSUME MInv, UNCHANGED <<zone, length, pieces, built>> PROVE MInv'
BY DEF MInv

LEMMA MOthers ==
    ASSUME MInv, NEW m, Extends(m)
    PROVE  \A y \in Zones : \A c \in OwnOf(zone[y]) : c \in DOMAIN m /\ m[c] = length[c]
<1> TAKE y \in Zones
<1>1. Chain(zone[y], length)
  BY DEF MInv, Good
<1> QED BY <1>1 DEF Chain, Extends

LEMMA MMalloc == ASSUME MInv, NEW z \in Zones, NEW n \in Nat, Memory!Malloc(z, n) PROVE MInv'
<1>1. CASE Memory!MallocNull(z, n)
  BY <1>1, MSame DEF Memory!MallocNull, Memory!Fault
<1>2. CASE ~Memory!MallocNull(z, n)
  <2>1. PICK t \in Memory!Taken(z, n) :
            /\ zone' = [zone EXCEPT ![z] = t.zone] /\ length' = t.length
            /\ pieces' = [pieces EXCEPT ![z] = @ \cup {t.piece}] /\ built' = built
    BY <1>2 DEF Memory!Malloc
  <2>2. /\ Good(t.zone, t.length, pieces[z], built[z])
        /\ t.piece \in PieceType /\ t.piece.len = n
        /\ t.piece.chunk = t.zone.chunk /\ t.piece.off + n = t.zone.ptr
        /\ \A q \in pieces[z] : q.chunk = t.zone.chunk => q.off + q.len <= t.piece.off
        /\ OwnOf(t.zone) \subseteq OwnOf(zone[z]) \cup Memory!Unused
        /\ Extends(t.length)
    BY MTaken
  <2>3. PICK P, B : P = pieces[z] /\ B = built[z]
    OBVIOUS
  <2>4. t.piece.off + t.piece.len <= t.zone.ptr
    BY <2>2 DEF Good, ZoneType
  <2>5. Good(t.zone, t.length, P \cup {t.piece}, B)
    BY <2>2, <2>3, <2>4, GoodPiece
  <2>6. DOMAIN zone = Zones /\ DOMAIN pieces = Zones /\ DOMAIN built = Zones
    BY DEF MInv
  <2>7. /\ Becomes(zone, zone', z, t.zone) /\ Becomes(pieces, pieces', z, P \cup {t.piece})
        /\ Becomes(built, built', z, B)
    BY <2>1, <2>3, <2>6, MBecomes
  <2>8. \A y \in Zones : \A c \in OwnOf(zone[y]) : c \in DOMAIN t.length /\ t.length[c] = length[c]
    BY <2>2, MOthers
  <2> QED BY <2>1, <2>2, <2>5, <2>7, <2>8, MUpdate
<1> QED BY <1>1, <1>2

LEMMA MPushFinalizer ==
    ASSUME MInv, NEW z \in Zones, NEW p \in pieces[z], Memory!PushFinalizer(z, p) PROVE MInv'
<1>1. PICK x \in Memory!PushFin(zone[z], p) : zone' = [zone EXCEPT ![z] = x]
  BY DEF Memory!PushFinalizer
<1>2. PICK y, l, P, B : y = zone[z] /\ l = length /\ P = pieces[z] /\ B = built[z]
  OBVIOUS
<1>3. Good(y, l, P, B)
  BY <1>2 DEF MInv
<1>4. \A i \in 1..Len(B) : B[i] # p
  <2>1. p \notin Memory!ToSet(B) /\ DOMAIN B = 1..Len(B)
    BY <1>2, <1>3 DEF Memory!PushFinalizer, Good, Registered
  <2> QED BY <2>1 DEF Memory!ToSet
<1>5. Good(x, l, P, Append(B, p)) /\ OwnOf(x) = OwnOf(y)
  BY <1>1, <1>2, <1>3, <1>4, GoodFin
<1>6. DOMAIN zone = Zones /\ DOMAIN pieces = Zones /\ DOMAIN built = Zones
  BY DEF MInv
<1>7. built' = [built EXCEPT ![z] = Append(built[z], p)] /\ length' = length /\ pieces' = pieces
  BY DEF Memory!PushFinalizer
<1>8. /\ Becomes(zone, zone', z, x) /\ Becomes(pieces, pieces', z, P)
      /\ Becomes(built, built', z, Append(B, p))
  BY <1>1, <1>2, <1>6, <1>7, MBecomes
<1>9. \A w \in Zones : \A c \in OwnOf(zone[w]) : c \in DOMAIN l /\ l[c] = length[c]
  BY <1>2, MOthers DEF Extends
<1> QED BY <1>2, <1>5, <1>7, <1>8, <1>9, MUpdate

\* An object is built; or it is not, and the memory is given back but for the padding.
LEMMA MAllocate ==
    ASSUME MInv, NEW z \in Zones, NEW n \in Nat, Memory!Allocate(z, n) PROVE MInv'
<1> DEFINE N == Memory!Aligned(n)
<1>1. N \in Nat /\ N >= n /\ n > 0
  BY AlignedUp DEF Memory!Allocate
<1> HIDE DEF N
<1>2. CASE Memory!MallocNull(z, N)
  BY <1>2, MSame DEF Memory!MallocNull, Memory!Fault
<1>3. CASE ~Memory!MallocNull(z, N)
  <2>1. PICK t \in Memory!Taken(z, N) :
            /\ length' = t.length
            /\ \/ /\ \E y \in Memory!PushFin(t.zone, t.piece) : zone' = [zone EXCEPT ![z] = y]
                  /\ pieces' = [pieces EXCEPT ![z] = @ \cup {t.piece}]
                  /\ built' = [built EXCEPT ![z] = Append(@, t.piece)]
               \/ /\ \E y \in Memory!PushFin(t.zone, t.piece) :
                        zone' = [zone EXCEPT ![z] = Memory!Undone(Memory!Thrown(y), n)]
                  /\ UNCHANGED <<pieces, built>>
               \/ /\ zone' = [zone EXCEPT ![z] = Memory!Undone(t.zone, n)]
                  /\ UNCHANGED <<pieces, built>>
    BY <1>3 DEF Memory!Allocate, N
  <2>2. /\ Good(t.zone, t.length, pieces[z], built[z])
        /\ t.piece \in PieceType /\ t.piece.len = N
        /\ t.piece.chunk = t.zone.chunk /\ t.piece.off + N = t.zone.ptr
        /\ \A q \in pieces[z] : q.chunk = t.zone.chunk => q.off + q.len <= t.piece.off
        /\ OwnOf(t.zone) \subseteq OwnOf(zone[z]) \cup Memory!Unused
        /\ Extends(t.length)
    BY <1>1, MTaken
  <2>3. PICK P, B : P = pieces[z] /\ B = built[z]
    OBVIOUS
  <2> DEFINE p == t.piece
             m == t.length
             PP == P \cup {p}
  <2>4. p.off \in Nat /\ p.len \in Nat /\ t.zone.ptr \in Nat /\ t.zone \in ZoneType
    BY <2>2 DEF PieceType, Good, ZoneType
  <2>5. Good(t.zone, m, PP, B) /\ p \notin P
    <3>1. p.off + p.len <= t.zone.ptr /\ p.len > 0
      BY <1>1, <2>2, <2>4
    <3> QED BY <2>2, <2>3, <3>1, GoodPiece
  <2>6. /\ B \in Seq(PieceType) /\ \A i \in 1..Len(B) : B[i] \in P /\ B[i] # p
    BY <2>2, <2>3, <2>5 DEF Good, Registered
  <2>7. DOMAIN zone = Zones /\ DOMAIN pieces = Zones /\ DOMAIN built = Zones
    BY DEF MInv
  <2>8. \A y \in Zones : \A c \in OwnOf(zone[y]) : c \in DOMAIN m /\ m[c] = length[c]
    BY <2>2, MOthers
  \* What undo_malloc leaves of a zone x whose pieces end at or before the new one.
  <2>9. ASSUME NEW x, Good(x, m, P, B), OwnOf(x) = OwnOf(t.zone),
               x.chunk = t.zone.chunk, x.ptr = t.zone.ptr
        PROVE  Good(Memory!Undone(x, n), m, P, B) /\ OwnOf(Memory!Undone(x, n)) = OwnOf(t.zone)
    <3> DEFINE u == Memory!Undone(x, n)
    <3>1. x \in ZoneType /\ x.ptr \in Nat /\ x.free \in Nat
      BY <2>9 DEF Good, ZoneType
    <3>2. x.ptr - n \in Nat /\ x.free + n \in Nat /\ x.ptr - n >= p.off
      BY <1>1, <2>2, <2>4, <2>9, <3>1
    <3>3. /\ u \in ZoneType /\ u.ptr = x.ptr - n /\ u.free = x.free + n
          /\ u.chunks = x.chunks /\ u.chunk = x.chunk
          /\ u.chunk_size = x.chunk_size /\ u.fins = x.fins
      BY <3>1, <3>2 DEF ZoneType, Memory!Undone
    <3> HIDE DEF u
    <3>4. u.ptr + u.free = x.ptr + x.free
      BY <3>1, <3>3
    <3>5. \A q \in P : q.off \in Nat /\ q.len \in Nat
      BY <2>9 DEF Good, Laid, PieceType
    <3>6. \A q \in P : q.chunk = x.chunk => q.off + q.len <= u.ptr
      BY <2>2, <2>3, <2>4, <2>9, <3>2, <3>3, <3>5
    <3>7. Good(u, m, P, B)
      BY <2>9, <3>3, <3>4, <3>6, GoodRoom
    <3>8. OwnOf(u) = OwnOf(t.zone)
      BY <2>9, <3>3 DEF OwnOf
    <3> QED BY <3>7, <3>8 DEF u
  <2>10. ASSUME NEW y \in Memory!PushFin(t.zone, p)
         PROVE  Good(y, m, PP, Append(B, p)) /\ OwnOf(y) = OwnOf(t.zone)
    BY <2>5, <2>6, GoodFin
  <2>11. ASSUME NEW y \in Memory!PushFin(t.zone, p),
                zone' = [zone EXCEPT ![z] = y],
                pieces' = [pieces EXCEPT ![z] = @ \cup {t.piece}],
                built' = [built EXCEPT ![z] = Append(@, t.piece)]
         PROVE  MInv'
    <3>1. /\ Becomes(zone, zone', z, y) /\ Becomes(pieces, pieces', z, PP)
          /\ Becomes(built, built', z, Append(B, p))
      BY <2>3, <2>7, <2>11, MBecomes
    <3> QED BY <2>1, <2>2, <2>8, <2>10, <3>1, MUpdate
  <2>12. ASSUME NEW y \in Memory!PushFin(t.zone, p),
                zone' = [zone EXCEPT ![z] = Memory!Undone(Memory!Thrown(y), n)],
                UNCHANGED <<pieces, built>>
         PROVE  MInv'
    <3>1. /\ Good(Memory!Thrown(y), m, PP, B)
          /\ Memory!Thrown(y).chunk = y.chunk /\ Memory!Thrown(y).ptr = y.ptr
          /\ OwnOf(Memory!Thrown(y)) = OwnOf(t.zone)
      <4>1. PICK l, Q, q : l = m /\ Q = PP /\ q = p
        OBVIOUS
      <4>2. Good(y, l, Q, Append(B, q)) /\ OwnOf(y) = OwnOf(t.zone) /\ B \in Seq(PieceType)
        BY <2>6, <2>10, <4>1
      <4>3. /\ Good(Memory!Thrown(y), l, Q, B)
            /\ Memory!Thrown(y).chunk = y.chunk /\ Memory!Thrown(y).ptr = y.ptr
            /\ OwnOf(Memory!Thrown(y)) = OwnOf(y)
        BY <4>2, GoodThrown
      <4> QED BY <4>1, <4>2, <4>3
    <3>2. Good(Memory!Thrown(y), m, P, B)
      BY <2>6, <3>1, GoodDrop
    <3>3. y.chunk = t.zone.chunk /\ y.ptr = t.zone.ptr
      BY <2>4 DEF Memory!PushFin, ZoneType
    <3>4. PICK x : x = Memory!Undone(Memory!Thrown(y), n)
      OBVIOUS
    <3>5. Good(x, m, P, B) /\ OwnOf(x) = OwnOf(t.zone)
      BY <2>9, <3>1, <3>2, <3>3, <3>4
    <3>6. Becomes(zone, zone', z, x) /\ Becomes(pieces, pieces', z, P) /\ Becomes(built, built', z, B)
      BY <2>3, <2>7, <2>12, <3>4, MBecomes
    <3> QED BY <2>1, <2>2, <2>8, <3>5, <3>6, MUpdate
  <2>13. ASSUME zone' = [zone EXCEPT ![z] = Memory!Undone(t.zone, n)], UNCHANGED <<pieces, built>>
         PROVE  MInv'
    <3>1. PICK x : x = Memory!Undone(t.zone, n)
      OBVIOUS
    <3>2. Good(x, m, P, B) /\ OwnOf(x) = OwnOf(t.zone)
      BY <2>2, <2>3, <2>9, <3>1
    <3>3. Becomes(zone, zone', z, x) /\ Becomes(pieces, pieces', z, P) /\ Becomes(built, built', z, B)
      BY <2>3, <2>7, <2>13, <3>1, MBecomes
    <3> QED BY <2>1, <2>2, <2>8, <3>2, <3>3, MUpdate
  <2> QED BY <2>1, <2>11, <2>12, <2>13
<1> QED BY <1>2, <1>3

\* One chunk, no pieces and no finalizers.
LEMMA GoodEmpty ==
    ASSUME NEW x \in ZoneType, NEW l, NEW c, x.chunks = <<c>>, x.chunk = c, x.ptr = 0,
           x.free = x.chunk_size, x.chunk_size >= 1, x.fins = <<>>,
           c \in DOMAIN l, l[c] = x.chunk_size
    PROVE  Good(x, l, {}, <<>>) /\ OwnOf(x) = {c}
<1>1. Len(x.chunks) = 1 /\ x.chunks[1] = c /\ x.chunk_size \in Nat
  BY DEF ZoneType
<1>2. OwnOf(x) = {c}
  BY <1>1 DEF OwnOf
<1>3. Chain(x, l)
  BY <1>1, <1>2 DEF Chain
<1>4. Laid(x, l, {}) /\ Registered(x, {}, <<>>)
  BY DEF Laid, Registered
<1> QED BY <1>2, <1>3, <1>4 DEF Good

LEMMA MClear == ASSUME MInv, NEW z \in Zones, Memory!Clear(z) PROVE MInv'
<1>1. CASE Len(zone[z].chunks) > 1
  BY <1>1, MSame DEF Memory!Clear, Memory!Fault
<1>2. CASE ~(Len(zone[z].chunks) > 1)
  <2>1. PICK y, l : y = zone[z] /\ l = length
    OBVIOUS
  <2>2. y \in ZoneType /\ Chain(y, l)
    BY <2>1 DEF MInv, Good
  <2>3. /\ y.chunks \in Seq(Places) /\ Len(y.chunks) = 1 /\ Head(y.chunks) = y.chunk
        /\ y.chunks = <<y.chunk>> /\ y.chunk \in Places /\ y.chunk_size \in Nat
    <3>1. y.chunks \in Seq(Places) /\ y.chunk \in Places /\ y.chunk_size \in Nat
      BY <2>2 DEF ZoneType
    <3>2. Len(y.chunks) \in Nat /\ Len(y.chunks) >= 1 /\ ~(Len(y.chunks) > 1) /\ y.chunk = y.chunks[1]
      BY <1>2, <2>1, <2>2, <3>1 DEF Chain
    <3>3. Len(y.chunks) = 1
      <4>1. \A k \in Nat : k >= 1 /\ ~(k > 1) => k = 1
        OBVIOUS
      <4> QED BY <3>2, <4>1
    <3> DEFINE s == y.chunks
               o == <<y.chunk>>
    <3>4. o \in Seq(Places) /\ Len(o) = 1 /\ o[1] = y.chunk
      BY <3>1
    <3>5. s \in Seq(Places) /\ Len(s) = 1 /\ s[1] = y.chunk
      BY <3>1, <3>2, <3>3
    <3>6. Head(s) = s[1]
      BY <3>5
    <3> HIDE DEF s, o
    <3>7. s = o
      BY <3>4, <3>5, SeqEqual
    <3> QED BY <3>1, <3>5, <3>6, <3>7 DEF s, o
  <2>4. PICK x : x = [y EXCEPT !.fins = <<>>, !.ptr = 0, !.free = y.chunk_size,
                               !.chunk = Head(y.chunks)]
    OBVIOUS
  <2>5. /\ x \in ZoneType /\ x.chunks = <<y.chunk>> /\ x.chunk = y.chunk /\ x.ptr = 0
        /\ x.free = y.chunk_size /\ x.chunk_size = y.chunk_size /\ x.fins = <<>>
    <3>1. x = [y EXCEPT !.fins = <<>>, !.ptr = 0, !.free = y.chunk_size, !.chunk = y.chunk]
      BY <2>3, <2>4
    <3>2. <<>> \in Seq(PieceType) /\ y \in ZoneType
      BY <2>2
    <3> QED BY <2>3, <3>1, <3>2 DEF ZoneType
  <2>6. y.chunk \in DOMAIN l /\ l[y.chunk] = y.chunk_size /\ y.chunk_size >= 1
    BY <2>2, <2>3 DEF Chain, OwnOf
  <2>7. Good(x, l, {}, <<>>) /\ OwnOf(x) = {y.chunk} /\ y.chunk \in OwnOf(y)
    <3>1. y.chunk \in OwnOf(y)
      BY <2>3 DEF OwnOf
    <3> QED BY <2>5, <2>6, <3>1, GoodEmpty
  <2>8. zone' = [zone EXCEPT ![z].fins = <<>>, ![z].ptr = 0, ![z].free = zone[z].chunk_size,
                             ![z].chunk = Head(zone[z].chunks)]
    BY <1>2 DEF Memory!Clear
  <2>13. /\ pieces' = [pieces EXCEPT ![z] = {}] /\ built' = [built EXCEPT ![z] = <<>>]
         /\ length' = length
    BY <1>2 DEF Memory!Clear, Memory!GivenBack
  <2>9. DOMAIN zone = Zones /\ DOMAIN pieces = Zones /\ DOMAIN built = Zones
    BY DEF MInv
  <2>10. zone' = [zone EXCEPT ![z] = x]
    BY <2>1, <2>4, <2>8, <2>9
  <2>11. Becomes(zone, zone', z, x) /\ Becomes(pieces, pieces', z, {}) /\ Becomes(built, built', z, <<>>)
    BY <2>9, <2>10, <2>13, MBecomes
  <2>12. \A w \in Zones : \A c \in OwnOf(zone[w]) : c \in DOMAIN l /\ l[c] = length[c]
    BY <2>1, MOthers DEF Extends
  <2> QED BY <2>1, <2>7, <2>11, <2>12, <2>13, MUpdate
<1> QED BY <1>1, <1>2

LEMMA MRenew == ASSUME MInv, NEW z \in Zones, Memory!Renew(z) PROVE MInv'
<1>1. CASE Memory!Fault
  BY <1>1, MSame DEF Memory!Fault
<1>2. CASE ~Memory!Fault
  <2> DEFINE own == Memory!ToSet(zone[z].chunks)
             s == FirstSize[z]
  <2>1. PICK c \in Memory!Unused \cup own :
            /\ zone' = [zone EXCEPT ![z] = Memory!Fresh(c, FirstSize[z])]
            /\ length' = [d \in (DOMAIN length \ own) \cup {c} |-> IF d = c THEN s ELSE length[d]]
            /\ pieces' = [pieces EXCEPT ![z] = {}] /\ built' = [built EXCEPT ![z] = <<>>]
    BY <1>2 DEF Memory!Renew, Memory!GivenBack
  <2>2. \A y \in Zones : /\ zone[y].chunks \in Seq(Places)
                         /\ OwnOf(zone[y]) \subseteq DOMAIN length
    BY DEF MInv, Good, Chain, ZoneType
  <2>3. own = OwnOf(zone[z]) /\ own \subseteq Places
    <3>1. DOMAIN zone[z].chunks = 1..Len(zone[z].chunks)
      BY <2>2
    <3>2. own = OwnOf(zone[z])
      BY <3>1 DEF Memory!ToSet, OwnOf
    <3> QED BY <2>2, <3>2 DEF OwnOf
  <2>4. c \in Places /\ s \in Nat /\ s >= 1
    BY <2>3, LibraryAssumption DEF Memory!Unused
  <2> HIDE DEF own, s
  <2>5. PICK x, m : /\ x = Memory!Fresh(c, s)
                    /\ m = [d \in (DOMAIN length \ own) \cup {c} |-> IF d = c THEN s ELSE length[d]]
    OBVIOUS
  <2>6. /\ x \in ZoneType /\ x.chunks = <<c>> /\ x.chunk = c /\ x.ptr = 0
        /\ x.free = s /\ x.chunk_size = s /\ x.fins = <<>>
    <3>1. <<c>> \in Seq(Places) /\ <<>> \in Seq(PieceType)
      BY <2>4
    <3> QED BY <2>4, <2>5, <3>1 DEF Memory!Fresh, ZoneType
  <2>7. Good(x, m, {}, <<>>) /\ OwnOf(x) = {c}
    BY <2>4, <2>5, <2>6, GoodEmpty
  <2>8. ASSUME NEW y \in Zones \ {z}, NEW d \in OwnOf(zone[y])
        PROVE  d \in DOMAIN m /\ m[d] = length[d]
    <3>1. d \in DOMAIN length /\ d \notin own
      BY <2>2, <2>3 DEF MInv
    <3>2. d # c
      BY <2>1, <3>1 DEF Memory!Unused
    <3> QED BY <2>5, <3>1, <3>2
  <2>9. DOMAIN zone = Zones /\ DOMAIN pieces = Zones /\ DOMAIN built = Zones
    BY DEF MInv
  <2>10. Becomes(zone, zone', z, x) /\ Becomes(pieces, pieces', z, {}) /\ Becomes(built, built', z, <<>>)
    BY <2>1, <2>5, <2>9, MBecomes DEF s
  <2>11. OwnOf(x) \subseteq OwnOf(zone[z]) \cup Memory!Unused
    BY <2>1, <2>3, <2>7
  <2>12. length' = m
    BY <2>1, <2>5
  <2> QED BY <2>7, <2>8, <2>10, <2>11, <2>12, MUpdate
<1> QED BY <1>1, <1>2

LEMMA MSwap ==
    ASSUME MInv, NEW a \in Zones, NEW b \in Zones \ {a}, Memory!Swap(a, b) PROVE MInv'
<1> DEFINE to(z) == IF z = a THEN b ELSE IF z = b THEN a ELSE z
<1>1. /\ DOMAIN zone' = Zones /\ DOMAIN pieces' = Zones /\ DOMAIN built' = Zones
      /\ length' = length
      /\ \A z \in Zones : /\ zone'[z] = zone[to(z)] /\ pieces'[z] = pieces[to(z)]
                          /\ built'[z] = built[to(z)]
  BY DEF MInv, Memory!Swap, Memory!Swapped
<1>2. \A z \in Zones : to(z) \in Zones
  OBVIOUS
<1>3. \A y, z \in Zones : y # z => to(y) # to(z)
  OBVIOUS
<1> HIDE DEF to
<1> QED BY <1>1, <1>2, <1>3 DEF MInv

LEMMA MInit == Memory!Init => MInv
<1> SUFFICES ASSUME Memory!Init PROVE MInv
  OBVIOUS
<1>1. PICK f \in [Zones -> Places] :
          /\ Memory!IsInjective(f)
          /\ zone = [z \in Zones |-> Memory!Fresh(f[z], FirstSize[z])]
          /\ length = [c \in Memory!Range(f) |-> FirstSize[CHOOSE z \in Zones : f[z] = c]]
  BY DEF Memory!Init
<1>2. pieces = [z \in Zones |-> {}] /\ built = [z \in Zones |-> <<>>]
  BY DEF Memory!Init
<1>3. \A y, z \in Zones : f[y] = f[z] => y = z
  BY <1>1 DEF Memory!IsInjective
<1>4. ASSUME NEW z \in Zones
      PROVE  f[z] \in DOMAIN length /\ length[f[z]] = FirstSize[z]
  <2>1. f[z] \in Memory!Range(f)
    BY DEF Memory!Range
  <2>2. (CHOOSE y \in Zones : f[y] = f[z]) = z
    BY <1>3
  <2> QED BY <1>1, <2>1, <2>2
<1>5. ASSUME NEW z \in Zones
      PROVE  Good(zone[z], length, {}, <<>>) /\ OwnOf(zone[z]) = {f[z]}
  <2>1. FirstSize[z] \in Nat /\ FirstSize[z] >= 1
    BY LibraryAssumption
  <2>2. <<f[z]>> \in Seq(Places) /\ <<>> \in Seq(PieceType)
    OBVIOUS
  <2>3. PICK x, l, s : x = zone[z] /\ l = length /\ s = FirstSize[z]
    OBVIOUS
  <2>4. /\ x \in ZoneType /\ x.chunks = <<f[z]>> /\ x.chunk = f[z] /\ x.ptr = 0
        /\ x.free = s /\ x.chunk_size = s /\ x.fins = <<>>
    BY <1>1, <2>1, <2>2, <2>3 DEF Memory!Fresh, ZoneType
  <2> QED BY <1>4, <2>1, <2>3, <2>4, GoodEmpty
<1> QED BY <1>1, <1>2, <1>3, <1>5 DEF MInv

LEMMA MNext == MInv /\ [Memory!Next]_(Memory!vars) => MInv'
<1> SUFFICES ASSUME MInv, [Memory!Next]_(Memory!vars) PROVE MInv'
  OBVIOUS
<1>1. CASE UNCHANGED Memory!vars
  BY <1>1, MSame DEF Memory!vars
<1>2. ASSUME NEW z \in Zones, NEW n \in Sizes,
             Memory!Malloc(z, Memory!Aligned(n)) \/ Memory!Malloc(z, n) \/ Memory!Allocate(z, n)
      PROVE  MInv'
  BY <1>2, LibraryAssumption, AlignedUp, MMalloc, MAllocate
<1>3. ASSUME NEW z \in Zones, NEW p \in pieces[z], Memory!PushFinalizer(z, p) PROVE MInv'
  BY <1>3, MPushFinalizer
<1>4. ASSUME NEW z \in Zones, Memory!Clear(z) \/ Memory!Renew(z) PROVE MInv'
  BY <1>4, MClear, MRenew
<1>5. ASSUME NEW a \in Zones, NEW b \in Zones \ {a}, Memory!Swap(a, b) PROVE MInv'
  BY <1>5, MSwap
<1> QED BY <1>1, <1>2, <1>3, <1>4, <1>5 DEF Memory!Next

LEMMA MInvariance == Memory!Spec => []MInv
<1> QED BY MInit, MNext, PTL DEF Memory!Spec

\* What is allocated in a zone stays apart from what is allocated later, in any zone:
\* after growth, swaps, and constructors that threw and gave back less than they took
\* (zone.c:74-95, zone.h:91-139, zone.hpp:155-159).
THEOREM PiecesStayApart == Memory!Spec => []ZonePiecesApart
<1>1. ASSUME MInv PROVE ZonePiecesApart
  <2> SUFFICES ASSUME NEW z \in Zones
               PROVE  LET room == Memory!Piece(zone[z].chunk, zone[z].ptr, zone[z].free)
                      IN  /\ Memory!IsInjective(zone[z].chunks)
                          /\ \A y \in Zones \ {z} : Memory!Own(z) \cap Memory!Own(y) = {}
                          /\ \A p \in pieces[z] \cup {room} :
                                p.chunk \in Memory!Own(z) /\ p.off + p.len <= length[p.chunk]
                          /\ \A p \in pieces[z], q \in pieces[z] \cup {room} :
                                p # q => ~Memory!Overlap(p, q)
    BY DEF ZonePiecesApart, Memory!PiecesApart
  <2> DEFINE x == zone[z]
             P == pieces[z]
             room == Memory!Piece(x.chunk, x.ptr, x.free)
  <2>1. Good(x, length, P, built[z])
    BY <1>1 DEF MInv
  <2>2. \A y \in Zones : zone[y].chunks \in Seq(Places)
    BY <1>1 DEF MInv, Good, ZoneType
  <2>3. \A y \in Zones : Memory!Own(y) = OwnOf(zone[y])
    <3> TAKE y \in Zones
    <3>1. DOMAIN zone[y].chunks = 1..Len(zone[y].chunks)
      BY <2>2
    <3> QED BY <3>1 DEF Memory!Own, Memory!ToSet, OwnOf
  <2>4. Memory!IsInjective(x.chunks)
    BY <2>1, <2>2 DEF Memory!IsInjective, Good, Chain
  <2>5. \A y \in Zones \ {z} : Memory!Own(z) \cap Memory!Own(y) = {}
    BY <1>1, <2>3 DEF MInv
  <2>6. room.chunk = x.chunk /\ room.off = x.ptr /\ room.len = x.free
    BY DEF Memory!Piece
  <2> HIDE DEF room
  <2>7. room.chunk \in OwnOf(x) /\ room.off + room.len <= length[room.chunk]
    <3>1. x.chunk \in OwnOf(x) /\ x.ptr + x.free = length[x.chunk] /\ length[x.chunk] \in Nat
      BY <2>1, <2>2 DEF Good, Chain, OwnOf
    <3> QED BY <2>6, <3>1
  <2>8. \A p \in P : p.chunk \in OwnOf(x) /\ p.off + p.len <= length[p.chunk]
    BY <2>1 DEF Good, Laid
  <2>9. \A p, q \in P : p # q => ~Memory!Overlap(p, q)
    BY <2>1 DEF Good, Laid
  <2>10. \A p \in P : ~Memory!Overlap(p, room)
    <3> TAKE p \in P
    <3>1. /\ p.off \in Nat /\ p.len \in Nat /\ x.ptr \in Nat
          /\ p.chunk = x.chunk => p.off + p.len <= x.ptr
      BY <2>1 DEF Good, Laid, PieceType, ZoneType
    <3> QED BY <2>6, <3>1 DEF Memory!Overlap
  <2> QED BY <2>3, <2>4, <2>5, <2>7, <2>8, <2>9, <2>10 DEF room
<1> QED BY <1>1, MInvariance, PTL

\* The finalizers a zone will run are those of the objects that were built in it, each
\* once, while its memory is there (zone.c:105-167).
THEOREM FinalizersRun == Memory!Spec => []ZoneFinalizersMatch
<1>1. ASSUME MInv PROVE ZoneFinalizersMatch
  <2> SUFFICES ASSUME NEW z \in Zones
               PROVE  /\ zone[z].fins = built[z]
                      /\ Memory!IsInjective(built[z])
                      /\ Memory!ToSet(built[z]) \subseteq pieces[z]
                      /\ Memory!IsEmpty(zone[z]) =>
                            built[z] = <<>> /\ \A p \in pieces[z] : p.len = 0
    BY DEF ZoneFinalizersMatch, Memory!FinalizersMatch
  <2> DEFINE x == zone[z]
             P == pieces[z]
             B == built[z]
  <2>1. Good(x, length, P, B)
    BY <1>1 DEF MInv
  <2>2. x.fins = B /\ DOMAIN B = 1..Len(B)
    BY <2>1 DEF Good, Registered
  <2>3. Memory!IsInjective(B) /\ Memory!ToSet(B) \subseteq P
    BY <2>1, <2>2 DEF Memory!IsInjective, Memory!ToSet, Good, Registered
  <2>4. ASSUME Memory!IsEmpty(x), NEW p \in P PROVE p.len = 0
    <3>1. /\ x.chunks \in Seq(Places) /\ Len(x.chunks) = 1 /\ x.ptr \in Nat /\ x.free \in Nat
          /\ x.free = x.chunk_size
      BY <2>1, <2>4 DEF Memory!IsEmpty, Good, ZoneType
    <3>2. x.chunk = x.chunks[1] /\ x.ptr + x.free = x.chunk_size
      BY <2>1, <3>1 DEF Good, Chain
    <3>3. OwnOf(x) = {x.chunk} /\ x.ptr = 0
      BY <3>1, <3>2 DEF OwnOf
    <3>4. p.chunk \in OwnOf(x) /\ p.off \in Nat /\ p.len \in Nat
          /\ (p.chunk = x.chunk => p.off + p.len <= x.ptr)
      BY <2>1 DEF Good, Laid, PieceType
    <3> QED BY <3>3, <3>4
  <2> QED BY <2>2, <2>3, <2>4 DEF Memory!IsEmpty
<1> QED BY <1>1, MInvariance, PTL
=============================================================================
