------------------------- MODULE MsgPackParserProofs -------------------------
(***************************************************************************)
(* Theorems about MsgPackParser and PackedStreams, for every stream, every *)
(* cutting of it and every depth of the stack: the type invariant; that    *)
(* the parser that stops and resumes delivers what one parse of the whole  *)
(* stream delivers; and, when the stream holds packed objects, that it     *)
(* delivers those objects, waits between two cells of it and converts      *)
(* integers exactly.                                                       *)
(***************************************************************************)
EXTENDS PackedStreams, SetInduction

\* What may follow a header: a kind of bytes and their number.
Following(k, n) ==
    /\ k \in (10..19) \cup (26..32)
    /\ n \in Nat
    /\ k \in 26..31 => n \in {2, 4}

CellOK(cell) ==
    \/ cell.is = "value"
    \/ cell.is = "again" /\ Following(cell.cs, cell.trail)
    \/ cell.is = "container" /\ cell.kind \in {"array", "map"} /\ cell.count \in Nat
    \/ cell.is = "refused"

LEMMA HeaderCells ==
    ASSUME NEW b \in Byte
    PROVE  CellOK(HeaderCell(b))
<1>1. CASE b \in 202..211
  <2>1. b % 4 \in 0..3 /\ b % 32 \in 10..19
    BY <1>1
  <2>2. <<1, 2, 4, 8>>[(b % 4) + 1] \in Nat
    BY <2>1
  <2>3. HeaderCell(b) = Again(b % 32, <<1, 2, 4, 8>>[(b % 4) + 1])
    BY <1>1 DEF HeaderCell
  <2> QED  BY <2>1, <2>2, <2>3 DEF CellOK, Following, Again
<1>2. CASE b \in 218..223
  <2>1. b % 32 \in 26..31 /\ (IF b % 2 = 0 THEN 2 ELSE 4) \in {2, 4}
    BY <1>2
  <2>2. HeaderCell(b) = Again(b % 32, IF b % 2 = 0 THEN 2 ELSE 4)
    BY <1>2 DEF HeaderCell
  <2> QED  BY <2>1, <2>2 DEF CellOK, Following, Again
<1>3. CASE b \in 160..191
  <2>1. b % 32 \in Nat
    BY <1>3
  <2>2. HeaderCell(b) = Again(32, b % 32)
    BY <1>3 DEF HeaderCell, ACS_RAW_VALUE
  <2> QED  BY <2>1, <2>2 DEF CellOK, Following, Again
<1>4. CASE b \in 144..159
  <2>1. HeaderCell(b) = Container("array", b % 16)
    BY <1>4 DEF HeaderCell
  <2> QED  BY <1>4, <2>1 DEF CellOK, Container
<1>5. CASE b \in 128..143
  <2>1. HeaderCell(b) = Container("map", b % 16)
    BY <1>5 DEF HeaderCell
  <2> QED  BY <1>5, <2>1 DEF CellOK, Container
<1>6. CASE b \in 0..127
  <2>1. HeaderCell(b) = Value(Unsigned(<<b>>))
    BY <1>6 DEF HeaderCell
  <2> QED  BY <2>1 DEF CellOK, Value
<1>7. CASE b \in 224..255
  <2>1. HeaderCell(b) = Value(Signed(<<b>>))
    BY <1>7 DEF HeaderCell
  <2> QED  BY <2>1 DEF CellOK, Value
<1>8. CASE b = 192
  <2>1. HeaderCell(b) = Value(Nil)
    BY <1>8 DEF HeaderCell
  <2> QED  BY <2>1 DEF CellOK, Value
<1>9. CASE b \in 194..195
  <2>1. HeaderCell(b).is = "value"
    BY <1>9 DEF HeaderCell, Value
  <2> QED  BY <2>1 DEF CellOK
<1>10. CASE b = 193 \/ b \in 196..201 \/ b \in 212..217
  <2>1. HeaderCell(b) = Refused
    BY <1>10 DEF HeaderCell
  <2> QED  BY <2>1 DEF CellOK, Refused
<1> QED  BY <1>1, <1>2, <1>3, <1>4, <1>5, <1>6, <1>7, <1>8, <1>9, <1>10 DEF Byte

LEMMA TrailCells ==
    ASSUME NEW k, NEW n, Following(k, n), NEW bytes \in Seq(Byte), Len(bytes) = n
    PROVE  /\ CellOK(TrailCell(k, bytes))
           /\ TrailCell(k, bytes).is # "refused"
           /\ TrailCell(k, bytes).is = "container" => k \in 28..31
<1> USE DEF CS_FLOAT, CS_DOUBLE, CS_UINT, CS_INT, CS_RAW, CS_ARRAY, CS_MAP, ACS_RAW_VALUE
<1>1. ASSUME k \in 26..31 PROVE Load(bytes) \in Nat
  <2>0. \A i \in 1..n : bytes[i] \in Byte
    BY ElementOfSeq
  <2>1. CASE n = 2
    <3>0. bytes[1] \in 0..255 /\ bytes[2] \in 0..255
      BY <2>0, <2>1 DEF Byte
    <3> DEFINE a == bytes[1]
               b == bytes[2]
    <3>1. a \in 0..255 /\ b \in 0..255
      BY <3>0
    <3> HIDE DEF a, b
    <3>2. Load(bytes) = a * 256 + b
      BY <2>1, SMT DEF Load, a, b
    <3>3. a * 256 + b \in Nat
      BY <3>1, SMT
    <3> QED  BY <3>2, <3>3, SMT
  <2>2. CASE n = 4
    <3>0. /\ bytes[1] \in 0..255 /\ bytes[2] \in 0..255
          /\ bytes[3] \in 0..255 /\ bytes[4] \in 0..255
      BY <2>0, <2>2 DEF Byte
    <3> DEFINE a == bytes[1]
               b == bytes[2]
               c == bytes[3]
               d == bytes[4]
    <3>1. a \in 0..255 /\ b \in 0..255 /\ c \in 0..255 /\ d \in 0..255
      BY <3>0
    <3> HIDE DEF a, b, c, d
    <3>2. CASE bytes[1] >= 128
      BY <2>2, <3>2, SMT DEF Load, Huge
    <3>3. CASE ~(bytes[1] >= 128)
      <4>1. Load(bytes) = a * 16777216 + b * 65536 + c * 256 + d
        BY <2>2, <3>3, SMT DEF Load, a, b, c, d
      <4>2. a * 16777216 + b * 65536 + c * 256 + d \in Nat
        BY <3>1, SMT
      <4> QED  BY <4>1, <4>2, SMT
    <3> QED  BY <3>2, <3>3
  <2> QED  BY <1>1, <2>1, <2>2 DEF Following
<1>2. CASE k \in 10..11
  <2>1. TrailCell(k, bytes) = Value(Double(bytes))
    BY <1>2 DEF TrailCell
  <2> QED  BY <2>1 DEF CellOK, Value
<1>3. CASE k \in 12..15
  <2>1. TrailCell(k, bytes) = Value(Unsigned(bytes))
    BY <1>3 DEF TrailCell
  <2> QED  BY <2>1 DEF CellOK, Value
<1>4. CASE k \in 16..19
  <2>1. TrailCell(k, bytes) = Value(Signed(bytes))
    BY <1>4 DEF TrailCell
  <2> QED  BY <2>1 DEF CellOK, Value
<1>5. CASE k \in 26..27
  <2>1. TrailCell(k, bytes) = Again(32, Load(bytes))
    BY <1>5 DEF TrailCell
  <2> QED  BY <1>1, <1>5, <2>1 DEF CellOK, Again, Following
<1>6. CASE k = 32
  <2>1. TrailCell(k, bytes) = Value(Raw(bytes))
    BY <1>6 DEF TrailCell
  <2> QED  BY <2>1 DEF CellOK, Value
<1>7. CASE k \in 28..29
  <2>1. TrailCell(k, bytes) = Container("array", Load(bytes))
    BY <1>7 DEF TrailCell
  <2> QED  BY <1>1, <1>7, <2>1 DEF CellOK, Container
<1>8. CASE k \in 30..31
  <2>1. TrailCell(k, bytes) = Container("map", Load(bytes))
    BY <1>8 DEF TrailCell
  <2> QED  BY <1>1, <1>8, <2>1 DEF CellOK, Container
<1> QED  BY <1>2, <1>3, <1>4, <1>5, <1>6, <1>7, <1>8 DEF Following

-----------------------------------------------------------------------------
(* The inductive invariant                                                 *)

\* What is next: a header, or bytes that follow one.
ExpectedNext(k, n) == k = CS_HEADER \/ (Following(k, n) /\ n # 0)

Depth == IF at = "idle" THEN ctx.top ELSE top

Control ==
    /\ at # "idle" => off <= p
    /\ at \in {"header", "push", "header_again", "finish", "failed"} => p < fed
    /\ at = "header" => cs = CS_HEADER
    /\ at = "trail" => cs # CS_HEADER
    /\ at \in {"header", "trail", "failed", "out"} => ExpectedNext(cs, trail)
    /\ ExpectedNext(ctx.cs, ctx.trail)
    /\ ~Resumes => ctx = Fresh
    /\ \A i \in 1..Depth : stack[i].count # 0

IInv == TypeOK /\ Control

LEMMA NextByte ==
    ASSUME TypeOK, NEW i \in Nat, i < fed
    PROVE  stream[i + 1] \in Byte
<1>1. stream \in Seq(Byte) /\ i + 1 \in 1..Len(stream)
  BY ParserAssumption DEF TypeOK
<1> QED  BY <1>1, ElementOfSeq

LEMMA NextBytes ==
    ASSUME TypeOK, NEW i \in Nat, NEW n \in Nat, i + n <= fed
    PROVE  /\ SubSeq(stream, i + 1, i + n) \in Seq(Byte)
           /\ Len(SubSeq(stream, i + 1, i + n)) = n
<1>1. stream \in Seq(Byte) /\ fed <= Len(stream) /\ fed \in Nat /\ Len(stream) \in Nat
  BY ParserAssumption, LenProperties DEF TypeOK
<1>2. i + 1 \in 1..(Len(stream) + 1) /\ i + n \in i..Len(stream)
  BY <1>1
<1>3. SubSeq(stream, i + 1, i + n) \in Seq(Byte)
  BY <1>1, <1>2, SubSeqProperties
<1>4. Len(SubSeq(stream, i + 1, i + n)) = IF i + 1 <= i + n THEN (i + n) - (i + 1) + 1 ELSE 0
  BY <1>1, <1>2, SubSeqProperties
<1> QED  BY <1>3, <1>4

\* The cell that a call looks at next.
LEMMA CellAhead ==
    ASSUME IInv
    PROVE  /\ at = "header" => CellOK(HeaderCell(stream[p + 1]))
           /\ at = "trail" /\ Enough =>
                 LET cell == TrailCell(cs, SubSeq(stream, p + 1, p + trail))
                 IN  /\ CellOK(cell)
                     /\ cell.is # "refused"
                     /\ cell.is = "container" => cs \in 28..31
<1> USE DEF IInv
<1>1. ASSUME at = "header"
      PROVE  CellOK(HeaderCell(stream[p + 1]))
  <2>1. p \in Nat /\ p < fed
    BY <1>1 DEF TypeOK, Control
  <2> QED  BY <2>1, NextByte, HeaderCells
<1>2. ASSUME at = "trail", Enough
      PROVE  LET cell == TrailCell(cs, SubSeq(stream, p + 1, p + trail))
             IN  /\ CellOK(cell)
                 /\ cell.is # "refused"
                 /\ cell.is = "container" => cs \in 28..31
  <2>1. p \in Nat /\ trail \in Nat /\ p + trail <= fed
    BY <1>2 DEF TypeOK, Enough
  <2>2. Following(cs, trail)
    BY <1>2 DEF Control, ExpectedNext
  <2> QED  BY <2>1, <2>2, NextBytes, TrailCells
<1> QED  BY <1>1, <1>2

\* What a cell may do to the context and the locals.
LEMMA TakesOK ==
    ASSUME IInv, at \in {"header", "trail"},
           NEW cell, CellOK(cell), NEW q \in Nat, p <= q, q < fed,
           Takes(cell, q), UNCHANGED <<ours, caller, failure>>
    PROVE  IInv'
<1> USE DEF IInv
<1>0. /\ TypeOK /\ Control
      /\ p \in 0..fed /\ off \in 0..fed /\ off <= p /\ fed \in Nat /\ top \in 0..StackSize
      /\ cs \in States /\ trail \in Nat /\ ExpectedNext(cs, trail) /\ StackSize \in Nat
  BY ParserAssumption, LenProperties DEF TypeOK, Control
<1>1. CASE cell.is = "value" /\ PushValue(cell.obj) /\ p' = q
  BY <1>0, <1>1 DEF PushValue, TypeOK, Control, Labels, Depth, ours, caller, Resumes, FrameOK, ExpectedNext
<1>2. CASE cell.is = "again" /\ AgainFixedTrail(cell.cs, cell.trail, q)
  <2>1. Following(cell.cs, cell.trail) /\ cell.cs \in States /\ cell.cs # CS_HEADER
    BY <1>2 DEF CellOK, Following, States, CS_HEADER
  <2>2. CASE cell.trail = 0
    BY SMTT(60), <1>0, <1>2, <2>1, <2>2 DEF AgainFixedTrail, TypeOK, Control, Labels, Depth, ours, caller,
       Resumes, FrameOK, ExpectedNext
  <2>3. CASE cell.trail # 0
    <3>1. /\ p' = q + 1 /\ cs' = cell.cs /\ trail' = cell.trail /\ at' = "trail"
          /\ UNCHANGED <<obj, stack, top>>
      BY <1>2, <2>3 DEF AgainFixedTrail
    <3>2. trail' \in Nat /\ p' \in 0..fed /\ off <= p' /\ ExpectedNext(cs', trail')
      BY <1>0, <2>1, <2>3, <3>1 DEF ExpectedNext, Following
    <3> QED  BY <1>0, <2>1, <3>1, <3>2 DEF TypeOK, Control, Labels, Depth, ours, caller, Resumes,
                                          FrameOK
  <2> QED  BY <2>2, <2>3
<1>3. CASE cell.is = "container" /\ StartContainer(cell.kind, cell.count) /\ p' = q
  <2>1. CASE at' = "failed" /\ UNCHANGED <<cs, trail, stack, top, obj>>
    BY <1>0, <1>3, <2>1 DEF TypeOK, Control, Labels, Depth, ours, caller, Resumes, FrameOK
  <2>2. CASE PushValue(Empty(cell.kind))
    BY <1>0, <1>3, <2>2 DEF PushValue, TypeOK, Control, Labels, Depth, ours, caller, Resumes,
       FrameOK
  <2>3. CASE /\ ~StackFull /\ cell.count # 0
             /\ stack' = [stack EXCEPT ![top + 1] = Frame(cell.kind, cell.count)]
             /\ top' = top + 1
             /\ at' = "header_again"
             /\ UNCHANGED <<cs, trail, obj>>
    <3>1. top + 1 \in 1..StackSize
      BY <1>0, <2>3 DEF StackFull
    <3>2. FrameOK(Frame(cell.kind, cell.count)) /\ Frame(cell.kind, cell.count).count # 0
      BY <1>3, <2>3 DEF CellOK, FrameOK, Frame
    <3>3. /\ DOMAIN stack' = 1..StackSize
          /\ \A i \in 1..StackSize :
                stack'[i] = IF i = top + 1 THEN Frame(cell.kind, cell.count) ELSE stack[i]
      BY <1>0, <2>3, <3>1 DEF TypeOK
    <3>4. \A i \in 1..StackSize : FrameOK(stack'[i])
      BY <1>0, <3>2, <3>3 DEF TypeOK
    <3>5. \A i \in 1..(top + 1) : stack'[i].count # 0
      BY <1>0, <3>1, <3>2, <3>3 DEF Control, Depth
    <3> QED  BY <1>0, <1>3, <2>3, <3>1, <3>3, <3>4, <3>5
             DEF TypeOK, Control, Labels, Depth, ours, caller, Resumes
  <2> QED  BY <1>3, <2>1, <2>2, <2>3 DEF StartContainer
<1>4. CASE /\ cell.is = "refused"
           /\ at' = "failed" /\ p' = q
           /\ UNCHANGED <<cs, trail, stack, top, obj>>
  BY <1>0, <1>4, SMTT(60) DEF TypeOK, Control, Labels, Depth, ours, caller, Resumes, FrameOK
<1> QED  BY <1>1, <1>2, <1>3, <1>4 DEF Takes

LEMMA InitIInv == Init => IInv
BY ParserAssumption, LenProperties
   DEF Init, IInv, TypeOK, Control, Fresh, States, Labels, CS_HEADER, ExpectedNext, Depth,
       FrameOK, Frame, Byte

LEMMA Filling ==
    ASSUME NEW c, FrameOK(c), c.count # 0, NEW o
    PROVE  FrameOK(Filled(c, o))
<1>1. c.count - 1 \in Nat
  BY DEF FrameOK
<1> QED  BY <1>1 DEF FrameOK, Filled

LEMMA NextIInv == IInv /\ [Next]_vars => IInv'
<1> SUFFICES ASSUME IInv, [Next]_vars PROVE IInv'
  OBVIOUS
<1>0. /\ TypeOK /\ Control
      /\ p \in 0..fed /\ off \in 0..fed /\ start \in 0..off /\ fed \in 0..Len(stream)
      /\ Len(stream) \in Nat /\ top \in 0..StackSize
      /\ cs \in States /\ trail \in Nat /\ StackSize \in Nat
      /\ ctx \in [cs : States, trail : Nat, top : 0..StackSize]
  <2>1. stream \in Seq(Byte)
    BY DEF IInv, TypeOK
  <2> QED  BY <2>1, ParserAssumption, LenProperties DEF IInv, TypeOK
<1> USE DEF IInv, ours, caller, locals, Labels, Resumes
<1>1. ASSUME NEW n \in 1..Len(stream), Feed(n) PROVE IInv'
  BY <1>0, <1>1 DEF Feed, TypeOK, Control, Depth, FrameOK, Fresh
<1>2. CASE GoBack
  BY <1>0, <1>2 DEF GoBack, TypeOK, Control, Depth, FrameOK, Fresh
<1>3. CASE Execute
  BY <1>0, <1>3 DEF Execute, TypeOK, Control, Depth, FrameOK, Fresh
<1>4. CASE Header
  <2>1. CellOK(HeaderCell(stream[p + 1])) /\ Takes(HeaderCell(stream[p + 1]), p) /\ p < fed
    BY <1>0, <1>4, CellAhead DEF Header, Control
  <2> QED  BY <1>0, <1>4, <2>1, TakesOK DEF Header
<1>5. CASE Trail
  <2>1. CASE Enough
    <3>1. trail # 0
      BY <1>0, <1>5 DEF Trail, Control, ExpectedNext
    <3>2. p + trail - 1 \in Nat /\ p <= p + trail - 1 /\ p + trail - 1 < fed
      BY <1>0, <2>1, <3>1 DEF Enough
    <3>3. CellOK(TrailCell(cs, SubSeq(stream, p + 1, p + trail)))
      BY <1>5, <2>1, CellAhead DEF Trail
    <3> QED  BY <1>0, <1>5, <2>1, <3>2, <3>3, TakesOK DEF Trail
  <2>2. CASE ~Enough
    BY <1>0, <1>5, <2>2 DEF Trail, TypeOK, Control, Depth, FrameOK, Fresh
  <2> QED  BY <2>1, <2>2
<1>6. CASE Push
  <2>1. CASE top = 0
    BY <1>0, <1>6, <2>1 DEF Push, TypeOK, Control, Depth, FrameOK, Fresh
  <2>2. CASE top # 0
    <3> DEFINE c == Filled(stack[top], obj)
    <3>1. FrameOK(c)
      BY <1>0, <1>6, <2>2, Filling DEF Push, TypeOK, Control, Depth
    <3>2. /\ DOMAIN stack' = 1..StackSize
          /\ \A i \in 1..StackSize : stack'[i] = IF i = top THEN c ELSE stack[i]
      BY <1>0, <1>6, <2>2 DEF Push, TypeOK
    <3>3. \A i \in 1..StackSize : FrameOK(stack'[i])
      BY <1>0, <3>1, <3>2 DEF TypeOK
    <3>4. \A i \in 1..(top - 1) : stack'[i].count # 0
      BY <1>0, <1>6, <3>2 DEF Push, Control, Depth
    <3>5. CASE c.count = 0
      <4>1. top' = top - 1 /\ at' = at
        BY <1>6, <2>2, <3>5 DEF Push
      <4> QED  BY <1>0, <1>6, <2>2, <3>2, <3>3, <3>4, <4>1 DEF Push, TypeOK, Control, Depth
    <3>6. CASE c.count # 0
      <4>1. top' = top /\ at' = "header_again"
        BY <1>6, <2>2, <3>6 DEF Push
      <4>2. \A i \in 1..top : stack'[i].count # 0
        BY <1>0, <2>2, <3>2, <3>4, <3>6
      <4> QED  BY <1>0, <1>6, <2>2, <3>2, <3>3, <4>1, <4>2 DEF Push, TypeOK, Control, Depth
    <3> QED  BY <3>5, <3>6
  <2> QED  BY <2>1, <2>2
<1>7. CASE HeaderAgain
  BY <1>0, <1>7 DEF HeaderAgain, TypeOK, Control, Depth, FrameOK, Fresh, States, CS_HEADER,
     ExpectedNext
<1>8. CASE Finish
  BY <1>0, <1>8 DEF Finish, TypeOK, Control, Depth, FrameOK, Fresh, States, CS_HEADER,
     ExpectedNext
<1>9. CASE Out
  BY <1>0, <1>9 DEF Out, TypeOK, Control, Depth, FrameOK, Fresh, Saved, States, CS_HEADER,
     ExpectedNext
<1>10. CASE Failed
  BY <1>0, <1>10 DEF Failed, TypeOK, Control, Depth, FrameOK, Fresh, Saved, States, CS_HEADER,
     ExpectedNext
<1>11. CASE UNCHANGED vars
  BY <1>0, <1>11 DEF vars, TypeOK, Control, Depth, FrameOK, Fresh
<1> QED
  BY <1>1, <1>2, <1>3, <1>4, <1>5, <1>6, <1>7, <1>8, <1>9, <1>10, <1>11 DEF Next, Parses

LEMMA SpecIInv == Spec => []IInv
<1>1. Init => IInv
  BY InitIInv
<1>2. IInv /\ [Next]_vars => IInv'
  BY NextIInv
<1> QED  BY <1>1, <1>2, PTL DEF Spec

\* The types, and with them the bounds: no read beyond the bytes the client has
\* given, no frame beyond the stack, no offset that goes back past a message.
THEOREM TypeCorrect == Spec => []TypeOK
<1>1. IInv => TypeOK
  BY DEF IInv
<1> QED  BY SpecIInv, <1>1, PTL

-----------------------------------------------------------------------------
(* The refinement.  msgpack_unpacker_next does not reset the context when it *)
(* refuses bytes: what it is called with again must be refused again.        *)

\* A header that is not MessagePack, or a container, or the length of one, for
\* which there is no place.
Hopeless(k, i, depth) ==
    \/ k \in 28..31 /\ depth >= StackSize
    \/ /\ k = CS_HEADER
       /\ i < fed
       /\ \/ HeaderCell(stream[i + 1]).is = "refused"
          \/ HeaderCell(stream[i + 1]).is = "container" /\ depth >= StackSize

Refusal ==
    /\ ~Resumes => failure = "none"
    /\ at = "finish" => top = 0
    /\ at = "failed" => Hopeless(cs, p, top)
    /\ failure = "bytes" =>
          IF at = "idle" THEN Hopeless(ctx.cs, off, ctx.top)
          ELSE at \in {"header", "trail", "out", "failed"} /\ Hopeless(cs, p, top)

\* A cell that is refused, and one that is not.
LEMMA TakesRefusal ==
    ASSUME IInv, Refusal, at \in {"header", "trail"}, NEW cell, NEW q \in Nat,
           Takes(cell, q), UNCHANGED <<ours, caller, failure>>,
           at = "header" => cell = HeaderCell(stream[p + 1]) /\ q = p,
           at = "trail" => cell.is # "refused" /\ (cell.is = "container" => cs \in 28..31),
           failure = "bytes" => cell.is = "refused" \/ (cell.is = "container" /\ top >= StackSize)
    PROVE  Refusal'
<1> USE DEF Refusal, Hopeless, ours, caller, Resumes
<1>0. p < fed \/ at = "trail"
  BY DEF IInv, Control
<1>1. CASE cell.is = "value" \/ cell.is = "again"
  <2>1. failure # "bytes"
    BY <1>1
  <2>2. at' \in {"push", "trail"}
    BY <1>1 DEF Takes, PushValue, AgainFixedTrail
  <2> QED  BY <2>1, <2>2
<1>2. CASE cell.is = "container"
  <2>1. CASE StackFull
    <3>1. at' = "failed" /\ p' = q /\ UNCHANGED <<cs, trail, stack, top, obj>>
      BY <1>2, <2>1 DEF Takes, StartContainer
    <3>2. CASE at = "header"
      BY <1>0, <1>2, <2>1, <3>1, <3>2 DEF StackFull, IInv, Control
    <3>3. CASE at = "trail"
      BY <1>2, <2>1, <3>1, <3>3 DEF StackFull
    <3> QED  BY <3>2, <3>3
  <2>2. CASE ~StackFull
    <3>1. failure # "bytes"
      BY <1>2, <2>2 DEF StackFull
    <3>2. at' \in {"push", "header_again"}
      BY <1>2, <2>2 DEF Takes, StartContainer, PushValue
    <3> QED  BY <3>1, <3>2
  <2> QED  BY <2>1, <2>2
<1>3. CASE cell.is = "refused"
  <2>1. at = "header" /\ at' = "failed" /\ p' = p /\ UNCHANGED <<cs, trail, stack, top, obj>>
    BY <1>3 DEF Takes
  <2>2. cs = CS_HEADER
    BY <2>1 DEF IInv, Control
  <2> QED  BY <1>0, <1>3, <2>1, <2>2
<1> QED  BY <1>1, <1>2, <1>3 DEF Takes

LEMMA RefusalStep == IInv /\ Refusal /\ [Next]_vars => Refusal'
<1> SUFFICES ASSUME IInv, Refusal, [Next]_vars PROVE Refusal'
  OBVIOUS
<1> USE DEF Refusal, Hopeless, ours, caller, locals, Resumes
<1>0. /\ p \in 0..fed /\ off \in 0..fed /\ fed \in Nat /\ top \in 0..StackSize
      /\ Len(stream) \in Nat /\ fed <= Len(stream) /\ trail \in Nat
  <2>1. stream \in Seq(Byte)
    BY DEF IInv, TypeOK
  <2> QED  BY <2>1, LenProperties DEF IInv, TypeOK
<1>1. ASSUME NEW n \in 1..Len(stream), Feed(n) PROVE Refusal'
  BY <1>0, <1>1 DEF Feed
<1>2. CASE GoBack
  BY <1>2 DEF GoBack
<1>3. CASE Execute
  BY <1>3 DEF Execute
<1>4. CASE Header
  <2>1. cs = CS_HEADER /\ Takes(HeaderCell(stream[p + 1]), p)
    BY <1>4 DEF Header, IInv, Control
  <2>2. failure = "bytes" => \/ HeaderCell(stream[p + 1]).is = "refused"
                             \/ HeaderCell(stream[p + 1]).is = "container" /\ top >= StackSize
    BY <1>4, <2>1 DEF Header, CS_HEADER
  <2> QED  BY <1>0, <1>4, <2>1, <2>2, TakesRefusal DEF Header
<1>5. CASE Trail
  <2>1. CASE Enough
    <3> DEFINE cell == TrailCell(cs, SubSeq(stream, p + 1, p + trail))
    <3>1. cell.is # "refused" /\ (cell.is = "container" => cs \in 28..31)
      BY <1>5, <2>1, CellAhead DEF Trail
    <3>2. trail # 0 /\ p + trail - 1 \in Nat
      BY <1>0, <1>5 DEF Trail, IInv, Control, ExpectedNext
    <3>3. failure = "bytes" => cell.is = "container" /\ top >= StackSize
      <4>1. SUFFICES ASSUME failure = "bytes" PROVE cell.is = "container" /\ top >= StackSize
        OBVIOUS
      <4>2. cs \in 28..31 /\ top >= StackSize
        BY <1>5, <4>1 DEF Trail, IInv, Control
      <4> QED  BY <4>2 DEF TrailCell, Container, CS_FLOAT, CS_DOUBLE, CS_UINT, CS_INT, CS_RAW,
                           CS_ARRAY, CS_MAP, ACS_RAW_VALUE
    <3>4. Takes(cell, p + trail - 1) /\ UNCHANGED <<ours, caller, failure>> /\ at = "trail"
      BY <1>5, <2>1 DEF Trail
    <3> HIDE DEF cell
    <3> QED  BY <3>1, <3>2, <3>3, <3>4, TakesRefusal
  <2>2. CASE ~Enough
    BY <1>5, <2>2 DEF Trail
  <2> QED  BY <2>1, <2>2
<1>6. CASE Push
  BY <1>0, <1>6 DEF Push
<1>7. CASE HeaderAgain
  BY <1>7 DEF HeaderAgain
<1>8. CASE Finish
  BY <1>8 DEF Finish
<1>9. CASE Out
  BY <1>9 DEF Out, Saved
<1>10. CASE Failed
  BY <1>10 DEF Failed, Saved
<1>11. CASE UNCHANGED vars
  BY <1>11 DEF vars
<1> QED
  BY <1>1, <1>2, <1>3, <1>4, <1>5, <1>6, <1>7, <1>8, <1>9, <1>10, <1>11 DEF Next, Parses

\* The format that the promise speaks of is the parser's.
LEMMA SameFormat ==
    /\ Whole!CS_HEADER = CS_HEADER
    /\ \A b : Whole!HeaderCell(b) = HeaderCell(b)
    /\ \A k, bytes : Whole!TrailCell(k, bytes) = TrailCell(k, bytes)
    /\ \A kind : Whole!Empty(kind) = Empty(kind)
    /\ \A kind, n : Whole!Frame(kind, n) = Frame(kind, n)
    /\ \A c, o : Whole!Filled(c, o) = Filled(c, o)
    /\ \A c : Whole!Complete(c) = Complete(c)
    /\ Whole!Raw(<<>>) = Raw(<<>>)
<1>1. \A b : Whole!HeaderCell(b) = HeaderCell(b)
  BY DEF HeaderCell, Whole!HeaderCell, Byte, Widened, Nil, Boolean, Unsigned,
       Signed, Double, Raw, Array, Map, CS_HEADER, CS_FLOAT, CS_DOUBLE, CS_UINT,
       CS_INT, CS_RAW, CS_ARRAY, CS_MAP, ACS_RAW_VALUE, Value, Again, Container,
       Refused, Huge, Load, Whole!Byte, Whole!Widened, Whole!Nil, Whole!Boolean,
       Whole!Unsigned, Whole!Signed, Whole!Double, Whole!Raw, Whole!Array,
       Whole!Map, Whole!CS_HEADER, Whole!CS_FLOAT, Whole!CS_DOUBLE, Whole!CS_UINT,
       Whole!CS_INT, Whole!CS_RAW, Whole!CS_ARRAY, Whole!CS_MAP,
       Whole!ACS_RAW_VALUE, Whole!Value, Whole!Again, Whole!Container,
       Whole!Refused, Whole!Huge, Whole!Load
<1>2. \A k, bytes : Whole!TrailCell(k, bytes) = TrailCell(k, bytes)
  BY DEF TrailCell, Whole!TrailCell, Byte, Widened, Nil, Boolean, Unsigned, Signed,
       Double, Raw, Array, Map, CS_HEADER, CS_FLOAT, CS_DOUBLE, CS_UINT, CS_INT,
       CS_RAW, CS_ARRAY, CS_MAP, ACS_RAW_VALUE, Value, Again, Container, Refused,
       Huge, Load, Whole!Byte, Whole!Widened, Whole!Nil, Whole!Boolean,
       Whole!Unsigned, Whole!Signed, Whole!Double, Whole!Raw, Whole!Array,
       Whole!Map, Whole!CS_HEADER, Whole!CS_FLOAT, Whole!CS_DOUBLE, Whole!CS_UINT,
       Whole!CS_INT, Whole!CS_RAW, Whole!CS_ARRAY, Whole!CS_MAP,
       Whole!ACS_RAW_VALUE, Whole!Value, Whole!Again, Whole!Container,
       Whole!Refused, Whole!Huge, Whole!Load
<1>3. \A kind, n : Whole!Frame(kind, n) = Frame(kind, n)
  BY DEF Frame, Nil, Whole!Frame, Whole!Nil
<1> QED
  BY <1>1, <1>2, <1>3 DEF CS_HEADER, Empty, Filled, Complete, Raw, Array, Map,
     Whole!CS_HEADER, Whole!Empty, Whole!Filled, Whole!Complete, Whole!Raw, Whole!Array,
     Whole!Map

\* The refinement mapping, one abstract variable each.
wCs == IF at = "idle" THEN ctx.cs
       ELSE IF at \in {"push", "header_again", "finish"} THEN CS_HEADER ELSE cs
wTrail == IF at = "idle" THEN ctx.trail ELSE trail
wTop == IF at = "idle" THEN ctx.top ELSE top
wPushing == at \in {"push", "finish"}

\* The steps that the promise does not see.
Stutters ==
    UNCHANGED <<stream, start, Position, wCs, wTrail, stack, wTop, wPushing, obj, failure,
                delivered>>

LEMMA StuttersAllowed == Stutters => UNCHANGED Whole!vars
BY DEF Stutters, Whole!vars, wCs, wTrail, wTop, wPushing

\* The first byte after the cells that are parsed.
LEMMA Positions ==
    /\ at = "idle" => Position = IF Resumes THEN off ELSE start
    /\ at \in {"push", "header_again", "finish"} => Position = p + 1
    /\ at \in {"header", "trail", "out"} => Position = p
    /\ at = "failed" =>
          Position = IF cs = CS_HEADER THEN p ELSE p + 1 - trail
BY DEF Position

\* A cell that is taken, or refused.
LEMMA TakesRefines ==
    ASSUME IInv, IInv', failure = "none", at \in {"header", "trail"}, NEW cell, NEW q,
           Takes(cell, q), UNCHANGED <<ours, caller, failure, delivered>>,
           at = "header" => cell = HeaderCell(stream[p + 1]) /\ q = p,
           at = "trail" => /\ cell = TrailCell(cs, SubSeq(stream, p + 1, p + trail))
                           /\ q = p + trail - 1 /\ Enough /\ cell.is # "refused"
    PROVE  [Whole!Next]_(Whole!vars)
<1> USE DEF ours, caller
<1>0. /\ p \in 0..fed /\ fed \in Nat /\ top \in 0..StackSize /\ StackSize \in Nat
      /\ Len(stream) \in Nat /\ fed <= Len(stream) /\ trail \in Nat
      /\ cs = CS_HEADER <=> at = "header"
      /\ at = "header" => p < fed
      /\ at = "trail" => p + trail <= fed /\ q = p + trail - 1
  <2>1. stream \in Seq(Byte)
    BY DEF IInv, TypeOK
  <2> QED  BY <2>1, ParserAssumption, LenProperties DEF IInv, TypeOK, Control, Enough
<1>1. Position = p /\ wCs = cs /\ wTrail = trail /\ wTop = top /\ ~wPushing
  BY Positions DEF wCs, wTrail, wTop, wPushing
<1>w. Whole!Wanted = q + 1 - p
  <2>1. Whole!Wanted = IF wCs = CS_HEADER THEN 1 ELSE wTrail
    BY SameFormat DEF Whole!Wanted, wCs, wTrail
  <2> QED  BY <1>0, <1>1, <2>1
<1>c. Whole!Cell = cell
  <2>1. Whole!Cell = IF wCs = CS_HEADER THEN HeaderCell(stream[Position + 1])
                     ELSE TrailCell(wCs, SubSeq(stream, Position + 1, Position + wTrail))
    BY SameFormat DEF Whole!Cell, wCs, wTrail
  <2> QED  BY <1>0, <1>1, <2>1
<1>2. p + Whole!Wanted = q + 1 /\ p + Whole!Wanted <= Len(stream) /\ q \in Int
  BY SMTT(60), <1>0, <1>w
<1>3. /\ at' # "idle" => wTop' = top' /\ wTrail' = trail'
      /\ at' \in {"push", "header_again"} => Position' = p' + 1 /\ wCs' = CS_HEADER
      /\ at' = "trail" => Position' = p' /\ wCs' = cs'
      /\ at' = "failed" =>
            Position' = (IF cs' = CS_HEADER THEN p' ELSE p' + 1 - trail') /\ wCs' = cs'
      /\ wPushing' = (at' \in {"push", "finish"})
  BY DEF wTop, wTrail, wCs, wPushing, Position
<1>u. UNCHANGED <<stream, start, failure, delivered>>
  OBVIOUS
<1>4. CASE /\ at' = "push" /\ p' = q /\ UNCHANGED <<stack, top>>
           /\ \/ cell.is = "value" /\ obj' = cell.obj
              \/ cell.is = "again" /\ cell.trail = 0 /\ obj' = Raw(<<>>)
              \/ cell.is = "container" /\ ~StackFull /\ cell.count = 0 /\ obj' = Empty(cell.kind)
  <2>1. /\ at' = "push" /\ Position' = q + 1 /\ wCs' = CS_HEADER /\ wTop' = wTop /\ wPushing'
        /\ UNCHANGED stack
    BY <1>1, <1>3, <1>4
  <2>2. Whole!AValue(obj')
    BY <2>1, SameFormat DEF Whole!AValue, wCs, wTop, wPushing
  <2>3. Whole!Take
    BY <1>0, <1>1, <1>2, <1>c, <1>u, <1>4, <2>1, <2>2, SameFormat
       DEF Whole!Take, Whole!AContainer, wTop, wPushing, StackFull
  <2> QED
    BY <1>u, <2>3 DEF Whole!Next
<1>5. CASE /\ cell.is = "again" /\ cell.trail # 0
           /\ trail' = cell.trail /\ cs' = cell.cs /\ p' = q + 1 /\ at' = "trail"
           /\ UNCHANGED <<stack, top, obj>>
  <2>1. /\ Position' = q + 1 /\ wCs' = cell.cs /\ wTrail' = cell.trail /\ wTop' = wTop
        /\ ~wPushing' /\ UNCHANGED stack
    BY <1>1, <1>3, <1>5
  <2>2. Whole!Take
    BY <1>0, <1>1, <1>2, <1>c, <1>u, <1>5, <2>1
       DEF Whole!Take, wCs, wTrail, wTop, wPushing
  <2> QED
    BY <1>u, <2>2 DEF Whole!Next
<1>6. CASE /\ cell.is = "container" /\ ~StackFull /\ cell.count # 0
           /\ stack' = [stack EXCEPT ![top + 1] = Frame(cell.kind, cell.count)]
           /\ top' = top + 1 /\ p' = q /\ at' = "header_again"
           /\ UNCHANGED <<cs, trail, obj>>
  <2>1. /\ Position' = q + 1 /\ wCs' = CS_HEADER /\ wTop' = wTop + 1
        /\ ~wPushing' /\ stack' = [stack EXCEPT ![wTop + 1] = Frame(cell.kind, cell.count)]
    BY <1>1, <1>3, <1>6
  <2>2. Whole!AContainer(cell.kind, cell.count)
    <3>1. wTop < StackSize /\ cell.count # 0
      BY <1>0, <1>1, <1>6 DEF StackFull
    <3>2. stack' = [stack EXCEPT ![wTop + 1] = Whole!Frame(cell.kind, cell.count)]
      BY <2>1, SameFormat
    <3>3. wPushing' = FALSE /\ wCs' = Whole!CS_HEADER /\ wTop' = wTop + 1
      BY <2>1, SameFormat
    <3> QED
      BY <3>1, <3>2, <3>3, Zenon DEF Whole!AContainer, wCs, wTop, wPushing
  <2>3. Whole!Take
    BY <1>1, <1>2, <1>c, <1>u, <1>6, <2>1, <2>2 DEF Whole!Take, wPushing
  <2> QED
    BY <1>u, <2>3 DEF Whole!Next
<1>7. CASE at' = "failed" /\ p' = q /\ UNCHANGED <<cs, trail, stack, top, obj>>
  <2>1. Position' = p
    BY <1>0, <1>3, <1>7
  <2>2. wCs' = wCs /\ wTrail' = wTrail /\ wTop' = wTop /\ ~wPushing'
    BY <1>1, <1>3, <1>7
  <2>3. Stutters
    BY <1>1, <1>7, <1>u, <2>1, <2>2 DEF Stutters, wPushing
  <2> QED
    BY <2>3, StuttersAllowed
<1>8. cell.is = "container" /\ StartContainer(cell.kind, cell.count) /\ p' = q =>
        \/ /\ at' = "push" /\ UNCHANGED <<stack, top>>
           /\ ~StackFull /\ cell.count = 0 /\ obj' = Empty(cell.kind)
        \/ /\ ~StackFull /\ cell.count # 0
           /\ stack' = [stack EXCEPT ![top + 1] = Frame(cell.kind, cell.count)]
           /\ top' = top + 1 /\ at' = "header_again" /\ UNCHANGED <<cs, trail, obj>>
        \/ at' = "failed" /\ UNCHANGED <<cs, trail, stack, top, obj>>
  BY DEF StartContainer, PushValue
<1>9. cell.is = "again" /\ AgainFixedTrail(cell.cs, cell.trail, q) =>
        \/ /\ at' = "push" /\ UNCHANGED <<stack, top>>
           /\ p' = q /\ cell.trail = 0 /\ obj' = Raw(<<>>)
        \/ /\ cell.trail # 0 /\ trail' = cell.trail /\ cs' = cell.cs /\ p' = q + 1
           /\ at' = "trail" /\ UNCHANGED <<stack, top, obj>>
  BY DEF AgainFixedTrail
<1>10. cell.is = "value" /\ PushValue(cell.obj) =>
        at' = "push" /\ UNCHANGED <<stack, top>> /\ obj' = cell.obj
  BY DEF PushValue
<1> QED
  BY <1>4, <1>5, <1>6, <1>7, <1>8, <1>9, <1>10 DEF Takes

\* Once bytes are refused, little is promised.
LEMMA AfterFailure ==
    ASSUME IInv, Refusal, Refusal', [Next]_vars, failure # "none"
    PROVE  [Whole!Next]_(Whole!vars)
<1>1. failure = "bytes"
  BY DEF IInv, TypeOK
<1>2. UNCHANGED stream
  BY DEF Next, Parses, vars, ours, Feed, GoBack, Execute, Header, Trail, Push, HeaderAgain,
         Finish, Out, Failed
<1>3. at # "finish"
  BY <1>1 DEF Refusal
<1>4. failure' = "bytes" /\ UNCHANGED delivered
  BY <1>1, <1>3 DEF Refusal, Next, Parses, vars, Feed, GoBack, Execute, Header, Trail, Push,
              HeaderAgain, Finish, Out, Failed
<1> QED  BY <1>2, <1>4 DEF Whole!Next, Whole!Refuse

LEMMA StepRefines ==
    IInv /\ IInv' /\ Refusal /\ Refusal' /\ [Next]_vars => [Whole!Next]_(Whole!vars)
<1> SUFFICES ASSUME IInv, IInv', Refusal, Refusal', [Next]_vars
             PROVE  [Whole!Next]_(Whole!vars)
  OBVIOUS
<1> SUFFICES ASSUME failure = "none" PROVE [Whole!Next]_(Whole!vars)
  BY AfterFailure
<1> USE DEF ours, caller, locals, Resumes
<1>0. /\ p \in 0..fed /\ off \in 0..fed /\ fed \in Nat /\ top \in 0..StackSize
      /\ Len(stream) \in Nat /\ fed <= Len(stream) /\ trail \in Nat /\ StackSize \in Nat
      /\ DOMAIN stack = 1..StackSize
  <2>1. stream \in Seq(Byte)
    BY DEF IInv, TypeOK
  <2> QED  BY <2>1, ParserAssumption, LenProperties DEF IInv, TypeOK
<1>p. /\ at' = "idle" => Position' = IF Resumes THEN off' ELSE start'
      /\ at' \in {"push", "header_again", "finish"} => Position' = p' + 1
      /\ at' \in {"header", "trail", "out"} => Position' = p'
  <2>1. Resumes' = Resumes
    BY DEF Next, Parses, vars, Feed, GoBack, Execute, Header, Trail, Push, HeaderAgain,
           Finish, Out, Failed
  <2> QED  BY <2>1 DEF Position
<1>s. ASSUME UNCHANGED <<stream, start, Position, wCs, wTrail, stack, wTop, obj, failure,
                         delivered>>,
             wPushing <=> wPushing'
      PROVE  [Whole!Next]_(Whole!vars)
  <2>1. wPushing' = wPushing
    BY <1>s DEF wPushing
  <2>2. Stutters
    BY <1>s, <2>1 DEF Stutters
  <2> QED  BY <2>2, StuttersAllowed
<1>1. ASSUME NEW n \in 1..Len(stream), Feed(n) PROVE [Whole!Next]_(Whole!vars)
  <2>1. /\ at = "idle" /\ at' = "idle"
        /\ UNCHANGED <<stream, api, off, start, ctx, stack, obj, failure, delivered>>
    BY <1>1 DEF Feed
  <2> QED  BY <1>s, <1>p, <2>1, Positions DEF wCs, wTrail, wTop, wPushing
<1>2. CASE GoBack
  <2>1. /\ at = "idle" /\ at' = "idle" /\ ~Resumes
        /\ UNCHANGED <<stream, api, start, ctx, stack, obj, failure, delivered>>
    BY <1>2 DEF GoBack
  <2>2. Position' = start' /\ Position = start
    BY <1>p, <2>1, Positions
  <2> QED  BY <1>s, <2>1, <2>2 DEF wCs, wTrail, wTop, wPushing
<1>3. CASE Execute
  <2>1. /\ at = "idle" /\ at' \in {"header", "trail", "out"} /\ p' = off
        /\ ~Resumes => off = start
        /\ cs' = ctx.cs /\ trail' = ctx.trail /\ top' = ctx.top
        /\ UNCHANGED <<stream, start, stack, obj, failure, delivered>>
    BY <1>3 DEF Execute
  <2>2. Position' = off /\ Position = off
    BY <1>p, <2>1, Positions
  <2>3. wCs' = wCs /\ wTrail' = wTrail /\ wTop' = wTop /\ ~wPushing /\ ~wPushing'
    BY <2>1 DEF wCs, wTrail, wTop, wPushing
  <2> QED  BY <1>s, <2>1, <2>2, <2>3
<1>4. CASE Header
  BY <1>4, TakesRefines DEF Header
<1>5. CASE Trail
  <2>1. CASE Enough
    <3>1. TrailCell(cs, SubSeq(stream, p + 1, p + trail)).is # "refused"
      BY <1>5, <2>1, CellAhead DEF Trail
    <3> QED  BY <1>5, <2>1, <3>1, TakesRefines DEF Trail
  <2>2. CASE ~Enough
    <3>1. /\ at = "trail" /\ at' = "out"
          /\ UNCHANGED <<stream, start, p, cs, trail, top, stack, obj, failure, delivered>>
      BY <1>5, <2>2 DEF Trail
    <3>2. Position' = Position
      BY <1>p, <3>1, Positions
    <3>3. wCs' = wCs /\ wTrail' = wTrail /\ wTop' = wTop /\ ~wPushing /\ ~wPushing'
      BY <3>1 DEF wCs, wTrail, wTop, wPushing
    <3> QED  BY <1>s, <3>1, <3>2, <3>3
  <2> QED  BY <2>1, <2>2
<1>6. CASE Push
  <2>1. UNCHANGED <<stream, start, p, cs, trail, failure, delivered>> /\ at = "push"
    BY <1>6 DEF Push
  <2>2. CASE top = 0
    <3>1. at' = "finish" /\ UNCHANGED <<stack, top, obj>>
      BY <1>6, <2>2 DEF Push
    <3>2. Position' = Position
      BY <1>p, <2>1, <3>1, Positions
    <3>3. wCs' = wCs /\ wTrail' = wTrail /\ wTop' = wTop /\ wPushing /\ wPushing'
      BY <2>1, <3>1 DEF wCs, wTrail, wTop, wPushing
    <3> QED  BY <1>s, <2>1, <3>1, <3>2, <3>3
  <2>3. CASE top # 0
    <3> DEFINE c == Filled(stack[top], obj)
    <3>1. /\ stack' = [stack EXCEPT ![wTop] = c] /\ c = Whole!Filled(stack[wTop], obj)
          /\ wTop > 0 /\ wPushing
      BY <1>0, <1>6, <2>1, <2>3, SameFormat DEF Push, wTop, wPushing
    <3>2. at' \in {"push", "header_again"} /\ Position' = Position /\ wCs' = wCs
      BY <1>6, <1>p, <2>1, <2>3, Positions DEF Push, wCs
    <3>3. CASE c.count = 0
      <4>1. at' = "push" /\ obj' = Whole!Complete(c) /\ wTop' = wTop - 1 /\ wPushing'
        BY <1>6, <2>1, <2>3, <3>3, SameFormat DEF Push, wTop, wPushing
      <4>2. wPushing' = wPushing
        BY <3>1, <4>1 DEF wPushing
      <4> HIDE DEF c
      <4>3. Whole!Place
        BY <2>1, <3>1, <3>2, <3>3, <4>1, <4>2 DEF Whole!Place, wCs, wTop, wPushing
      <4> QED  BY <2>1, <4>3 DEF Whole!Next
    <3>4. CASE c.count # 0
      <4>1. at' = "header_again" /\ wTop' = wTop /\ wPushing' = FALSE
        BY <1>6, <2>1, <2>3, <3>4 DEF Push, wTop, wPushing
      <4> HIDE DEF c
      <4>3. Whole!Place
        BY <2>1, <3>1, <3>2, <3>4, <4>1 DEF Whole!Place, wCs, wTop, wPushing
      <4> QED  BY <2>1, <4>3 DEF Whole!Next
    <3> QED  BY <3>3, <3>4
  <2> QED  BY <2>2, <2>3
<1>7. CASE HeaderAgain
  <2>1. /\ at = "header_again" /\ at' \in {"out", "header"} /\ p' = p + 1 /\ cs' = CS_HEADER
        /\ UNCHANGED <<stream, start, trail, top, stack, obj, failure, delivered>>
    BY <1>7 DEF HeaderAgain
  <2>2. Position' = Position
    BY <1>p, <2>1, Positions
  <2>3. wCs' = wCs /\ wTrail' = wTrail /\ wTop' = wTop /\ ~wPushing /\ ~wPushing'
    BY <2>1 DEF wCs, wTrail, wTop, wPushing
  <2> QED  BY <1>s, <2>1, <2>2, <2>3
<1>8. CASE Finish
  <2>1. /\ at = "finish" /\ at' = "idle" /\ top = 0
        /\ delivered' = Append(delivered, obj) /\ start' = p + 1 /\ off' = p + 1
        /\ ctx' = Fresh /\ UNCHANGED <<stream, failure>>
    BY <1>8 DEF Finish, Refusal
  <2>2. Position' = Position /\ start' = Position
    BY <1>p, <2>1, Positions
  <2>3. wCs' = wCs /\ wTop' = wTop /\ wTop = 0 /\ wPushing
    BY <2>1 DEF wCs, wTop, wPushing, Fresh
  <2>4. wPushing' = FALSE
    BY <2>1 DEF wPushing
  <2>5. Whole!Deliver
    BY <2>1, <2>2, <2>3, <2>4 DEF Whole!Deliver, wCs, wTop, wPushing
  <2> QED  BY <2>1, <2>5 DEF Whole!Next
<1>r. ASSUME at' = "idle", ~Resumes, ctx' = Fresh,
             UNCHANGED <<stream, api, start, failure, delivered>>
      PROVE  [Whole!Next]_(Whole!vars)
  <2>1. Position' = start
    BY <1>p, <1>r
  <2>2. wCs' = Whole!CS_HEADER /\ wTop' = 0
    BY <1>r, SameFormat DEF wCs, wTop, Fresh
  <2>3. wPushing' = FALSE
    BY <1>r DEF wPushing
  <2>4. Whole!Restart
    BY <1>r, <2>1, <2>2, <2>3 DEF Whole!Restart, wCs, wTop, wPushing
  <2> QED  BY <1>r, <2>4 DEF Whole!Next
<1>9. CASE Out
  <2>1. /\ at = "out" /\ at' = "idle"
        /\ UNCHANGED <<stream, api, start, stack, obj, failure, delivered>>
    BY <1>9 DEF Out
  <2>2. CASE Resumes
    <3>1. ctx' = Saved /\ off' = p
      BY <1>9, <2>2 DEF Out
    <3>2. Position' = Position
      BY <1>p, <2>1, <2>2, <3>1, Positions
    <3>3. wCs' = wCs /\ wTrail' = wTrail /\ wTop' = wTop /\ ~wPushing /\ ~wPushing'
      BY <2>1, <3>1 DEF wCs, wTrail, wTop, wPushing, Saved
    <3> QED  BY <1>s, <2>1, <3>2, <3>3
  <2>3. CASE ~Resumes
    BY <1>9, <1>r, <2>1, <2>3 DEF Out
  <2> QED  BY <2>2, <2>3
<1>10. CASE Failed
  <2>1. at' = "idle" /\ UNCHANGED <<stream, api, start, delivered>>
    BY <1>10 DEF Failed
  <2>2. CASE ~Resumes
    BY <1>10, <1>r, <2>1, <2>2 DEF Failed
  <2>3. CASE Resumes
    <3>1. failure' = "bytes"
      BY <1>10, <2>3 DEF Failed
    <3> QED  BY <2>1, <3>1 DEF Whole!Next, Whole!Refuse
  <2> QED  BY <2>2, <2>3
<1>11. CASE UNCHANGED vars
  <2>1. UNCHANGED <<stream, api, start, off, ctx, stack, at, p, cs, trail, top, obj, failure, delivered>>
    BY <1>11 DEF vars
  <2> QED  BY <1>s, <2>1 DEF Position, wCs, wTrail, wTop, wPushing
<1> QED
  BY <1>1, <1>2, <1>3, <1>4, <1>5, <1>6, <1>7, <1>8, <1>9, <1>10, <1>11
     DEF Next, Parses

\* However the bytes are cut into calls, the parser that stops and resumes, or
\* begins again, delivers what one parse of the whole stream delivers: the
\* functions of unpack.c implement MessageParse.
THEOREM DeliversTheWhole == Spec => SameAsWhole
<1>1. Init => Whole!Init
  BY SameFormat, ParserAssumption DEF Init, Whole!Init, Position, Resumes, Fresh
<1>2. Init => IInv /\ Refusal
  BY InitIInv DEF Init, Refusal
<1>3. IInv /\ Refusal /\ [Next]_vars => (IInv /\ Refusal)'
  BY NextIInv, RefusalStep
<1> QED
  BY <1>1, <1>2, <1>3, StepRefines, PTL DEF Spec, SameAsWhole, Whole!Spec

-----------------------------------------------------------------------------
(* What the forms of an integer stand for                                  *)

Bytes == [1..8 -> Byte]

\* The tests of the macros, as bounds on the bytes.
LEMMA BelowBytes ==
    ASSUME NEW d \in Bytes
    PROVE  /\ Below(d, 7) <=> (\A i \in 1..7 : d[i] = 0) /\ d[8] < 128
           /\ Below(d, 8) <=> \A i \in 1..7 : d[i] = 0
           /\ Below(d, 15) <=> (\A i \in 1..6 : d[i] = 0) /\ d[7] < 128
           /\ Below(d, 16) <=> \A i \in 1..6 : d[i] = 0
           /\ Below(d, 31) <=> (\A i \in 1..4 : d[i] = 0) /\ d[5] < 128
           /\ Below(d, 32) <=> \A i \in 1..4 : d[i] = 0
           /\ Below(d, 63) <=> d[1] < 128
<1>0. \A i \in 1..8 : d[i] \in Int /\ d[i] >= 0
  <2> SUFFICES ASSUME NEW i \in 1..8 PROVE d[i] \in Int /\ d[i] >= 0
    OBVIOUS
  <2>1. d[i] \in 0..255
    BY Zenon DEF Bytes, Byte
  <2> QED BY <2>1
<1>1. /\ 7 \div 8 = 0 /\ 8 \div 8 = 1 /\ 15 \div 8 = 1 /\ 16 \div 8 = 2 /\ 31 \div 8 = 3
      /\ 32 \div 8 = 4 /\ 63 \div 8 = 7
  OBVIOUS
<1>2. /\ 7 % 8 = 7 /\ 8 % 8 = 0 /\ 15 % 8 = 7 /\ 16 % 8 = 0 /\ 31 % 8 = 7
      /\ 32 % 8 = 0 /\ 63 % 8 = 7
  OBVIOUS
<1>3. 2^7 = 128 /\ 2^0 = 1
  OBVIOUS
<1>4. Below(d, 7) <=> (\A i \in 1..7 : d[i] = 0) /\ d[8] < 128
  BY <1>1, <1>2, <1>3 DEF Below
<1>5. Below(d, 8) <=> \A i \in 1..7 : d[i] = 0
  <2>1. Below(d, 8) <=> (\A i \in 1..6 : d[i] = 0) /\ d[7] < 1
    BY <1>1, <1>2, <1>3 DEF Below
  <2> QED BY <1>0, <2>1
<1>6. Below(d, 15) <=> (\A i \in 1..6 : d[i] = 0) /\ d[7] < 128
  BY <1>1, <1>2, <1>3 DEF Below
<1>7. Below(d, 16) <=> \A i \in 1..6 : d[i] = 0
  <2>1. Below(d, 16) <=> (\A i \in 1..5 : d[i] = 0) /\ d[6] < 1
    BY <1>1, <1>2, <1>3 DEF Below
  <2> QED BY <1>0, <2>1
<1>8. Below(d, 31) <=> (\A i \in 1..4 : d[i] = 0) /\ d[5] < 128
  BY <1>1, <1>2, <1>3 DEF Below
<1>9. Below(d, 32) <=> \A i \in 1..4 : d[i] = 0
  <2>1. Below(d, 32) <=> (\A i \in 1..3 : d[i] = 0) /\ d[4] < 1
    BY <1>1, <1>2, <1>3 DEF Below
  <2> QED BY <1>0, <2>1
<1>10. Below(d, 63) <=> d[1] < 128
  BY <1>1, <1>2, <1>3 DEF Below
<1> QED BY <1>4, <1>5, <1>6, <1>7, <1>8, <1>9, <1>10

LEMMA BelowMinusBytes ==
    ASSUME NEW d \in Bytes
    PROVE  /\ BelowMinus(d, 5) <=> Negative(d) /\ ~((\A i \in 1..7 : d[i] = 255) /\ d[8] >= 224)
           /\ BelowMinus(d, 7) <=> Negative(d) /\ ~((\A i \in 1..7 : d[i] = 255) /\ d[8] >= 128)
           /\ BelowMinus(d, 15) <=> Negative(d) /\ ~((\A i \in 1..6 : d[i] = 255) /\ d[7] >= 128)
           /\ BelowMinus(d, 31) <=> Negative(d) /\ ~((\A i \in 1..4 : d[i] = 255) /\ d[5] >= 128)
           /\ ~BelowMinus(d, 63)
<1>1. 5 \div 8 = 0 /\ 7 \div 8 = 0 /\ 15 \div 8 = 1 /\ 31 \div 8 = 3 /\ 63 \div 8 = 7
  OBVIOUS
<1>2. 5 % 8 = 5 /\ 7 % 8 = 7 /\ 15 % 8 = 7 /\ 31 % 8 = 7 /\ 63 % 8 = 7
  OBVIOUS
<1>3. 2^7 = 128 /\ 2^5 = 32
  OBVIOUS
<1> QED BY <1>1, <1>2, <1>3 DEF BelowMinus, Negative

LEMMA EightBytes ==
    ASSUME NEW d \in Bytes
    PROVE  d \in Seq(Byte) /\ Len(d) = 8
<1>1. d \in [1..8 -> Byte] /\ 8 \in Nat
  BY DEF Bytes
<1>2. d \in Seq(Byte)
  BY <1>1, SeqDef
<1>3. Len(d) \in Nat /\ DOMAIN d = 1..Len(d) /\ DOMAIN d = 1..8
  BY <1>1, <1>2, LenProperties
<1>4. Len(d) \in Nat /\ 1..Len(d) = 1..8
  BY <1>3, Zenon
<1>5. Len(d) = 8
  <2> DEFINE n == Len(d)
  <2>1. n \in Nat /\ 1..n = 1..8
    BY <1>4
  <2> HIDE DEF n
  <2>2. 8 \in 1..n /\ n + 1 \notin 1..8
    BY <2>1
  <2>3. n = 8
    BY <2>1, <2>2
  <2> QED BY <2>3 DEF n
<1> QED BY <1>2, <1>5, Zenon

\* The last bytes of an integer, and what they are widened to.
LastOf(d, k) == SubSeq(d, 9 - k, 8)

LEMMA LastBytes ==
    ASSUME NEW d \in Bytes, NEW k \in 1..8
    PROVE  /\ LastOf(d, k) \in Seq(Byte) /\ Len(LastOf(d, k)) = k
           /\ \A j \in 1..k : LastOf(d, k)[j] = d[8 - k + j]
<1>1. /\ SubSeq(d, 9 - k, 8) \in Seq(Byte)
      /\ Len(SubSeq(d, 9 - k, 8)) = IF 9 - k <= 8 THEN 8 - (9 - k) + 1 ELSE 0
      /\ \A i \in 1..(8 - (9 - k) + 1) : SubSeq(d, 9 - k, 8)[i] = d[(9 - k) + i - 1]
  <2>1. 9 - k \in Int /\ 8 \in Int /\ \A i \in (9 - k)..8 : d[i] \in Byte
    BY DEF Bytes
  <2> QED BY <2>1, SubSeqProperties
<1>2. (IF 9 - k <= 8 THEN 8 - (9 - k) + 1 ELSE 0) = k
  OBVIOUS
<1>3. ASSUME NEW j \in 1..k PROVE SubSeq(d, 9 - k, 8)[j] = d[8 - k + j]
  <2>1. j \in 1..(8 - (9 - k) + 1) /\ (9 - k) + j - 1 = 8 - k + j
    OBVIOUS
  <2> QED BY <1>1, <2>1
<1> QED BY <1>1, <1>2, <1>3 DEF LastOf

LEMMA LastFirst ==
    ASSUME NEW d \in Bytes, NEW k \in 1..8
    PROVE  LastOf(d, k)[1] = d[9 - k]
<1>1. 1 \in 1..k /\ 8 - k + 1 = 9 - k
  OBVIOUS
<1> QED BY <1>1, LastBytes

LEMMA WidenedIs ==
    ASSUME NEW d \in Bytes, NEW k \in 1..8, NEW fill \in Byte,
           \A i \in 1..(8 - k) : d[i] = fill
    PROVE  Widened(LastOf(d, k), fill) = d
<1>1. Len(LastOf(d, k)) = k /\ \A j \in 1..k : LastOf(d, k)[j] = d[8 - k + j]
  BY LastBytes
<1>2. ASSUME NEW i \in 1..8
      PROVE  (IF i + Len(LastOf(d, k)) > 8 THEN LastOf(d, k)[i + Len(LastOf(d, k)) - 8]
              ELSE fill) = d[i]
  <2>1. CASE i + k > 8
    <3>1. i + k - 8 \in 1..k /\ 8 - k + (i + k - 8) = i
      BY <2>1
    <3> QED BY <1>1, <2>1, <3>1
  <2>2. CASE ~(i + k > 8)
    <3>1. i \in 1..(8 - k)
      BY <2>2
    <3> QED BY <1>1, <2>2, <3>1
  <2> QED BY <2>1, <2>2
<1>3. Widened(LastOf(d, k), fill) = [i \in 1..8 |-> d[i]]
  BY <1>2 DEF Widened
<1>4. d = [i \in 1..8 |-> d[i]]
  BY DEF Bytes
<1> QED BY <1>3, <1>4

\* A header, its first byte and the bytes that follow it.
HeadOf(head, code, rest) == head \in Seq(Byte) /\ head[1] = code /\ Tail(head) = rest
                            /\ Len(head) = Len(rest) + 1

\* A header that is a whole object, or is followed by the bytes of one.
ReadsAs(head, o) ==
    \E code \in Byte, rest \in Seq(Byte) :
        /\ HeadOf(head, code, rest)
        /\ \/ rest = <<>> /\ HeaderCell(code) = Value(o)
           \/ /\ rest # <<>>
              /\ \E c \in States \ {CS_HEADER} :
                    HeaderCell(code) = Again(c, Len(rest)) /\ TrailCell(c, rest) = Value(o)

LEMMA HeadJoined ==
    ASSUME NEW code \in Byte, NEW rest \in Seq(Byte)
    PROVE  HeadOf(<<code>> \o rest, code, rest)
<1>1. /\ <<code>> \o rest \in Seq(Byte) /\ Len(<<code>> \o rest) = Len(rest) + 1
      /\ (<<code>> \o rest)[1] = code
  OBVIOUS
<1>2. Tail(<<code>> \o rest) = rest
  OBVIOUS
<1> QED BY <1>1, <1>2 DEF HeadOf

LEMMA StoreIs ==
    ASSUME NEW d \in Bytes, NEW k \in 1..8, NEW code \in Byte
    PROVE  HeadOf(Store(code, d, k), code, LastOf(d, k))
BY LastBytes, HeadJoined DEF Store, LastOf

\* The header of an integer, and how many bytes follow.
SizeAt(w) == <<1, 2, 4, 8>>[w + 1]

LEMMA IntegerHeader ==
    ASSUME NEW w \in 0..3
    PROVE  /\ HeaderCell(204 + w) = Again(12 + w, SizeAt(w))
           /\ HeaderCell(208 + w) = Again(16 + w, SizeAt(w))
           /\ SizeAt(w) \in 1..8
<1>1. /\ (204 + w) % 32 = 12 + w /\ (204 + w) % 4 = w
      /\ (208 + w) % 32 = 16 + w /\ (208 + w) % 4 = w
  OBVIOUS
<1> QED BY <1>1 DEF HeaderCell, SizeAt

LEMMA UnsignedStored ==
    ASSUME NEW d \in Bytes, NEW w \in 0..3, NEW k \in 1..8, k = SizeAt(w),
           \A i \in 1..(8 - k) : d[i] = 0
    PROVE  ReadsAs(Store(204 + w, d, k), Positive(d))
<1> DEFINE code == 204 + w
           c == 12 + w
<1>1. code \in Byte /\ 0 \in Byte /\ c \in States \ {CS_HEADER} /\ c \in CS_UINT
      /\ c \notin {CS_FLOAT, CS_DOUBLE}
  BY DEF Byte, States, CS_HEADER, CS_UINT, CS_FLOAT, CS_DOUBLE
<1>2. HeaderCell(code) = Again(c, k)
  BY IntegerHeader
<1> HIDE DEF code, c
<1>3. HeadOf(Store(code, d, k), code, LastOf(d, k))
  BY <1>1, StoreIs
<1>4. LastOf(d, k) \in Seq(Byte) /\ Len(LastOf(d, k)) = k
  BY LastBytes
<1>5. Unsigned(LastOf(d, k)) = Positive(d)
  BY <1>1, WidenedIs DEF Unsigned, Positive
<1>6. TrailCell(c, LastOf(d, k)) = Value(Positive(d))
  BY <1>1, <1>5 DEF TrailCell
<1>7. LastOf(d, k) # <<>>
  BY <1>4
<1>8. ReadsAs(Store(code, d, k), Positive(d))
  BY <1>1, <1>2, <1>3, <1>4, <1>6, <1>7 DEF ReadsAs
<1> QED BY <1>8 DEF code

LEMMA SignedStored ==
    ASSUME NEW d \in Bytes, NEW w \in 0..3, NEW k \in 1..8, k = SizeAt(w), NEW o,
           \/ /\ o = Positive(d) /\ d[9 - k] < 128
              /\ \A i \in 1..(8 - k) : d[i] = 0
           \/ /\ o = NegativeInteger(d) /\ d[9 - k] >= 128
              /\ \A i \in 1..(8 - k) : d[i] = 255
    PROVE  ReadsAs(Store(208 + w, d, k), o)
<1> DEFINE code == 208 + w
           c == 16 + w
           first == LastOf(d, k)[1]
<1>1. code \in Byte /\ 0 \in Byte /\ 255 \in Byte /\ c \in States \ {CS_HEADER} /\ c \in CS_INT
      /\ c \notin {CS_FLOAT, CS_DOUBLE} /\ c \notin CS_UINT
  BY DEF Byte, States, CS_HEADER, CS_UINT, CS_INT, CS_FLOAT, CS_DOUBLE
<1>2. HeaderCell(code) = Again(c, k)
  BY IntegerHeader
<1> HIDE DEF code, c
<1>3. HeadOf(Store(code, d, k), code, LastOf(d, k))
  BY <1>1, StoreIs
<1>4. LastOf(d, k) \in Seq(Byte) /\ Len(LastOf(d, k)) = k
  BY LastBytes
<1>5. first = d[9 - k] /\ first \in Int
  <2>1. 1 \in 1..k /\ 8 - k + 1 = 9 - k /\ 9 - k \in 1..8
    OBVIOUS
  <2>2. first = d[9 - k]
    BY LastFirst
  <2> QED BY <2>1, <2>2 DEF Bytes, Byte
<1>6. Signed(LastOf(d, k)) = IF first < 128 THEN Unsigned(LastOf(d, k))
                             ELSE NegativeInteger(Widened(LastOf(d, k), 255))
  BY DEF Signed, NegativeInteger
<1> HIDE DEF first
<1>7. Signed(LastOf(d, k)) = o
  <2>1. CASE o = Positive(d) /\ d[9 - k] < 128 /\ \A i \in 1..(8 - k) : d[i] = 0
    <3>1. Widened(LastOf(d, k), 0) = d
      BY <1>1, <2>1, WidenedIs
    <3>2. first < 128
      BY <1>5, <2>1
    <3> QED BY <1>6, <2>1, <3>1, <3>2 DEF Unsigned, Positive
  <2>2. CASE o = NegativeInteger(d) /\ d[9 - k] >= 128 /\ \A i \in 1..(8 - k) : d[i] = 255
    <3>1. Widened(LastOf(d, k), 255) = d
      BY <1>1, <2>2, WidenedIs
    <3>2. ~(first < 128)
      BY <1>5, <2>2
    <3> QED BY <1>6, <2>2, <3>1, <3>2
  <2> QED BY <2>1, <2>2
<1>8. TrailCell(c, LastOf(d, k)) = Value(o)
  BY <1>1, <1>7 DEF TrailCell
<1>9. LastOf(d, k) # <<>>
  BY <1>4
<1>10. ReadsAs(Store(code, d, k), o)
  BY <1>1, <1>2, <1>3, <1>4, <1>8, <1>9 DEF ReadsAs
<1> QED BY <1>10 DEF code

LEMMA FixnumStored ==
    ASSUME NEW d \in Bytes, NEW o,
           \/ /\ o = Positive(d) /\ d[8] < 128
              /\ \A i \in 1..7 : d[i] = 0
           \/ /\ o = NegativeInteger(d) /\ d[8] >= 224
              /\ \A i \in 1..7 : d[i] = 255
    PROVE  ReadsAs(Fixnum(d), o)
<1> DEFINE b == d[8]
<1>1. b \in Byte /\ 0 \in Byte /\ 255 \in Byte /\ 1 \in 1..8
  BY DEF Bytes, Byte
<1>2. /\ LastOf(d, 1) = Fixnum(d)
      /\ Fixnum(d) \in Seq(Byte) /\ Len(Fixnum(d)) = 1 /\ Fixnum(d)[1] = b
  <2>1. 9 - 1 = 8 /\ 8 - 1 + 1 = 8 /\ 1 \in 1..1
    OBVIOUS
  <2>2. LastOf(d, 1) = Fixnum(d)
    BY <2>1 DEF LastOf, Fixnum
  <2>3. /\ LastOf(d, 1) \in Seq(Byte) /\ Len(LastOf(d, 1)) = 1
        /\ \A j \in 1..1 : LastOf(d, 1)[j] = d[8 - 1 + j]
    BY <1>1, LastBytes
  <2>4. LastOf(d, 1)[1] = d[8]
    BY <2>3
  <2> QED BY <2>2, <2>3, <2>4
<1> HIDE DEF b
<1>3. Fixnum(d) = <<b>>
  BY <1>2
<1>4. HeadOf(Fixnum(d), b, <<>>)
  BY <1>1, <1>3 DEF HeadOf
<1>5. HeaderCell(b) = Value(o)
  <2>1. CASE o = Positive(d) /\ d[8] < 128 /\ \A i \in 1..7 : d[i] = 0
    <3>1. Widened(LastOf(d, 1), 0) = d
      BY <1>1, <2>1, WidenedIs
    <3>2. Unsigned(<<b>>) = o
      BY <1>2, <1>3, <2>1, <3>1 DEF Unsigned, Positive
    <3>3. b <= 127
      BY <1>1, <2>1 DEF b, Byte
    <3> QED BY <3>2, <3>3 DEF HeaderCell
  <2>2. CASE o = NegativeInteger(d) /\ d[8] >= 224 /\ \A i \in 1..7 : d[i] = 255
    <3>1. Widened(LastOf(d, 1), 255) = d
      BY <1>1, <2>2, WidenedIs
    <3>2. b >= 224 /\ ~(b <= 127) /\ ~(b < 128)
      BY <1>1, <2>2 DEF b, Byte
    <3>3. <<b>>[1] = b
      OBVIOUS
    <3>4. Signed(<<b>>) = o
      BY <1>2, <1>3, <2>2, <3>1, <3>2, <3>3 DEF Signed, NegativeInteger
    <3> QED BY <3>2, <3>4 DEF HeaderCell
  <2> QED BY <2>1, <2>2
<1>6. <<>> \in Seq(Byte)
  OBVIOUS
<1> QED BY <1>1, <1>4, <1>5, <1>6 DEF ReadsAs

\* Each of the shortest forms, of an argument that the type holds.
LEMMA UnsignedForms ==
    ASSUME NEW d \in Bytes
    PROVE  /\ Below(d, 8) => ReadsAs(real_uint8(d), Positive(d))
           /\ Below(d, 16) => ReadsAs(real_uint16(d), Positive(d))
           /\ Below(d, 32) => ReadsAs(real_uint32(d), Positive(d))
           /\ ReadsAs(real_uint64(d), Positive(d))
<1>1. SizeAt(0) = 1 /\ SizeAt(1) = 2 /\ SizeAt(2) = 4 /\ SizeAt(3) = 8
  BY DEF SizeAt
<1>2. 204 + 0 = 204 /\ 204 + 1 = 205 /\ 204 + 2 = 206 /\ 204 + 3 = 207
      /\ 8 - 1 = 7 /\ 8 - 2 = 6 /\ 8 - 4 = 4 /\ 8 - 8 = 0
  OBVIOUS
<1>3. Below(d, 8) => ReadsAs(real_uint8(d), Positive(d))
  <2> SUFFICES ASSUME Below(d, 8) PROVE ReadsAs(real_uint8(d), Positive(d))
    OBVIOUS
  <2>1. \A i \in 1..7 : d[i] = 0
    BY BelowBytes
  <2>2. ReadsAs(Store(204 + 0, d, 1), Positive(d))
    BY <1>1, <2>1, UnsignedStored
  <2>3. Below(d, 7) => ReadsAs(Fixnum(d), Positive(d))
    BY BelowBytes, FixnumStored
  <2> QED BY <1>2, <2>2, <2>3 DEF real_uint8
<1>4. Below(d, 16) => ReadsAs(real_uint16(d), Positive(d))
  <2> SUFFICES ASSUME Below(d, 16) PROVE ReadsAs(real_uint16(d), Positive(d))
    OBVIOUS
  <2>1. \A i \in 1..6 : d[i] = 0
    BY BelowBytes
  <2>2. ReadsAs(Store(204 + 1, d, 2), Positive(d))
    BY <1>1, <2>1, UnsignedStored
  <2> QED BY <1>2, <1>3, <2>2 DEF real_uint16
<1>5. Below(d, 32) => ReadsAs(real_uint32(d), Positive(d))
  <2> SUFFICES ASSUME Below(d, 32) PROVE ReadsAs(real_uint32(d), Positive(d))
    OBVIOUS
  <2>1. \A i \in 1..4 : d[i] = 0
    BY BelowBytes
  <2>2. ReadsAs(Store(204 + 2, d, 4), Positive(d))
    BY <1>1, <2>1, UnsignedStored
  <2> QED BY <1>2, <1>4, <2>2 DEF real_uint32
<1>6. ReadsAs(real_uint64(d), Positive(d))
  <2>1. ReadsAs(Store(204 + 3, d, 8), Positive(d))
    BY <1>1, UnsignedStored
  <2> QED BY <1>2, <1>5, <2>1 DEF real_uint64
<1> QED BY <1>3, <1>4, <1>5, <1>6

\* Whether an integer is one of a signed type.
Fits(o, d, n) ==
    \/ o = Positive(d) /\ Below(d, n)
    \/ o = NegativeInteger(d) /\ Negative(d) /\ ~BelowMinus(d, n)

LEMMA SignedForms ==
    ASSUME NEW d \in Bytes, NEW o
    PROVE  /\ Fits(o, d, 7) => ReadsAs(real_int8(d), o) /\ ReadsAs(Store(208, d, 1), o)
           /\ Fits(o, d, 15) => ReadsAs(real_int16(d), o) /\ ReadsAs(Store(209, d, 2), o)
           /\ Fits(o, d, 31) => ReadsAs(real_int32(d), o) /\ ReadsAs(Store(210, d, 4), o)
           /\ Fits(o, d, 63) => ReadsAs(real_int64(d), o) /\ ReadsAs(Store(211, d, 8), o)
<1>1. SizeAt(0) = 1 /\ SizeAt(1) = 2 /\ SizeAt(2) = 4 /\ SizeAt(3) = 8
  BY DEF SizeAt
<1>2. 208 + 0 = 208 /\ 208 + 1 = 209 /\ 208 + 2 = 210 /\ 208 + 3 = 211
      /\ 8 - 1 = 7 /\ 8 - 2 = 6 /\ 8 - 4 = 4 /\ 8 - 8 = 0
      /\ 9 - 1 = 8 /\ 9 - 2 = 7 /\ 9 - 4 = 5 /\ 9 - 8 = 1
  OBVIOUS
<1>n. o = Positive(d) => ~(o = NegativeInteger(d))
  BY DEF Positive, NegativeInteger
<1>3. Fits(o, d, 7) => ReadsAs(Store(208, d, 1), o)
  BY <1>1, <1>2, BelowBytes, BelowMinusBytes, SignedStored DEF Fits
<1>4. Fits(o, d, 15) => ReadsAs(Store(209, d, 2), o)
  BY <1>1, <1>2, BelowBytes, BelowMinusBytes, SignedStored DEF Fits
<1>5. Fits(o, d, 31) => ReadsAs(Store(210, d, 4), o)
  BY <1>1, <1>2, BelowBytes, BelowMinusBytes, SignedStored DEF Fits
<1>6. Fits(o, d, 63) => ReadsAs(Store(211, d, 8), o)
  BY <1>1, <1>2, BelowBytes, BelowMinusBytes, SignedStored DEF Fits, Negative
<1>7. o = Positive(d) /\ (Fits(o, d, 7) \/ Fits(o, d, 15) \/ Fits(o, d, 31) \/ Fits(o, d, 63))
          => ~Negative(d)
  <2>1. d[1] \in Int
    BY DEF Bytes, Byte
  <2>2. /\ Below(d, 7) => d[1] = 0
        /\ Below(d, 15) => d[1] = 0
        /\ Below(d, 31) => d[1] = 0
        /\ Below(d, 63) => d[1] < 128
    BY BelowBytes
  <2>3. Below(d, 7) \/ Below(d, 15) \/ Below(d, 31) \/ Below(d, 63) => ~Negative(d)
    BY <2>1, <2>2 DEF Negative
  <2> QED BY <1>n, <2>3 DEF Fits
<1>8. ~Negative(d) => /\ ~BelowMinus(d, 5) /\ ~BelowMinus(d, 7) /\ ~BelowMinus(d, 15)
                      /\ ~BelowMinus(d, 31)
  BY DEF BelowMinus
<1>9. o = NegativeInteger(d) /\ Negative(d) /\ ~BelowMinus(d, 5) => ReadsAs(Fixnum(d), o)
  BY BelowMinusBytes, FixnumStored
<1>10. Fits(o, d, 7) => ReadsAs(real_int8(d), o)
  <2> SUFFICES ASSUME Fits(o, d, 7) PROVE ReadsAs(real_int8(d), o)
    OBVIOUS
  <2>1. CASE o = Positive(d)
    <3>1. ReadsAs(Fixnum(d), o)
      BY <1>n, <2>1, BelowBytes, FixnumStored DEF Fits
    <3> QED BY <1>7, <1>8, <2>1, <3>1 DEF real_int8
  <2>2. CASE o = NegativeInteger(d) /\ Negative(d)
    BY <1>3, <1>9, <2>2 DEF real_int8
  <2> QED BY <2>1, <2>2 DEF Fits
<1>11. Fits(o, d, 15) => ReadsAs(real_int16(d), o)
  <2> SUFFICES ASSUME Fits(o, d, 15) PROVE ReadsAs(real_int16(d), o)
    OBVIOUS
  <2>1. CASE o = Positive(d)
    <3>1. ReadsAs(real_uint16(d), o)
      BY <1>n, <2>1, BelowBytes, UnsignedForms DEF Fits
    <3>2. real_int16(d) = real_uint16(d)
      BY <1>7, <1>8, <2>1 DEF real_int16
    <3> QED BY <3>1, <3>2
  <2>2. CASE o = NegativeInteger(d) /\ Negative(d)
    <3>1. CASE BelowMinus(d, 7)
      <4>0. BelowMinus(d, 5)
        BY <3>1, BelowMinusBytes DEF Bytes, Byte
      <4>1. real_int16(d) = Store(209, d, 2)
        BY <3>1, <4>0 DEF real_int16
      <4> QED BY <1>4, <4>1
    <3>2. CASE ~BelowMinus(d, 7) /\ BelowMinus(d, 5)
      <4>1. real_int16(d) = Store(208, d, 1)
        BY <3>2 DEF real_int16
      <4>2. Fits(o, d, 7)
        BY <2>2, <3>2 DEF Fits
      <4> QED BY <1>3, <4>1, <4>2
    <3>3. CASE ~BelowMinus(d, 7) /\ ~BelowMinus(d, 5)
      <4>1. real_int16(d) = Fixnum(d)
        BY <2>2, <3>3 DEF real_int16
      <4> QED BY <1>9, <2>2, <3>3, <4>1
    <3> QED BY <3>1, <3>2, <3>3
  <2> QED BY <2>1, <2>2 DEF Fits
<1>12. Fits(o, d, 31) => ReadsAs(real_int32(d), o)
  <2> SUFFICES ASSUME Fits(o, d, 31) PROVE ReadsAs(real_int32(d), o)
    OBVIOUS
  <2>1. CASE o = Positive(d)
    <3>1. ReadsAs(real_uint32(d), o)
      BY <1>n, <2>1, BelowBytes, UnsignedForms DEF Fits
    <3>2. real_int32(d) = real_uint32(d)
      BY <1>7, <1>8, <2>1 DEF real_int32
    <3> QED BY <3>1, <3>2
  <2>2. CASE o = NegativeInteger(d) /\ Negative(d)
    <3>1. CASE BelowMinus(d, 15)
      <4>1. real_int32(d) = Store(210, d, 4)
        BY <3>1 DEF real_int32
      <4> QED BY <1>5, <4>1
    <3>2. CASE ~BelowMinus(d, 15)
      <4>1. real_int32(d) = real_int16(d)
        BY <2>2, <3>2 DEF real_int32
      <4>2. Fits(o, d, 15)
        BY <2>2, <3>2 DEF Fits
      <4> QED BY <1>11, <4>1, <4>2
    <3> QED BY <3>1, <3>2
  <2> QED BY <2>1, <2>2 DEF Fits
<1>13. Fits(o, d, 63) => ReadsAs(real_int64(d), o)
  <2> SUFFICES ASSUME Fits(o, d, 63) PROVE ReadsAs(real_int64(d), o)
    OBVIOUS
  <2>1. CASE o = Positive(d)
    <3>1. ReadsAs(real_uint64(d), o)
      BY <2>1, UnsignedForms
    <3>2. real_int64(d) = real_uint64(d)
      BY <1>7, <1>8, <2>1 DEF real_int64
    <3> QED BY <3>1, <3>2
  <2>2. CASE o = NegativeInteger(d) /\ Negative(d)
    <3>1. CASE BelowMinus(d, 31)
      <4>1. real_int64(d) = Store(211, d, 8)
        BY <3>1 DEF real_int64
      <4> QED BY <1>6, <4>1
    <3>2. CASE ~BelowMinus(d, 31)
      <4>1. real_int64(d) = real_int32(d)
        BY <2>2, <3>2 DEF real_int64
      <4>2. Fits(o, d, 31)
        BY <2>2, <3>2 DEF Fits
      <4> QED BY <1>12, <4>1, <4>2
    <3> QED BY <3>1, <3>2
  <2> QED BY <2>1, <2>2 DEF Fits
<1> QED BY <1>3, <1>4, <1>5, <1>6, <1>10, <1>11, <1>12, <1>13

\* An integer reads back from each form in which a function packs it.
LEMMA IntegersRead ==
    ASSUME NEW o, IsObject(o), o.type \in {"positive", "negative"}, NEW head \in IntegerForms(o)
    PROVE  ReadsAs(head, o)
<1> DEFINE d == Bytes8(o)
<1>1. /\ d \in Bytes
      /\ \/ o.type = "positive" /\ o = Positive(d)
         \/ o.type = "negative" /\ o = NegativeInteger(d) /\ Negative(d)
  BY DEF IsObject, Bytes8, Bytes
<1> HIDE DEF d
<1>2. ASSUME NEW n \in {7, 15, 31, 63}, NEW m, m = n + 1, InRange(o, TRUE, m) PROVE Fits(o, d, n)
  <2>1. m - 1 = n
    BY <1>2
  <2>2. (o.type = "positive" => o.u64 = d) /\ (o.type = "negative" => o.i64 = d)
    BY DEF d, Bytes8
  <2> QED BY <1>1, <1>2, <2>1, <2>2 DEF Fits, InRange
<1>3. ASSUME NEW n, InRange(o, FALSE, n) PROVE o = Positive(d) /\ (n = 64 \/ Below(d, n))
  <2>2. (o.type = "positive" => o.u64 = d)
    BY DEF d, Bytes8
  <2> QED BY <1>1, <1>3, <2>2 DEF InRange
<1>4. ASSUME NEW bits \in Widths, InRange(o, TRUE, bits)
      PROVE  ReadsAs(pack_integer(TRUE, bits, d), o) /\ ReadsAs(pack_fix(TRUE, bits, d), o)
  <2>1. CASE bits = 8
    <3>0. 8 = 7 + 1
      OBVIOUS
    <3>1. Fits(o, d, 7)
      BY <1>2, <1>4, <2>1, <3>0
    <3>2. pack_integer(TRUE, bits, d) = real_int8(d) /\ pack_fix(TRUE, bits, d) = Store(208, d, 1)
      BY <2>1 DEF pack_integer, pack_fix
    <3>3. ReadsAs(real_int8(d), o) /\ ReadsAs(Store(208, d, 1), o)
      BY <1>1, <3>1, SignedForms
    <3> QED BY <3>2, <3>3, Zenon
  <2>2. CASE bits = 16
    <3>0. 16 = 15 + 1
      OBVIOUS
    <3>1. Fits(o, d, 15)
      BY <1>2, <1>4, <2>2, <3>0
    <3>2. pack_integer(TRUE, bits, d) = real_int16(d) /\ pack_fix(TRUE, bits, d) = Store(209, d, 2)
      BY <2>2 DEF pack_integer, pack_fix
    <3>3. ReadsAs(real_int16(d), o) /\ ReadsAs(Store(209, d, 2), o)
      BY <1>1, <3>1, SignedForms
    <3> QED BY <3>2, <3>3, Zenon
  <2>3. CASE bits = 32
    <3>0. 32 = 31 + 1
      OBVIOUS
    <3>1. Fits(o, d, 31)
      BY <1>2, <1>4, <2>3, <3>0
    <3>2. pack_integer(TRUE, bits, d) = real_int32(d) /\ pack_fix(TRUE, bits, d) = Store(210, d, 4)
      BY <2>3 DEF pack_integer, pack_fix
    <3>3. ReadsAs(real_int32(d), o) /\ ReadsAs(Store(210, d, 4), o)
      BY <1>1, <3>1, SignedForms
    <3> QED BY <3>2, <3>3, Zenon
  <2>4. CASE bits = 64
    <3>0. 64 = 63 + 1
      OBVIOUS
    <3>1. Fits(o, d, 63)
      BY <1>2, <1>4, <2>4, <3>0
    <3>2. pack_integer(TRUE, bits, d) = real_int64(d) /\ pack_fix(TRUE, bits, d) = Store(211, d, 8)
      BY <2>4 DEF pack_integer, pack_fix
    <3>3. ReadsAs(real_int64(d), o) /\ ReadsAs(Store(211, d, 8), o)
      BY <1>1, <3>1, SignedForms
    <3> QED BY <3>2, <3>3, Zenon
  <2> QED BY <2>1, <2>2, <2>3, <2>4 DEF Widths
<1>5. ASSUME NEW bits \in Widths, InRange(o, FALSE, bits)
      PROVE  ReadsAs(pack_integer(FALSE, bits, d), o) /\ ReadsAs(pack_fix(FALSE, bits, d), o)
  <2>0. o = Positive(d) /\ (bits = 64 \/ Below(d, bits))
    BY <1>3, <1>5
  <2>s. /\ SizeAt(0) = 1 /\ SizeAt(1) = 2 /\ SizeAt(2) = 4 /\ SizeAt(3) = 8
        /\ 204 + 0 = 204 /\ 204 + 1 = 205 /\ 204 + 2 = 206 /\ 204 + 3 = 207
        /\ 8 - 1 = 7 /\ 8 - 2 = 6 /\ 8 - 4 = 4 /\ 8 - 8 = 0
    BY DEF SizeAt
  <2>1. CASE bits = 8
    <3>0. Below(d, 8)
      BY <2>0, <2>1
    <3>1. pack_integer(FALSE, bits, d) = real_uint8(d) /\ pack_fix(FALSE, bits, d) = Store(204, d, 1)
      BY <2>1 DEF pack_integer, pack_fix
    <3>2. ReadsAs(Store(204 + 0, d, 1), Positive(d))
      BY <1>1, <2>0, <2>1, <2>s, BelowBytes, UnsignedStored
    <3>3. ReadsAs(real_uint8(d), Positive(d))
      BY <1>1, <3>0, UnsignedForms
    <3> QED BY <2>0, <2>s, <3>1, <3>2, <3>3
  <2>2. CASE bits = 16
    <3>0. Below(d, 16)
      BY <2>0, <2>2
    <3>1. pack_integer(FALSE, bits, d) = real_uint16(d) /\ pack_fix(FALSE, bits, d) = Store(205, d, 2)
      BY <2>2 DEF pack_integer, pack_fix
    <3>2. ReadsAs(Store(204 + 1, d, 2), Positive(d))
      BY <1>1, <2>0, <2>2, <2>s, BelowBytes, UnsignedStored
    <3>3. ReadsAs(real_uint16(d), Positive(d))
      BY <1>1, <3>0, UnsignedForms
    <3> QED BY <2>0, <2>s, <3>1, <3>2, <3>3
  <2>3. CASE bits = 32
    <3>0. Below(d, 32)
      BY <2>0, <2>3
    <3>1. pack_integer(FALSE, bits, d) = real_uint32(d) /\ pack_fix(FALSE, bits, d) = Store(206, d, 4)
      BY <2>3 DEF pack_integer, pack_fix
    <3>2. ReadsAs(Store(204 + 2, d, 4), Positive(d))
      BY <1>1, <2>0, <2>3, <2>s, BelowBytes, UnsignedStored
    <3>3. ReadsAs(real_uint32(d), Positive(d))
      BY <1>1, <3>0, UnsignedForms
    <3> QED BY <2>0, <2>s, <3>1, <3>2, <3>3
  <2>4. CASE bits = 64
    <3>1. pack_integer(FALSE, bits, d) = real_uint64(d) /\ pack_fix(FALSE, bits, d) = Store(207, d, 8)
      BY <2>4 DEF pack_integer, pack_fix
    <3>2. ReadsAs(Store(204 + 3, d, 8), Positive(d))
      BY <1>1, <2>s, UnsignedStored
    <3> QED BY <1>1, <2>0, <2>s, <3>1, <3>2, UnsignedForms
  <2> QED BY <2>1, <2>2, <2>3, <2>4 DEF Widths
<1>6. ASSUME NEW t \in BOOLEAN \X Widths, InRange(o, t[1], t[2])
      PROVE  ReadsAs(pack_integer(t[1], t[2], d), o) /\ ReadsAs(pack_fix(t[1], t[2], d), o)
  <2>1. t[1] \in BOOLEAN /\ t[2] \in Widths
    OBVIOUS
  <2>2. CASE t[1] = TRUE
    BY <1>4, <1>6, <2>1, <2>2
  <2>3. CASE t[1] = FALSE
    BY <1>5, <1>6, <2>1, <2>3
  <2> QED BY <2>1, <2>2, <2>3
<1>7. ASSUME NEW t \in DOMAIN SizeOf PROVE 8 * SizeOf[t] \in Widths
  BY <1>7 DEF SizeOf, Widths
<1>8. ASSUME NEW t \in DOMAIN SizeOf, InRange(o, TRUE, 8 * SizeOf[t])
      PROVE  ReadsAs(pack_cint(t, d), o)
  BY <1>4, <1>7, <1>8 DEF pack_cint
<1>9. ASSUME NEW t \in DOMAIN SizeOf, InRange(o, FALSE, 8 * SizeOf[t])
      PROVE  ReadsAs(pack_unsigned_cint(t, d), o)
  BY <1>5, <1>7, <1>9 DEF pack_unsigned_cint
<1> QED BY <1>6, <1>8, <1>9 DEF IntegerForms, d

-----------------------------------------------------------------------------
(* What the head of any object stands for                                  *)

\* A length in two bytes and in four.
LEMMA LengthIn16 ==
    ASSUME NEW n \in Nat, n <= 65535
    PROVE  /\ Bytes16(n) \in Seq(Byte) /\ Len(Bytes16(n)) = 2 /\ Load(Bytes16(n)) = n
           /\ Bytes16(n) # <<>>
<1> DEFINE a == n \div 256
           b == n % 256
<1>1. a \in 0..255 /\ b \in 0..255 /\ a * 256 + b = n
  OBVIOUS
<1> HIDE DEF a, b
<1>2. <<a, b>> \in Seq(Byte) /\ <<a, b>> # <<>> /\ Len(<<a, b>>) = 2 /\ <<a, b>>[1] = a /\ <<a, b>>[2] = b
  BY <1>1 DEF Byte
<1>3. Load(<<a, b>>) = a * 256 + b
  BY <1>2 DEF Load
<1>4. Bytes16(n) = <<a, b>>
  BY DEF Bytes16, a, b
<1>5. Load(<<a, b>>) = n
  BY <1>1, <1>3
<1> QED BY <1>2, <1>4, <1>5

LEMMA LengthIn32 ==
    ASSUME NEW n \in Nat, n <= Huge
    PROVE  /\ Bytes32(n) \in Seq(Byte) /\ Len(Bytes32(n)) = 4 /\ Load(Bytes32(n)) = n
           /\ Bytes32(n) # <<>>
<1> DEFINE x == n \div 256
           y == n \div 65536
           a == n \div 16777216
           b == y % 256
           c == x % 256
           d == n % 256
<1>1. n <= 2147483647
  BY DEF Huge
<1>2. x \in Nat /\ n = 256 * x + d /\ d \in 0..255
  BY <1>1
<1>3. y \in Nat /\ x = 256 * y + c /\ c \in 0..255
  BY <1>1
<1>4. a \in 0..127 /\ y = 256 * a + b /\ b \in 0..255
  BY <1>1
<1> HIDE DEF a, b, c, d, x, y
<1>5. a * 16777216 + b * 65536 + c * 256 + d = n
  BY <1>2, <1>3, <1>4
<1>6. /\ <<a, b, c, d>> \in Seq(Byte) /\ <<a, b, c, d>> # <<>> /\ Len(<<a, b, c, d>>) = 4
      /\ <<a, b, c, d>>[1] = a /\ <<a, b, c, d>>[2] = b
      /\ <<a, b, c, d>>[3] = c /\ <<a, b, c, d>>[4] = d
  BY <1>2, <1>3, <1>4 DEF Byte
<1>7. Load(<<a, b, c, d>>) = a * 16777216 + b * 65536 + c * 256 + d
  <2>1. ~(a >= 128)
    BY <1>4
  <2> QED BY <1>6, <2>1 DEF Load
<1>8. Bytes32(n) = <<a, b, c, d>>
  BY DEF Bytes32, a, b, c, d, x, y
<1>9. Load(<<a, b, c, d>>) = n
  BY <1>5, <1>7
<1> QED BY <1>6, <1>8, <1>9

\* The cells of a head.
LEMMA CellsOfHead ==
    ASSUME NEW head, NEW code \in Byte, NEW rest \in Seq(Byte), HeadOf(head, code, rest)
    PROVE  HeadCells(head) = IF rest = <<>> THEN <<<<code>>>> ELSE <<<<code>>, rest>>
<1>1. head \in Seq(Byte) /\ head[1] = code /\ Len(head) = Len(rest) + 1 /\ Len(rest) \in Nat
  BY DEF HeadOf
<1>2. CASE rest = <<>>
  <2>1. Len(head) = 1
    BY <1>1, <1>2
  <2>2. head = <<code>>
    BY <1>1, <2>1
  <2> QED BY <1>2, <2>1, <2>2 DEF HeadCells
<1>3. CASE rest # <<>>
  <2>1. Len(rest) # 0
    BY <1>3
  <2>2. Len(head) # 1
    BY <1>1, <2>1
  <2>3. Tail(head) = rest
    BY DEF HeadOf
  <2> QED BY <1>1, <1>3, <2>2, <2>3 DEF HeadCells
<1> QED BY <1>2, <1>3

CountOf(o) == IF o.type = "array" THEN Len(o.array) ELSE Len(o.map)

\* The meaning of the last cell of an object, or of its head if it has parts.
Ending(o, m) ==
    \/ m = Value(o) /\ ~Nests(o) /\ o # NoObject
    \/ m.is = "again" /\ m.trail = 0 /\ o = Raw(<<>>)
    \/ m = Container(o.type, CountOf(o)) /\ Nests(o)
    \/ m = Refused /\ o = NoObject

\* The state cs is reached with cells to follow: the bytes of a number or a raw,
\* or those of a length, after which the bytes of a raw may follow.
Continues(o, c, cells) ==
    \/ Len(cells) = 1 /\ Ending(o, TrailCell(c, cells[1]))
    \/ /\ Len(cells) = 2 /\ cells[2] # <<>>
       /\ TrailCell(c, cells[1]) = Again(ACS_RAW_VALUE, Len(cells[2]))
       /\ Ending(o, TrailCell(ACS_RAW_VALUE, cells[2]))

Starts(o, m, cells) ==
    \/ cells = <<>> /\ Ending(o, m)
    \/ /\ cells # <<>> /\ cells[1] # <<>>
       /\ \E c \in States \ {CS_HEADER} :
              m = Again(c, Len(cells[1])) /\ Continues(o, c, cells)

\* A head and the body after it.
Reading(o, head) ==
    \E code \in Byte, cells \in Seq(Seq(Byte)) :
        /\ HeadCells(head) \o Body(o) = <<<<code>>>> \o cells
        /\ Starts(o, HeaderCell(code), cells)

LEMMA ValuesStart ==
    ASSUME NEW o, NEW head, ReadsAs(head, o), ~Nests(o), o # NoObject, Body(o) = <<>>
    PROVE  Reading(o, head)
<1>1. PICK code \in Byte, rest \in Seq(Byte) :
        /\ HeadOf(head, code, rest)
        /\ \/ rest = <<>> /\ HeaderCell(code) = Value(o)
           \/ /\ rest # <<>>
              /\ \E c \in States \ {CS_HEADER} :
                    HeaderCell(code) = Again(c, Len(rest)) /\ TrailCell(c, rest) = Value(o)
  BY DEF ReadsAs
<1>2. CASE rest = <<>>
  <2>1. HeadCells(head) \o Body(o) = <<<<code>>>> \o <<>>
    <3>1. HeadCells(head) = <<<<code>>>>
      BY <1>1, <1>2, CellsOfHead
    <3> QED BY <3>1
  <2>2. <<>> \in Seq(Seq(Byte))
    OBVIOUS
  <2>3. Starts(o, HeaderCell(code), <<>>)
    BY <1>1, <1>2 DEF Starts, Ending
  <2> QED BY <1>1, <2>1, <2>2, <2>3 DEF Reading
<1>3. CASE rest # <<>>
  <2>1. HeadCells(head) \o Body(o) = <<<<code>>>> \o <<rest>>
    <3>1. HeadCells(head) = <<<<code>>, rest>>
      BY <1>1, <1>3, CellsOfHead
    <3> QED BY <3>1
  <2>2. <<rest>> \in Seq(Seq(Byte)) /\ <<rest>> # <<>> /\ <<rest>>[1] = rest /\ Len(<<rest>>) = 1
    OBVIOUS
  <2>3. PICK c \in States \ {CS_HEADER} :
            HeaderCell(code) = Again(c, Len(rest)) /\ TrailCell(c, rest) = Value(o)
    BY <1>1, <1>3
  <2>4. Ending(o, TrailCell(c, rest))
    BY <2>3 DEF Ending
  <2>5. Starts(o, HeaderCell(code), <<rest>>)
    BY <1>3, <2>2, <2>3, <2>4 DEF Starts, Continues
  <2> QED BY <1>1, <2>1, <2>2, <2>5 DEF Reading
<1> QED BY <1>2, <1>3

\* A header with a length in two or four bytes.
LEMMA LongHeader ==
    ASSUME NEW n \in Nat, n <= Huge, NEW code \in {218, 220, 222}, NEW head \in Longer(code, n)
    PROVE  \E first \in {code, code + 1}, rest \in Seq(Byte) :
              /\ HeadOf(head, first, rest) /\ rest # <<>> /\ Load(rest) = n
              /\ first \in Byte
              /\ HeaderCell(first) = Again(first % 32, Len(rest))
<1>1. /\ 218 % 32 = 26 /\ 219 % 32 = 27 /\ 220 % 32 = 28 /\ 221 % 32 = 29 /\ 222 % 32 = 30
      /\ 223 % 32 = 31 /\ 218 % 2 = 0 /\ 219 % 2 = 1 /\ 220 % 2 = 0 /\ 221 % 2 = 1
      /\ 222 % 2 = 0 /\ 223 % 2 = 1
  OBVIOUS
<1>2. ASSUME NEW first \in {218, 219, 220, 221, 222, 223}
      PROVE  HeaderCell(first) = Again(first % 32, IF first % 2 = 0 THEN 2 ELSE 4)
  BY <1>2 DEF HeaderCell
<1>3. CASE n <= 65535 /\ head = <<code>> \o Bytes16(n)
  <2> DEFINE rest == Bytes16(n)
  <2>1. rest \in Seq(Byte) /\ rest # <<>> /\ Len(rest) = 2 /\ Load(rest) = n
    BY <1>3, LengthIn16
  <2>2. code \in Byte
    BY DEF Byte
  <2>3. HeadOf(head, code, rest)
    BY <1>3, <2>1, <2>2, HeadJoined
  <2> HIDE DEF rest
  <2>4. HeaderCell(code) = Again(code % 32, Len(rest))
    <3>1. HeaderCell(code) = Again(code % 32, 2)
      BY <1>1, <1>2
    <3> QED BY <2>1, <3>1, Zenon
  <2> QED BY <2>1, <2>2, <2>3, <2>4, Zenon
<1>4. CASE head = <<code + 1>> \o Bytes32(n)
  <2> DEFINE first == code + 1
  <2> DEFINE rest == Bytes32(n)
  <2>1. rest \in Seq(Byte) /\ rest # <<>> /\ Len(rest) = 4 /\ Load(rest) = n
    BY LengthIn32
  <2>2. first \in Byte /\ first \in {219, 221, 223}
    BY DEF Byte
  <2> HIDE DEF first
  <2>3. HeadOf(head, first, rest)
    BY <1>4, <2>1, <2>2, HeadJoined DEF first
  <2> HIDE DEF rest
  <2>4. HeaderCell(first) = Again(first % 32, Len(rest))
    <3>1. HeaderCell(first) = Again(first % 32, 4)
      BY <1>1, <1>2, <2>2
    <3> QED BY <2>1, <3>1, Zenon
  <2>5. first \in {code, code + 1}
    BY DEF first
  <2>6. rest \in Seq(Byte)
    BY <2>1
  <2> WITNESS first \in {code, code + 1}, rest \in Seq(Byte)
  <2> QED BY <2>1, <2>2, <2>3, <2>4, Zenon
<1> QED BY <1>3, <1>4 DEF Longer

\* The shortest header of a length.
LEMMA ShortHeaders ==
    ASSUME NEW n \in Nat, n <= Huge
    PROVE  /\ pack_raw(n) \in {<<160 + n>> : i \in {i \in {n} : i < 32}} \cup Longer(218, n)
           /\ pack_array(n) \in {<<144 + n>> : i \in {i \in {n} : i < 16}} \cup Longer(220, n)
           /\ pack_map(n) \in {<<128 + n>> : i \in {i \in {n} : i < 16}} \cup Longer(222, n)
<1>1. 218 + 1 = 219 /\ 220 + 1 = 221 /\ 222 + 1 = 223
  OBVIOUS
<1>2. pack_raw(n) \in {<<160 + n>> : i \in {i \in {n} : i < 32}} \cup Longer(218, n)
  BY <1>1 DEF pack_raw, Longer
<1>3. pack_array(n) \in {<<144 + n>> : i \in {i \in {n} : i < 16}} \cup Longer(220, n)
  BY <1>1 DEF pack_array, Longer
<1>4. pack_map(n) \in {<<128 + n>> : i \in {i \in {n} : i < 16}} \cup Longer(222, n)
  BY <1>1 DEF pack_map, Longer
<1> QED BY <1>2, <1>3, <1>4

\* A container: its head, and nothing before its parts.
LEMMA ContainersStart ==
    ASSUME NEW o, NEW head \in Heads(o), Nests(o), NEW n \in Nat, n = CountOf(o), n <= Huge
    PROVE  Reading(o, head)
<1>0. Body(o) = <<>> /\ o.type \in {"array", "map"}
  BY DEF Body, Nests
<1> DEFINE code == IF o.type = "array" THEN 220 ELSE 222
           short == IF o.type = "array" THEN 144 ELSE 128
<1>1. head \in Longer(code, n) \/ (n < 16 /\ head = <<short + n>>)
  <2>1. CASE o.type = "array"
    <3>1. head = pack_array(n) \/ head \in Longer(220, n)
      BY <2>1 DEF Heads, CountOf
    <3> QED BY <2>1, <3>1, ShortHeaders
  <2>2. CASE o.type = "map"
    <3>1. head = pack_map(n) \/ head \in Longer(222, n)
      BY <2>2 DEF Heads, CountOf
    <3> QED BY <2>2, <3>1, ShortHeaders
  <2> QED BY <1>0, <2>1, <2>2
<1>2. CASE head \in Longer(code, n)
  <2>1. PICK first \in {code, code + 1}, rest \in Seq(Byte) :
              /\ HeadOf(head, first, rest) /\ rest # <<>> /\ Load(rest) = n
              /\ first \in Byte
              /\ HeaderCell(first) = Again(first % 32, Len(rest))
    <3>1. code \in {218, 220, 222}
      OBVIOUS
    <3> HIDE DEF code
    <3> QED BY <1>2, <3>1, LongHeader, SMTT(60)
  <2> DEFINE c == first % 32
  <2>2. c \in States \ {CS_HEADER} /\ c \in IF o.type = "array" THEN CS_ARRAY ELSE CS_MAP
    <3>1. 220 % 32 = 28 /\ 221 % 32 = 29 /\ 222 % 32 = 30 /\ 223 % 32 = 31
      OBVIOUS
    <3> QED BY <1>0, <3>1 DEF States, CS_HEADER, CS_ARRAY, CS_MAP
  <2> HIDE DEF c, code, short
  <2>3. TrailCell(c, rest) = Container(o.type, n)
    BY <1>0, <2>1, <2>2 DEF TrailCell, CS_FLOAT, CS_DOUBLE, CS_UINT, CS_INT, CS_RAW,
       ACS_RAW_VALUE, CS_ARRAY, CS_MAP
  <2>4. HeadCells(head) \o Body(o) = <<<<first>>>> \o <<rest>>
    <3>1. HeadCells(head) = <<<<first>>, rest>>
      BY <2>1, CellsOfHead
    <3> QED BY <1>0, <3>1
  <2>5. <<rest>> \in Seq(Seq(Byte)) /\ <<rest>> # <<>> /\ <<rest>>[1] = rest /\ Len(<<rest>>) = 1
    OBVIOUS
  <2>6. Starts(o, HeaderCell(first), <<rest>>)
    BY <2>1, <2>2, <2>3, <2>5 DEF Starts, Continues, Ending, c
  <2> QED BY <2>1, <2>4, <2>5, <2>6 DEF Reading
<1>3. CASE n < 16 /\ head = <<short + n>>
  <2> DEFINE b == short + n
  <2>1. b \in Byte /\ <<b>> \in Seq(Byte) /\ b % 16 = n
    BY <1>3 DEF Byte
  <2>2. HeaderCell(b) = Container(o.type, n)
    <3>1. CASE o.type = "array"
      <4>1. b \in 144..159
        BY <1>3, <3>1
      <4> HIDE DEF b
      <4>2. HeaderCell(b) = Container("array", b % 16)
        BY <4>1 DEF HeaderCell
      <4> QED BY <2>1, <3>1, <4>2
    <3>2. CASE o.type = "map"
      <4>1. b \in 128..143
        BY <1>3, <3>2
      <4> HIDE DEF b
      <4>2. HeaderCell(b) = Container("map", b % 16)
        BY <4>1 DEF HeaderCell
      <4> QED BY <2>1, <3>2, <4>2
    <3> QED BY <1>0, <3>1, <3>2
  <2> HIDE DEF b
  <2>e. <<>> \in Seq(Byte)
    OBVIOUS
  <2>3. HeadOf(head, b, <<>>)
    BY <1>3, <2>1 DEF HeadOf, b
  <2>4. HeadCells(head) \o Body(o) = <<<<b>>>> \o <<>>
    <3>1. HeadCells(head) = <<<<b>>>>
      BY <2>1, <2>3, <2>e, CellsOfHead
    <3> QED BY <1>0, <3>1
  <2>5. <<>> \in Seq(Seq(Byte))
    OBVIOUS
  <2>6. Starts(o, HeaderCell(b), <<>>)
    BY <2>2 DEF Starts, Ending
  <2> QED BY <2>1, <2>4, <2>5, <2>6 DEF Reading
<1> QED BY <1>1, <1>2, <1>3

\* A raw: its head, and its bytes unless there are none.
LEMMA RawsStart ==
    ASSUME NEW o, NEW head \in Heads(o), o.type = "raw", o = Raw(o.raw), o.raw \in Seq(Byte),
           Len(o.raw) <= Huge
    PROVE  Reading(o, head)
<1> DEFINE n == Len(o.raw)
           v == ACS_RAW_VALUE
<1>0. n \in Nat /\ v \in States \ {CS_HEADER} /\ (n = 0 <=> o.raw = <<>>)
  BY DEF States, CS_HEADER, ACS_RAW_VALUE
<1>1. Ending(o, TrailCell(v, o.raw))
  BY DEF TrailCell, CS_FLOAT, CS_DOUBLE, CS_UINT, CS_INT, CS_RAW, ACS_RAW_VALUE, Ending, Nests,
     NoObject
<1>2. Ending(o, Again(v, n)) \/ n # 0
  <2>1. n = 0 => o = Raw(<<>>)
    BY <1>0
  <2> QED BY <2>1 DEF Ending, Again
<1>3. Body(o) = IF n = 0 THEN <<>> ELSE <<o.raw>>
  BY <1>0 DEF Body
<1>h. head \in Longer(218, n) \/ (n < 32 /\ head = <<160 + n>>)
  <2>1. head = pack_raw(n) \/ head \in Longer(218, n)
    BY DEF Heads
  <2> QED BY <1>0, <2>1, ShortHeaders
<1> HIDE DEF n, v
<1>4. CASE head \in Longer(218, n)
  <2>1. PICK first \in {218, 218 + 1}, rest \in Seq(Byte) :
              /\ HeadOf(head, first, rest) /\ rest # <<>> /\ Load(rest) = n
              /\ first \in Byte
              /\ HeaderCell(first) = Again(first % 32, Len(rest))
    BY <1>0, <1>4, LongHeader DEF n
  <2> DEFINE c == first % 32
  <2>2. c \in States \ {CS_HEADER} /\ c \in CS_RAW
    <3>1. 218 % 32 = 26 /\ (218 + 1) % 32 = 27
      OBVIOUS
    <3> QED BY <3>1 DEF States, CS_HEADER, CS_RAW
  <2> HIDE DEF c
  <2>3. TrailCell(c, rest) = Again(v, n)
    BY <2>1, <2>2 DEF TrailCell, CS_FLOAT, CS_DOUBLE, CS_UINT, CS_INT, CS_RAW, v
  <2>4. HeadCells(head) = <<<<first>>, rest>>
    BY <2>1, CellsOfHead
  <2>5. CASE n = 0
    <3>1. HeadCells(head) \o Body(o) = <<<<first>>>> \o <<rest>>
      BY <1>3, <2>4, <2>5
    <3>2. <<rest>> \in Seq(Seq(Byte)) /\ <<rest>> # <<>> /\ <<rest>>[1] = rest /\ Len(<<rest>>) = 1
      OBVIOUS
    <3>3. Starts(o, HeaderCell(first), <<rest>>)
      BY <1>2, <2>1, <2>2, <2>3, <2>5, <3>2 DEF Starts, Continues, c
    <3> QED BY <2>1, <3>1, <3>2, <3>3 DEF Reading
  <2>6. CASE n # 0
    <3>1. HeadCells(head) \o Body(o) = <<<<first>>>> \o <<rest, o.raw>>
      BY <1>3, <2>4, <2>6
    <3>2. <<rest, o.raw>> \in Seq(Seq(Byte)) /\ <<rest, o.raw>> # <<>> /\ <<rest, o.raw>>[1] = rest
          /\ <<rest, o.raw>>[2] = o.raw /\ Len(<<rest, o.raw>>) = 2
      OBVIOUS
    <3>3. Continues(o, c, <<rest, o.raw>>)
      BY <1>0, <1>1, <2>3, <2>6, <3>2 DEF Continues, n, v
    <3>4. Starts(o, HeaderCell(first), <<rest, o.raw>>)
      BY <2>1, <2>2, <3>2, <3>3 DEF Starts, c
    <3> QED BY <2>1, <3>1, <3>2, <3>4 DEF Reading
  <2> QED BY <2>5, <2>6
<1>5. CASE n < 32 /\ head = <<160 + n>>
  <2> DEFINE b == 160 + n
  <2>1. b \in Byte /\ <<b>> \in Seq(Byte) /\ b % 32 = n
    <3>1. n \in Nat /\ n < 32
      BY <1>0, <1>5
    <3>2. b \in Byte
      BY <3>1 DEF Byte
    <3>3. b % 32 = n
      BY <3>1
    <3> QED BY <3>2, <3>3
  <2>2. HeaderCell(b) = Again(v, n)
    BY <1>0, <1>5, <2>1 DEF HeaderCell, v
  <2> HIDE DEF b
  <2>e. <<>> \in Seq(Byte)
    OBVIOUS
  <2>3. HeadOf(head, b, <<>>)
    BY <1>5, <2>1 DEF HeadOf, b
  <2>4. HeadCells(head) = <<<<b>>>>
    BY <2>1, <2>3, <2>e, CellsOfHead
  <2>5. CASE n = 0
    <3>1. HeadCells(head) \o Body(o) = <<<<b>>>> \o <<>>
      BY <1>3, <2>4, <2>5
    <3>2. <<>> \in Seq(Seq(Byte))
      OBVIOUS
    <3>3. Starts(o, HeaderCell(b), <<>>)
      BY <1>2, <2>2, <2>5 DEF Starts
    <3> QED BY <2>1, <3>1, <3>2, <3>3 DEF Reading
  <2>6. CASE n # 0
    <3>1. HeadCells(head) \o Body(o) = <<<<b>>>> \o <<o.raw>>
      BY <1>3, <2>4, <2>6
    <3>2. <<o.raw>> \in Seq(Seq(Byte)) /\ <<o.raw>> # <<>> /\ <<o.raw>>[1] = o.raw /\ Len(<<o.raw>>) = 1
      OBVIOUS
    <3>3. Starts(o, HeaderCell(b), <<o.raw>>)
      BY <1>0, <1>1, <2>2, <2>6, <3>2 DEF Starts, Continues, n
    <3> QED BY <2>1, <3>1, <3>2, <3>3 DEF Reading
  <2> QED BY <2>5, <2>6
<1> QED BY <1>h, <1>4, <1>5

\* The number of entries of a container is a length that can be written.
LEMMA CountIs ==
    ASSUME NEW o, NEW parts, parts \in Seq(Packings), IsObject(o), IsMadeOf(o, parts), Nests(o)
    PROVE  /\ CountOf(o) \in Nat /\ CountOf(o) <= Huge
           /\ o.type = "array" => CountOf(o) = Len(parts)
           /\ o.type = "map" => Len(parts) = 2 * CountOf(o)
<1>0. Len(parts) \in Nat
  OBVIOUS
<1>1. CASE o.type = "array"
  <2> DEFINE items == [i \in 1..Len(parts) |-> parts[i].value]
  <2>1. o = Array(items)
    BY <1>1 DEF IsMadeOf
  <2>2. Len(items) = Len(parts)
    BY <1>0
  <2> HIDE DEF items
  <2>3. o.array = items
    BY <2>1 DEF Array
  <2>4. Len(o.array) <= Huge
    BY <1>1 DEF IsObject
  <2> QED BY <1>0, <1>1, <2>2, <2>3, <2>4 DEF CountOf
<1>2. CASE o.type = "map"
  <2> DEFINE n == Len(parts) \div 2
             items == [i \in 1..n |-> <<parts[2 * i - 1].value, parts[2 * i].value>>]
  <2>1. o = Map(items) /\ Len(parts) = 2 * n
    BY <1>2 DEF IsMadeOf
  <2>2. n \in Nat /\ Len(items) = n
    BY <1>0
  <2> HIDE DEF items, n
  <2>3. o.map = items
    BY <2>1 DEF Map
  <2>4. Len(o.map) <= Huge
    BY <1>2 DEF IsObject
  <2> QED BY <1>0, <1>2, <2>1, <2>2, <2>3, <2>4 DEF CountOf
<1> QED BY <1>1, <1>2 DEF Nests

\* A head of one byte, and of a byte and others, that is read as it is.
LEMMA ReadsShort ==
    ASSUME NEW o, NEW b \in Byte, HeaderCell(b) = Value(o)
    PROVE  ReadsAs(<<b>>, o)
<1>1. <<b>> \o <<>> = <<b>> /\ <<>> \in Seq(Byte)
  OBVIOUS
<1>2. HeadOf(<<b>> \o <<>>, b, <<>>)
  BY <1>1, HeadJoined
<1> QED BY <1>1, <1>2 DEF ReadsAs

LEMMA HeadsRead ==
    ASSUME NEW o, NEW parts, parts \in Seq(Packings), IsObject(o), IsMadeOf(o, parts),
           NEW head \in Heads(o)
    PROVE  Reading(o, head)
<1> USE DEF Nests, NoObject
<1>1. CASE o.type = "nil"
  <2>1. o = Nil /\ head = <<192>> /\ Body(o) = <<>>
    BY <1>1 DEF IsObject, Heads, pack_nil, Body
  <2>2. 192 \in Byte /\ HeaderCell(192) = Value(Nil)
    BY DEF HeaderCell, Byte
  <2> QED BY <1>1, <2>1, <2>2, ReadsShort, ValuesStart
<1>2. CASE o.type = "boolean"
  <2>1. o = Boolean(o.boolean) /\ o.boolean \in BOOLEAN /\ Body(o) = <<>>
    BY <1>2 DEF IsObject, Body
  <2>2. head = <<IF o.boolean THEN 195 ELSE 194>>
    BY <1>2 DEF Heads, pack_boolean
  <2>3. ASSUME NEW b \in 194..195 PROVE HeaderCell(b) = Value(Boolean(b = 195))
    BY DEF HeaderCell
  <2> DEFINE b == IF o.boolean THEN 195 ELSE 194
  <2>4. b \in 194..195 /\ b \in Byte /\ head = <<b>>
    BY <2>2 DEF Byte
  <2>t. o.boolean => b = 195
    OBVIOUS
  <2>f. ~o.boolean => b # 195
    OBVIOUS
  <2> HIDE DEF b
  <2>5. (b = 195) = o.boolean
    BY <2>1, <2>t, <2>f, Zenon
  <2>6. HeaderCell(b) = Value(Boolean(b = 195))
    BY <2>3, <2>4, Zenon
  <2>7. HeaderCell(b) = Value(o)
    BY <2>1, <2>5, <2>6, Zenon
  <2> QED BY <1>2, <2>1, <2>4, <2>7, ReadsShort, ValuesStart
<1>3. CASE o.type \in {"positive", "negative"}
  <2>1. head \in IntegerForms(o) /\ Body(o) = <<>>
    BY <1>3 DEF Heads, Body
  <2> QED BY <1>3, <2>1, IntegersRead, ValuesStart
<1>4. CASE o.type = "double"
  <2>1. o = Double(o.dec) /\ o.dec \in Seq(Byte) /\ Len(o.dec) \in {4, 8} /\ Body(o) = <<>>
    BY <1>4 DEF IsObject, Body
  <2>2. head = IF Len(o.dec) = 4 THEN <<202>> \o o.dec ELSE <<203>> \o o.dec
    BY <1>4 DEF Heads, pack_float, pack_double
  <2>3. HeaderCell(202) = Again(10, 4) /\ HeaderCell(203) = Again(11, 8) /\ 202 \in Byte /\ 203 \in Byte
    <3>1. 202 % 32 = 10 /\ 203 % 32 = 11 /\ 202 % 4 = 2 /\ 203 % 4 = 3 /\ 2 + 1 = 3 /\ 3 + 1 = 4
      OBVIOUS
    <3>2. <<1, 2, 4, 8>>[3] = 4 /\ <<1, 2, 4, 8>>[4] = 8
      OBVIOUS
    <3>3. HeaderCell(202) = Again(202 % 32, <<1, 2, 4, 8>>[(202 % 4) + 1])
      BY DEF HeaderCell
    <3>4. HeaderCell(203) = Again(203 % 32, <<1, 2, 4, 8>>[(203 % 4) + 1])
      BY DEF HeaderCell
    <3> QED BY <3>1, <3>2, <3>3, <3>4 DEF Byte
  <2>4. TrailCell(10, o.dec) = Value(o) /\ TrailCell(11, o.dec) = Value(o)
    BY <2>1 DEF TrailCell, CS_FLOAT, CS_DOUBLE
  <2>5. 10 \in States \ {CS_HEADER} /\ 11 \in States \ {CS_HEADER} /\ o.dec # <<>>
    BY <2>1 DEF States, CS_HEADER
  <2>6. CASE Len(o.dec) = 4
    <3>1. HeadOf(head, 202, o.dec)
      BY <2>1, <2>2, <2>3, <2>6, HeadJoined
    <3>2. HeaderCell(202) = Again(10, Len(o.dec))
      BY <2>3, <2>6
    <3>3. ReadsAs(head, o)
      BY <2>1, <2>3, <2>4, <2>5, <3>1, <3>2, ZenonT(60) DEF ReadsAs
    <3> QED BY <1>4, <2>1, <3>3, ValuesStart
  <2>7. CASE Len(o.dec) # 4
    <3>0. Len(o.dec) = 8
      BY <2>1, <2>7
    <3>1. HeadOf(head, 203, o.dec)
      BY <2>1, <2>2, <2>3, <2>7, HeadJoined
    <3>2. HeaderCell(203) = Again(11, Len(o.dec))
      BY <2>3, <3>0
    <3>3. ReadsAs(head, o)
      BY <2>1, <2>3, <2>4, <2>5, <3>1, <3>2, Zenon DEF ReadsAs
    <3> QED BY <1>4, <2>1, <3>3, ValuesStart
  <2> QED BY <2>6, <2>7
<1>5. CASE o.type = "raw"
  <2>1. o = Raw(o.raw) /\ o.raw \in Seq(Byte) /\ Len(o.raw) <= Huge
    BY <1>5 DEF IsObject
  <2> QED BY <1>5, <2>1, RawsStart
<1>6. CASE o.type \in {"array", "map"}
  BY <1>6, CountIs, ContainersStart
<1>7. CASE o.type \notin {"nil", "boolean", "positive", "negative", "double", "raw", "array", "map"}
  <2>1. o = NoObject /\ Body(o) = <<>>
    BY <1>7 DEF IsObject, Body
  <2>2. PICK b \in {193} \cup 196..201 \cup 212..217 : head = <<b>>
    BY <1>7 DEF Heads
  <2>3. HeaderCell(b) = Refused /\ b \in Byte
    BY DEF HeaderCell, Byte
  <2>4. <<b>> \o <<>> = <<b>> /\ <<>> \in Seq(Byte) /\ <<>> \in Seq(Seq(Byte))
    OBVIOUS
  <2>5. HeadOf(head, b, <<>>)
    BY <2>2, <2>3, <2>4, HeadJoined
  <2>6. HeadCells(head) = <<<<b>>>>
    BY <2>3, <2>4, <2>5, CellsOfHead
  <2>7. HeadCells(head) \o Body(o) = <<<<b>>>> \o <<>>
    BY <2>1, <2>6
  <2>8. Starts(o, HeaderCell(b), <<>>)
    BY <2>1, <2>3 DEF Starts, Ending
  <2> QED BY <2>3, <2>4, <2>7, <2>8 DEF Reading
<1> QED BY <1>1, <1>2, <1>3, <1>4, <1>5, <1>6, <1>7

-----------------------------------------------------------------------------
(* The cells of a stream                                                   *)

\* The cells of a list of packings from one of them on.
Tops(list) == [i \in 1..Len(list) |-> list[i].cells]
From(list, j) == SubSeq(list, j, Len(list))
CellsFrom(list, j) == CellsOf(From(list, j))

LEMMA PackingIs ==
    ASSUME NEW list \in Seq(Packings), NEW j \in 1..Len(list)
    PROVE  /\ list[j] \in Packings /\ WellPacked(list[j])
           /\ list[j].cells \in Lists(Byte) /\ list[j].parts \in Seq(Packings)
           /\ list[j].needs \in Nat
<1>1. list[j] \in Packings
  BY ElementOfSeq
<1>2. WellPacked(list[j])
  BY <1>1, PackedAssumption
<1> QED BY <1>1, <1>2 DEF WellPacked, Lists

LEMMA TopsType ==
    ASSUME NEW list \in Seq(Packings)
    PROVE  Tops(list) \in Lists(Seq(Byte)) /\ Len(Tops(list)) = Len(list)
<1>1. \A i \in 1..Len(list) : list[i].cells \in Seq(Seq(Byte))
  BY PackingIs DEF Lists
<1>2. Len(list) \in Nat
  OBVIOUS
<1> DEFINE n == Len(list)
<1>3. Tops(list) \in [1..n -> Seq(Seq(Byte))]
  BY <1>1 DEF Tops
<1> HIDE DEF n
<1> QED BY <1>2, <1>3 DEF Lists, n

LEMMA CellsType ==
    ASSUME NEW list \in Seq(Packings)
    PROVE  CellsOf(list) \in Lists(Byte) /\ (Len(list) = 0 => CellsOf(list) = <<>>)
<1>1. CellsOf(list) = FlattenSeq(Tops(list))
  BY DEF CellsOf, Tops
<1> QED BY <1>1, TopsType, FlattenType DEF Lists

LEMMA FromIs ==
    ASSUME NEW list \in Seq(Packings), NEW j \in 1..(Len(list) + 1)
    PROVE  /\ From(list, j) \in Seq(Packings) /\ Len(From(list, j)) = Len(list) + 1 - j
           /\ \A i \in 1..(Len(list) + 1 - j) : From(list, j)[i] = list[j + i - 1]
<1>1. Len(list) \in Nat
  OBVIOUS
<1>2. Len(list) \in (j - 1)..Len(list)
  BY <1>1
<1>3. From(list, j) \in Seq(Packings)
  BY <1>1, <1>2, SubSeqProperties DEF From
<1>4. Len(From(list, j)) = Len(list) + 1 - j
  BY <1>1, <1>2, SubSeqProperties DEF From
<1>5. \A i \in 1..(Len(list) - j + 1) : From(list, j)[i] = list[j + i - 1]
  BY <1>1, <1>2, SubSeqProperties DEF From
<1> QED BY <1>1, <1>3, <1>4, <1>5

LEMMA CellsFromType ==
    ASSUME NEW list \in Seq(Packings), NEW j \in 1..(Len(list) + 1)
    PROVE  CellsFrom(list, j) \in Lists(Byte)
BY FromIs, CellsType DEF CellsFrom

LEMMA CellsFromEnd ==
    ASSUME NEW list \in Seq(Packings)
    PROVE  CellsFrom(list, Len(list) + 1) = <<>>
<1>1. Len(list) \in Nat
  OBVIOUS
<1>2. Len(list) + 1 \in 1..(Len(list) + 1) /\ Len(list) + 1 - (Len(list) + 1) = 0
  BY <1>1
<1> QED BY <1>2, FromIs, CellsType DEF CellsFrom

LEMMA CellsFromFirst ==
    ASSUME NEW list \in Seq(Packings)
    PROVE  CellsFrom(list, 1) = CellsOf(list)
<1>1. From(list, 1) = list
  <2>1. Len(list) \in Nat
    OBVIOUS
  <2>2. /\ From(list, 1) \in Seq(Packings) /\ Len(From(list, 1)) = Len(list)
        /\ \A i \in 1..Len(list) : From(list, 1)[i] = list[i]
    BY <2>1, FromIs
  <2> DEFINE f == From(list, 1)
  <2> HIDE DEF f
  <2>3. f \in Seq(Packings) /\ Len(f) = Len(list) /\ \A i \in 1..Len(list) : f[i] = list[i]
    BY <2>2 DEF f
  <2>4. f = list
    BY <2>3
  <2> QED BY <2>4 DEF f
<1> QED BY <1>1 DEF CellsFrom

LEMMA CellsFromNext ==
    ASSUME NEW list \in Seq(Packings), NEW j \in 1..Len(list)
    PROVE  CellsFrom(list, j) = list[j].cells \o CellsFrom(list, j + 1)
<1> DEFINE n == Len(list)
           a == From(list, j)
           b == From(list, j + 1)
           x == list[j].cells
<1>1. n \in Nat /\ j \in 1..(n + 1) /\ j + 1 \in 1..(n + 1)
  OBVIOUS
<1>2. /\ a \in Seq(Packings) /\ Len(a) = n + 1 - j
      /\ \A i \in 1..(n + 1 - j) : a[i] = list[j + i - 1]
  BY <1>1, FromIs
<1>3. /\ b \in Seq(Packings) /\ Len(b) = n - j
      /\ \A i \in 1..(n - j) : b[i] = list[j + i]
  <2> DEFINE k == j + 1
  <2>1. n + 1 - k = n - j /\ \A i \in 1..(n - j) : k + i - 1 = j + i
    BY <1>1
  <2>2. k \in 1..(n + 1)
    BY <1>1
  <2> HIDE DEF k
  <2>3. /\ From(list, k) \in Seq(Packings) /\ Len(From(list, k)) = n + 1 - k
        /\ \A i \in 1..(n + 1 - k) : From(list, k)[i] = list[k + i - 1]
    BY <2>2, FromIs
  <2>4. b = From(list, k)
    BY DEF k
  <2> HIDE DEF b, n
  <2> QED BY <2>1, <2>3, <2>4
<1>4. x \in Seq(Seq(Byte))
  BY PackingIs DEF Lists
<1>5. Tops(b) \in Lists(Seq(Byte)) /\ Len(Tops(b)) = n - j
  BY <1>3, TopsType
<1>6. Tops(a) \in Lists(Seq(Byte)) /\ Len(Tops(a)) = n + 1 - j
  BY <1>2, TopsType
<1>7. \A i \in 1..(n + 1 - j) : Tops(a)[i] = list[j + i - 1].cells
  BY <1>2 DEF Tops
<1>8. \A i \in 1..(n - j) : Tops(b)[i] = list[j + i].cells
  BY <1>3 DEF Tops
<1> DEFINE s == Tops(a)
           t == Tops(b)
           L == Seq(Seq(Byte))
<1> HIDE DEF a, b, n
<1>9. s = <<x>> \o t
  <2>0. s[1] = x
    <3>1. 1 \in 1..(n + 1 - j) /\ j + 1 - 1 = j
      BY <1>1 DEF n
    <3> QED BY <1>7, <3>1
  <2>1. \A i \in 1..(n - j) : s[i + 1] = t[i]
    <3>1. \A i \in 1..(n - j) : i + 1 \in 1..(n + 1 - j) /\ j + (i + 1) - 1 = j + i
      BY <1>1
    <3> QED BY <1>7, <1>8, <3>1
  <2>2. s \in Seq(L) /\ t \in Seq(L) /\ x \in L /\ Len(s) = Len(t) + 1 /\ Len(t) = n - j
    BY <1>1, <1>4, <1>5, <1>6 DEF Lists
  <2> HIDE DEF s, t, x, L
  <2> QED BY <2>0, <2>1, <2>2
<1> HIDE DEF x
<1>10. FlattenSeq(s) = x \o FlattenSeq(t)
  <2> DEFINE B == Seq(Byte)
  <2>0. t \in Lists(B) /\ x \in Seq(B)
    BY <1>4, <1>5
  <2> HIDE DEF s, t, B
  <2>1. FlattenSeq(<<x>> \o t) = x \o FlattenSeq(t)
    BY <2>0, FlattenAfter, Zenon
  <2> QED BY <1>9, <2>1
<1> QED BY <1>10 DEF CellsFrom, CellsOf, Tops, a, b, x

-----------------------------------------------------------------------------
(* Where a parse is in the cells of its stream                             *)

\* The cells of todo are those that are not parsed yet.
At(list, pos, todo) ==
    \E done \in Lists(Byte) :
        CellsOf(list) = done \o todo /\ pos = Len(FlattenSeq(done))

\* The next cell is in the stream where the parse is.
LEMMA AtCell ==
    ASSUME NEW list \in Seq(Packings), NEW pos, NEW c \in Seq(Byte), NEW t \in Lists(Byte),
           At(list, pos, <<c>> \o t)
    PROVE  LET s == BytesOf(list)
           IN  /\ pos \in Nat /\ Len(s) \in Nat /\ pos + Len(c) <= Len(s)
               /\ SubSeq(s, pos + 1, pos + Len(c)) = c
               /\ c # <<>> => s[pos + 1] = c[1]
               /\ At(list, pos + Len(c), t)
<1>1. PICK done \in Lists(Byte) :
        CellsOf(list) = done \o (<<c>> \o t) /\ pos = Len(FlattenSeq(done))
  BY DEF At
<1> DEFINE more == done \o <<c>>
           a == FlattenSeq(done)
           g == FlattenSeq(t)
<1>2. <<c>> \in Lists(Byte) /\ FlattenSeq(<<c>>) = c
  BY FlattenOne
<1>3. more \in Lists(Byte) /\ FlattenSeq(more) = a \o c
  BY <1>2, FlattenTwo
<1>4. CellsOf(list) = more \o t
  <2>1. done \in Seq(Seq(Byte)) /\ <<c>> \in Seq(Seq(Byte)) /\ t \in Seq(Seq(Byte))
    BY <1>2 DEF Lists
  <2>2. (done \o <<c>>) \o t = done \o (<<c>> \o t)
    BY <2>1, CatThreeLists
  <2> QED BY <1>1, <2>2
<1>5. a \in Seq(Byte) /\ g \in Seq(Byte)
  BY FlattenType
<1> HIDE DEF more
<1>6. BytesOf(list) = (a \o c) \o g
  BY <1>3, <1>4, FlattenTwo DEF BytesOf
<1> HIDE DEF a, g
<1>7. /\ Len(BytesOf(list)) = Len(a) + Len(c) + Len(g)
      /\ SubSeq(BytesOf(list), Len(a) + 1, Len(a) + Len(c)) = c
      /\ c # <<>> => BytesOf(list)[Len(a) + 1] = c[1]
  BY <1>5, <1>6, Middle
<1>8. Len(a) \in Nat /\ Len(c) \in Nat /\ Len(g) \in Nat
  BY <1>5, LenProperties
<1>9. pos = Len(a)
  BY <1>1 DEF a
<1>10. pos + Len(c) = Len(FlattenSeq(more))
  <2>1. Len(a \o c) = Len(a) + Len(c)
    BY <1>5, ConcatProperties
  <2> QED BY <1>3, <1>9, <2>1
<1>11. At(list, pos + Len(c), t)
  BY <1>3, <1>4, <1>10 DEF At
<1> DEFINE s == BytesOf(list)
<1> HIDE DEF s
<1>12. /\ Len(s) = Len(a) + Len(c) + Len(g)
       /\ SubSeq(s, Len(a) + 1, Len(a) + Len(c)) = c
       /\ c # <<>> => s[Len(a) + 1] = c[1]
  BY <1>7 DEF s
<1>13. pos \in Nat /\ Len(s) \in Nat /\ pos + Len(c) <= Len(s)
  BY <1>8, <1>9, <1>12
<1> QED BY <1>9, <1>11, <1>12, <1>13 DEF s

\* When no cell is left, neither is a byte.
LEMMA AtEnd ==
    ASSUME NEW list \in Seq(Packings), NEW pos, At(list, pos, <<>>)
    PROVE  pos = Len(BytesOf(list)) /\ pos \in Nat
<1>1. PICK done \in Lists(Byte) : CellsOf(list) = done \o <<>> /\ pos = Len(FlattenSeq(done))
  BY DEF At
<1>2. done \o <<>> = done
  BY ConcatEmptySeq DEF Lists
<1>3. FlattenSeq(done) \in Seq(Byte)
  BY FlattenType
<1> QED BY <1>1, <1>2, <1>3, LenProperties DEF BytesOf

LEMMA AtStart ==
    ASSUME NEW list \in Seq(Packings)
    PROVE  At(list, 0, CellsFrom(list, 1))
<1>1. <<>> \in Lists(Byte) /\ Len(<<>>) = 0
  BY DEF Lists
<1>2. FlattenSeq(<<>>) = <<>>
  BY <1>1, FlattenType
<1>3. <<>> \o CellsOf(list) = CellsOf(list)
  <2>1. CellsOf(list) \in Seq(Seq(Byte))
    BY CellsType DEF Lists
  <2> QED BY <2>1, ConcatEmptySeq
<1> QED BY <1>1, <1>2, <1>3, CellsFromFirst DEF At

-----------------------------------------------------------------------------
(* Frames                                                                  *)

Items(parts, n) == [i \in 1..n |-> parts[i].value]
Pairs(parts, n) == [i \in 1..n |-> <<parts[2 * i - 1].value, parts[2 * i].value>>]

\* A frame of the stack that holds the first n parts of a container.
FrameIs(c, kind, parts, n) ==
    /\ DOMAIN c = {"ct", "count", "items", "key"}
    /\ \/ /\ kind = "array"
          /\ c.ct = "item" /\ c.count = Len(parts) - n /\ c.items = Items(parts, n)
       \/ /\ kind = "map"
          /\ \E m, missing \in Nat :
                /\ Len(parts) = 2 * (m + missing) /\ c.count = missing
                /\ c.items = Pairs(parts, m)
                /\ \/ n = 2 * m /\ c.ct = "key"
                   \/ n = 2 * m + 1 /\ c.ct = "value" /\ c.key = parts[n].value

LEMMA FilledIs ==
    ASSUME NEW c, DOMAIN c = {"ct", "count", "items", "key"}, NEW o
    PROVE  LET f == Filled(c, o)
           IN  /\ DOMAIN f = {"ct", "count", "items", "key"}
               /\ c.ct = "item" => /\ f.ct = "item" /\ f.count = c.count - 1
                                   /\ f.items = Append(c.items, o)
               /\ c.ct = "key" => /\ f.ct = "value" /\ f.count = c.count
                                  /\ f.items = c.items /\ f.key = o
               /\ c.ct = "value" => /\ f.ct = "key" /\ f.count = c.count - 1
                                    /\ f.items = Append(c.items, <<c.key, o>>)
BY DEF Filled

LEMMA OneMoreItem ==
    ASSUME NEW parts, NEW n \in Nat
    PROVE  /\ Items(parts, 0) = <<>> /\ Pairs(parts, 0) = <<>>
           /\ Append(Items(parts, n), parts[n + 1].value) = Items(parts, n + 1)
           /\ Append(Pairs(parts, n), <<parts[2 * n + 1].value, parts[2 * n + 2].value>>)
                 = Pairs(parts, n + 1)
<1>1. Items(parts, 0) = <<>> /\ Pairs(parts, 0) = <<>>
  BY DEF Items, Pairs
<1>3. Append(Items(parts, n), parts[n + 1].value) = Items(parts, n + 1)
  BY DEF Items
<1>4. 2 * (n + 1) - 1 = 2 * n + 1 /\ 2 * (n + 1) = 2 * n + 2
  OBVIOUS
<1>5. Append(Pairs(parts, n), <<parts[2 * (n + 1) - 1].value, parts[2 * (n + 1)].value>>)
                 = Pairs(parts, n + 1)
  BY DEF Pairs
<1> QED BY <1>1, <1>3, <1>4, <1>5

LEMMA FrameStarts ==
    ASSUME NEW parts, NEW count \in Nat, NEW kind,
           \/ kind = "array" /\ Len(parts) = count
           \/ kind = "map" /\ Len(parts) = 2 * count
    PROVE  FrameIs(Frame(kind, count), kind, parts, 0)
<1>1. CASE kind = "array" /\ Len(parts) = count
  BY <1>1, OneMoreItem DEF FrameIs, Frame
<1>2. CASE kind = "map" /\ Len(parts) = 2 * count
  <2> DEFINE c == Frame(kind, count)
  <2>1. /\ Len(parts) = 2 * (0 + count) /\ 0 = 2 * 0
        /\ DOMAIN c = {"ct", "count", "items", "key"}
        /\ c.ct = "key" /\ c.count = count /\ c.items = Pairs(parts, 0)
    BY <1>2, OneMoreItem DEF Frame
  <2> HIDE DEF c
  <2>2. FrameIs(c, kind, parts, 0)
    BY <1>2, <2>1 DEF FrameIs
  <2> QED BY <2>2 DEF c
<1> QED BY <1>1, <1>2

LEMMA FrameFilled ==
    ASSUME NEW parts, Len(parts) \in Nat, NEW kind, NEW n \in Nat, n < Len(parts),
           NEW c, FrameIs(c, kind, parts, n)
    PROVE  LET f == Filled(c, parts[n + 1].value)
           IN  FrameIs(f, kind, parts, n + 1) /\ (f.count = 0 <=> n + 1 = Len(parts))
<1> DEFINE o == parts[n + 1].value
           f == Filled(c, o)
<1>0. /\ DOMAIN f = {"ct", "count", "items", "key"}
      /\ c.ct = "item" => /\ f.ct = "item" /\ f.count = c.count - 1
                          /\ f.items = Append(c.items, o)
      /\ c.ct = "key" => /\ f.ct = "value" /\ f.count = c.count
                         /\ f.items = c.items /\ f.key = o
      /\ c.ct = "value" => /\ f.ct = "key" /\ f.count = c.count - 1
                           /\ f.items = Append(c.items, <<c.key, o>>)
  BY FilledIs, SMTT(60) DEF FrameIs
<1> HIDE DEF f
<1>1. CASE /\ kind = "array"
           /\ c.ct = "item" /\ c.count = Len(parts) - n /\ c.items = Items(parts, n)
  <2>1. f.count = Len(parts) - (n + 1)
    BY <1>0, <1>1
  <2>2. f.items = Items(parts, n + 1)
    BY <1>0, <1>1, OneMoreItem, ZenonT(60)
  <2>3. FrameIs(f, kind, parts, n + 1)
    BY <1>0, <1>1, <2>1, <2>2 DEF FrameIs
  <2> QED BY <2>1, <2>3 DEF f
<1>2. CASE kind = "map"
  <2>1. PICK m \in Nat, missing \in Nat :
                /\ Len(parts) = 2 * (m + missing) /\ c.count = missing
                /\ c.items = Pairs(parts, m)
                /\ \/ n = 2 * m /\ c.ct = "key"
                   \/ n = 2 * m + 1 /\ c.ct = "value" /\ c.key = parts[n].value
    BY <1>2 DEF FrameIs
  <2>2. CASE n = 2 * m /\ c.ct = "key"
    <3>1. n + 1 = 2 * m + 1 /\ n + 1 # Len(parts) /\ missing # 0
      BY <2>1, <2>2
    <3>2. f.ct = "value" /\ f.count = missing /\ f.items = Pairs(parts, m) /\ f.key = o
      BY <1>0, <2>1, <2>2
    <3>3. FrameIs(f, kind, parts, n + 1)
      BY <1>0, <1>2, <2>1, <3>1, <3>2 DEF FrameIs
    <3> QED BY <3>1, <3>2, <3>3 DEF f
  <2>3. CASE n = 2 * m + 1 /\ c.ct = "value" /\ c.key = parts[n].value
    <3> DEFINE m1 == m + 1
               less == missing - 1
    <3>1. n = 2 * m + 1 /\ n + 1 = 2 * m + 2
      BY <2>3
    <3>2. f.ct = "key" /\ f.count = less /\ f.items = Append(Pairs(parts, m), <<parts[n].value, o>>)
      BY <1>0, <2>1, <2>3
    <3>3. f.items = Pairs(parts, m1)
      BY <3>1, <3>2, OneMoreItem
    <3>4. m1 \in Nat /\ less \in Nat /\ Len(parts) = 2 * (m1 + less) /\ n + 1 = 2 * m1
          /\ (less = 0 <=> n + 1 = Len(parts))
      BY <2>1, <2>3
    <3> HIDE DEF m1, less
    <3>5. FrameIs(f, kind, parts, n + 1)
      BY <1>0, <1>2, <3>2, <3>3, <3>4 DEF FrameIs
    <3> QED BY <3>2, <3>4, <3>5 DEF f
  <2> QED BY <2>1, <2>2, <2>3
<1> QED BY <1>1, <1>2 DEF FrameIs

LEMMA FrameCompletes ==
    ASSUME NEW o, NEW parts, Len(parts) \in Nat, Nests(o), IsMadeOf(o, parts),
           NEW c, FrameIs(c, o.type, parts, Len(parts))
    PROVE  Complete(c) = o
<1>1. CASE o.type = "array"
  <2>1. c.ct = "item" /\ c.items = Items(parts, Len(parts))
    BY <1>1 DEF FrameIs
  <2>2. o = Array(Items(parts, Len(parts)))
    BY <1>1 DEF IsMadeOf, Items
  <2> QED BY <2>1, <2>2 DEF Complete
<1>2. CASE o.type = "map"
  <2> DEFINE h == Len(parts) \div 2
  <2>1. Len(parts) = 2 * h /\ o = Map(Pairs(parts, h)) /\ h \in Nat
    BY <1>2 DEF IsMadeOf, Pairs
  <2>2. PICK m \in Nat, missing \in Nat :
             /\ Len(parts) = 2 * (m + missing) /\ c.items = Pairs(parts, m)
             /\ \/ Len(parts) = 2 * m /\ c.ct = "key"
                \/ Len(parts) = 2 * m + 1
    BY <1>2 DEF FrameIs
  <2> HIDE DEF h
  <2>3. Len(parts) # 2 * m + 1
    BY <2>1
  <2>4. m = h
    BY <2>1, <2>2, <2>3
  <2>5. c.ct = "key" /\ c.items = Pairs(parts, h)
    BY <2>2, <2>3, <2>4
  <2> QED BY <2>1, <2>5 DEF Complete
<1> QED BY <1>1, <1>2 DEF Nests

-----------------------------------------------------------------------------
(* Where a parse is in the packings                                        *)
(*                                                                         *)
(* A level is a list of packings that are parsed one after the other: the  *)
(* messages of the stream, or the parts of a container.  s are the lists,  *)
(* d how many of each are parsed, and a the cells after the list.          *)

Places == 0..StackSize

\* The packing that is next at a level, or being parsed.
Goal(s, d, i) == s[i][d[i] + 1]

\* The cells after that one.
Later(s, d, a, i) == CellsFrom(s[i], d[i] + 2) \o a[i]

\* Level i holds the parts of the goal of the level below.
Nested(st, s, d, a, i) ==
    /\ d[i - 1] < Len(s[i - 1]) /\ d[i] < Len(s[i])
    /\ Nests(Goal(s, d, i - 1).value)
    /\ s[i] = Goal(s, d, i - 1).parts
    /\ FrameIs(st[i], Goal(s, d, i - 1).value.type, s[i], d[i])
    /\ a[i] = Later(s, d, a, i - 1)
    /\ \A j \in 1..d[i] : s[i][j].needs <= StackSize - i

\* The first n messages have been delivered.
Given(list, given, n) ==
    /\ n \in 0..Len(list) /\ given = Items(list, n)
    /\ \A j \in 1..n : Parsable(list[j])

Levels(list, given, t, st, s, d, a) ==
    /\ t \in Places /\ DOMAIN st = 1..StackSize
    /\ s \in [Places -> Seq(Packings)] /\ d \in [Places -> Nat] /\ a \in [Places -> Lists(Byte)]
    /\ s[0] = list /\ a[0] = <<>> /\ Given(list, given, d[0])
    /\ \A i \in 1..t : Nested(st, s, d, a, i)

\* The next cell is the first of a packing.
Between(list, pos, t, s, d, a) == At(list, pos, CellsFrom(s[t], d[t] + 1) \o a[t])

\* The next cell is the first of cells, which belong to the goal.
Inside(list, pos, c, n, t, s, d, a) ==
    /\ d[t] < Len(s[t])
    /\ \E cells \in Lists(Byte) :
          /\ cells # <<>> /\ cells[1] # <<>> /\ n = Len(cells[1])
          /\ Continues(Goal(s, d, t).value, c, cells)
          /\ At(list, pos, cells \o (CellsOf(Goal(s, d, t).parts) \o Later(s, d, a, t)))

\* The goal has been parsed.
Parsed(list, pos, o, t, s, d, a) ==
    /\ d[t] < Len(s[t])
    /\ o = Goal(s, d, t).value /\ Goal(s, d, t).needs <= StackSize - t
    /\ At(list, pos, Later(s, d, a, t))

Stands(list, pos, c, n, t, push, o, s, d, a) ==
    IF push THEN c = CS_HEADER /\ Parsed(list, pos, o, t, s, d, a)
    ELSE IF c = CS_HEADER THEN Between(list, pos, t, s, d, a)
    ELSE c \in States /\ Inside(list, pos, c, n, t, s, d, a)

Progress(list, given, begun, pos, c, n, st, t, push, o) ==
    \E s \in [Places -> Seq(Packings)], d \in [Places -> Nat], a \in [Places -> Lists(Byte)] :
        /\ Levels(list, given, t, st, s, d, a)
        /\ At(list, begun, CellsFrom(list, d[0] + 1))
        /\ Stands(list, pos, c, n, t, push, o, s, d, a)

LEMMA GoalIs ==
    ASSUME NEW s \in [Places -> Seq(Packings)], NEW d \in [Places -> Nat], NEW t \in Places,
           d[t] < Len(s[t])
    PROVE  /\ s[t] \in Seq(Packings) /\ d[t] \in Nat
           /\ d[t] + 1 \in 1..Len(s[t]) /\ d[t] + 2 \in 1..(Len(s[t]) + 1)
           /\ Goal(s, d, t) \in Packings /\ WellPacked(Goal(s, d, t))
           /\ Goal(s, d, t).parts \in Seq(Packings)
<1>1. s[t] \in Seq(Packings) /\ d[t] \in Nat /\ Len(s[t]) \in Nat
  OBVIOUS
<1>2. d[t] + 1 \in 1..Len(s[t]) /\ d[t] + 2 \in 1..(Len(s[t]) + 1)
  BY <1>1
<1> DEFINE list == s[t]
           j == d[t] + 1
<1> HIDE DEF list, j
<1>3. list \in Seq(Packings) /\ j \in 1..Len(list)
  BY <1>1, <1>2 DEF list, j
<1>4. list[j] \in Packings /\ WellPacked(list[j]) /\ list[j].parts \in Seq(Packings)
  BY <1>3, PackingIs
<1> QED BY <1>1, <1>2, <1>4 DEF Goal, list, j

LEMMA LaterType ==
    ASSUME NEW s \in [Places -> Seq(Packings)], NEW d \in [Places -> Nat],
           NEW a \in [Places -> Lists(Byte)], NEW t \in Places, d[t] < Len(s[t])
    PROVE  Later(s, d, a, t) \in Lists(Byte)
<1>1. CellsFrom(s[t], d[t] + 2) \in Lists(Byte)
  BY GoalIs, CellsFromType
<1>2. a[t] \in Lists(Byte)
  OBVIOUS
<1> QED BY <1>1, <1>2, FlattenTwo DEF Later

Put(st, i, f) == [st EXCEPT ![i] = f]

\* There is one more level, for the goal of the last, and it is at its beginning.
OneMore(list, given, t, st1, s, d, a) ==
    \E s1 \in [Places -> Seq(Packings)], d1 \in [Places -> Nat], a1 \in [Places -> Lists(Byte)] :
        /\ d1[0] = d[0] /\ Levels(list, given, t + 1, st1, s1, d1, a1)
        /\ s1[t + 1] = Goal(s, d, t).parts /\ d1[t + 1] = 0
        /\ a1[t + 1] = Later(s, d, a, t)

\* A container is begun: one more level.
LEMMA LevelAdded ==
    ASSUME NEW list, NEW given, NEW t, NEW st, NEW count, count \in Nat \ {0},
           NEW s \in [Places -> Seq(Packings)], NEW d \in [Places -> Nat],
           NEW a \in [Places -> Lists(Byte)],
           Levels(list, given, t, st, s, d, a), t < StackSize, d[t] < Len(s[t]),
           Nests(Goal(s, d, t).value), count = CountOf(Goal(s, d, t).value),
           NEW st1, st1 = Put(st, t + 1, Frame(Goal(s, d, t).value.type, count))
    PROVE  OneMore(list, given, t, st1, s, d, a)
<1> DEFINE k == Goal(s, d, t)
           s1 == [s EXCEPT ![t + 1] = Goal(s, d, t).parts]
           d1 == [d EXCEPT ![t + 1] = 0]
           a1 == [a EXCEPT ![t + 1] = Later(s, d, a, t)]
<1>0. StackSize \in Nat /\ t \in Places /\ t \in Nat /\ t + 1 \in Places /\ t + 1 \in 1..StackSize /\ 0 \in Places
      /\ t + 1 # 0
  BY ParserAssumption DEF Levels, Places
<1>1. k \in Packings /\ WellPacked(k) /\ k.parts \in Seq(Packings)
  BY <1>0, GoalIs
<1>2. Later(s, d, a, t) \in Lists(Byte)
  BY <1>0, LaterType
<1>3. /\ k.value.type = "array" => count = Len(k.parts)
      /\ k.value.type = "map" => Len(k.parts) = 2 * count
      /\ Len(k.parts) \in Nat /\ k.value.type \in {"array", "map"}
  <2>1. Nests(k.value) /\ count = CountOf(k.value)
    OBVIOUS
  <2> HIDE DEF k
  <2>2. IsObject(k.value) /\ IsMadeOf(k.value, k.parts)
    BY <1>1 DEF WellPacked
  <2>3. /\ k.value.type = "array" => CountOf(k.value) = Len(k.parts)
        /\ k.value.type = "map" => Len(k.parts) = 2 * CountOf(k.value)
    BY <1>1, <2>1, <2>2, CountIs
  <2> QED BY <1>1, <2>1, <2>3 DEF Nests
<1>4. FrameIs(Frame(k.value.type, count), k.value.type, k.parts, 0) /\ 0 < Len(k.parts)
  <2> DEFINE parts == k.parts
             kind == k.value.type
  <2>1. \/ kind = "array" /\ Len(parts) = count
        \/ kind = "map" /\ Len(parts) = 2 * count
    BY <1>3
  <2>2. 0 < Len(parts)
    BY <2>1
  <2> HIDE DEF parts, kind
  <2>3. FrameIs(Frame(kind, count), kind, parts, 0)
    BY <2>1, FrameStarts
  <2> QED BY <2>2, <2>3 DEF parts, kind
<1>5. /\ s1 \in [Places -> Seq(Packings)] /\ s1[t + 1] = k.parts
      /\ \A i \in Places : i # t + 1 => s1[i] = s[i]
  BY <1>0, <1>1
<1>6. /\ d1 \in [Places -> Nat] /\ d1[t + 1] = 0
      /\ \A i \in Places : i # t + 1 => d1[i] = d[i]
  BY <1>0
<1>7. /\ a1 \in [Places -> Lists(Byte)] /\ a1[t + 1] = Later(s, d, a, t)
      /\ \A i \in Places : i # t + 1 => a1[i] = a[i]
  BY <1>0, <1>2
<1>8. /\ DOMAIN st1 = 1..StackSize /\ st1[t + 1] = Frame(k.value.type, count)
      /\ \A i \in 1..StackSize : i # t + 1 => st1[i] = st[i]
  BY <1>0 DEF Levels, Put
<1> HIDE DEF s1, d1, a1
<1>9. Goal(s1, d1, t) = k /\ Later(s1, d1, a1, t) = Later(s, d, a, t)
  <2>1. t # t + 1 /\ s1[t] = s[t] /\ d1[t] = d[t] /\ a1[t] = a[t]
    <3>1. t # t + 1
      BY <1>0
    <3> QED BY <1>0, <1>5, <1>6, <1>7, <3>1
  <2> QED BY <2>1 DEF Goal, Later
<1>10. ASSUME NEW i \in 1..t PROVE Nested(st1, s1, d1, a1, i)
  <2>1. /\ i \in Places /\ i - 1 \in Places /\ i # t + 1 /\ i - 1 # t + 1 /\ i \in 1..StackSize
    BY <1>0 DEF Places
  <2>2. Nested(st, s, d, a, i)
    BY DEF Levels
  <2>3. /\ s1[i] = s[i] /\ s1[i - 1] = s[i - 1] /\ d1[i] = d[i] /\ d1[i - 1] = d[i - 1]
        /\ a1[i] = a[i] /\ a1[i - 1] = a[i - 1] /\ st1[i] = st[i]
    BY <1>5, <1>6, <1>7, <1>8, <2>1
  <2>4. Goal(s1, d1, i - 1) = Goal(s, d, i - 1) /\ Later(s1, d1, a1, i - 1) = Later(s, d, a, i - 1)
    BY <2>3, Zenon DEF Goal, Later
  <2> HIDE DEF k
  <2> QED BY <2>2, <2>3, <2>4 DEF Nested
<1> HIDE DEF k
<1>11. Nested(st1, s1, d1, a1, t + 1)
  <2>1. (t + 1) - 1 = t /\ s1[t] = s[t] /\ d1[t] = d[t] /\ 1..0 = {}
    BY <1>0, <1>5, <1>6
  <2>2. s1[t + 1] = Goal(s1, d1, t).parts /\ Nests(Goal(s1, d1, t).value)
    BY <1>5, <1>9 DEF k
  <2>3. FrameIs(st1[t + 1], Goal(s1, d1, t).value.type, s1[t + 1], d1[t + 1])
    BY <1>4, <1>5, <1>6, <1>8, <1>9
  <2> QED BY <1>4, <1>5, <1>6, <1>7, <1>9, <2>1, <2>2, <2>3 DEF Nested
<1>12. \A i \in 1..(t + 1) : Nested(st1, s1, d1, a1, i)
  <2>1. \A i \in 1..(t + 1) : i \in 1..t \/ i = t + 1
    BY <1>0
  <2> QED BY <1>10, <1>11, <2>1
<1>13. s1[0] = list /\ a1[0] = <<>> /\ Given(list, given, d1[0]) /\ d1[0] = d[0]
  BY <1>0, <1>5, <1>6, <1>7 DEF Levels
<1>14. Levels(list, given, t + 1, st1, s1, d1, a1)
  BY <1>0, <1>5, <1>6, <1>7, <1>8, <1>12, <1>13 DEF Levels
<1> SUFFICES \E x \in [Places -> Seq(Packings)], y \in [Places -> Nat], z \in [Places -> Lists(Byte)] :
        /\ y[0] = d[0] /\ Levels(list, given, t + 1, st1, x, y, z)
        /\ x[t + 1] = Goal(s, d, t).parts /\ y[t + 1] = 0
        /\ z[t + 1] = Later(s, d, a, t)
  BY DEF OneMore
<1> USE <1>5, <1>6, <1>7
<1> WITNESS s1 \in [Places -> Seq(Packings)], d1 \in [Places -> Nat], a1 \in [Places -> Lists(Byte)]
<1> QED BY <1>5, <1>6, <1>7, <1>13, <1>14 DEF k

\* The goal of the last level is parsed: there is one level less if it was the last
\* part of its container, and one more part is parsed otherwise.
Onwards(list, given, t, f, st1, s, d, a) ==
    IF f.count = 0
    THEN /\ Levels(list, given, t - 1, st1, s, d, a)
         /\ d[t - 1] < Len(s[t - 1])
         /\ Complete(f) = Goal(s, d, t - 1).value
         /\ Goal(s, d, t - 1).needs <= StackSize - (t - 1)
         /\ Later(s, d, a, t) = Later(s, d, a, t - 1)
    ELSE \E d1 \in [Places -> Nat] :
             /\ d1[0] = d[0] /\ d1[t] = d[t] + 1
             /\ Levels(list, given, t, st1, s, d1, a)

\* One more part of a container, which may be the last.
LEMMA LevelFilled ==
    ASSUME NEW list, NEW given, NEW t, NEW st, t # 0,
           NEW s \in [Places -> Seq(Packings)], NEW d \in [Places -> Nat],
           NEW a \in [Places -> Lists(Byte)],
           Levels(list, given, t, st, s, d, a), Goal(s, d, t).needs <= StackSize - t,
           NEW f, f = Filled(st[t], Goal(s, d, t).value),
           NEW st1, st1 = Put(st, t, f)
    PROVE  Onwards(list, given, t, f, st1, s, d, a)
<1> DEFINE k == Goal(s, d, t - 1)
           d1 == [d EXCEPT ![t] = d[t] + 1]
           parts == s[t]
           n == d[t]
           kind == k.value.type
<1>0. /\ StackSize \in Nat /\ t \in Places /\ t \in Nat /\ t - 1 \in Places /\ t \in 1..StackSize
      /\ 0 \in Places /\ t \in 1..t
  BY ParserAssumption DEF Levels, Places
<1>1. Nested(st, s, d, a, t)
  BY <1>0 DEF Levels
<1>2. /\ d[t - 1] < Len(s[t - 1]) /\ n < Len(parts) /\ Nests(k.value) /\ parts = k.parts
      /\ FrameIs(st[t], kind, parts, n) /\ a[t] = Later(s, d, a, t - 1)
      /\ \A j \in 1..n : parts[j].needs <= StackSize - t
  BY <1>1 DEF Nested
<1>3. k \in Packings /\ WellPacked(k)
  BY <1>0, <1>2, GoalIs
<1>4. /\ parts \in Seq(Packings) /\ n \in Nat /\ Len(parts) \in Nat
      /\ parts[n + 1] = Goal(s, d, t)
  BY <1>0 DEF Goal
<1>5. FrameIs(f, kind, parts, n + 1) /\ (f.count = 0 <=> n + 1 = Len(parts))
  <2>1. f = Filled(st[t], parts[n + 1].value)
    BY <1>4
  <2> HIDE DEF parts, n, kind, k
  <2> QED BY <1>2, <1>4, <2>1, FrameFilled
<1>6. \A j \in 1..(n + 1) : parts[j].needs <= StackSize - t
  <2>1. \A j \in 1..(n + 1) : j \in 1..n \/ j = n + 1
    BY <1>4
  <2> QED BY <1>2, <1>4, <2>1
<1>7. /\ DOMAIN st1 = 1..StackSize /\ st1[t] = f
      /\ \A i \in 1..StackSize : i # t => st1[i] = st[i]
  BY <1>0 DEF Levels, Put
<1>d. d1 = [d EXCEPT ![t] = d[t] + 1]
  OBVIOUS
<1> HIDE DEF d1
<1>8. ASSUME f.count # 0
      PROVE  /\ d1 \in [Places -> Nat] /\ d1[0] = d[0] /\ d1[t] = d[t] + 1
             /\ Levels(list, given, t, st1, s, d1, a)
  <2>1. /\ d1 \in [Places -> Nat] /\ d1[t] = d[t] + 1
        /\ \A i \in Places : i # t => d1[i] = d[i]
    BY <1>0, <1>d, SMTT(60)
  <2>2. ASSUME NEW i \in 1..t, i # t PROVE Nested(st1, s, d1, a, i)
    <3>1. i \in Places /\ i - 1 \in Places /\ i - 1 # t /\ i \in 1..StackSize
      BY <1>0, <2>2 DEF Places
    <3>2. Nested(st, s, d, a, i)
      BY DEF Levels
    <3>3. d1[i] = d[i] /\ d1[i - 1] = d[i - 1] /\ st1[i] = st[i]
      BY <1>7, <2>1, <2>2, <3>1
    <3> QED BY <3>2, <3>3 DEF Nested, Goal, Later
  <2>3. Nested(st1, s, d1, a, t)
    <3>1. t - 1 # t /\ d1[t - 1] = d[t - 1]
      BY <1>0, <2>1
    <3>2. Goal(s, d1, t - 1) = k /\ Later(s, d1, a, t - 1) = Later(s, d, a, t - 1)
      BY <3>1 DEF Goal, Later
    <3>3. d1[t] = n + 1 /\ n + 1 < Len(parts)
      BY <1>2, <1>4, <1>5, <1>8, <2>1
    <3> HIDE DEF k, parts, n
    <3> QED BY <1>2, <1>5, <1>6, <1>7, <3>1, <3>2, <3>3 DEF Nested, parts
  <2>4. d1[0] = d[0] /\ Given(list, given, d1[0])
    BY <1>0, <2>1 DEF Levels
  <2> QED BY <1>0, <1>7, <2>1, <2>2, <2>3, <2>4 DEF Levels
<1>9. ASSUME f.count = 0
      PROVE  /\ Levels(list, given, t - 1, st1, s, d, a)
             /\ d[t - 1] < Len(s[t - 1])
             /\ Complete(f) = k.value
             /\ k.needs <= StackSize - (t - 1)
             /\ Later(s, d, a, t) = Later(s, d, a, t - 1)
  <2>1. n + 1 = Len(parts)
    BY <1>5, <1>9
  <2>2. Levels(list, given, t - 1, st1, s, d, a)
    <3>1. ASSUME NEW i \in 1..(t - 1) PROVE Nested(st1, s, d, a, i)
      <4>1. i \in 1..t /\ i # t /\ i \in 1..StackSize
        BY <1>0
      <4>2. Nested(st, s, d, a, i) /\ st1[i] = st[i]
        BY <1>7, <4>1 DEF Levels
      <4> QED BY <4>2 DEF Nested
    <3> QED BY <1>0, <1>7, <3>1 DEF Levels
  <2>3. Complete(f) = k.value
    <3>1. IsMadeOf(k.value, parts)
      BY <1>2, <1>3 DEF WellPacked
    <3> HIDE DEF k, parts, n
    <3> QED BY <1>2, <1>4, <1>5, <2>1, <3>1, FrameCompletes
  <2>4. k.needs <= StackSize - (t - 1)
    <3>1. k.needs \in {1} \cup {parts[i].needs + 1 : i \in 1..Len(parts)}
      BY <1>2, <1>3 DEF WellPacked, PlacesOf
    <3>a. /\ 1 <= StackSize - (t - 1)
          /\ \A x \in Nat : x <= StackSize - t => x + 1 <= StackSize - (t - 1)
      <4>1. StackSize \in Nat /\ t \in Nat /\ t <= StackSize
        BY <1>0
      <4> QED BY <4>1
    <3> HIDE DEF k, parts
    <3>2. CASE k.needs = 1
      BY <3>2, <3>a
    <3>3. CASE k.needs # 1
      <4>1. PICK i \in 1..Len(parts) : k.needs = parts[i].needs + 1
        BY <3>1, <3>3
      <4>2. parts[i].needs <= StackSize - t /\ parts[i].needs \in Nat
        BY <1>4, <1>6, <2>1, PackingIs
      <4> QED BY <3>a, <4>1, <4>2
    <3> QED BY <3>2, <3>3
  <2>5. Later(s, d, a, t) = Later(s, d, a, t - 1)
    <3>1. d[t] + 2 = Len(parts) + 1
      BY <1>4, <2>1
    <3>2. CellsFrom(parts, Len(parts) + 1) = <<>>
      BY <1>4, CellsFromEnd
    <3>3. a[t] \in Seq(Seq(Byte))
      BY <1>0 DEF Lists
    <3>4. <<>> \o a[t] = a[t]
      BY <3>3, ConcatEmptySeq
    <3> QED BY <1>2, <3>1, <3>2, <3>4 DEF Later
  <2> QED BY <1>2, <2>2, <2>3, <2>4, <2>5
<1> HIDE DEF k
<1> QED BY <1>8, <1>9 DEF Onwards, k

-----------------------------------------------------------------------------
(* The steps of a parse                                                    *)

\* What the cell m does: the step from st and t to the rest.
Took(m, st, t, c1, n1, st1, t1, push1, o1) ==
    \/ /\ \/ m.is = "value" /\ o1 = m.obj
          \/ m.is = "again" /\ m.trail = 0 /\ o1 = Raw(<<>>)
          \/ m.is = "container" /\ t < StackSize /\ m.count = 0 /\ o1 = Empty(m.kind)
       /\ push1 = TRUE /\ c1 = CS_HEADER /\ st1 = st /\ t1 = t
    \/ /\ m.is = "again" /\ m.trail # 0
       /\ push1 = FALSE /\ c1 = m.cs /\ n1 = m.trail /\ st1 = st /\ t1 = t
    \/ /\ m.is = "container" /\ t < StackSize /\ m.count # 0
       /\ push1 = FALSE /\ c1 = CS_HEADER
       /\ st1 = Put(st, t + 1, Frame(m.kind, m.count)) /\ t1 = t + 1

\* The last cell of an object, or of the head of a container.
LEMMA Landed ==
    ASSUME NEW list \in Seq(Packings), NEW given, NEW begun, NEW pos, NEW t, NEW st,
           NEW s \in [Places -> Seq(Packings)], NEW d \in [Places -> Nat],
           NEW a \in [Places -> Lists(Byte)],
           Levels(list, given, t, st, s, d, a), At(list, begun, CellsFrom(list, d[0] + 1)),
           d[t] < Len(s[t]), NEW m, Ending(Goal(s, d, t).value, m),
           At(list, pos, CellsOf(Goal(s, d, t).parts) \o Later(s, d, a, t)),
           NEW c1, NEW n1, NEW st1, NEW t1, NEW push1, NEW o1,
           Took(m, st, t, c1, n1, st1, t1, push1, o1)
    PROVE  Progress(list, given, begun, pos, c1, n1, st1, t1, push1, o1)
<1> DEFINE k == Goal(s, d, t)
           o == k.value
<1>0. /\ StackSize \in Nat /\ t \in Places /\ t \in Nat /\ t <= StackSize
  BY ParserAssumption DEF Levels, Places
<1>1. k \in Packings /\ WellPacked(k) /\ k.parts \in Seq(Packings)
  BY <1>0, GoalIs
<1>2. Later(s, d, a, t) \in Lists(Byte)
  BY <1>0, LaterType
<1>p. ASSUME k.parts = <<>> PROVE At(list, pos, Later(s, d, a, t))
  <2>1. CellsOf(k.parts) = <<>>
    BY <1>1, <1>p, CellsType
  <2> QED BY <1>2, <2>1, NothingBefore
<1>d. ASSUME push1 = TRUE, c1 = CS_HEADER, st1 = st, t1 = t, o1 = o, k.parts = <<>>,
             k.needs <= StackSize - t
      PROVE  Progress(list, given, begun, pos, c1, n1, st1, t1, push1, o1)
  <2>1. Parsed(list, pos, o1, t1, s, d, a)
    BY <1>d, <1>p DEF Parsed
  <2> QED BY <1>d, <2>1 DEF Progress, Stands
<1>s. ASSUME ~Nests(o), o # NoObject PROVE k.parts = <<>> /\ k.needs <= StackSize - t
  <2>1. k.needs \in PlacesOf(k.value, k.parts) /\ IsMadeOf(k.value, k.parts)
    BY <1>1 DEF WellPacked
  <2>2. k.needs = 0
    BY <1>s, <2>1 DEF PlacesOf
  <2>3. k.parts = <<>>
    BY <1>s, <2>1 DEF IsMadeOf, Nests
  <2> QED BY <1>0, <2>2, <2>3
<1>3. CASE m = Value(o) /\ ~Nests(o) /\ o # NoObject
  <2>1. m.is = "value" /\ m.obj = o
    BY <1>3 DEF Value
  <2>2. push1 = TRUE /\ c1 = CS_HEADER /\ st1 = st /\ t1 = t /\ o1 = o
    BY <2>1 DEF Took
  <2> QED BY <1>3, <1>d, <1>s, <2>2
<1>4. CASE m.is = "again" /\ m.trail = 0 /\ o = Raw(<<>>)
  <2>1. push1 = TRUE /\ c1 = CS_HEADER /\ st1 = st /\ t1 = t /\ o1 = o
    BY <1>4 DEF Took
  <2>2. ~Nests(o) /\ o # NoObject
    BY <1>4 DEF Nests, NoObject, Raw
  <2> QED BY <1>d, <1>s, <2>1, <2>2
<1>5. CASE m = Container(o.type, CountOf(o)) /\ Nests(o)
  <2>0. IsObject(o) /\ IsMadeOf(o, k.parts) /\ k.needs \in PlacesOf(o, k.parts)
    BY <1>1 DEF WellPacked
  <2> DEFINE count == CountOf(o)
             parts == k.parts
  <2>1. /\ count \in Nat /\ o.type \in {"array", "map"}
        /\ o.type = "array" => count = Len(parts)
        /\ o.type = "map" => Len(parts) = 2 * count
    BY <1>1, <1>5, <2>0, CountIs DEF Nests
  <2>2. m.is = "container" /\ m.kind = o.type /\ m.count = count
    BY <1>5 DEF Container
  <2>3. t < StackSize
    BY <2>2 DEF Took
  <2>4. CASE count = 0
    <3>1. push1 = TRUE /\ c1 = CS_HEADER /\ st1 = st /\ t1 = t /\ o1 = Empty(o.type)
      BY <2>2, <2>4 DEF Took
    <3>2. Len(parts) = 0
      BY <2>1, <2>4
    <3>3. parts = <<>>
      BY <1>1, <3>2, EmptySeq
    <3>4. o = Empty(o.type)
      <4> HIDE DEF parts, o
      <4>1. CASE o.type = "array"
        <5>1. o = Array(Items(parts, 0))
          BY <2>0, <3>2, <4>1 DEF IsMadeOf, Items, parts
        <5> QED BY <4>1, <5>1, OneMoreItem DEF Empty
      <4>2. CASE o.type = "map"
        <5>1. 0 \div 2 = 0
          OBVIOUS
        <5>2. o = Map(Pairs(parts, 0))
          BY <2>0, <3>2, <4>2, <5>1 DEF IsMadeOf, Pairs, parts
        <5> QED BY <4>2, <5>2, OneMoreItem DEF Empty
      <4> QED BY <2>1, <4>1, <4>2
    <3>5. k.needs = 1
      <4>1. {parts[i].needs + 1 : i \in 1..Len(parts)} = {}
        BY <3>2
      <4> QED BY <1>5, <2>0, <4>1 DEF PlacesOf
    <3>6. k.needs <= StackSize - t
      BY <1>0, <2>3, <3>5
    <3> QED BY <1>d, <3>1, <3>3, <3>4, <3>6
  <2>5. CASE count # 0
    <3>1. /\ push1 = FALSE /\ c1 = CS_HEADER /\ t1 = t + 1
          /\ st1 = Put(st, t + 1, Frame(o.type, count))
      BY <2>2, <2>5 DEF Took
    <3>2. count \in Nat \ {0} /\ count = CountOf(o) /\ Nests(o)
      BY <1>5, <2>1, <2>5
    <3> HIDE DEF count
    <3>3. PICK s1 \in [Places -> Seq(Packings)], d1 \in [Places -> Nat],
               a1 \in [Places -> Lists(Byte)] :
              /\ d1[0] = d[0] /\ Levels(list, given, t + 1, st1, s1, d1, a1)
              /\ s1[t + 1] = k.parts /\ d1[t + 1] = 0 /\ a1[t + 1] = Later(s, d, a, t)
      <4>1. st1 = Put(st, t + 1, Frame(Goal(s, d, t).value.type, count))
        BY <3>1
      <4>2. count = CountOf(Goal(s, d, t).value) /\ Nests(Goal(s, d, t).value)
        BY <3>2
      <4> HIDE DEF k, o, parts
      <4>3. OneMore(list, given, t, st1, s, d, a)
        BY <2>3, <3>2, <4>1, <4>2, LevelAdded
      <4> QED BY <4>3 DEF OneMore, k
    <3>4. CellsFrom(s1[t + 1], d1[t + 1] + 1) = CellsOf(parts)
      <4>1. 0 + 1 = 1
        OBVIOUS
      <4> QED BY <1>1, <3>3, <4>1, CellsFromFirst
    <3>5. Between(list, pos, t1, s1, d1, a1)
      BY <3>1, <3>3, <3>4 DEF Between
    <3> QED BY <3>1, <3>3, <3>5 DEF Progress, Stands
  <2> QED BY <2>4, <2>5
<1>6. CASE m = Refused
  BY <1>6 DEF Took, Refused
<1> HIDE DEF k, o
<1> QED BY <1>3, <1>4, <1>5, <1>6 DEF Ending, k, o

\* The cell is a header.
LEMMA HeaderTaken ==
    ASSUME NEW list \in Seq(Packings), NEW given, NEW begun, NEW pos, NEW n, NEW t, NEW st, NEW o,
           Progress(list, given, begun, pos, CS_HEADER, n, st, t, FALSE, o),
           pos < Len(BytesOf(list)),
           NEW c1, NEW n1, NEW st1, NEW t1, NEW push1, NEW o1,
           Took(HeaderCell(BytesOf(list)[pos + 1]), st, t, c1, n1, st1, t1, push1, o1)
    PROVE  Progress(list, given, begun, pos + 1, c1, n1, st1, t1, push1, o1)
<1>1. PICK s \in [Places -> Seq(Packings)], d \in [Places -> Nat], a \in [Places -> Lists(Byte)] :
          /\ Levels(list, given, t, st, s, d, a)
          /\ At(list, begun, CellsFrom(list, d[0] + 1))
          /\ Between(list, pos, t, s, d, a)
  BY DEF Progress, Stands
<1> DEFINE k == Goal(s, d, t)
           P == CellsOf(k.parts)
           L == Later(s, d, a, t)
<1>0. /\ StackSize \in Nat /\ t \in Places /\ t \in Nat /\ t <= StackSize /\ 0 \in Places
      /\ s[t] \in Seq(Packings) /\ Len(s[t]) \in Nat /\ d[t] \in Nat
      /\ a[t] \in Lists(Byte)
  BY <1>1, ParserAssumption DEF Levels, Places
<1>2. d[t] < Len(s[t])
  <2>1. CASE t # 0
    <3>1. t \in 1..t
      BY <1>0, <2>1
    <3> QED BY <1>1, <3>1 DEF Levels, Nested
  <2>2. CASE t = 0 /\ ~(d[t] < Len(s[t]))
    <3>1. s[0] = list /\ a[0] = <<>> /\ d[0] = Len(list)
      BY <1>0, <1>1, <2>2 DEF Levels, Given
    <3>2. CellsFrom(list, Len(list) + 1) = <<>>
      BY CellsFromEnd
    <3>3. At(list, pos, <<>> \o <<>>)
      BY <1>1, <2>2, <3>1, <3>2 DEF Between
    <3>4. <<>> \o <<>> = <<>>
      OBVIOUS
    <3>5. pos = Len(BytesOf(list)) /\ pos \in Nat
      BY <3>3, <3>4, AtEnd
    <3> QED BY <3>5
  <2> QED BY <2>1, <2>2
<1>3. /\ k \in Packings /\ WellPacked(k) /\ k.parts \in Seq(Packings)
      /\ d[t] + 1 \in 1..Len(s[t]) /\ d[t] + 2 \in 1..(Len(s[t]) + 1)
  BY <1>0, <1>2, GoalIs
<1>4. P \in Lists(Byte) /\ L \in Lists(Byte)
  BY <1>0, <1>2, <1>3, CellsType, LaterType
<1>5. CellsFrom(s[t], d[t] + 1) \o a[t] = k.cells \o L
  <2> DEFINE x == CellsFrom(s[t], d[t] + 2)
  <2>1. (d[t] + 1) + 1 = d[t] + 2
    BY <1>0
  <2>2. CellsFrom(s[t], d[t] + 1) = k.cells \o x
    BY <1>0, <1>3, <2>1, CellsFromNext DEF Goal
  <2>3. k.cells \in Lists(Byte) /\ x \in Lists(Byte)
    BY <1>0, <1>3, CellsFromType DEF WellPacked, Lists
  <2>4. (k.cells \o x) \o a[t] = k.cells \o (x \o a[t])
    <3> DEFINE y == k.cells
               z == a[t]
    <3>1. x \in Lists(Byte) /\ y \in Lists(Byte) /\ z \in Lists(Byte)
      BY <1>0, <2>3
    <3> HIDE DEF x, y, z
    <3>2. Cat(Cat(y, x), z) = Cat(y, Cat(x, z))
      BY <3>1, CatLists
    <3> QED BY <3>2, Zenon DEF y, z, Cat
  <2> QED BY <2>2, <2>4 DEF Later, x
<1>6. PICK code \in Byte, cells \in Seq(Seq(Byte)) :
        /\ HeadCells(k.head) \o Body(k.value) = <<<<code>>>> \o cells
        /\ Starts(k.value, HeaderCell(code), cells)
  <2> HIDE DEF k
  <2>1. Reading(k.value, k.head)
    BY <1>3, HeadsRead DEF WellPacked
  <2> QED BY <2>1 DEF Reading
<1> DEFINE one == <<code>>
<1>7. one \in Seq(Byte) /\ one # <<>> /\ Len(one) = 1 /\ one[1] = code /\ cells \in Lists(Byte)
      /\ <<one>> \in Lists(Byte)
  BY DEF Lists
<1>8. k.cells \o L = <<one>> \o (cells \o (P \o L))
  <2>1. k.cells = (<<one>> \o cells) \o P
    BY <1>3, <1>6 DEF WellPacked
  <2> DEFINE first == <<one>>
  <2>2. first \in Lists(Byte) /\ cells \in Lists(Byte) /\ P \in Lists(Byte) /\ L \in Lists(Byte)
    BY <1>4, <1>7
  <2>3. k.cells \o L = ((first \o cells) \o P) \o L
    BY <2>1
  <2> HIDE DEF k, P, L, one, first
  <2>4. Cat(Cat(Cat(first, cells), P), L) = Cat(first, Cat(cells, Cat(P, L)))
    BY <2>2, Regrouped
  <2> QED BY <2>3, <2>4, Zenon DEF first, Cat
<1>9. At(list, pos, <<one>> \o (cells \o (P \o L)))
  BY <1>1, <1>5, <1>8 DEF Between
<1>10. /\ BytesOf(list)[pos + 1] = code
       /\ At(list, pos + 1, cells \o (P \o L))
  <2> DEFINE rest == cells \o (P \o L)
  <2> HIDE DEF k, P, L, one
  <2>1. rest \in Lists(Byte)
    BY <1>4, <1>7, FlattenTwo
  <2> HIDE DEF rest
  <2>2. At(list, pos, <<one>> \o rest)
    BY <1>9 DEF rest
  <2>3. BytesOf(list)[pos + 1] = one[1] /\ At(list, pos + Len(one), rest)
    BY <1>7, <2>1, <2>2, AtCell
  <2> QED BY <1>7, <2>3 DEF rest
<1> DEFINE m == HeaderCell(code)
<1>11. Took(m, st, t, c1, n1, st1, t1, push1, o1)
  BY <1>10
<1> HIDE DEF m
<1>12. CASE cells = <<>> /\ Ending(k.value, m)
  <2>1. cells \o (P \o L) = P \o L
    <3> HIDE DEF P, L
    <3>1. P \o L \in Lists(Byte)
      BY <1>4, FlattenTwo
    <3> QED BY <1>12, <3>1, NothingBefore
  <2>2. At(list, pos + 1, P \o L)
    BY <1>10, <2>1
  <2> QED BY <1>1, <1>2, <1>11, <1>12, <2>2, Landed
<1>13. CASE /\ cells # <<>> /\ cells[1] # <<>>
            /\ \E c \in States \ {CS_HEADER} :
                  m = Again(c, Len(cells[1])) /\ Continues(k.value, c, cells)
  <2>1. PICK c \in States \ {CS_HEADER} :
                  m = Again(c, Len(cells[1])) /\ Continues(k.value, c, cells)
    BY <1>13
  <2>2. m.is = "again" /\ m.cs = c /\ m.trail = Len(cells[1])
    BY <2>1 DEF Again
  <2>3. Len(cells[1]) # 0
    <3>1. cells[1] \in Seq(Byte)
      BY <1>13
    <3> QED BY <1>13, <3>1, EmptySeq
  <2>4. push1 = FALSE /\ c1 = c /\ n1 = Len(cells[1]) /\ st1 = st /\ t1 = t
    BY <1>11, <2>2, <2>3 DEF Took
  <2>5. Inside(list, pos + 1, c1, n1, t1, s, d, a)
    BY <1>2, <1>7, <1>10, <1>13, <2>1, <2>4 DEF Inside
  <2>6. Stands(list, pos + 1, c1, n1, t1, push1, o1, s, d, a)
    BY <2>1, <2>4, <2>5 DEF Stands
  <2> QED BY <1>1, <2>4, <2>6 DEF Progress
<1> QED BY <1>6, <1>12, <1>13 DEF Starts, m

\* The cell is what follows a header.
LEMMA TrailTaken ==
    ASSUME NEW list \in Seq(Packings), NEW given, NEW begun, NEW pos, NEW c, c # CS_HEADER,
           NEW n, NEW t, NEW st, NEW o,
           Progress(list, given, begun, pos, c, n, st, t, FALSE, o),
           NEW c1, NEW n1, NEW st1, NEW t1, NEW push1, NEW o1,
           Took(TrailCell(c, SubSeq(BytesOf(list), pos + 1, pos + n)), st, t,
                c1, n1, st1, t1, push1, o1)
    PROVE  Progress(list, given, begun, pos + n, c1, n1, st1, t1, push1, o1)
<1>1. PICK s \in [Places -> Seq(Packings)], d \in [Places -> Nat], a \in [Places -> Lists(Byte)] :
          /\ Levels(list, given, t, st, s, d, a)
          /\ At(list, begun, CellsFrom(list, d[0] + 1))
          /\ Inside(list, pos, c, n, t, s, d, a)
  BY DEF Progress, Stands
<1> DEFINE k == Goal(s, d, t)
           P == CellsOf(k.parts)
           L == Later(s, d, a, t)
           R == P \o L
<1>0. t \in Places /\ d[t] < Len(s[t])
  BY <1>1 DEF Levels, Inside
<1>2. k \in Packings /\ WellPacked(k) /\ k.parts \in Seq(Packings)
  BY <1>0, GoalIs
<1>3. P \in Lists(Byte) /\ L \in Lists(Byte) /\ R \in Lists(Byte)
  <2>1. P \in Lists(Byte) /\ L \in Lists(Byte)
    BY <1>0, <1>2, CellsType, LaterType
  <2> HIDE DEF P, L
  <2> QED BY <2>1, FlattenTwo
<1>4. PICK cells \in Lists(Byte) :
          /\ cells # <<>> /\ cells[1] # <<>> /\ n = Len(cells[1])
          /\ Continues(k.value, c, cells)
          /\ At(list, pos, cells \o R)
  BY <1>1 DEF Inside
<1> HIDE DEF k, P, L
<1> DEFINE m == TrailCell(c, SubSeq(BytesOf(list), pos + 1, pos + n))
<1> HIDE DEF m
<1>5. CASE Len(cells) = 1 /\ Ending(k.value, TrailCell(c, cells[1]))
  <2> DEFINE x == cells[1]
  <2>1. x \in Seq(Byte) /\ cells = <<x>>
    BY <1>5, OneCell DEF Lists
  <2>2. At(list, pos, <<x>> \o R)
    BY <1>4, <2>1
  <2> HIDE DEF x, R
  <2>3. SubSeq(BytesOf(list), pos + 1, pos + Len(x)) = x /\ At(list, pos + Len(x), R)
    BY <1>3, <2>1, <2>2, AtCell
  <2>4. n = Len(x)
    BY <1>4 DEF x
  <2>5. m = TrailCell(c, x) /\ Ending(k.value, m)
    BY <1>5, <2>3, <2>4 DEF m, x
  <2>6. At(list, pos + n, P \o L)
    BY <2>3, <2>4 DEF R
  <2>7. Took(m, st, t, c1, n1, st1, t1, push1, o1)
    BY DEF m
  <2> QED BY <1>0, <1>1, <2>5, <2>6, <2>7, Landed DEF k, P, L
<1>6. CASE /\ Len(cells) = 2 /\ cells[2] # <<>>
           /\ TrailCell(c, cells[1]) = Again(ACS_RAW_VALUE, Len(cells[2]))
           /\ Ending(k.value, TrailCell(ACS_RAW_VALUE, cells[2]))
  <2> DEFINE x == cells[1]
             y == cells[2]
             one == <<y>>
  <2>1. x \in Seq(Byte) /\ y \in Seq(Byte) /\ cells = <<x, y>>
    BY <1>6, TwoCells DEF Lists
  <2>2. one \in Lists(Byte) /\ one # <<>> /\ Len(one) = 1 /\ one[1] = y /\ cells = <<x>> \o one
        /\ <<x>> \in Lists(Byte)
    BY <2>1 DEF Lists
  <2> HIDE DEF R
  <2>3. At(list, pos, <<x>> \o (one \o R))
    <3> DEFINE h == <<x>>
    <3>1. At(list, pos, Cat(Cat(h, one), R))
      BY <1>4, <2>2 DEF Cat
    <3>2. h \in Lists(Byte)
      BY <2>2
    <3> HIDE DEF h, one
    <3>3. Cat(Cat(h, one), R) = Cat(h, Cat(one, R))
      BY <1>3, <2>2, <3>2, CatLists
    <3> QED BY <3>1, <3>3, Zenon DEF Cat, h
  <2>4. one \o R \in Lists(Byte)
    <3> HIDE DEF one
    <3> QED BY <1>3, <2>2, FlattenTwo
  <2> DEFINE rest == one \o R
  <2>5. rest \in Lists(Byte) /\ At(list, pos, <<x>> \o rest)
    BY <2>3, <2>4
  <2> HIDE DEF x, rest
  <2>6. SubSeq(BytesOf(list), pos + 1, pos + Len(x)) = x /\ At(list, pos + Len(x), rest)
    BY <2>1, <2>5, AtCell
  <2>7. n = Len(x)
    BY <1>4 DEF x
  <2> HIDE DEF y
  <2>8. m = TrailCell(c, x) /\ m = Again(ACS_RAW_VALUE, Len(y)) /\ y # <<>>
    BY <1>6, <2>6, <2>7 DEF m, x, y
  <2>9. m.is = "again" /\ m.cs = ACS_RAW_VALUE /\ m.trail = Len(y) /\ Len(y) # 0
    <3>1. Len(y) # 0
      BY <2>1, <2>8, EmptySeq
    <3> QED BY <2>8, <3>1 DEF Again
  <2>10. push1 = FALSE /\ c1 = ACS_RAW_VALUE /\ n1 = Len(y) /\ st1 = st /\ t1 = t
    <3>1. Took(m, st, t, c1, n1, st1, t1, push1, o1)
      BY DEF m
    <3> QED BY <2>9, <3>1 DEF Took
  <2>11. Continues(k.value, c1, one)
    <3>1. Ending(k.value, TrailCell(ACS_RAW_VALUE, y))
      BY <1>6 DEF y
    <3> QED BY <2>2, <2>10, <3>1 DEF Continues
  <2>12. At(list, pos + n, one \o R)
    BY <2>6, <2>7 DEF rest
  <2> HIDE DEF one
  <2>13. Inside(list, pos + n, c1, n1, t1, s, d, a)
    <3>1. one # <<>> /\ one[1] # <<>> /\ n1 = Len(one[1]) /\ one \in Lists(Byte)
      BY <2>2, <2>8, <2>10
    <3> QED BY <1>0, <2>10, <2>11, <2>12, <3>1 DEF Inside, R, P, L, k
  <2>14. Stands(list, pos + n, c1, n1, t1, push1, o1, s, d, a)
    <3>1. c1 \in States /\ c1 # CS_HEADER
      BY <2>10 DEF ACS_RAW_VALUE, States, CS_HEADER
    <3> QED BY <2>10, <2>13, <3>1 DEF Stands
  <2> QED BY <1>1, <2>10, <2>14 DEF Progress
<1> QED BY <1>4, <1>5, <1>6 DEF Continues

\* An object goes into the innermost container, which may be complete then.
LEMMA Placed ==
    ASSUME NEW list \in Seq(Packings), NEW given, NEW begun, NEW pos, NEW c, NEW n, NEW t, t # 0,
           NEW st, NEW o, Progress(list, given, begun, pos, c, n, st, t, TRUE, o),
           NEW f, f = Filled(st[t], o), NEW st1, st1 = Put(st, t, f),
           NEW n1, NEW t1, NEW push1, NEW o1,
           IF f.count = 0 THEN o1 = Complete(f) /\ t1 = t - 1 /\ push1 = TRUE
           ELSE push1 = FALSE /\ t1 = t
    PROVE  Progress(list, given, begun, pos, c, n1, st1, t1, push1, o1)
<1>1. PICK s \in [Places -> Seq(Packings)], d \in [Places -> Nat], a \in [Places -> Lists(Byte)] :
          /\ Levels(list, given, t, st, s, d, a)
          /\ At(list, begun, CellsFrom(list, d[0] + 1))
          /\ c = CS_HEADER /\ Parsed(list, pos, o, t, s, d, a)
  BY DEF Progress, Stands
<1>2. /\ o = Goal(s, d, t).value /\ Goal(s, d, t).needs <= StackSize - t
      /\ At(list, pos, Later(s, d, a, t)) /\ d[t] < Len(s[t])
  BY <1>1 DEF Parsed
<1>3. f = Filled(st[t], Goal(s, d, t).value)
  BY <1>2
<1>5. Onwards(list, given, t, f, st1, s, d, a)
  BY <1>1, <1>2, <1>3, LevelFilled
<1>6. CASE f.count = 0
  <2>1. o1 = Complete(f) /\ t1 = t - 1 /\ push1 = TRUE
    BY <1>6
  <2>2. Parsed(list, pos, o1, t1, s, d, a)
    BY <1>2, <1>5, <1>6, <2>1 DEF Parsed, Onwards
  <2> QED BY <1>1, <1>5, <1>6, <2>1, <2>2 DEF Progress, Stands, Onwards
<1>7. CASE f.count # 0
  <2>1. push1 = FALSE /\ t1 = t
    BY <1>7
  <2>2. (d[t] + 1) + 1 = d[t] + 2
    <3>1. d[t] \in Nat
      BY <1>1 DEF Levels
    <3> QED BY <3>1
  <2>3. PICK d1 \in [Places -> Nat] : /\ d1[0] = d[0] /\ d1[t] = d[t] + 1
                                     /\ Levels(list, given, t, st1, s, d1, a)
    BY <1>5, <1>7 DEF Onwards
  <2>4. Between(list, pos, t1, s, d1, a)
    BY <1>2, <2>1, <2>2, <2>3 DEF Between, Later
  <2> QED BY <1>1, <2>1, <2>3, <2>4 DEF Progress, Stands
<1> QED BY <1>6, <1>7

\* A message is delivered.
LEMMA Handed ==
    ASSUME NEW list \in Seq(Packings), NEW given, NEW begun, NEW pos, NEW c, NEW n,
           NEW st, NEW o, Progress(list, given, begun, pos, c, n, st, 0, TRUE, o),
           NEW n1, NEW o1, NEW st1, DOMAIN st1 = 1..StackSize
    PROVE  Progress(list, Append(given, o), pos, pos, c, n1, st1, 0, FALSE, o1)
<1>1. PICK s \in [Places -> Seq(Packings)], d \in [Places -> Nat], a \in [Places -> Lists(Byte)] :
          /\ Levels(list, given, 0, st, s, d, a)
          /\ c = CS_HEADER /\ Parsed(list, pos, o, 0, s, d, a)
  BY DEF Progress, Stands
<1> DEFINE d1 == [d EXCEPT ![0] = d[0] + 1]
<1>2. 0 \in Places /\ d[0] \in Nat /\ s[0] = list /\ a[0] = <<>> /\ Given(list, given, d[0])
      /\ Len(list) \in Nat
  BY <1>1 DEF Levels
<1>3. /\ o = list[d[0] + 1].value /\ list[d[0] + 1].needs <= StackSize - 0
      /\ At(list, pos, Later(s, d, a, 0)) /\ d[0] < Len(list)
  BY <1>1, <1>2 DEF Parsed, Goal
<1>4. d1 \in [Places -> Nat] /\ d1[0] = d[0] + 1
  BY <1>2
<1> HIDE DEF d1
<1>5. Given(list, Append(given, o), d[0] + 1)
  <2>1. Append(given, o) = Items(list, d[0] + 1)
    BY <1>2, <1>3, OneMoreItem DEF Given
  <2>2. Parsable(list[d[0] + 1])
    BY <1>3, ParserAssumption DEF Parsable
  <2>3. \A j \in 1..(d[0] + 1) : j \in 1..d[0] \/ j = d[0] + 1
    BY <1>2
  <2> QED BY <1>2, <1>3, <2>1, <2>2, <2>3 DEF Given
<1>6. Levels(list, Append(given, o), 0, st1, s, d1, a)
  BY <1>1, <1>2, <1>4, <1>5 DEF Levels
<1>7. Later(s, d, a, 0) = CellsFrom(list, d1[0] + 1) \o <<>>
  <2>1. (d[0] + 1) + 1 = d[0] + 2
    BY <1>2
  <2> QED BY <1>2, <1>4, <2>1 DEF Later
<1>8. CellsFrom(list, d1[0] + 1) \in Lists(Byte)
  <2>1. d1[0] + 1 \in 1..(Len(list) + 1)
    BY <1>2, <1>3, <1>4
  <2> QED BY <2>1, CellsFromType
<1>9. At(list, pos, CellsFrom(list, d1[0] + 1))
  BY <1>3, <1>7, <1>8, NothingBefore
<1>10. Between(list, pos, 0, s, d1, a)
  BY <1>2, <1>3, <1>4, <1>7 DEF Between
<1> QED BY <1>1, <1>4, <1>6, <1>9, <1>10 DEF Progress, Stands

\* The parse begins the message again.
LEMMA Restarted ==
    ASSUME NEW list \in Seq(Packings), NEW given, NEW begun, NEW pos, NEW c, NEW n, NEW t,
           NEW st, NEW push, NEW o, Progress(list, given, begun, pos, c, n, st, t, push, o),
           NEW n1, NEW o1, NEW st1, DOMAIN st1 = 1..StackSize
    PROVE  Progress(list, given, begun, begun, CS_HEADER, n1, st1, 0, FALSE, o1)
<1>1. PICK s \in [Places -> Seq(Packings)], d \in [Places -> Nat], a \in [Places -> Lists(Byte)] :
          /\ Levels(list, given, t, st, s, d, a)
          /\ At(list, begun, CellsFrom(list, d[0] + 1))
  BY DEF Progress
<1>2. 0 \in Places /\ 1..0 = {}
  BY ParserAssumption DEF Places
<1>3. Levels(list, given, 0, st1, s, d, a)
  BY <1>1, <1>2 DEF Levels
<1>4. /\ s[0] = list /\ a[0] = <<>> /\ d[0] + 1 \in 1..(Len(list) + 1)
  <2>1. Len(list) \in Nat
    OBVIOUS
  <2> QED BY <1>1, <2>1 DEF Levels, Given
<1>5. Between(list, begun, 0, s, d, a)
  <2>1. CellsFrom(list, d[0] + 1) \in Lists(Byte)
    BY <1>4, CellsFromType
  <2>2. CellsFrom(list, d[0] + 1) \o <<>> = CellsFrom(list, d[0] + 1)
    BY <2>1, NothingBefore
  <2> QED BY <1>1, <1>4, <2>2 DEF Between
<1> QED BY <1>1, <1>3, <1>5 DEF Progress, Stands

\* A parse that begins.
LEMMA Began ==
    ASSUME NEW list \in Seq(Packings), NEW n, NEW st, DOMAIN st = 1..StackSize, NEW o
    PROVE  Progress(list, <<>>, 0, 0, CS_HEADER, n, st, 0, FALSE, o)
<1> DEFINE s == [i \in Places |-> list]
           d == [i \in Places |-> 0]
           a == [i \in Places |-> <<>>]
<1>1. 0 \in Places /\ 1..0 = {} /\ Len(list) \in Nat
  BY ParserAssumption DEF Places
<1>2. s \in [Places -> Seq(Packings)] /\ d \in [Places -> Nat] /\ s[0] = list /\ d[0] = 0
  BY <1>1
<1>3. <<>> \in Lists(Byte)
  BY DEF Lists
<1>4. a \in [Places -> Lists(Byte)] /\ a[0] = <<>>
  BY <1>1, <1>3
<1> HIDE DEF s, d, a
<1>5. Given(list, <<>>, d[0])
  BY <1>1, <1>2, OneMoreItem DEF Given
<1>6. Levels(list, <<>>, 0, st, s, d, a)
  BY <1>1, <1>2, <1>4, <1>5 DEF Levels
<1>7. At(list, 0, CellsFrom(list, d[0] + 1))
  <2>1. 0 + 1 = 1
    OBVIOUS
  <2> QED BY <1>2, <2>1, AtStart
<1>8. Between(list, 0, 0, s, d, a)
  <2>1. 0 + 1 = 1 /\ 1 \in 1..(Len(list) + 1)
    BY <1>1
  <2>2. CellsFrom(list, 1) \in Lists(Byte)
    BY <2>1, CellsFromType
  <2>3. CellsFrom(list, 1) \o <<>> = CellsFrom(list, 1)
    BY <2>2, NothingBefore
  <2> QED BY <1>2, <1>4, <1>7, <2>1, <2>3 DEF Between
<1> QED BY <1>2, <1>4, <1>6, <1>7, <1>8 DEF Progress, Stands

-----------------------------------------------------------------------------
(* The parser makes those steps                                            *)

List == Contents[stream]

\* Where the promise is in the packings of the stream.
Follows ==
    /\ stream \in Streams
    /\ failure = "none" =>
          Progress(List, delivered, start, Position, wCs, wTrail, stack, wTop, wPushing, obj)
    /\ failure = "bytes" => \E n : Given(List, delivered, n)

NextCell ==
    IF wCs = CS_HEADER THEN HeaderCell(stream[Position + 1])
    ELSE TrailCell(wCs, SubSeq(stream, Position + 1, Position + wTrail))

LEMMA ContentsIs ==
    ASSUME NEW s \in Streams
    PROVE  Contents[s] \in Sent /\ Contents[s] \in Seq(Packings) /\ BytesOf(Contents[s]) = s
<1>1. \E list \in Sent : BytesOf(list) = s
  BY PackedAssumption
<1>2. Contents[s] = CHOOSE list \in Sent : BytesOf(list) = s
  BY DEF Contents
<1> HIDE DEF Contents
<1>3. Contents[s] \in Sent /\ BytesOf(Contents[s]) = s
  BY <1>1, <1>2
<1> QED BY <1>3, PackedAssumption

\* The place of a parse is a number of bytes.
LEMMA ProgressAt ==
    ASSUME NEW list \in Seq(Packings), NEW given, NEW begun, NEW pos, NEW c, NEW n, NEW t,
           NEW st, NEW push, NEW o, Progress(list, given, begun, pos, c, n, st, t, push, o)
    PROVE  pos \in Nat /\ t \in Places
<1>1. PICK s \in [Places -> Seq(Packings)], d \in [Places -> Nat], a \in [Places -> Lists(Byte)] :
          /\ Levels(list, given, t, st, s, d, a)
          /\ Stands(list, pos, c, n, t, push, o, s, d, a)
  BY DEF Progress
<1>2. \E todo : At(list, pos, todo)
  BY <1>1, Zenon DEF Stands, Parsed, Between, Inside
<1>3. PICK done \in Lists(Byte) : pos = Len(FlattenSeq(done))
  BY <1>2 DEF At
<1>4. FlattenSeq(done) \in Seq(Byte)
  BY FlattenType
<1> QED BY <1>1, <1>3, <1>4, LenProperties DEF Levels

\* What has been delivered, whatever comes next.
LEMMA ProgressGiven ==
    ASSUME NEW list, NEW given, NEW begun, NEW pos, NEW c, NEW n, NEW t,
           NEW st, NEW push, NEW o, Progress(list, given, begun, pos, c, n, st, t, push, o)
    PROVE  \E k : Given(list, given, k)
BY DEF Progress, Levels

LEMMA TakeIsTook ==
    ASSUME Whole!Take
    PROVE  /\ wPushing = FALSE
           /\ Position + (IF wCs = CS_HEADER THEN 1 ELSE wTrail) <= Len(stream)
           /\ Position' = Position + (IF wCs = CS_HEADER THEN 1 ELSE wTrail)
           /\ UNCHANGED <<start, failure, delivered>>
           /\ Took(NextCell, stack, wTop, wCs', wTrail', stack', wTop', wPushing', obj')
<1>w. Whole!Wanted = IF wCs = CS_HEADER THEN 1 ELSE wTrail
  BY SameFormat DEF Whole!Wanted, wCs, wTrail
<1>c. Whole!Cell = NextCell
  BY SameFormat DEF Whole!Cell, NextCell, wCs, wTrail
<1>1. /\ ~wPushing
      /\ Position + Whole!Wanted <= Len(stream)
      /\ Position' = Position + Whole!Wanted
      /\ \/ NextCell.is = "value" /\ Whole!AValue(NextCell.obj)
         \/ /\ NextCell.is = "again" /\ NextCell.trail = 0
            /\ Whole!AValue(Whole!Raw(<<>>))
         \/ /\ NextCell.is = "again" /\ NextCell.trail # 0
            /\ wCs' = NextCell.cs /\ wTrail' = NextCell.trail
            /\ wPushing' = wPushing /\ stack' = stack /\ wTop' = wTop
         \/ NextCell.is = "container" /\ Whole!AContainer(NextCell.kind, NextCell.count)
      /\ UNCHANGED <<start, failure, delivered>>
  BY <1>c, Zenon DEF Whole!Take, wCs, wTrail, wTop, wPushing
<1>2. wPushing = FALSE
  <2>1. ~wPushing
    BY <1>1
  <2> QED BY <2>1, SMT DEF wPushing
<1>3. ASSUME NEW o, Whole!AValue(o)
      PROVE  wPushing' = TRUE /\ obj' = o /\ wCs' = CS_HEADER /\ stack' = stack /\ wTop' = wTop
  BY <1>3, SameFormat, Zenon DEF Whole!AValue, wCs, wTop, wPushing
<1>4. ASSUME NEW kind, NEW count, Whole!AContainer(kind, count)
      PROVE  /\ wTop < StackSize
             /\ \/ /\ count = 0 /\ obj' = Empty(kind)
                   /\ wPushing' = TRUE /\ wCs' = CS_HEADER /\ stack' = stack /\ wTop' = wTop
                \/ /\ count # 0 /\ stack' = Put(stack, wTop + 1, Frame(kind, count))
                   /\ wTop' = wTop + 1 /\ wPushing' = FALSE /\ wCs' = CS_HEADER
  <2>1. /\ wTop < StackSize
        /\ IF count = 0 THEN Whole!AValue(Whole!Empty(kind))
           ELSE /\ stack' = [stack EXCEPT ![wTop + 1] = Whole!Frame(kind, count)]
                /\ wTop' = wTop + 1
                /\ wPushing' = FALSE
                /\ wCs' = Whole!CS_HEADER
    BY <1>4, Zenon DEF Whole!AContainer, wCs, wTop, wPushing
  <2>2. CASE count = 0
    <3>1. Whole!AValue(Whole!Empty(kind))
      BY <2>1, <2>2
    <3>2. Whole!Empty(kind) = Empty(kind)
      BY SameFormat
    <3> QED BY <1>3, <2>1, <2>2, <3>1, <3>2
  <2>3. CASE count # 0
    BY <2>1, <2>3, SameFormat DEF Put
  <2> QED BY <2>2, <2>3
<1>5. Whole!Raw(<<>>) = Raw(<<>>)
  BY SameFormat
<1>6. Took(NextCell, stack, wTop, wCs', wTrail', stack', wTop', wPushing', obj')
  <2>1. CASE NextCell.is = "value" /\ Whole!AValue(NextCell.obj)
    BY <2>1, <1>3 DEF Took
  <2>2. CASE NextCell.is = "again" /\ NextCell.trail = 0 /\ Whole!AValue(Whole!Raw(<<>>))
    BY <2>2, <1>3, <1>5 DEF Took
  <2>3. CASE /\ NextCell.is = "again" /\ NextCell.trail # 0
             /\ wCs' = NextCell.cs /\ wTrail' = NextCell.trail
             /\ wPushing' = wPushing /\ stack' = stack /\ wTop' = wTop
    BY <2>3, <1>2 DEF Took
  <2>4. CASE NextCell.is = "container" /\ Whole!AContainer(NextCell.kind, NextCell.count)
    BY <2>4, <1>4 DEF Took
  <2> QED BY <1>1, <2>1, <2>2, <2>3, <2>4
<1> QED BY <1>1, <1>2, <1>6, <1>w

LEMMA PlaceIs ==
    ASSUME Whole!Place
    PROVE  /\ wPushing = TRUE /\ wTop > 0
           /\ stack' = Put(stack, wTop, Filled(stack[wTop], obj))
           /\ IF Filled(stack[wTop], obj).count = 0
              THEN obj' = Complete(Filled(stack[wTop], obj)) /\ wTop' = wTop - 1 /\ wPushing' = TRUE
              ELSE wPushing' = FALSE /\ wTop' = wTop
           /\ UNCHANGED <<start, Position, wCs, failure, delivered>>
<1>1. /\ wPushing
      /\ wTop > 0
      /\ LET c == Whole!Filled(stack[wTop], obj)
         IN  IF c.count = 0
             THEN obj' = Whole!Complete(c) /\ wTop' = wTop - 1 /\ wPushing' = wPushing
             ELSE wPushing' = FALSE /\ wTop' = wTop
      /\ stack' = [stack EXCEPT ![wTop] = Whole!Filled(stack[wTop], obj)]
      /\ start' = start /\ Position' = Position /\ wCs' = wCs /\ failure' = failure
      /\ delivered' = delivered
  BY Zenon DEF Whole!Place, wCs, wTop, wPushing
<1>2. wPushing = TRUE
  BY <1>1, Zenon DEF wPushing
<1>3. Whole!Filled(stack[wTop], obj) = Filled(stack[wTop], obj)
  BY SameFormat
<1> DEFINE c == Filled(stack[wTop], obj)
<1>4. Whole!Complete(c) = Complete(c)
  BY SameFormat
<1>5. stack' = Put(stack, wTop, c)
  BY <1>1, <1>3, Zenon DEF Put
<1> HIDE DEF c
<1>6. IF c.count = 0 THEN obj' = Complete(c) /\ wTop' = wTop - 1 /\ wPushing' = TRUE
      ELSE wPushing' = FALSE /\ wTop' = wTop
  BY <1>1, <1>2, <1>3, <1>4, Zenon DEF c
<1> QED BY <1>1, <1>2, <1>5, <1>6, Zenon DEF c

LEMMA DeliverIs ==
    ASSUME Whole!Deliver
    PROVE  /\ wPushing = TRUE /\ wTop = 0
           /\ delivered' = Append(delivered, obj) /\ start' = Position
           /\ wPushing' = FALSE
           /\ UNCHANGED <<Position, wCs, wTop, failure>>
<1>1. /\ wPushing
      /\ wTop = 0
      /\ delivered' = Append(delivered, obj) /\ start' = Position
      /\ wPushing' = FALSE
      /\ UNCHANGED <<Position, wCs, wTop, failure>>
  BY Zenon DEF Whole!Deliver, wCs, wTop, wPushing
<1>2. wPushing = TRUE
  BY <1>1, Zenon DEF wPushing
<1> QED BY <1>1, <1>2, Zenon

LEMMA RestartIs ==
    ASSUME Whole!Restart
    PROVE  /\ Position' = start /\ wCs' = CS_HEADER /\ wTop' = 0 /\ wPushing' = FALSE
           /\ UNCHANGED <<start, failure, delivered>>
BY SameFormat, Zenon DEF Whole!Restart, wCs, wTop, wPushing

LEMMA InitFollows == Init => Follows
<1> SUFFICES ASSUME Init PROVE Follows
  OBVIOUS
<1>1. /\ stream \in Streams /\ failure = "none" /\ delivered = <<>> /\ start = 0
      /\ Position = 0 /\ wCs = CS_HEADER /\ wTop = 0 /\ DOMAIN stack = 1..StackSize
  BY DEF Init, Position, Resumes, wCs, wTop, Fresh
<1>2. wPushing = FALSE
  BY DEF Init, wPushing
<1>3. List \in Seq(Packings)
  BY <1>1, ContentsIs DEF List
<1>4. Progress(List, <<>>, 0, 0, CS_HEADER, wTrail, stack, 0, FALSE, obj)
  BY <1>1, <1>3, Began
<1> QED BY <1>1, <1>2, <1>4 DEF Follows

LEMMA NextFollows ==
    IInv /\ IInv' /\ Refusal /\ Refusal' /\ Follows /\ [Next]_vars => Follows'
<1> SUFFICES ASSUME IInv, IInv', Refusal, Refusal', Follows, [Next]_vars PROVE Follows'
  OBVIOUS
<1>1. [Whole!Next]_(Whole!vars)
  BY StepRefines
<1>2. stream' = stream /\ List' = List
  <2>1. stream' = stream
    BY <1>1 DEF Whole!Next, Whole!vars
  <2> QED BY <2>1 DEF List
<1>3. List \in Seq(Packings) /\ BytesOf(List) = stream /\ stream \in Streams
  BY ContentsIs DEF Follows, List
<1>4. DOMAIN stack' = 1..StackSize
  BY DEF IInv, TypeOK
<1> DEFINE Here == Progress(List, delivered, start, Position, wCs, wTrail, stack, wTop, wPushing, obj)
           There == Progress(List, delivered', start', Position', wCs', wTrail', stack', wTop',
                             wPushing', obj')
<1>5. failure = "none" => Here
  BY DEF Follows
<1>6. /\ stream' \in Streams
      /\ (failure' = "none" => There) /\ (failure' = "bytes" => \E n : Given(List, delivered', n))
      => Follows'
  BY <1>2 DEF Follows
<1>7. CASE UNCHANGED Whole!vars
  <2>1. UNCHANGED <<start, Position, wCs, wTrail, stack, wTop, wPushing, obj, failure, delivered>>
    BY <1>7, Zenon DEF Whole!vars, wCs, wTrail, wTop, wPushing
  <2> QED BY <1>2, <1>3, <1>6, <2>1 DEF Follows
<1>8. CASE failure = "none" /\ Whole!Take
  <2>1. /\ wPushing = FALSE
        /\ Position + (IF wCs = CS_HEADER THEN 1 ELSE wTrail) <= Len(stream)
        /\ Position' = Position + (IF wCs = CS_HEADER THEN 1 ELSE wTrail)
        /\ UNCHANGED <<start, failure, delivered>>
        /\ Took(NextCell, stack, wTop, wCs', wTrail', stack', wTop', wPushing', obj')
    BY <1>8, TakeIsTook
  <2>2. Progress(List, delivered, start, Position, wCs, wTrail, stack, wTop, FALSE, obj)
    BY <1>5, <1>8, <2>1
  <2>3. CASE wCs = CS_HEADER
    <3>1. Position \in Nat /\ Len(stream) \in Nat
      <4>1. Position \in Nat
        BY <1>3, <2>2, ProgressAt, Zenon
      <4>2. stream \in Seq(Byte)
        BY DEF IInv, TypeOK
      <4> QED BY <4>1, <4>2, LenProperties
    <3>2. Position < Len(BytesOf(List)) /\ Position' = Position + 1
      BY <1>3, <2>1, <2>3, <3>1
    <3>3. NextCell = HeaderCell(BytesOf(List)[Position + 1])
      BY <1>3, <2>3 DEF NextCell
    <3>4. Progress(List, delivered, start, Position, CS_HEADER, wTrail, stack, wTop, FALSE, obj)
      BY <2>2, <2>3, Zenon
    <3>5. Took(HeaderCell(BytesOf(List)[Position + 1]), stack, wTop, wCs', wTrail', stack', wTop',
               wPushing', obj')
      BY <2>1, <3>3
    <3>6. Progress(List, delivered, start, Position + 1, wCs', wTrail', stack', wTop', wPushing', obj')
      BY <1>3, <3>2, <3>4, <3>5, HeaderTaken
    <3> QED BY <1>2, <1>3, <1>6, <1>8, <2>1, <3>2, <3>6
  <2>4. CASE wCs # CS_HEADER
    <3>1. Took(TrailCell(wCs, SubSeq(BytesOf(List), Position + 1, Position + wTrail)),
               stack, wTop, wCs', wTrail', stack', wTop', wPushing', obj')
      BY <1>3, <2>1, <2>4 DEF NextCell
    <3>2. Progress(List, delivered, start, Position + wTrail, wCs', wTrail', stack', wTop',
                   wPushing', obj')
      BY <1>3, <2>2, <2>4, <3>1, TrailTaken
    <3>3. Position' = Position + wTrail
      BY <2>1, <2>4
    <3> QED BY <1>2, <1>3, <1>6, <1>8, <2>1, <3>2, <3>3
  <2> QED BY <2>3, <2>4
<1>9. CASE failure = "none" /\ Whole!Place
  <2> DEFINE f == Filled(stack[wTop], obj)
  <2>1. /\ wPushing = TRUE /\ wTop > 0 /\ stack' = Put(stack, wTop, f)
        /\ IF f.count = 0 THEN obj' = Complete(f) /\ wTop' = wTop - 1 /\ wPushing' = TRUE
           ELSE wPushing' = FALSE /\ wTop' = wTop
        /\ UNCHANGED <<start, Position, wCs, failure, delivered>>
    BY <1>9, PlaceIs
  <2>2. Progress(List, delivered, start, Position, wCs, wTrail, stack, wTop, TRUE, obj)
    BY <1>5, <1>9, <2>1
  <2>3. wTop # 0
    <3>1. wTop \in Places
      BY <1>3, <2>2, ProgressAt, Zenon
    <3>2. wTop \in Nat
      BY <3>1, ParserAssumption DEF Places
    <3> QED BY <2>1, <3>2
  <2>4. f = Filled(stack[wTop], obj)
    OBVIOUS
  <2> HIDE DEF f
  <2>5. Progress(List, delivered, start, Position, wCs, wTrail', stack', wTop', wPushing', obj')
    BY <1>3, <2>1, <2>2, <2>3, <2>4, Placed
  <2> QED BY <1>2, <1>3, <1>6, <1>9, <2>1, <2>5
<1>10. CASE failure = "none" /\ Whole!Deliver
  <2>1. /\ wPushing = TRUE /\ wTop = 0
        /\ delivered' = Append(delivered, obj) /\ start' = Position
        /\ wPushing' = FALSE
        /\ UNCHANGED <<Position, wCs, wTop, failure>>
    BY <1>10, DeliverIs
  <2>2. Progress(List, delivered, start, Position, wCs, wTrail, stack, 0, TRUE, obj)
    BY <1>5, <1>10, <2>1
  <2>3. Progress(List, Append(delivered, obj), Position, Position, wCs, wTrail', stack', 0, FALSE,
                 obj')
    BY <1>3, <1>4, <2>2, Handed
  <2> QED BY <1>2, <1>3, <1>6, <1>10, <2>1, <2>3
<1>11. CASE failure = "none" /\ Whole!Restart
  <2>1. /\ Position' = start /\ wCs' = CS_HEADER /\ wTop' = 0 /\ wPushing' = FALSE
        /\ UNCHANGED <<start, failure, delivered>>
    BY <1>11, RestartIs
  <2>2. Progress(List, delivered, start, start, CS_HEADER, wTrail', stack', 0, FALSE, obj')
    BY <1>3, <1>4, <1>5, <1>11, Restarted
  <2> QED BY <1>2, <1>3, <1>6, <1>11, <2>1, <2>2
<1>12. CASE Whole!Refuse
  <2>1. failure' = "bytes" /\ delivered' = delivered
    BY <1>12 DEF Whole!Refuse
  <2>2. failure \in {"none", "bytes"}
    BY DEF IInv, TypeOK
  <2>3. \E n : Given(List, delivered, n)
    <3>1. CASE failure = "none"
      BY <1>5, <3>1, ProgressGiven
    <3> QED BY <2>2, <3>1 DEF Follows
  <2> QED BY <1>2, <1>3, <1>6, <2>1, <2>3
<1> QED
  BY <1>1, <1>7, <1>8, <1>9, <1>10, <1>11, <1>12 DEF Whole!Next

-----------------------------------------------------------------------------
(* Integers are converted exactly                                          *)

LEMMA ByteBounds ==
    ASSUME NEW d \in Bytes, NEW i \in 1..8
    PROVE  d[i] \in Int /\ d[i] >= 0 /\ d[i] <= 255
<1>1. d[i] \in Byte
  BY DEF Bytes
<1> QED BY <1>1 DEF Byte

\* The first byte that differs.
LEMMA FirstOther ==
    ASSUME NEW d \in Bytes, NEW m \in Bytes, NEW q \in 1..8, NEW z,
           \A i \in 1..(q - 1) : m[i] = z, \E i \in 1..(q - 1) : d[i] # z
    PROVE  \E i \in 1..(q - 1) : d[i] # z /\ \A j \in 1..(i - 1) : d[j] = m[j]
<1> DEFINE T == {i \in 1..(q - 1) : d[i] # z}
<1>1. T \subseteq Nat /\ T # {}
  OBVIOUS
<1> HIDE DEF T
<1>2. PICK i \in T : \A j \in T : i <= j
  BY <1>1, LeastNatural
<1>3. i \in 1..(q - 1) /\ d[i] # z
  BY <1>2 DEF T
<1>4. ASSUME NEW j \in 1..(i - 1) PROVE d[j] = m[j]
  <2>1. j \in 1..(q - 1) /\ j < i
    BY <1>3
  <2>2. j \notin T
    BY <1>2, <1>3, <2>1
  <2> QED BY <2>1, <2>2 DEF T
<1> QED BY <1>3, <1>4

\* The greatest value of a type: zeros before its first byte, and 255s after it.
LEMMA AboveMost ==
    ASSUME NEW d \in Bytes, NEW m \in Bytes, NEW q \in 1..8,
           \A i \in 1..(q - 1) : m[i] = 0, \A i \in (q + 1)..8 : m[i] = 255
    PROVE  Less(m, d) <=> ~((\A i \in 1..(q - 1) : d[i] = 0) /\ d[q] <= m[q])
<1>0. \A i \in 1..8 : /\ d[i] \in Int /\ m[i] \in Int /\ d[i] >= 0 /\ d[i] <= 255
                     /\ (i \in 1..(q - 1) \/ i = q \/ i \in (q + 1)..8)
  BY ByteBounds
<1>1. ASSUME \A i \in 1..(q - 1) : d[i] = 0, d[q] <= m[q] PROVE ~Less(m, d)
  <2>1. ASSUME NEW i \in 1..8 PROVE ~(m[i] < d[i])
    BY <1>0, <1>1
  <2> QED BY <2>1 DEF Less
<1>2. ASSUME \E i \in 1..(q - 1) : d[i] # 0 PROVE Less(m, d)
  <2>1. PICK i \in 1..(q - 1) : d[i] # 0 /\ \A j \in 1..(i - 1) : d[j] = m[j]
    BY <1>2, FirstOther
  <2>2. i \in 1..8 /\ m[i] = 0
    OBVIOUS
  <2>3. m[i] < d[i]
    BY <1>0, <2>1, <2>2
  <2> QED BY <2>1, <2>2, <2>3 DEF Less
<1>3. ASSUME \A i \in 1..(q - 1) : d[i] = 0, m[q] < d[q] PROVE Less(m, d)
  BY <1>3 DEF Less
<1>4. d[q] <= m[q] \/ m[q] < d[q]
  BY <1>0
<1> QED BY <1>1, <1>2, <1>3, <1>4

\* The least value of a type: 255s before its first byte, and zeros after it.
LEMMA BelowLeast ==
    ASSUME NEW d \in Bytes, NEW m \in Bytes, NEW q \in 1..8,
           \A i \in 1..(q - 1) : m[i] = 255, \A i \in (q + 1)..8 : m[i] = 0
    PROVE  Less(d, m) <=> ~((\A i \in 1..(q - 1) : d[i] = 255) /\ d[q] >= m[q])
<1>0. \A i \in 1..8 : /\ d[i] \in Int /\ m[i] \in Int /\ d[i] >= 0 /\ d[i] <= 255
                     /\ (i \in 1..(q - 1) \/ i = q \/ i \in (q + 1)..8)
  BY ByteBounds
<1>1. ASSUME \A i \in 1..(q - 1) : d[i] = 255, d[q] >= m[q] PROVE ~Less(d, m)
  <2>1. ASSUME NEW i \in 1..8 PROVE ~(d[i] < m[i])
    BY <1>0, <1>1
  <2> QED BY <2>1 DEF Less
<1>2. ASSUME \E i \in 1..(q - 1) : d[i] # 255 PROVE Less(d, m)
  <2>1. PICK i \in 1..(q - 1) : d[i] # 255 /\ \A j \in 1..(i - 1) : d[j] = m[j]
    BY <1>2, FirstOther
  <2>2. i \in 1..8 /\ m[i] = 255
    OBVIOUS
  <2>3. d[i] < m[i]
    BY <1>0, <2>1, <2>2
  <2> QED BY <2>1, <2>2, <2>3 DEF Less
<1>3. ASSUME \A i \in 1..(q - 1) : d[i] = 255, d[q] < m[q] PROVE Less(d, m)
  BY <1>3 DEF Less
<1>4. d[q] >= m[q] \/ d[q] < m[q]
  BY <1>0
<1> QED BY <1>1, <1>2, <1>3, <1>4

LEMMA WidthIs ==
    ASSUME NEW bits \in Widths
    PROVE  /\ bits \div 8 \in 1..8 /\ (bits - 1) \div 8 = bits \div 8 - 1 /\ (bits - 1) % 8 = 7
           /\ bits % 8 = 0 /\ (bits = 64 <=> bits \div 8 = 8)
<1>1. /\ 8 \div 8 = 1 /\ 16 \div 8 = 2 /\ 32 \div 8 = 4 /\ 64 \div 8 = 8
      /\ 8 - 1 = 7 /\ 16 - 1 = 15 /\ 32 - 1 = 31 /\ 64 - 1 = 63
      /\ 7 \div 8 = 0 /\ 15 \div 8 = 1 /\ 31 \div 8 = 3 /\ 63 \div 8 = 7
      /\ 7 % 8 = 7 /\ 15 % 8 = 7 /\ 31 % 8 = 7 /\ 63 % 8 = 7
      /\ 8 % 8 = 0 /\ 16 % 8 = 0 /\ 32 % 8 = 0 /\ 64 % 8 = 0
  OBVIOUS
<1> QED BY <1>1 DEF Widths

\* The comparison with the bounds of a type is the test that the packer makes.
LEMMA ComparedAlike ==
    ASSUME NEW d \in Bytes, NEW bits \in Widths
    PROVE  /\ Less(MaxOf(TRUE, bits), d) <=> ~Below(d, bits - 1)
           /\ Less(MaxOf(FALSE, bits), d) <=> ~(bits = 64 \/ Below(d, bits))
           /\ Negative(d) => (Less(d, MinOf(bits)) <=> BelowMinus(d, bits - 1))
<1> DEFINE k == bits \div 8
           q == 9 - k
           n == bits - 1
<1>1. k \in 1..8 /\ q \in 1..8 /\ 8 - k = q - 1 /\ 7 - k = q - 2 /\ (k = 8 <=> q = 1)
  BY WidthIs
<1>2. n \div 8 = k - 1 /\ n % 8 = 7 /\ bits % 8 = 0 /\ (bits = 64 <=> k = 8)
  BY WidthIs
<1>3. 2^7 = 128 /\ 2^0 = 1
  OBVIOUS
<1>4. \A i \in 1..8 : d[i] \in Int /\ d[i] >= 0 /\ d[i] <= 255
  BY ByteBounds
<1>n. 7 - n \div 8 = q - 1 /\ 8 - n \div 8 = q
  <2>1. \A x \in 1..8 : 7 - (x - 1) = (9 - x) - 1 /\ 8 - (x - 1) = 9 - x
    OBVIOUS
  <2> HIDE DEF k, n
  <2> QED BY <1>1, <1>2, <2>1 DEF q
<1> HIDE DEF k, q, n
<1>5. ASSUME NEW s \in BOOLEAN
      PROVE  /\ MaxOf(s, bits) \in Bytes
             /\ \A i \in 1..(q - 1) : MaxOf(s, bits)[i] = 0
             /\ MaxOf(s, bits)[q] = IF s THEN 127 ELSE 255
             /\ \A i \in (q + 1)..8 : MaxOf(s, bits)[i] = 255
  <2>1. MaxOf(s, bits) = [i \in 1..8 |-> IF i <= q - 1 THEN 0
                                         ELSE IF s /\ i = q THEN 127 ELSE 255]
    BY <1>1 DEF MaxOf, k, q
  <2> QED BY <1>1, <2>1 DEF Bytes, Byte
<1>6. /\ MinOf(bits) \in Bytes
      /\ \A i \in 1..(q - 1) : MinOf(bits)[i] = 255
      /\ MinOf(bits)[q] = 128
      /\ \A i \in (q + 1)..8 : MinOf(bits)[i] = 0
  <2>1. MinOf(bits) = [i \in 1..8 |-> IF i <= q - 1 THEN 255
                                      ELSE IF i = q THEN 128 ELSE 0]
    BY <1>1 DEF MinOf, k, q
  <2> QED BY <1>1, <2>1 DEF Bytes, Byte
<1>7. 0 \in Byte /\ 255 \in Byte
  BY DEF Byte
<1>8. Less(MaxOf(TRUE, bits), d) <=> ~Below(d, n)
  <2> DEFINE m == MaxOf(TRUE, bits)
  <2>1. /\ m \in Bytes /\ m[q] = 127
        /\ \A i \in 1..(q - 1) : m[i] = 0
        /\ \A i \in (q + 1)..8 : m[i] = 255
    BY <1>5
  <2> HIDE DEF m
  <2>2. Less(m, d) <=> ~((\A i \in 1..(q - 1) : d[i] = 0) /\ d[q] <= 127)
    BY <1>1, <2>1, AboveMost
  <2>3. Below(d, n) <=> (\A i \in 1..(q - 1) : d[i] = 0) /\ d[q] < 128
    BY <1>2, <1>3, <1>n, ZenonT(60) DEF Below
  <2>4. d[q] <= 127 <=> d[q] < 128
    BY <1>1, <1>4
  <2> QED BY <2>2, <2>3, <2>4 DEF m
<1>9. Less(MaxOf(FALSE, bits), d) <=> ~(bits = 64 \/ Below(d, bits))
  <2> DEFINE m == MaxOf(FALSE, bits)
  <2>0. /\ m \in Bytes /\ m[q] = 255
        /\ \A i \in 1..(q - 1) : m[i] = 0
        /\ \A i \in (q + 1)..8 : m[i] = 255
    BY <1>5
  <2> HIDE DEF m
  <2>1. Less(m, d) <=> ~((\A i \in 1..(q - 1) : d[i] = 0) /\ d[q] <= 255)
    BY <1>1, <2>0, AboveMost
  <2>2. d[q] <= 255
    BY <1>1, <1>4
  <2>3. CASE k = 8
    <3>1. 1..(q - 1) = {}
      BY <1>1, <2>3
    <3> QED BY <1>2, <2>1, <2>2, <2>3, <3>1 DEF m
  <2>4. CASE k # 8
    <3>1. Below(d, bits) <=> (\A i \in 1..(q - 2) : d[i] = 0) /\ d[q - 1] < 1
      <4>1. bits \div 8 = k /\ 8 - k = q - 1 /\ 7 - k = q - 2
        BY <1>1 DEF k
      <4> QED BY <1>2, <1>3, <4>1, Zenon DEF Below
    <3>2. q - 1 \in 1..8 /\ d[q - 1] \in Int /\ d[q - 1] >= 0
      BY <1>1, <1>4, <2>4
    <3>3. \A i : i \in 1..(q - 1) <=> i \in 1..(q - 2) \/ i = q - 1
      BY <1>1, <3>2
    <3>4. Below(d, bits) <=> \A i \in 1..(q - 1) : d[i] = 0
      BY <3>1, <3>2, <3>3
    <3> QED BY <1>2, <2>1, <2>2, <2>4, <3>4 DEF m
  <2> QED BY <2>3, <2>4
<1>10. Negative(d) => (Less(d, MinOf(bits)) <=> BelowMinus(d, n))
  <2> DEFINE m == MinOf(bits)
  <2>0. /\ m \in Bytes /\ m[q] = 128
        /\ \A i \in 1..(q - 1) : m[i] = 255
        /\ \A i \in (q + 1)..8 : m[i] = 0
    BY <1>6
  <2> HIDE DEF m
  <2>1. Less(d, m) <=> ~((\A i \in 1..(q - 1) : d[i] = 255) /\ d[q] >= 128)
    BY <1>1, <2>0, BelowLeast
  <2>2. BelowMinus(d, n) <=> Negative(d) /\ ~((\A i \in 1..(q - 1) : d[i] = 255) /\ d[q] >= 128)
    <3> DEFINE R(x, y, w) == (\A i \in 1..x : d[i] = 255) /\ d[y] >= 256 - w
    <3>1. BelowMinus(d, n) <=> Negative(d) /\ ~R(7 - n \div 8, 8 - n \div 8, 2^(n % 8))
      BY DEF BelowMinus
    <3>2. 2^(n % 8) = 128
      BY <1>2, <1>3, Zenon
    <3>3. R(q - 1, q, 128) <=> (\A i \in 1..(q - 1) : d[i] = 255) /\ d[q] >= 128
      <4>1. 256 - 128 = 128
        OBVIOUS
      <4> QED BY <4>1
    <3> HIDE DEF R
    <3>4. BelowMinus(d, n) <=> Negative(d) /\ ~R(q - 1, q, 128)
      BY <1>n, <3>1, <3>2, Zenon
    <3> QED BY <3>3, <3>4
  <2> QED BY <2>1, <2>2 DEF m
<1> QED BY <1>8, <1>9, <1>10 DEF n

\* What a type makes of an integer.
LEMMA Converted ==
    ASSUME NEW o, IsObject(o), o.type \in {"positive", "negative"},
           NEW signed \in BOOLEAN, NEW bits \in Widths
    PROVE  convert_integer(o, signed, bits) = IF InRange(o, signed, bits) THEN Bytes8(o) ELSE TypeError
<1>1. CASE o.type = "positive"
  <2>1. o.u64 \in Bytes
    BY <1>1 DEF IsObject, Bytes
  <2>2. Less(MaxOf(signed, bits), o.u64) <=> ~InRange(o, signed, bits)
    <3>1. CASE signed = TRUE
      <4>1. Less(MaxOf(TRUE, bits), o.u64) <=> ~Below(o.u64, bits - 1)
        BY <2>1, ComparedAlike
      <4> QED BY <1>1, <3>1, <4>1 DEF InRange
    <3>2. CASE signed = FALSE
      <4>1. Less(MaxOf(FALSE, bits), o.u64) <=> ~(bits = 64 \/ Below(o.u64, bits))
        BY <2>1, ComparedAlike
      <4> QED BY <1>1, <3>2, <4>1 DEF InRange
    <3> QED BY <3>1, <3>2
  <2> QED BY <1>1, <2>2 DEF convert_integer, Bytes8
<1>2. CASE o.type = "negative"
  <2>1. o.i64 \in Bytes /\ Negative(o.i64)
    BY <1>2 DEF IsObject, Bytes
  <2>2. Less(o.i64, MinOf(bits)) <=> BelowMinus(o.i64, bits - 1)
    BY <2>1, ComparedAlike
  <2> QED BY <1>2, <2>2 DEF convert_integer, Bytes8, InRange
<1> QED BY <1>1, <1>2

-----------------------------------------------------------------------------
(* What is delivered                                                       *)

Values(list) == {list[i].value : i \in 1..Len(list)}

LEMMA ItemsType ==
    ASSUME NEW list \in Seq(Packings), NEW n \in 0..Len(list)
    PROVE  /\ Items(list, n) \in Seq(Values(list)) /\ Len(Items(list, n)) = n
           /\ DOMAIN Items(list, n) = 1..n
           /\ \A i \in 1..n : Items(list, n)[i] = list[i].value
<1> DEFINE E == Values(list)
           s == Items(list, n)
<1>1. Len(list) \in Nat /\ n \in Nat
  OBVIOUS
<1>2. s \in [1..n -> E]
  BY <1>1 DEF Items, Values
<1>3. \A i \in 1..n : s[i] = list[i].value
  BY DEF Items
<1> HIDE DEF s, E
<1>4. s \in Seq(E) /\ Len(s) = n /\ DOMAIN s = 1..n
  BY <1>1, <1>2
<1> QED BY <1>3, <1>4 DEF s, E

\* The messages before the first that cannot be parsed.
LEMMA DeliverableIs ==
    ASSUME NEW list \in Seq(Packings)
    PROVE  \E m \in 0..Len(list) :
              /\ Deliverable(list) = SubSeq(list, 1, m)
              /\ \A n \in 0..Len(list) : (\A j \in 1..n : Parsable(list[j])) => n <= m
<1> DEFINE bad == {i \in 1..Len(list) : ~Parsable(list[i])}
           m == IF bad = {} THEN Len(list) ELSE Min(bad) - 1
<1>1. Len(list) \in Nat /\ bad \subseteq Nat
  OBVIOUS
<1>2. Deliverable(list) = SubSeq(list, 1, m)
  BY DEF Deliverable
<1>3. CASE bad = {}
  BY <1>1, <1>2, <1>3
<1>4. CASE bad # {}
  <2> HIDE DEF bad
  <2>1. Min(bad) \in bad
    <3>1. \E x \in bad : \A y \in bad : x <= y
      BY <1>1, <1>4, LeastNatural
    <3> QED BY <3>1 DEF Min
  <2> DEFINE b == Min(bad)
  <2>2. b \in 1..Len(list) /\ ~Parsable(list[b]) /\ m = b - 1
    BY <1>4, <2>1 DEF bad
  <2> HIDE DEF b, m
  <2>3. m \in 0..Len(list)
    BY <1>1, <2>2
  <2>4. ASSUME NEW n \in 0..Len(list), \A j \in 1..n : Parsable(list[j]) PROVE n <= m
    <3>1. b \notin 1..n
      BY <2>2, <2>4
    <3> QED BY <1>1, <2>2, <3>1
  <2> QED BY <1>2, <2>3, <2>4
<1> QED BY <1>3, <1>4

\* The messages that are expected.
LEMMA ExpectedIs ==
    ASSUME NEW s \in Streams
    PROVE  \E m \in 0..Len(Contents[s]) :
              /\ Expected[s] = Items(Contents[s], m)
              /\ \A n \in 0..Len(Contents[s]) :
                    (\A j \in 1..n : Parsable(Contents[s][j])) => n <= m
<1> DEFINE list == Contents[s]
           l == Deliverable(list)
<1>1. list \in Seq(Packings)
  BY ContentsIs
<1>2. Expected[s] = [i \in 1..Len(l) |-> l[i].value]
  BY DEF Expected
<1> HIDE DEF list
<1>3. PICK m \in 0..Len(list) :
          /\ l = SubSeq(list, 1, m)
          /\ \A n \in 0..Len(list) : (\A j \in 1..n : Parsable(list[j])) => n <= m
  BY <1>1, DeliverableIs
<1> HIDE DEF l
<1>4. Len(l) = m /\ \A i \in 1..m : l[i] = list[i]
  BY <1>1, <1>3
<1>5. Expected[s] = Items(list, m)
  BY <1>2, <1>4 DEF Items
<1> QED BY <1>3, <1>5 DEF list

\* What is delivered is the beginning of what is expected.
LEMMA GivenIsExpected ==
    ASSUME NEW s \in Streams, NEW given, NEW n, Given(Contents[s], given, n)
    PROVE  /\ IsPrefix(given, Expected[s])
           /\ \A i \in DOMAIN given : given[i] = Expected[s][i] /\ IsObject(given[i])
<1> DEFINE list == Contents[s]
<1>1. list \in Seq(Packings) /\ Len(list) \in Nat
  BY ContentsIs, LenProperties
<1>2. PICK m \in 0..Len(list) :
          /\ Expected[s] = Items(list, m)
          /\ \A k \in 0..Len(list) : (\A j \in 1..k : Parsable(list[j])) => k <= m
  BY ExpectedIs
<1>3. n \in 0..Len(list) /\ given = Items(list, n) /\ \A j \in 1..n : Parsable(list[j])
  BY DEF Given
<1> HIDE DEF list
<1>4. n <= m /\ n \in Nat /\ m \in Nat /\ n <= Len(list)
  BY <1>1, <1>2, <1>3
<1> DEFINE e == Expected[s]
           E == Values(list)
<1>5. given \in Seq(E) /\ Len(given) = n /\ DOMAIN given = 1..n
      /\ \A i \in 1..n : given[i] = list[i].value
  BY <1>1, <1>3, ItemsType
<1>6. e \in Seq(E) /\ Len(e) = m /\ \A i \in 1..m : e[i] = list[i].value
  BY <1>1, <1>2, ItemsType
<1> HIDE DEF e, E
<1>7. \A i \in 1..n : i \in 1..m /\ given[i] = e[i]
  BY <1>4, <1>5, <1>6
<1>8. IsPrefix(given, e)
  BY <1>4, <1>5, <1>6, <1>7, BeginningOf
<1>9. ASSUME NEW i \in 1..n PROVE IsObject(given[i])
  <2>1. i \in 1..Len(list)
    BY <1>1, <1>4
  <2>2. list[i] \in Packings
    BY <1>1, <2>1
  <2> QED BY <1>5, <2>2, PackedAssumption DEF WellPacked
<1> QED BY <1>5, <1>7, <1>8, <1>9 DEF e

LEMMA FollowsGiven ==
    ASSUME Follows, failure \in {"none", "bytes"}
    PROVE  \E n : Given(Contents[stream], delivered, n)
<1>1. CASE failure = "none"
  BY <1>1, ProgressGiven DEF Follows, List
<1>2. CASE failure = "bytes"
  BY <1>2 DEF Follows, List
<1> QED BY <1>1, <1>2

LEMMA DeliversWhatFollows == IInv /\ Follows => DeliversWhatWasPacked /\ ConvertsExactly
<1> SUFFICES ASSUME IInv, Follows
             PROVE  /\ IsPrefix(delivered, Expected[stream])
                    /\ \A i \in DOMAIN delivered :
                          Expected[stream][i].type \in {"positive", "negative"} =>
                              ConvertsAs(delivered[i], Expected[stream][i])
  BY DEF DeliversWhatWasPacked, ConvertsExactly
<1>1. failure \in {"none", "bytes"} /\ stream \in Streams
  BY DEF IInv, TypeOK, Follows
<1>2. PICK n : Given(Contents[stream], delivered, n)
  BY <1>1, FollowsGiven
<1>3. /\ IsPrefix(delivered, Expected[stream])
      /\ \A i \in DOMAIN delivered : delivered[i] = Expected[stream][i] /\ IsObject(delivered[i])
  BY <1>1, <1>2, GivenIsExpected
<1>4. ASSUME NEW i \in DOMAIN delivered, Expected[stream][i].type \in {"positive", "negative"}
      PROVE  ConvertsAs(delivered[i], Expected[stream][i])
  BY <1>3, <1>4, Converted DEF ConvertsAs
<1> QED BY <1>3, <1>4

-----------------------------------------------------------------------------
(* Where a call stops                                                      *)

\* Where the first k cells end.
EndOf(cells, k) == Len(FlattenSeq(SubSeq(cells, 1, k)))

LEMMA EndsGrow ==
    ASSUME NEW s \in Lists(Byte), NEW k \in 0..Len(s), NEW i \in 0..k
    PROVE  EndOf(s, i) \in Nat /\ EndOf(s, k) \in Nat /\ EndOf(s, i) <= EndOf(s, k)
<1> DEFINE x == SubSeq(s, 1, i)
           y == SubSeq(s, i + 1, k)
<1>1. x \in Lists(Byte) /\ y \in Lists(Byte) /\ SubSeq(s, 1, k) = x \o y
  <2>1. s \in Seq(Seq(Byte)) /\ i \in Nat /\ i <= k
    BY DEF Lists
  <2> QED BY <2>1, CutAt DEF Lists
<1> HIDE DEF x, y
<1>2. FlattenSeq(x \o y) = FlattenSeq(x) \o FlattenSeq(y)
  BY <1>1, FlattenTwo
<1>3. FlattenSeq(x) \in Seq(Byte) /\ FlattenSeq(y) \in Seq(Byte)
  BY <1>1, FlattenType
<1> DEFINE f == FlattenSeq(x)
           g == FlattenSeq(y)
<1>4. EndOf(s, i) = Len(f) /\ EndOf(s, k) = Len(f \o g)
  BY <1>1, <1>2 DEF EndOf, x
<1> HIDE DEF f, g
<1>5. Len(f) \in Nat /\ Len(g) \in Nat /\ Len(f \o g) = Len(f) + Len(g)
  BY <1>3, LenProperties, ConcatProperties DEF f, g
<1> QED BY <1>4, <1>5

\* Every cell ends before the place of the parse, or after the cell that is next.
LEMMA EndsAround ==
    ASSUME NEW list \in Seq(Packings), NEW pos, NEW todo \in Lists(Byte), At(list, pos, todo)
    PROVE  /\ pos \in EndsOf(list) /\ pos \in Nat
           /\ \A e \in EndsOf(list) :
                 /\ e \in Nat
                 /\ e <= pos \/ (todo # <<>> /\ e >= pos + Len(todo[1]))
<1> DEFINE s == CellsOf(list)
<1>1. s \in Lists(Byte) /\ Len(s) \in Nat
  BY CellsType DEF Lists
<1>2. PICK done \in Lists(Byte) : s = done \o todo /\ pos = Len(FlattenSeq(done))
  BY DEF At
<1> DEFINE n == Len(done)
<1>3. EndsOf(list) = {EndOf(s, k) : k \in 0..Len(s)}
  BY DEF EndsOf, EndOf
<1> HIDE DEF s
<1>4. /\ n \in Nat /\ Len(todo) \in Nat /\ Len(s) = n + Len(todo) /\ n \in 0..Len(s)
      /\ SubSeq(s, 1, n) = done
      /\ todo # <<>> => SubSeq(s, 1, n + 1) = done \o <<todo[1]>> /\ todo[1] \in Seq(Byte)
                        /\ n + 1 \in 0..Len(s)
  <2>1. done \in Seq(Seq(Byte)) /\ todo \in Seq(Seq(Byte))
    BY DEF Lists
  <2>2. n \in Nat /\ Len(todo) \in Nat
    BY <2>1
  <2>3. /\ Len(s) = n + Len(todo) /\ SubSeq(s, 1, n) = done
        /\ todo # <<>> => /\ SubSeq(s, 1, n + 1) = done \o <<todo[1]>>
                          /\ todo[1] \in Seq(Byte) /\ Len(todo) >= 1
    BY <1>2, <2>1, FirstOf
  <2> HIDE DEF n
  <2> QED BY <2>2, <2>3
<1>5. pos = EndOf(s, n) /\ pos \in EndsOf(list)
  BY <1>2, <1>3, <1>4 DEF EndOf
<1> HIDE DEF n
<1>6. \A k \in 0..Len(s) : EndOf(s, k) \in Nat
  BY <1>1, EndsGrow
<1>7. pos \in Nat
  BY <1>4, <1>5, <1>6
<1>8. todo # <<>> => EndOf(s, n + 1) = pos + Len(todo[1])
  <2>1. SUFFICES ASSUME todo # <<>> PROVE EndOf(s, n + 1) = pos + Len(todo[1])
    OBVIOUS
  <2> DEFINE c == todo[1]
  <2>2. c \in Seq(Byte) /\ SubSeq(s, 1, n + 1) = done \o <<c>>
    BY <1>4, <2>1
  <2> HIDE DEF c
  <2>3. <<c>> \in Lists(Byte) /\ FlattenSeq(<<c>>) = c
    BY <2>2, FlattenOne
  <2>4. FlattenSeq(done \o <<c>>) = FlattenSeq(done) \o c
    BY <2>3, FlattenTwo
  <2> DEFINE f == FlattenSeq(done)
  <2>5. f \in Seq(Byte)
    BY FlattenType
  <2>6. EndOf(s, n + 1) = Len(f \o c)
    BY <2>2, <2>4 DEF EndOf
  <2>7. pos = Len(f)
    BY <1>2
  <2> HIDE DEF f
  <2>8. Len(f \o c) = Len(f) + Len(c)
    BY <2>2, <2>5, ConcatProperties
  <2> QED BY <2>6, <2>7, <2>8 DEF c
<1>9. ASSUME NEW k \in 0..Len(s)
      PROVE  EndOf(s, k) <= pos \/ (todo # <<>> /\ EndOf(s, k) >= pos + Len(todo[1]))
  <2>1. CASE k <= n
    <3>1. k \in 0..n
      BY <1>4, <2>1
    <3> QED BY <1>1, <1>4, <1>5, <3>1, EndsGrow
  <2>2. CASE ~(k <= n)
    <3>1. n + 1 \in 0..k /\ todo # <<>>
      <4>1. n + 1 \in 0..k /\ Len(todo) # 0
        BY <1>4, <2>2
      <4> QED BY <4>1
    <3>2. EndOf(s, n + 1) \in Nat /\ EndOf(s, k) \in Nat /\ EndOf(s, n + 1) <= EndOf(s, k)
      BY <1>1, <3>1, EndsGrow
    <3> DEFINE y == EndOf(s, n + 1)
               e == EndOf(s, k)
               z == pos + Len(todo[1])
    <3>3. y = z
      BY <1>8, <3>1
    <3>4. y \in Nat /\ e \in Nat /\ y <= e
      BY <3>2
    <3> HIDE DEF y, e, z
    <3>5. e >= z
      BY <3>3, <3>4
    <3> QED BY <3>1, <3>5 DEF e, z
  <2> QED BY <2>1, <2>2
<1> QED BY <1>3, <1>5, <1>6, <1>7, <1>9

\* A call that asks for more bytes does so because the next cell is not there.
Waits == at = "out" => IF cs = CS_HEADER THEN p = fed ELSE fed - p < trail

LEMMA NextWaits == IInv /\ IInv' /\ Waits /\ [Next]_vars => Waits'
<1> SUFFICES ASSUME IInv, IInv', Waits, [Next]_vars, at' = "out" PROVE Waits'
  BY DEF Waits
<1> USE DEF ours, caller, locals
<1>0. /\ p \in 0..fed /\ off \in 0..fed /\ fed \in Nat /\ trail \in Nat
  <2>1. stream \in Seq(Byte)
    BY DEF IInv, TypeOK
  <2> QED BY <2>1, LenProperties DEF IInv, TypeOK
<1>1. ASSUME NEW n \in 1..Len(stream), Feed(n) PROVE FALSE
  BY <1>1 DEF Feed
<1>2. CASE GoBack
  BY <1>2 DEF GoBack
<1>3. CASE Execute
  <2>1. p' = fed /\ fed' = fed /\ cs' = ctx.cs /\ trail' = ctx.trail
    BY <1>3 DEF Execute
  <2>2. ExpectedNext(cs', trail') /\ trail' \in Nat
    BY <2>1 DEF IInv, TypeOK, Control
  <2>3. cs' = CS_HEADER \/ trail' # 0
    BY <2>2 DEF ExpectedNext
  <2> QED BY <1>0, <2>1, <2>2, <2>3 DEF Waits
<1>4. ASSUME NEW cell, NEW q, Takes(cell, q) PROVE FALSE
  BY <1>4 DEF Takes, PushValue, AgainFixedTrail, StartContainer
<1>5. CASE Header
  BY <1>4, <1>5 DEF Header
<1>6. CASE Trail
  <2>1. ~Enough /\ UNCHANGED <<p, cs, trail, fed>> /\ at = "trail"
    BY <1>4, <1>6 DEF Trail
  <2> QED BY <1>0, <2>1 DEF Enough, Waits, IInv, Control
<1>7. CASE Push
  BY <1>7 DEF Push
<1>8. CASE HeaderAgain
  BY <1>8 DEF HeaderAgain, Waits
<1>9. CASE Finish
  BY <1>9 DEF Finish
<1>10. CASE Out
  BY <1>10 DEF Out
<1>11. CASE Failed
  BY <1>11 DEF Failed
<1>12. CASE UNCHANGED vars
  BY <1>12 DEF vars, Waits
<1> QED
  BY <1>1, <1>2, <1>3, <1>5, <1>6, <1>7, <1>8, <1>9, <1>10, <1>11, <1>12 DEF Next, Parses

LEMMA WaitsBetweenCells == IInv /\ Follows /\ Waits => WholeCells
<1> SUFFICES ASSUME IInv, Follows, Waits, at = "out", failure = "none"
             PROVE  p \in Ends[stream] /\ \A e \in Ends[stream] : e <= p \/ e > fed
  BY DEF WholeCells
<1>1. Position = p /\ wCs = cs /\ wTrail = trail /\ wTop = top
  BY Positions DEF wCs, wTrail, wTop
<1>2. wPushing = FALSE
  BY DEF wPushing
<1>3. stream \in Streams /\ List \in Seq(Packings)
  BY ContentsIs DEF Follows, List
<1>4. Ends[stream] = EndsOf(List)
  BY <1>3 DEF Ends, List
<1>5. p \in Nat /\ fed \in Nat /\ trail \in Nat
  <2>1. stream \in Seq(Byte)
    BY DEF IInv, TypeOK
  <2> QED BY <2>1, LenProperties DEF IInv, TypeOK
<1>6. Progress(List, delivered, start, p, cs, trail, stack, top, FALSE, obj)
  <2>1. Progress(List, delivered, start, Position, wCs, wTrail, stack, wTop, wPushing, obj)
    BY DEF Follows
  <2> QED BY <1>1, <1>2, <2>1, Zenon
<1>7. PICK s \in [Places -> Seq(Packings)], d \in [Places -> Nat], a \in [Places -> Lists(Byte)] :
          /\ Levels(List, delivered, top, stack, s, d, a)
          /\ Stands(List, p, cs, trail, top, FALSE, obj, s, d, a)
  BY <1>6 DEF Progress
<1>8. top \in Places
  BY <1>7 DEF Levels
<1>9. CASE cs = CS_HEADER
  <2> DEFINE todo == CellsFrom(s[top], d[top] + 1) \o a[top]
  <2>1. At(List, p, todo)
    BY <1>7, <1>9 DEF Stands, Between
  <2>2. p = fed
    BY <1>9 DEF Waits
  <2>3. todo \in Lists(Byte)
    <3>1. d[top] + 1 \in 1..(Len(s[top]) + 1) /\ s[top] \in Seq(Packings) /\ a[top] \in Lists(Byte)
      <4>1. s[top] \in Seq(Packings) /\ Len(s[top]) \in Nat /\ d[top] \in Nat /\ a[top] \in Lists(Byte)
        BY <1>8
      <4>2. d[top] <= Len(s[top])
        <5>1. CASE top = 0
          BY <1>7, <5>1 DEF Levels, Given
        <5>2. CASE top # 0
          <6>1. top \in 1..top
            BY <1>8, <5>2, ParserAssumption DEF Places
          <6> QED BY <1>7, <4>1, <6>1 DEF Levels, Nested
        <5> QED BY <5>1, <5>2
      <4> QED BY <4>1, <4>2
    <3>2. CellsFrom(s[top], d[top] + 1) \in Lists(Byte)
      BY <3>1, CellsFromType
    <3> QED BY <3>1, <3>2, FlattenTwo
  <2> HIDE DEF todo
  <2>4. p \in EndsOf(List) /\ \A e \in EndsOf(List) : e \in Nat
    BY <1>3, <2>1, <2>3, EndsAround
  <2>5. ASSUME NEW e \in EndsOf(List) PROVE e <= p \/ e > fed
    BY <1>5, <2>2, <2>4
  <2> QED BY <1>4, <2>4, <2>5, Zenon
<1>10. CASE cs # CS_HEADER
  <2>1. PICK cells \in Lists(Byte) :
          /\ cells # <<>> /\ trail = Len(cells[1])
          /\ At(List, p, cells \o (CellsOf(Goal(s, d, top).parts) \o Later(s, d, a, top)))
    BY <1>7, <1>10 DEF Stands, Inside
  <2>2. d[top] < Len(s[top])
    BY <1>7, <1>10 DEF Stands, Inside
  <2> DEFINE R == CellsOf(Goal(s, d, top).parts) \o Later(s, d, a, top)
             todo == cells \o R
  <2>3. R \in Lists(Byte)
    BY <1>8, <2>2, GoalIs, CellsType, LaterType, FlattenTwo
  <2> HIDE DEF R
  <2>4. todo \in Lists(Byte) /\ todo # <<>> /\ todo[1] = cells[1]
    BY <2>1, <2>3 DEF Lists
  <2>5. At(List, p, todo)
    BY <2>1 DEF R
  <2> HIDE DEF todo
  <2>6. /\ p \in EndsOf(List)
        /\ \A e \in EndsOf(List) : e \in Nat /\ (e <= p \/ e >= p + trail)
    BY <1>3, <2>1, <2>4, <2>5, EndsAround
  <2>7. p + trail > fed
    BY <1>5, <1>10 DEF Waits
  <2>8. ASSUME NEW e \in EndsOf(List) PROVE e <= p \/ e > fed
    BY <1>5, <2>6, <2>7
  <2> QED BY <1>4, <2>6, <2>8, Zenon
<1> QED BY <1>9, <1>10

-----------------------------------------------------------------------------
(* The properties                                                          *)

LEMMA SpecFollows == Spec => [](IInv /\ Refusal /\ Follows /\ Waits)
<1>1. Init => IInv /\ Refusal /\ Follows /\ Waits
  BY InitIInv, InitFollows DEF Init, Refusal, Waits
<1>2. IInv /\ Refusal /\ Follows /\ Waits /\ [Next]_vars => (IInv /\ Refusal /\ Follows /\ Waits)'
  BY NextIInv, RefusalStep, NextFollows, NextWaits
<1> QED BY <1>1, <1>2, PTL DEF Spec

\* Whatever a program packs, with whatever function and nested however, and however
\* the bytes arrive: the functions of unpack.c deliver those objects, in their order,
\* up to the first message that is nested too deep or is not MessagePack.
THEOREM DeliversPackings == Spec => []DeliversWhatWasPacked
<1>1. IInv /\ Refusal /\ Follows /\ Waits => DeliversWhatWasPacked
  BY DeliversWhatFollows
<1> QED BY <1>1, SpecFollows, PTL

\* convert_integer returns the integer that was packed, whatever function packed
\* it, if the type can hold it, and raises otherwise.
THEOREM IntegersConvert == Spec => []ConvertsExactly
<1>1. IInv /\ Refusal /\ Follows /\ Waits => ConvertsExactly
  BY DeliversWhatFollows
<1> QED BY <1>1, SpecFollows, PTL

\* A call that asks for more bytes stops between two cells: it has consumed all
\* that are complete.
THEOREM StopsBetweenCells == Spec => []WholeCells
<1>1. IInv /\ Refusal /\ Follows /\ Waits => WholeCells
  BY WaitsBetweenCells
<1> QED BY <1>1, SpecFollows, PTL
=============================================================================
