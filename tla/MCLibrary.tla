------------------------------ MODULE MCLibrary ------------------------------
(***************************************************************************)
(* The three buffers a packer writes to, the zone, and a variable that     *)
(* objects are converted to, for the model checker.  They share nothing,   *)
(* so a behaviour uses one of them, chosen at the start.                   *)
(***************************************************************************)
EXTENDS VrefBuffer, Library, TLC

CONSTANTS k1, k2, k3, y1, y2, y3, s1, s2

VARIABLES
    used,                                                       \* the one in use
    type, value, ok, before, sent

T(t) == [t |-> t]
N(signed, bits) == [t |-> "integer", signed |-> signed, bits |-> bits]
F(signed, bits) == [t |-> "fix_int", signed |-> signed, bits |-> bits]
Of(t, of) == [t |-> t, of |-> of]
KV(t, k, v) == [t |-> t, key |-> k, val |-> v]
U8 == N(FALSE, 8)
MCTypes ==
    [nil |-> T("nil"), boolean |-> T("boolean"), u8 |-> U8, i8 |-> N(TRUE, 8), u64 |-> N(FALSE, 64),
     double |-> T("double"), string |-> T("string"), object |-> T("object"),
     fix |-> Of("vector", F(FALSE, 16)), signed |-> F(TRUE, 32),
     vector |-> Of("vector", N(TRUE, 16)), lists |-> Of("deque", Of("list", U8)),
     sets |-> Of("vector", Of("set", U8)), set |-> Of("set", U8), multiset |-> Of("multiset", U8),
     pair |-> Of("pair", <<U8, T("string")>>), tuple |-> Of("tuple", <<U8, T("string")>>),
     none |-> Of("define", <<>>), older |-> Of("define", <<U8>>),
     newer |-> Of("define", <<U8, T("string"), Of("vector", U8)>>),
     structs |-> Of("vector", Of("define", <<U8, U8>>)),
     hashed |-> Of("unordered_set", U8), hashes |-> Of("unordered_multiset", U8),
     table |-> KV("unordered_map", U8, Of("vector", U8)), tables |-> KV("unordered_multimap", U8, U8),
     map |-> KV("map", U8, Of("vector", U8)), multimap |-> KV("multimap", U8, U8),
     assoc |-> KV("assoc_vector", U8, T("boolean"))]

MsgPack == INSTANCE MsgPackFormat
Num(b) == MsgPack!Unsigned(<<b>>)
Arr(s) == MsgPack!Array(s)
Raw97 == MsgPack!Raw(<<97>>)
MCMessages ==
    {MsgPack!Nil, MsgPack!Boolean(TRUE), MsgPack!Double(<<64, 9, 33, 251, 84, 68, 45, 24>>), Raw97,
     Num(1), Num(127), Num(200), MsgPack!Unsigned(<<1, 0>>), MsgPack!Signed(<<255>>),
     MsgPack!Signed(<<128>>), MsgPack!Signed(<<255, 127>>),
     Arr(<<>>), Arr(<<Num(1)>>), Arr(<<Num(2), Num(1)>>), Arr(<<Num(2), Num(200), Num(2)>>),
     Arr(<<Num(1), MsgPack!Nil>>), Arr(<<Num(2), Raw97>>), Arr(<<Num(3), Raw97, Arr(<<Num(1), Num(2)>>)>>),
     Arr(<<Num(1), Raw97, Arr(<<Num(1), MsgPack!Nil>>)>>),
     Arr(<<Arr(<<Num(1)>>)>>), Arr(<<Arr(<<Num(2), Num(1)>>), Arr(<<Num(3)>>)>>)}
    \cup {MsgPack!Map(s) : s \in
             {<<>>, <<<<Num(2), Num(1)>>, <<Num(1), Num(2)>>>>, <<<<Num(1), Num(3)>>, <<Num(1), MsgPack!Nil>>>>,
              <<<<Num(2), Arr(<<Num(1), Num(2)>>)>>, <<Num(1), Arr(<<>>)>>, <<Num(2), Arr(<<Num(3)>>)>>>>,
              <<<<Num(3), Arr(<<>>)>>, <<Num(1), Num(1)>>>>,
              <<<<Num(2), MsgPack!Boolean(TRUE)>>, <<Num(1), MsgPack!Boolean(FALSE)>>>>}}

MCWrites == {<<>>, <<1, 2>>, <<3, 4, 5>>}
MCChunkSize == (1 :> 1) @@ (2 :> 3)
MCFirstSize == (1 :> 1) @@ (2 :> 2)

MCSimpleWrites == {<<1>>, <<2, 3>>}
MCCompressedWrites == {<<>>, <<1>>, <<2, 3>>}

Variable == INSTANCE TypeAdaptors WITH
    Types <- MCTypes, Messages <- MCMessages, MaxLength <- 4

simple == <<size, data, alloc, blocks, released, sbufferAnswer>>
compressed ==
    <<at, out, avail_out, input, pending, finishing, zbufferAnswer, written, given, failed>>
memory == <<zone, length, fault, pieces, built>>
variable == <<type, value, ok, before, sent>>
MCVars == <<used, vars, simple, compressed, memory, variable>>
MCInit ==
    /\ used \in {"vref", "simple", "compressed", "zone", "variable"}
    /\ Init /\ Simple!Init /\ Compressed!Init /\ Memory!Init
    /\ Variable!Init /\ (used # "variable" => type = "nil")
MCNext ==
    /\ UNCHANGED used
    /\ \/ /\ used = "vref" /\ Next
          /\ UNCHANGED <<simple, compressed, memory, variable>>
       \/ /\ used = "simple" /\ Simple!Next
          /\ UNCHANGED <<vars, compressed, memory, variable>>
       \/ /\ used = "compressed" /\ Compressed!Next
          /\ UNCHANGED <<vars, simple, memory, variable>>
       \/ /\ used = "zone" /\ Memory!Next
          /\ UNCHANGED <<vars, simple, compressed, variable>>
       \/ /\ used = "variable" /\ Variable!Next
          /\ UNCHANGED <<vars, simple, compressed, memory>>
MCSpec == MCInit /\ [][MCNext]_MCVars

Symmetry == Permutations({k1, k2, k3}) \cup Permutations({y1, y2, y3})

VariableReceived == Variable!Received
VariablePacksAsObject == Variable!PacksAsObject
=============================================================================
