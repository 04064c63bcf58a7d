--------------------------- MODULE MCObjectStorage ---------------------------
(***************************************************************************)
(* ObjectStorage for the model checker: three entities, each the parent of *)
(* the next, and four objects.  One object of the first entity gets every  *)
(* kind of value in every property, the others only numbers.               *)
(*                                                                         *)
(* The numbers: 3 stands for pi, 31 for 2^31, 32 for 2^31 + 1, 63 for 2^63 *)
(* and 64 and 65 for numbers above it, of which a double holds the first.  *)
(***************************************************************************)
EXTENDS ObjectStorage

CONSTANTS a1, a2, b1, c1

All == {"int32", "float", "int64", "double"}
MCHolds ==
    (-1 :> {}) @@ (0 :> All) @@ (1 :> All) @@ (2 :> All) @@ (3 :> {"double"})
    @@ (31 :> {"float", "int64", "double"}) @@ (32 :> {"int64", "double"})
    @@ (33 :> {"int64"}) @@ (63 :> {"float", "double"}) @@ (64 :> {"double"}) @@ (65 :> {})

A(kind, type, transient, default) ==
    [kind |-> kind, type |-> type, transient |-> transient, default |-> default]
MCProperty ==
    [any     |-> A("attribute", "plain", FALSE, None),
     date    |-> A("attribute", "date", FALSE, None),
     key     |-> A("attribute", "base64", FALSE, None),
     many    |-> A("many", "plain", FALSE, None),
     note    |-> A("attribute", "plain", TRUE, None),
     number  |-> A("attribute", "plain", FALSE, Number(0)),
     one     |-> A("one", "plain", FALSE, None),
     ordered |-> A("ordered", "plain", FALSE, None)]
MCKeyOrder == <<"any", "date", "key", "many", "note", "number", "one", "ordered">>
MCHashOrders == {MCKeyOrder, Reverse(MCKeyOrder)}
MCRefOrder == <<a1, a2, b1, c1>>

MCEntityOf == (a1 :> "A") @@ (a2 :> "A") @@ (b1 :> "B") @@ (c1 :> "C")
MCSubentities == [A |-> <<"B">>, B |-> <<"C">>, C |-> <<>>]

Plain(n) ==
    [any |-> None, date |-> Date(1), key |-> Data(<<7>>), many |-> {}, note |-> None,
     number |-> Number(n), one |-> Ref(b1), ordered |-> <<>>]
With(n, v) == [Plain(1) EXCEPT ![n] = v]
Varied ==
    {With("any", v) : v \in {String(<<>>), String(<<97>>), Bool(TRUE), Bool(FALSE), Number(2),
                             Data(<<>>), Data(<<1, 2>>), Data(<<1, 2, 3, 4>>),
                             Data(BOM \o <<97>>), Date(1)}}
    \cup {With("number", Number(n)) : n \in {0, 3, 31, 32, 33, 63, 64, 65}}
    \cup {With("number", None), With("date", None), With("key", None), With("one", None),
          With("key", Data(<<>>)), With("note", String(<<97>>))}
    \cup {With("many", s) : s \in {{a2}, {b1, c1}, {a2, b1, c1}}}
    \cup {With("ordered", s) : s \in {<<a2>>, <<c1, a2>>}}
MCContents ==
    (a1 :> Varied) @@ (a2 :> {Plain(0), Plain(1)}) @@ (b1 :> {Plain(2)})
    @@ (c1 :> {Plain(1)})
=============================================================================
