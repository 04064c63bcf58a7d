----------------------------- MODULE MCUnpacker -----------------------------
(***************************************************************************)
(* Unpacker on a stream of three messages: [raw, number], a raw of its own *)
(* and a number, and then a byte that starts nothing.                      *)
(***************************************************************************)
EXTENDS Unpacker

Header == [len |-> 1, kind |-> "plain", last |-> FALSE]
Number == [len |-> 1, kind |-> "plain", last |-> TRUE]
Body(n, last) == [len |-> n, kind |-> "raw", last |-> last]
Bad == [len |-> 1, kind |-> "bad", last |-> FALSE]

ThreeMessages ==
    <<Header, Header, Body(2, FALSE), Number, Header, Body(1, TRUE), Number, Bad>>
=============================================================================
