----------------------------- MODULE WriteBuffer -----------------------------
(***************************************************************************)
(* What a buffer promises to the packer that writes to it: the bytes it    *)
(* holds are those of the writes that answered 0, in their order, and it   *)
(* keeps them until it is cleared or they are moved to another buffer.     *)
(***************************************************************************)
EXTENDS Integers, Sequences

CONSTANTS
    Buffers,
    Writes        \* the sequences of bytes that are written

VARIABLES
    contents,     \* buffer -> the bytes it holds
    answer,       \* of the last operation: 0, or -1 for a failure
    broken        \* an operation wrote outside of its memory

vars == <<contents, answer, broken>>

Init ==
    /\ contents = [b \in Buffers |-> <<>>]
    /\ answer = 0
    /\ broken = FALSE

Write(b, w) ==
    \/ /\ contents' = [contents EXCEPT ![b] = @ \o w]
       /\ answer' = 0
    \/ contents' = contents /\ answer' = -1

Clear(b) ==
    /\ contents' = [contents EXCEPT ![b] = <<>>]
    /\ answer' = 0

Migrate(from, to) ==
    \/ /\ contents' = [contents EXCEPT ![from] = <<>>, ![to] = @ \o contents[from]]
       /\ answer' = 0
    \/ contents' = contents /\ answer' = -1

\* From then on nothing is promised.
Break == broken' = TRUE

Next ==
    /\ ~broken
    /\ \/ /\ broken' = FALSE
          /\ \/ \E b \in Buffers : (\E w \in Writes : Write(b, w)) \/ Clear(b)
             \/ \E from \in Buffers : \E to \in Buffers \ {from} : Migrate(from, to)
       \/ Break

Spec == Init /\ [][Next]_vars
=============================================================================
