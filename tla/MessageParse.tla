----------------------------- MODULE MessageParse -----------------------------
(***************************************************************************)
(* What the deserializer promises: the messages of a stream of bytes, in   *)
(* order, as if all the bytes were there from the start.  Nothing is said  *)
(* of calls, of the pieces the bytes arrive in, or of what is kept from    *)
(* one call to the next.                                                   *)
(***************************************************************************)
EXTENDS MsgPackFormat

CONSTANT StackSize      \* MSGPACK_EMBED_STACK_SIZE

VARIABLES
    stream,             \* the bytes
    start, pos,         \* bytes of whole messages, and bytes parsed
    cs, trail,          \* what is next, and how many bytes it has
    stack, top,         \* the containers under construction
    pushing, obj,       \* an object that is complete and not placed yet
    failure,            \* "none", or "bytes": they were refused
    delivered           \* the messages

vars == <<stream, start, pos, cs, trail, stack, top, pushing, obj, failure, delivered>>

Init ==
    /\ start = 0 /\ pos = 0
    /\ cs = CS_HEADER /\ trail = 0
    /\ top = 0 /\ DOMAIN stack = 1..StackSize
    /\ pushing = FALSE
    /\ failure = "none"
    /\ delivered = <<>>

Wanted == IF cs = CS_HEADER THEN 1 ELSE trail
Cell == IF cs = CS_HEADER THEN HeaderCell(stream[pos + 1])
        ELSE TrailCell(cs, SubSeq(stream, pos + 1, pos + trail))

AValue(o) ==
    /\ pushing' = TRUE /\ obj' = o
    /\ cs' = CS_HEADER
    /\ UNCHANGED <<stack, top>>

AContainer(kind, count) ==
    /\ top < StackSize
    /\ IF count = 0 THEN AValue(Empty(kind))
       ELSE /\ stack' = [stack EXCEPT ![top + 1] = Frame(kind, count)]
            /\ top' = top + 1
            /\ pushing' = FALSE
            /\ cs' = CS_HEADER

Take ==
    /\ ~pushing
    /\ pos + Wanted <= Len(stream)
    /\ pos' = pos + Wanted
    /\ \/ Cell.is = "value" /\ AValue(Cell.obj)
       \/ /\ Cell.is = "again" /\ Cell.trail = 0
          /\ AValue(Raw(<<>>))
       \/ /\ Cell.is = "again" /\ Cell.trail # 0
          /\ cs' = Cell.cs /\ trail' = Cell.trail
          /\ UNCHANGED <<pushing, stack, top>>
       \/ Cell.is = "container" /\ AContainer(Cell.kind, Cell.count)
    /\ UNCHANGED <<start, failure, delivered>>

\* The object goes into the innermost container.
Place ==
    /\ pushing
    /\ top > 0
    /\ LET c == Filled(stack[top], obj)
       IN  IF c.count = 0
           THEN obj' = Complete(c) /\ top' = top - 1 /\ UNCHANGED pushing
           ELSE pushing' = FALSE /\ UNCHANGED top
    /\ stack' = [stack EXCEPT ![top] = Filled(stack[top], obj)]
    /\ UNCHANGED <<start, pos, cs, failure, delivered>>

Deliver ==
    /\ pushing
    /\ top = 0
    /\ delivered' = Append(delivered, obj)
    /\ start' = pos
    /\ pushing' = FALSE
    /\ UNCHANGED <<pos, cs, top, failure>>

\* The message is parsed again from its first byte.
Restart ==
    /\ pos' = start
    /\ cs' = CS_HEADER
    /\ top' = 0
    /\ pushing' = FALSE
    /\ UNCHANGED <<start, failure, delivered>>

\* Bytes that are refused: no message is delivered from here on.
Refuse == failure' = "bytes" /\ UNCHANGED delivered

Next ==
    /\ UNCHANGED stream
    /\ \/ failure = "none" /\ (Take \/ Place \/ Deliver \/ Restart)
       \/ Refuse

Spec == Init /\ [][Next]_vars
=============================================================================
