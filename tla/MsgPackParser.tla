---------------------------- MODULE MsgPackParser ----------------------------
(***************************************************************************)
(* template_execute of unpack_template.h, label by label, with its two     *)
(* kinds of callers in unpack.c.                                           *)
(*                                                                         *)
(* msgpack_unpacker_next resumes a parse: what is between the end of one   *)
(* call and the start of the next is the saved context and the offset.     *)
(* msgpack_unpack and msgpack_unpack_next parse with a context of their    *)
(* own, and the caller tries again, with more bytes, from the first byte   *)
(* of the message.                                                         *)
(***************************************************************************)
EXTENDS MsgPackFormat, FiniteSets

CONSTANTS
    StackSize,     \* MSGPACK_EMBED_STACK_SIZE
    Streams,       \* the bytes a client may be given, all of them
    Apis           \* the functions it may use

ASSUME ParserAssumption ==
    /\ StackSize \in Nat
    /\ Streams \subseteq Seq(Byte)
    /\ Apis \subseteq {"unpacker_next", "unpack", "unpack_next"}

VARIABLES
    stream, api,            \* chosen once
    fed,                    \* bytes the client has
    off,                    \* the offset the caller keeps
    start,                  \* the client: the end of the last message
    ctx,                    \* the context between two calls: cs, trail, top
    stack,                  \* the context's stack, used in place
    at,                     \* the label template_execute is at
    p, cs, trail, top, obj, \* its locals
    failure,                \* why a call failed that the context has seen
    delivered               \* the objects returned

ours == <<stream, api>>
caller == <<fed, off, start, ctx>>
locals == <<p, cs, trail, top>>
vars == <<ours, caller, stack, at, locals, obj, failure, delivered>>

Labels == {"idle", "header", "trail", "push", "header_again",
           "finish", "failed", "out"}

\* template_init
Fresh == [cs |-> CS_HEADER, trail |-> 0, top |-> 0]

Init ==
    /\ stream \in Streams
    /\ api \in Apis
    /\ fed = 0 /\ off = 0 /\ start = 0
    /\ ctx = Fresh
    /\ stack = [i \in 1..StackSize |-> Frame("array", 1)]
    /\ at = "idle"
    /\ p = 0 /\ cs = CS_HEADER /\ trail = 0 /\ top = 0
    /\ obj = Nil
    /\ failure = "none"
    /\ delivered = <<>>

-----------------------------------------------------------------------------
(* The client                                                              *)

Resumes == api = "unpacker_next"

Feed(n) ==
    /\ at = "idle"
    /\ n \in 1..(Len(stream) - fed)
    /\ fed' = fed + n
    /\ UNCHANGED <<ours, off, start, ctx, stack, at, locals, obj, failure, delivered>>

\* msgpack_unpack moves the offset when it asks for more bytes, and forgets what
\* it has parsed: its caller goes back before the next call.
GoBack ==
    /\ at = "idle"
    /\ ~Resumes /\ off # start
    /\ off' = start
    /\ UNCHANGED <<ours, fed, start, ctx, stack, at, locals, obj, failure, delivered>>

-----------------------------------------------------------------------------
(* template_execute                                                        *)

\* The call: the locals are loaded from the context.  The one-shot functions
\* return at once if there is no byte, and start with a context of their own.
Execute ==
    /\ at = "idle"
    /\ ~Resumes => off = start /\ off < fed
    /\ p' = off
    /\ cs' = ctx.cs /\ trail' = ctx.trail /\ top' = ctx.top
    /\ at' = IF off = fed THEN "out" ELSE IF ctx.cs = CS_HEADER THEN "header" ELSE "trail"
    /\ UNCHANGED <<ours, caller, stack, obj, failure, delivered>>

\* push_fixed_value, push_simple_value, push_variable_value
PushValue(o) ==
    /\ obj' = o
    /\ at' = "push"
    /\ UNCHANGED <<cs, trail, stack, top>>

\* again_fixed_trail and again_fixed_trail_if_zero; q: the last byte of the cell.
AgainFixedTrail(next, n, q) ==
    /\ trail' = n
    /\ IF n = 0
       THEN /\ p' = q /\ obj' = Raw(<<>>) /\ at' = "push"
            /\ UNCHANGED cs
       ELSE /\ p' = q + 1 /\ cs' = next /\ at' = "trail"
            /\ UNCHANGED obj
    /\ UNCHANGED <<stack, top>>

\* Mutant: the test is made after the frame is written.
StackFullLate == top > StackSize

\* Mutant: the last place on the stack is not used.
StackFullEarly == top + 1 >= StackSize

StackFull == top >= StackSize

\* The callback that takes memory from the zone tests for NULL, and never gets it:
\* msgpack_zone_malloc_expand writes into a chunk that malloc did not give before it
\* returns (zone.c, lines 84-89), so there the process ends.
StartContainer(kind, count) ==
    \/ /\ StackFull
       /\ at' = "failed"
       /\ UNCHANGED <<cs, trail, stack, top, obj>>
    \/ /\ ~StackFull
       /\ count = 0
       /\ PushValue(Empty(kind))
    \/ /\ ~StackFull
       /\ count # 0
       /\ stack' = [stack EXCEPT ![top + 1] = Frame(kind, count)]
       /\ top' = top + 1
       /\ at' = "header_again"
       /\ UNCHANGED <<cs, trail, obj>>

\* What a cell does, whose last byte is q.
Takes(cell, q) ==
    \/ cell.is = "value" /\ PushValue(cell.obj) /\ p' = q
    \/ cell.is = "again" /\ AgainFixedTrail(cell.cs, cell.trail, q)
    \/ cell.is = "container" /\ StartContainer(cell.kind, cell.count) /\ p' = q
    \/ /\ cell.is = "refused"
       /\ at' = "failed" /\ p' = q
       /\ UNCHANGED <<cs, trail, stack, top, obj>>

\* case CS_HEADER
Header ==
    /\ at = "header"
    /\ Takes(HeaderCell(stream[p + 1]), p)
    /\ UNCHANGED <<ours, caller, failure, delivered>>

\* Mutant: one more byte is waited for.
EnoughMore == fed - p > trail

\* All the bytes that follow are there.
Enough == fed - p >= trail

\* default: and the switch in it
Trail ==
    /\ at = "trail"
    /\ IF Enough
       THEN Takes(TrailCell(cs, SubSeq(stream, p + 1, p + trail)), p + trail - 1)
       ELSE at' = "out" /\ UNCHANGED <<stack, locals, obj>>
    /\ UNCHANGED <<ours, caller, failure, delivered>>

\* _push
Push ==
    /\ at = "push"
    /\ IF top = 0
       THEN at' = "finish" /\ UNCHANGED <<stack, top, obj>>
       ELSE LET c == Filled(stack[top], obj)
            IN  /\ stack' = [stack EXCEPT ![top] = c]
                /\ IF c.count = 0
                   THEN obj' = Complete(c) /\ top' = top - 1 /\ UNCHANGED at
                   ELSE at' = "header_again" /\ UNCHANGED <<obj, top>>
    /\ UNCHANGED <<ours, caller, p, cs, trail, failure, delivered>>

\* _header_again
HeaderAgain ==
    /\ at = "header_again"
    /\ cs' = CS_HEADER
    /\ p' = p + 1
    /\ at' = IF p + 1 = fed THEN "out" ELSE "header"
    /\ UNCHANGED <<ours, caller, stack, trail, top, obj, failure, delivered>>

-----------------------------------------------------------------------------
(* The end of a call: _end, and what the three functions make of it        *)

\* Mutant: the depth is not kept.
SavedShallow == [cs |-> cs, trail |-> trail, top |-> 0]

Saved == [cs |-> cs, trail |-> trail, top |-> top]

\* _finish: the object is returned, and the context is reset.
Finish ==
    /\ at = "finish"
    /\ at' = "idle"
    /\ delivered' = Append(delivered, obj)
    /\ off' = p + 1
    /\ start' = p + 1
    /\ ctx' = Fresh
    /\ UNCHANGED <<ours, fed, stack, locals, obj, failure>>

\* _out: more bytes are needed.
Out ==
    /\ at = "out"
    /\ at' = "idle"
    /\ ctx' = IF Resumes THEN Saved ELSE Fresh
    /\ off' = IF api = "unpack_next" THEN off ELSE p
    /\ UNCHANGED <<ours, fed, start, stack, locals, obj, failure, delivered>>

\* _failed: msgpack_unpacker_next returns false, as if more bytes were needed,
\* and the context is not reset.
Failed ==
    /\ at = "failed"
    /\ at' = "idle"
    /\ ctx' = IF Resumes THEN Saved ELSE Fresh
    /\ off' = IF Resumes THEN p ELSE off
    /\ failure' = IF Resumes THEN "bytes" ELSE "none"
    /\ UNCHANGED <<ours, fed, start, stack, locals, obj, delivered>>

Parses == Execute \/ Header \/ Trail \/ Push \/ HeaderAgain \/ Finish \/ Out \/ Failed

Next ==
    \/ \E n \in 1..Len(stream) : Feed(n)
    \/ GoBack
    \/ Parses

Spec == Init /\ [][Next]_vars

\* A client that goes on reading and goes on asking for objects.
FairSpec ==
    Spec /\ WF_vars(Parses) /\ WF_vars(GoBack) /\ SF_vars(\E n \in 1..Len(stream) : Feed(n))

-----------------------------------------------------------------------------
(* Properties                                                              *)

FrameOK(c) ==
    /\ DOMAIN c = {"ct", "count", "items", "key"}
    /\ c.ct \in {"item", "key", "value"}
    /\ c.count \in Nat

TypeOK ==
    /\ stream \in Seq(Byte) /\ api \in Apis
    /\ fed \in 0..Len(stream) /\ off \in 0..fed /\ start \in 0..off
    /\ ctx \in [cs : States, trail : Nat, top : 0..StackSize]
    /\ DOMAIN stack = 1..StackSize /\ \A i \in 1..StackSize : FrameOK(stack[i])
    /\ at \in Labels
    /\ p \in 0..fed /\ cs \in States /\ trail \in Nat /\ top \in 0..StackSize
    /\ failure \in {"none", "bytes"}

\* The parse so far, as the deserializer that has all the bytes sees it: what is
\* kept between two calls, or the locals during one.  A cell is parsed when its
\* last byte is.
Position ==
    CASE at = "idle" -> IF Resumes THEN off ELSE start
      [] at \in {"push", "header_again", "finish"} -> p + 1
      [] at = "failed" /\ cs # CS_HEADER -> p + 1 - trail
      [] OTHER -> p

Whole == INSTANCE MessageParse WITH
    pos     <- Position,
    cs      <- IF at = "idle" THEN ctx.cs
               ELSE IF at \in {"push", "header_again", "finish"} THEN CS_HEADER ELSE cs,
    trail   <- IF at = "idle" THEN ctx.trail ELSE trail,
    top     <- IF at = "idle" THEN ctx.top ELSE top,
    pushing <- at \in {"push", "finish"}

\* However the bytes are cut into calls, the objects are those of one parse of the
\* whole stream: nothing is lost or read twice where a call ends in the middle of
\* a message, a number or a length, and nothing follows bytes that were refused,
\* though msgpack_unpacker_next hides the refusal and may be called again.
SameAsWhole == Whole!Spec
=============================================================================
