------------------------------- MODULE ZBuffer -------------------------------
(***************************************************************************)
(* zbuffer.h: a buffer that is compressed as it is written.                *)
(*                                                                         *)
(* deflate is external.  It is known by what it reads and by how much it   *)
(* may write: what it has read it puts out, now or later, in order, with a *)
(* mark at the end, and it stops when it has no input or no room.          *)
(***************************************************************************)
EXTENDS Integers, Sequences, FiniteSets, SequencesExt

CONSTANTS
    Writes,       \* what is written
    InitSize,     \* init_size
    ReserveSize,  \* MSGPACK_ZBUFFER_RESERVE_SIZE
    MaxAlloc,     \* bound: a longer block is not to be had
    MaxWritten    \* bound: of the bytes written between resets

VARIABLES
    at,           \* where the calls are: idle, write, flush
    out,          \* the bytes from data to next_out
    avail_out,
    input,        \* what is left at next_in
    pending,      \* what deflate has read and not put out
    finishing,    \* deflate: "no", "asked" to finish, "done"
    answer,       \* of the last operation
    written,      \* auxiliary: what was written since the last reset
    given,        \* auxiliary: what was put out and taken away since then
    failed        \* auxiliary: a write failed, and its rest was left in the stream

stream == <<out, avail_out, input, pending, finishing>>
history == <<written, given, failed>>
vars == <<at, stream, answer, history>>

\* The mark at the end.
End == 0

Init ==
    /\ at = "idle"
    /\ out = <<>> /\ avail_out = 0
    /\ input = <<>> /\ pending = <<>> /\ finishing = "no"
    /\ answer = 0
    /\ written = <<>> /\ given = <<>> /\ failed = FALSE

Return(a) == at' = "idle" /\ answer' = a

\* msgpack_zbuffer_expand: what avail_out becomes, if the block can be had.
Expanded ==
    LET csize == Len(out) + avail_out
        nsize == IF csize = 0 THEN InitSize ELSE 2 * csize
    IN  IF nsize <= MaxAlloc THEN {nsize - Len(out)} ELSE {}

\* deflate, with room for that much: it reads the first k bytes of the input and
\* puts out m of those it has read, and last the mark.
Deflate(k, m, room, mark) ==
    LET all == pending \o SubSeq(input, 1, k) \o mark
    IN  /\ m <= Len(all)
        /\ out' = out \o SubSeq(all, 1, m)
        /\ pending' = SubSeq(all, m + 1, Len(all))
        /\ avail_out' = room - m
        /\ input' = SubSeq(input, k + 1, Len(input))

-----------------------------------------------------------------------------
(* msgpack_zbuffer_write                                                   *)

Write(w) ==
    /\ at = "idle" /\ Len(written) + Len(w) <= MaxWritten
    /\ at' = "write"
    /\ input' = w
    /\ written' = written \o w
    /\ UNCHANGED <<out, avail_out, pending, finishing, answer, given, failed>>

\* Mutant: the loop ends when deflate has no room.
ReadAllOrFull(left, room) == left = <<>> \/ room = 0

\* while(zbuf->stream.avail_in > 0)
ReadAll(left, room) == left = <<>>

WriteFails ==
    /\ Return(-1)
    /\ failed' = TRUE
    /\ UNCHANGED <<out, input, pending, finishing, written, given>>

\* A round of the loop, that makes room if there is little, which may fail, and calls
\* deflate.  That fails if it was asked to finish, and may if there is no input.
WriteRound ==
    /\ at = "write"
    /\ \/ avail_out < ReserveSize /\ WriteFails /\ UNCHANGED avail_out
       \/ \E room \in IF avail_out < ReserveSize THEN Expanded ELSE {avail_out} :
             \/ /\ finishing # "no" \/ input = <<>>
                /\ WriteFails
                /\ avail_out' = room
             \/ /\ finishing = "no"
                /\ \E k \in 0..Len(input), m \in 0..room :
                      /\ k = Len(input) \/ m = room
                      /\ Deflate(k, m, room, <<>>)
                /\ IF ReadAll(input', avail_out') THEN Return(0) ELSE UNCHANGED <<at, answer>>
                /\ UNCHANGED <<finishing, history>>

-----------------------------------------------------------------------------
(* msgpack_zbuffer_flush                                                   *)

Flush ==
    /\ at = "idle"
    /\ at' = "flush"
    /\ UNCHANGED <<stream, answer, history>>

\* Without room deflate fails; otherwise it reads what a failed write left, and the
\* loop makes room until all is put out.
FlushRound ==
    /\ at = "flush"
    /\ \/ /\ avail_out = 0
          /\ Return(-1)
          /\ UNCHANGED stream
       \/ /\ avail_out > 0
          /\ LET mark == IF finishing = "no" THEN <<End>> ELSE <<>>
                 all == Len(pending) + Len(input) + Len(mark)
             IN  \/ /\ all <= avail_out
                    /\ Deflate(Len(input), all, avail_out, mark)
                    /\ finishing' = "done"
                    /\ Return(0)
                 \/ /\ all > avail_out
                    /\ Deflate(Len(input), avail_out, avail_out, mark)
                    /\ finishing' = "asked"
                    /\ at' = "expand"
                    /\ UNCHANGED answer
    /\ UNCHANGED history

FlushExpand ==
    /\ at = "expand"
    /\ \/ Return(-1) /\ UNCHANGED avail_out
       \/ at' = "flush" /\ avail_out' \in Expanded /\ UNCHANGED answer
    /\ UNCHANGED <<out, input, pending, finishing, history>>

-----------------------------------------------------------------------------
(* msgpack_zbuffer_reset_buffer, release_buffer, reset                     *)

ResetBuffer ==
    /\ at = "idle"
    /\ out' = <<>> /\ avail_out' = avail_out + Len(out)
    /\ given' = given \o out
    /\ UNCHANGED <<at, input, pending, finishing, answer, written, failed>>

ReleaseBuffer ==
    /\ at = "idle"
    /\ out' = <<>> /\ avail_out' = 0
    /\ given' = given \o out
    /\ UNCHANGED <<at, input, pending, finishing, answer, written, failed>>

Reset ==
    /\ at = "idle"
    /\ out' = <<>> /\ avail_out' = avail_out + Len(out)
    /\ pending' = <<>> /\ finishing' = "no"
    /\ written' = <<>> /\ given' = <<>>
    /\ failed' = (input # <<>>)
    /\ UNCHANGED <<at, input, answer>>

Next ==
    \/ \E w \in Writes : Write(w)
    \/ WriteRound \/ Flush \/ FlushRound \/ FlushExpand
    \/ ResetBuffer \/ ReleaseBuffer \/ Reset

Spec == Init /\ [][Next]_vars

-----------------------------------------------------------------------------
(* Properties                                                              *)

\* When a flush has answered a buffer, what was put out since the last reset, in the
\* buffers that were given away and in this one, is all that was written, once and in
\* order, if no write failed; a flush that fails loses nothing (lines 108-197).
FlushedIsWritten ==
    /\ finishing = "done" => pending = <<>>
    /\ ~failed /\ at = "idle" =>
           given \o out \o pending = written \o (IF finishing = "no" THEN <<>> ELSE <<End>>)
=============================================================================
