-------------------------- MODULE MsgPackPackObject --------------------------
(***************************************************************************)
(* msgpack_pack_object of objectc.c: an object is packed by the functions  *)
(* of MsgPackPack.                                                         *)
(***************************************************************************)
EXTENDS MsgPackPack

\* msgpack_pack_object, as the calls it makes of the write callback.
RECURSIVE msgpack_pack_object(_)
msgpack_pack_object(o) ==
    CASE o.type = "nil"      -> <<pack_nil>>
      [] o.type = "boolean"  -> <<pack_boolean(o.boolean)>>
      [] o.type = "positive" -> <<pack_integer(FALSE, 64, o.u64)>>
      [] o.type = "negative" -> <<pack_integer(TRUE, 64, o.i64)>>
      [] o.type = "double"   -> <<pack_double(o.dec)>>
      [] o.type = "raw"      -> <<pack_raw(Len(o.raw)), o.raw>>
      [] o.type = "array"    ->
             <<pack_array(Len(o.array))>>
             \o FlattenSeq([i \in DOMAIN o.array |-> msgpack_pack_object(o.array[i])])
      [] o.type = "map"      ->
             <<pack_map(Len(o.map))>>
             \o FlattenSeq([i \in DOMAIN o.map |-> msgpack_pack_object(o.map[i][1])
                                                   \o msgpack_pack_object(o.map[i][2])])
=============================================================================
