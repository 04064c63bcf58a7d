---------------------------- MODULE MCLmdbBackend ----------------------------
(***************************************************************************)
(* LmdbBackend for the model checker: two handles, one of which any LMDB   *)
(* call may fail on, the other only those that write.                      *)
(***************************************************************************)
EXTENDS LmdbBackend

CONSTANTS h1, h2

MCFaults == [h \in {h1, h2} |-> IF h = h1 THEN {"put", "commit"} ELSE LmdbCalls]
=============================================================================
