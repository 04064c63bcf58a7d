-------------------------- MODULE WriteTransactions --------------------------
(***************************************************************************)
(* What the LMDB backend promises the store: one write transaction at a    *)
(* time, whose objects become part of the database together or not at all, *)
(* and outside of one single objects.  LmdbBackend implements it.          *)
(***************************************************************************)
CONSTANTS Handles, Oids, NoHandle

VARIABLES writer,   \* the handle in a write transaction
          txn,      \* the objects written in it
          db        \* the objects committed

vars == <<writer, txn, db>>

Init == writer = NoHandle /\ txn = {} /\ db = {}

Begin(h) ==
    /\ writer = NoHandle
    /\ writer' = h
    /\ UNCHANGED <<txn, db>>

\* An object written in the transaction.
Put(o) ==
    /\ writer # NoHandle
    /\ txn' = txn \cup {o}
    /\ UNCHANGED <<writer, db>>

\* An object written while there is none.
PutAlone(o) ==
    /\ writer = NoHandle
    /\ db' = db \cup {o}
    /\ UNCHANGED <<writer, txn>>

Commit ==
    /\ writer # NoHandle
    /\ db' = db \cup txn
    /\ writer' = NoHandle
    /\ txn' = {}

Abort ==
    /\ writer # NoHandle
    /\ writer' = NoHandle
    /\ txn' = {}
    /\ UNCHANGED db

Next ==
    \/ \E h \in Handles : Begin(h)
    \/ \E o \in Oids : Put(o) \/ PutAlone(o)
    \/ Commit \/ Abort

Spec == Init /\ [][Next]_vars
=============================================================================
