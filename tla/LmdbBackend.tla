---------------------------- MODULE LmdbBackend ----------------------------
(***************************************************************************)
(* lmdb_transactional_backend.cc: the object database backend over LMDB.   *)
(*                                                                         *)
(* A handle is one backend, with its own LMDB environment on the one file. *)
(* A call on it opens a transaction of its own: a child of the handle's    *)
(* write transaction when that is open, else a read-only one, or for a     *)
(* write a top-level one.  Between that and its end other handles move, so *)
(* a call is two steps.  A value is known by its object id.                *)
(*                                                                         *)
(* LMDB itself is external: one writer at a time; a read-only transaction  *)
(* sees what was committed when it began; a transaction has at most one    *)
(* child and a thread at most one read-only transaction.                   *)
(***************************************************************************)
EXTENDS Naturals, FiniteSets

CONSTANTS
    Handles,     \* the backends, each used by one thread
    Oids,        \* object ids
    Faults,      \* per handle: the LMDB calls that may fail
    NoHandle,    \* the write lock is free
    NoOid        \* a call that names no object

LmdbCalls == {"begin", "get", "put", "cursor", "commit", "dbi"}

ASSUME BackendAssumption ==
    /\ NoHandle \notin Handles
    /\ NoOid \notin Oids
    /\ Faults \in [Handles -> SUBSET LmdbCalls]

VARIABLES
    opened,    \* handles whose backend is part of an object database
    env,       \* the objects committed to the LMDB environment
    writer,    \* who holds LMDB's write lock
    inTxn,     \* per handle: backend->txn is not null
    txn,       \* per handle: the objects written in backend->txn
    child,     \* per handle: backend->txn has a child
    reader,    \* per handle: its thread has a read-only transaction
    call,      \* per handle: the call it is in
    snap,      \* per handle: what the call's transaction sees
    visited,   \* per handle: the keys foreach has passed to its callback
    result,    \* per handle: what the last call returned
    atCall     \* auxiliary, per handle: what was there when the call was made

calling == <<call, snap, visited, result, atCall>>
vars == <<opened, env, writer, inTxn, txn, child, reader, calling>>

Ops == {"read", "read_header", "exists", "write", "foreach"}
NoCall == [op |-> "none", oid |-> NoOid, begun |-> FALSE]
Calls == [op : Ops \ {"foreach"}, oid : Oids, begun : BOOLEAN]
         \cup [op : {"foreach"}, oid : {NoOid}, begun : BOOLEAN] \cup {NoCall}

Statuses == {"none", "OK", "ENOTFOUND", "ERROR", "EUSER", "yes", "no"}

\* What the handle's own transaction, or else a new one, would see.
There(h) == env \cup txn[h]

Idle(h) == h \in opened /\ call[h] = NoCall

Init ==
    /\ opened = {}
    /\ env = {}
    /\ writer = NoHandle
    /\ inTxn = [h \in Handles |-> FALSE]
    /\ txn = [h \in Handles |-> {}]
    /\ child = [h \in Handles |-> FALSE]
    /\ reader = [h \in Handles |-> FALSE]
    /\ call = [h \in Handles |-> NoCall]
    /\ snap = [h \in Handles |-> {}]
    /\ visited = [h \in Handles |-> {}]
    /\ result = [h \in Handles |-> "none"]
    /\ atCall = [h \in Handles |-> {}]

-----------------------------------------------------------------------------
(* Constructor, destructor and the three transaction functions             *)

\* The constructor opens the database in a write transaction of its own.
Open(h) ==
    /\ h \notin opened
    /\ writer = NoHandle
    /\ opened' = opened \cup {h}
    /\ UNCHANGED <<env, writer, inTxn, txn, child, reader, calling>>

\* mdb_dbi_open fails: the destructor that is called aborts the member txn,
\* which is null; the constructor's local of that name stays open.
OpenLeaks(h) ==
    /\ "dbi" \in Faults[h]
    /\ h \notin opened
    /\ writer = NoHandle
    /\ writer' = h
    /\ UNCHANGED <<opened, env, inTxn, txn, child, reader, calling>>

\* git_odb_transaction_begin.  The mdb_txn_begin of a second write transaction
\* waits, also for one of the same handle.
TransactionBegin(h) ==
    /\ Idle(h)
    /\ \/ /\ writer = NoHandle
          /\ writer' = h
          /\ inTxn' = [inTxn EXCEPT ![h] = TRUE]
          /\ result' = [result EXCEPT ![h] = "OK"]
       \/ /\ "begin" \in Faults[h]
          /\ result' = [result EXCEPT ![h] = "ERROR"]
          /\ UNCHANGED <<writer, inTxn>>
    /\ UNCHANGED <<opened, env, txn, child, reader, call, snap, visited, atCall>>

\* Mutant: what was written in it stays.
EndTxnKeeps(h) ==
    /\ inTxn' = [inTxn EXCEPT ![h] = FALSE]
    /\ child' = [child EXCEPT ![h] = FALSE]
    /\ writer' = IF inTxn[h] THEN NoHandle ELSE writer
    /\ UNCHANGED txn

\* The write transaction ends, and any child with it.
EndTxn(h) ==
    /\ inTxn' = [inTxn EXCEPT ![h] = FALSE]
    /\ txn' = [txn EXCEPT ![h] = {}]
    /\ child' = [child EXCEPT ![h] = FALSE]
    /\ writer' = IF inTxn[h] THEN NoHandle ELSE writer

\* git_odb_transaction_commit; mdb_txn_commit of null is an error.
TransactionCommit(h) ==
    /\ Idle(h)
    /\ \/ /\ inTxn[h]
          /\ env' = env \cup txn[h]
          /\ result' = [result EXCEPT ![h] = "OK"]
       \/ /\ ~inTxn[h] \/ ("commit" \in Faults[h])
          /\ result' = [result EXCEPT ![h] = "ERROR"]
          /\ UNCHANGED env
    /\ EndTxn(h)
    /\ UNCHANGED <<opened, reader, call, snap, visited, atCall>>

\* git_odb_transaction_rollback; mdb_txn_abort of null does nothing.
TransactionRollback(h) ==
    /\ Idle(h)
    /\ EndTxn(h)
    /\ UNCHANGED <<opened, env, reader, calling>>

\* The destructor, when the object database is freed, or the end of the process.
Close(h) ==
    /\ h \in opened \/ writer = h
    /\ opened' = opened \ {h}
    /\ inTxn' = [inTxn EXCEPT ![h] = FALSE]
    /\ txn' = [txn EXCEPT ![h] = {}]
    /\ child' = [child EXCEPT ![h] = FALSE]
    /\ reader' = [reader EXCEPT ![h] = FALSE]
    /\ call' = [call EXCEPT ![h] = NoCall]
    /\ snap' = [snap EXCEPT ![h] = {}]
    /\ visited' = [visited EXCEPT ![h] = {}]
    /\ result' = [result EXCEPT ![h] = "none"]
    /\ atCall' = [atCall EXCEPT ![h] = {}]
    /\ writer' = IF writer = h THEN NoHandle ELSE writer
    /\ UNCHANGED env

-----------------------------------------------------------------------------
(* A call and the transaction it opens                                     *)

\* libgit2 calls the backend.
Invoke(h, op, o) ==
    /\ Idle(h)
    /\ op = "foreach" <=> o = NoOid
    /\ call' = [call EXCEPT ![h] = [op |-> op, oid |-> o, begun |-> FALSE]]
    /\ atCall' = [atCall EXCEPT ![h] = There(h)]
    /\ result' = [result EXCEPT ![h] = "none"]
    /\ UNCHANGED <<opened, env, writer, inTxn, txn, child, reader, snap, visited>>

\* What a call that failed tells libgit2: exists has no status for an error,
\* and anything but 0 means the object is there.
Failed(op) == IF op = "exists" THEN "yes" ELSE "ERROR"

Returns(h, status) ==
    /\ result' = [result EXCEPT ![h] = status]
    /\ call' = [call EXCEPT ![h] = NoCall]
    /\ snap' = [snap EXCEPT ![h] = {}]
    /\ visited' = [visited EXCEPT ![h] = {}]
    /\ atCall' = [atCall EXCEPT ![h] = {}]

\* Mutant: the call's transaction has no parent.
BegunAlone(h) ==
    /\ call' = [call EXCEPT ![h].begun = TRUE]
    /\ snap' = [snap EXCEPT ![h] = env]
    /\ UNCHANGED <<visited, result, atCall>>

Begun(h) ==
    /\ call' = [call EXCEPT ![h].begun = TRUE]
    /\ snap' = [snap EXCEPT ![h] = There(h)]
    /\ UNCHANGED <<visited, result, atCall>>

Starting(h) == call[h] # NoCall /\ ~call[h].begun
Running(h) == call[h] # NoCall /\ call[h].begun

\* mdb_txn_begin with backend->txn as the parent.
BeginChild(h) ==
    /\ Starting(h)
    /\ inTxn[h] /\ ~child[h]
    /\ child' = [child EXCEPT ![h] = TRUE]
    /\ Begun(h)
    /\ UNCHANGED <<opened, env, writer, inTxn, txn, reader>>

\* mdb_txn_begin without a parent, read-only.
BeginReader(h) ==
    /\ Starting(h)
    /\ ~inTxn[h] /\ call[h].op # "write" /\ ~reader[h]
    /\ reader' = [reader EXCEPT ![h] = TRUE]
    /\ Begun(h)
    /\ UNCHANGED <<opened, env, writer, inTxn, txn, child>>

\* mdb_txn_begin without a parent, to write: it waits for the lock.
BeginWriter(h) ==
    /\ Starting(h)
    /\ ~inTxn[h] /\ call[h].op = "write" /\ writer = NoHandle
    /\ writer' = h
    /\ Begun(h)
    /\ UNCHANGED <<opened, env, inTxn, txn, child, reader>>

\* mdb_txn_begin fails: there is a child, or a reader, that was never ended, or
\* LMDB has another reason.
BeginFails(h) ==
    /\ Starting(h)
    /\ \/ "begin" \in Faults[h]
       \/ (inTxn[h] /\ child[h])
       \/ (~inTxn[h] /\ call[h].op # "write" /\ reader[h])
    /\ Returns(h, Failed(call[h].op))
    /\ UNCHANGED <<opened, env, writer, inTxn, txn, child, reader>>

\* Mutant: a read-only transaction is not aborted.
EndCallReading(h) ==
    /\ child' = [child EXCEPT ![h] = FALSE]
    /\ UNCHANGED reader

\* Mutant: a child is not aborted.
EndCallWithChild(h) ==
    /\ reader' = [reader EXCEPT ![h] = IF inTxn[h] THEN @ ELSE FALSE]
    /\ UNCHANGED child

\* mdb_txn_abort, or mdb_txn_commit, of the transaction the call opened.
EndCall(h) ==
    /\ child' = [child EXCEPT ![h] = FALSE]
    /\ reader' = [reader EXCEPT ![h] = IF inTxn[h] THEN @ ELSE FALSE]

\* read, read_header and exists: mdb_get, and the transaction is aborted.
Get(h) ==
    /\ Running(h)
    /\ call[h].op \in {"read", "read_header", "exists"}
    /\ LET o == call[h].oid
       IN  \/ /\ o \in snap[h]
              /\ Returns(h, IF call[h].op = "exists" THEN "yes" ELSE "OK")
           \/ /\ o \notin snap[h]
              /\ Returns(h, IF call[h].op = "exists" THEN "no" ELSE "ENOTFOUND")
           \/ /\ "get" \in Faults[h]
              /\ Returns(h, Failed(call[h].op))
    /\ EndCall(h)
    /\ UNCHANGED <<opened, env, writer, inTxn, txn>>

\* write: mdb_put and mdb_txn_commit, into backend->txn or the environment.
Put(h) ==
    /\ Running(h)
    /\ call[h].op = "write"
    /\ \/ /\ IF inTxn[h]
             THEN /\ txn' = [txn EXCEPT ![h] = @ \cup {call[h].oid}]
                  /\ UNCHANGED env
             ELSE /\ env' = env \cup {call[h].oid}
                  /\ UNCHANGED txn
          /\ Returns(h, "OK")
       \/ /\ {"put", "commit"} \cap Faults[h] # {}
          /\ Returns(h, "ERROR")
          /\ UNCHANGED <<env, txn>>
    /\ writer' = IF inTxn[h] THEN writer ELSE NoHandle
    /\ EndCall(h)
    /\ UNCHANGED <<opened, inTxn>>

-----------------------------------------------------------------------------
(* foreach                                                                 *)

\* mdb_cursor_open fails: the function returns and aborts nothing.
CursorFails(h) ==
    /\ "cursor" \in Faults[h]
    /\ Running(h)
    /\ call[h].op = "foreach"
    /\ visited[h] = {}
    /\ Returns(h, "ERROR")
    /\ UNCHANGED <<opened, env, writer, inTxn, txn, child, reader>>

\* MDB_NEXT and the callback, which lets the loop go on or stops it.
Visit(h, o) ==
    /\ Running(h)
    /\ call[h].op = "foreach"
    /\ o \in snap[h] \ visited[h]
    /\ \/ /\ visited' = [visited EXCEPT ![h] = @ \cup {o}]
          /\ UNCHANGED <<child, reader, call, snap, result, atCall>>
       \/ /\ Returns(h, "EUSER")
          /\ EndCall(h)
    /\ UNCHANGED <<opened, env, writer, inTxn, txn>>

\* MDB_NEXT at the end.
ForeachEnds(h) ==
    /\ Running(h)
    /\ call[h].op = "foreach"
    /\ snap[h] \subseteq visited[h]
    /\ Returns(h, "OK")
    /\ EndCall(h)
    /\ UNCHANGED <<opened, env, writer, inTxn, txn>>

InCallback(h) == Running(h) /\ call[h].op = "foreach" /\ visited[h] # {}

\* The callback calls the backend: foreach's own transaction is in the way of
\* another child, or of another reader of the same thread.
CallbackFails(h, op) ==
    /\ InCallback(h)
    /\ inTxn[h] \/ op # "write"
    /\ result' = [result EXCEPT ![h] = Failed(op)]
    /\ UNCHANGED <<opened, env, writer, inTxn, txn, child, reader, call, snap,
                   visited, atCall>>

\* Only a write is not in its way, without backend->txn: it waits for the lock
\* and is not seen by foreach, which reads on as of its beginning.
CallbackWrites(h, o) ==
    /\ InCallback(h)
    /\ ~inTxn[h] /\ writer = NoHandle
    /\ env' = env \cup {o}
    /\ result' = [result EXCEPT ![h] = "OK"]
    /\ UNCHANGED <<opened, writer, inTxn, txn, child, reader, call, snap,
                   visited, atCall>>

-----------------------------------------------------------------------------
Step(h) ==
    \/ BeginChild(h) \/ BeginReader(h) \/ BeginWriter(h) \/ BeginFails(h)
    \/ Get(h) \/ Put(h)
    \/ CursorFails(h) \/ \E o \in Oids : Visit(h, o)
    \/ ForeachEnds(h)

Next ==
    \E h \in Handles :
        \/ Open(h) \/ OpenLeaks(h) \/ Close(h)
        \/ TransactionBegin(h) \/ TransactionCommit(h) \/ TransactionRollback(h)
        \/ \E op \in Ops, o \in Oids \cup {NoOid} : Invoke(h, op, o)
        \/ Step(h)
        \/ \E op \in Ops : CallbackFails(h, op)
        \/ \E o \in Oids : CallbackWrites(h, o)

Spec == Init /\ [][Next]_vars

-----------------------------------------------------------------------------
(* Properties                                                              *)

TypeOK ==
    /\ opened \subseteq Handles
    /\ env \subseteq Oids
    /\ writer \in Handles \cup {NoHandle}
    /\ inTxn \in [Handles -> BOOLEAN]
    /\ txn \in [Handles -> SUBSET Oids]
    /\ child \in [Handles -> BOOLEAN]
    /\ reader \in [Handles -> BOOLEAN]
    /\ call \in [Handles -> Calls]
    /\ snap \in [Handles -> SUBSET Oids]
    /\ visited \in [Handles -> SUBSET Oids]
    /\ result \in [Handles -> Statuses]
    /\ atCall \in [Handles -> SUBSET Oids]

\* The call h is in returns in this step, and its handle stays open.
Returning(h) == call[h] # NoCall /\ call'[h] = NoCall /\ h \in opened'

\* Whatever fails and whoever commits in between: an object said to be there is
\* committed or the handle's own, one said not to be there was not when the call
\* was made, a foreach that ends has passed all of them, and a write that says
\* OK can be read (lines 27-132).
AnswersAreTrue ==
    [][\A h \in Handles :
          LET c == call[h]
              status == result'[h]
          IN  Returning(h) =>
                /\ c.op \in {"read", "read_header"} /\ status = "OK"
                      => c.oid \in There(h)
                /\ status \in {"ENOTFOUND", "no"} => c.oid \notin atCall[h]
                /\ c.op = "foreach" /\ status = "OK"
                      => atCall[h] \subseteq visited[h] /\ visited[h] \subseteq There(h)
                /\ c.op = "write" /\ status = "OK" => c.oid \in There(h)']_vars

\* Whatever writes and commits fail, on this handle, and whatever fails on the
\* others: a call that only reads returns no error and exists is exact, so libgit2 never takes a
\* missing object for a stored one: no earlier call has left a child or a reader
\* in the way (lines 52, 78, 101, 122 and 131).
ReadsSucceed ==
    [][\A h \in Handles :
          Returning(h) /\ call[h].op # "write" /\ Faults[h] \subseteq {"put", "commit"} =>
             /\ result'[h] # "ERROR"
             /\ result'[h] = "yes" => call[h].oid \in There(h)]_vars

\* The calls whose error paths abort nothing (lines 105 and 161) do not fail.
AbortsAll(h) == Faults[h] \cap {"cursor", "dbi"} = {}

\* Between calls only backend->txn is open: no child, no reader, and the write
\* lock is held exactly by the handle with a transaction; a failing mdb_get,
\* mdb_put or commit does not change that, nor does what another handle leaves
\* open (lines 40, 46, 60-62, 129, 220).
NothingLeaks ==
    \A h \in Handles :
        AbortsAll(h) /\ call[h] = NoCall =>
            ~child[h] /\ ~reader[h] /\ (writer = h <=> inTxn[h])

\* The objects of backend->txn are private and become part of the environment
\* together, at its commit, or never (lines 195-238).
InTransaction == IF writer # NoHandle /\ inTxn[writer] THEN writer ELSE NoHandle
Written == IF InTransaction = NoHandle THEN {} ELSE txn[InTransaction]
Transactions == INSTANCE WriteTransactions
    WITH writer <- InTransaction, txn <- Written, db <- env
KeepsTransactions == Transactions!Spec
=============================================================================
