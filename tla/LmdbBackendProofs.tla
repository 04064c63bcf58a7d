------------------------- MODULE LmdbBackendProofs -------------------------
(***************************************************************************)
(* What LmdbBackend guarantees for every set of handles, of objects and of *)
(* failing LMDB calls.                                                     *)
(***************************************************************************)
EXTENDS LmdbBackend, TLAPS

-----------------------------------------------------------------------------
(* Types                                                                   *)

LEMMA CallTypes ==
    /\ NoCall \in Calls
    /\ \A op \in Ops : Failed(op) \in Statuses
    /\ \A op \in Ops, o \in Oids \cup {NoOid} :
          (op = "foreach" <=> o = NoOid)
          => [op |-> op, oid |-> o, begun |-> FALSE] \in Calls \ {NoCall}
    /\ \A c \in Calls \ {NoCall} :
          /\ c.op \in Ops
          /\ c.op = "foreach" \/ c.oid \in Oids
          /\ [c EXCEPT !.begun = TRUE] \in Calls \ {NoCall}
<1>1. NoCall \in Calls
  BY DEF Calls, NoCall
<1>2. \A op \in Ops : Failed(op) \in Statuses
  BY DEF Failed, Statuses
<1>3. \A op \in Ops, o \in Oids \cup {NoOid} :
        (op = "foreach" <=> o = NoOid)
        => [op |-> op, oid |-> o, begun |-> FALSE] \in Calls \ {NoCall}
  BY DEF Calls, NoCall, Ops
<1>4. \A c \in Calls \ {NoCall} :
        /\ c.op \in Ops
        /\ c.op = "foreach" \/ c.oid \in Oids
        /\ [c EXCEPT !.begun = TRUE] \in Calls \ {NoCall}
  BY DEF Calls, NoCall, Ops
<1> QED BY <1>1, <1>2, <1>3, <1>4

LEMMA TypedStep == TypeOK /\ [Next]_vars => TypeOK'
<1> SUFFICES ASSUME TypeOK, [Next]_vars PROVE TypeOK'
  OBVIOUS
<1> USE CallTypes DEF TypeOK
<1>1. CASE UNCHANGED vars
  BY <1>1 DEF vars, calling
<1>2. ASSUME NEW h \in Handles, Open(h) \/ OpenLeaks(h) \/ Close(h) PROVE TypeOK'
  <2>1. CASE Open(h)
    BY <2>1 DEF Open, calling
  <2>2. CASE OpenLeaks(h)
    BY <2>2 DEF OpenLeaks, calling
  <2>3. CASE Close(h)
    BY <2>3 DEF Close, Statuses
  <2> QED BY <1>2, <2>1, <2>2, <2>3
<1>3. ASSUME NEW h \in Handles, TransactionBegin(h) PROVE TypeOK'
  BY <1>3 DEF TransactionBegin, Idle, Statuses
<1>4. ASSUME NEW h \in Handles, TransactionCommit(h) PROVE TypeOK'
  BY <1>4 DEF TransactionCommit, Idle, EndTxn, Statuses
<1>5. ASSUME NEW h \in Handles, TransactionRollback(h) PROVE TypeOK'
  BY <1>5 DEF TransactionRollback, Idle, EndTxn, calling
<1>6. ASSUME NEW h \in Handles, NEW op \in Ops, NEW o \in Oids \cup {NoOid},
             Invoke(h, op, o)
      PROVE  TypeOK'
  BY <1>6 DEF Invoke, Idle, There, Statuses
<1>7. ASSUME NEW h \in Handles, BeginChild(h) \/ BeginReader(h) \/ BeginWriter(h)
      PROVE  TypeOK'
  <2>1. call[h] \in Calls \ {NoCall} /\ Begun(h)
    BY <1>7 DEF BeginChild, BeginReader, BeginWriter, Starting
  <2>2. call' \in [Handles -> Calls] /\ snap' \in [Handles -> SUBSET Oids]
    BY <2>1 DEF Begun, There
  <2> QED
    BY <1>7, <2>1, <2>2 DEF BeginChild, BeginReader, BeginWriter, Begun
<1>8. ASSUME NEW h \in Handles, NEW s \in Statuses, Returns(h, s)
      PROVE  /\ call' \in [Handles -> Calls] /\ snap' \in [Handles -> SUBSET Oids]
             /\ visited' \in [Handles -> SUBSET Oids]
             /\ result' \in [Handles -> Statuses]
             /\ atCall' \in [Handles -> SUBSET Oids]
  BY <1>8 DEF Returns
<1>9. ASSUME NEW h \in Handles, BeginFails(h) PROVE TypeOK'
  <2>1. Failed(call[h].op) \in Statuses
    BY <1>9 DEF BeginFails, Starting
  <2> QED BY <1>8, <1>9, <2>1 DEF BeginFails
<1>10. ASSUME NEW h \in Handles, EndCall(h)
       PROVE  child' \in [Handles -> BOOLEAN] /\ reader' \in [Handles -> BOOLEAN]
  BY <1>10 DEF EndCall
<1>11. ASSUME NEW h \in Handles, Get(h) PROVE TypeOK'
  <2>1. Failed(call[h].op) \in Statuses
    BY <1>11 DEF Get, Running
  <2>2. \E s \in Statuses : Returns(h, s)
    BY <1>11, <2>1 DEF Get, Statuses
  <2> QED BY <1>8, <1>10, <1>11, <2>2 DEF Get
<1>12. ASSUME NEW h \in Handles, Put(h) PROVE TypeOK'
  <2>1. call[h].op = "write" /\ call[h] \in Calls \ {NoCall}
    BY <1>12 DEF Put, Running
  <2>2. call[h].oid \in Oids
    BY <2>1
  <2>3. \E s \in Statuses : Returns(h, s)
    BY <1>12 DEF Put, Statuses
  <2> QED BY <1>8, <1>10, <1>12, <2>2, <2>3 DEF Put
<1>13. ASSUME NEW h \in Handles, CursorFails(h) \/ ForeachEnds(h) PROVE TypeOK'
  <2>1. \E s \in Statuses : Returns(h, s)
    BY <1>13 DEF CursorFails, ForeachEnds, Statuses
  <2> QED BY <1>8, <1>10, <1>13, <2>1 DEF CursorFails, ForeachEnds
<1>14. ASSUME NEW h \in Handles, NEW o \in Oids, Visit(h, o) PROVE TypeOK'
  <2>1. CASE Returns(h, "EUSER") /\ EndCall(h)
    BY <1>8, <1>10, <1>14, <2>1 DEF Visit, Statuses
  <2>2. CASE visited' = [visited EXCEPT ![h] = @ \cup {o}]
             /\ UNCHANGED <<child, reader, call, snap, result, atCall>>
    BY <1>14, <2>2 DEF Visit
  <2> QED BY <1>14, <2>1, <2>2 DEF Visit
<1>15. ASSUME NEW h \in Handles, NEW op \in Ops, CallbackFails(h, op) PROVE TypeOK'
  BY <1>15 DEF CallbackFails
<1>16. ASSUME NEW h \in Handles, NEW o \in Oids, CallbackWrites(h, o) PROVE TypeOK'
  BY <1>16 DEF CallbackWrites, Statuses
<1> QED
  BY <1>1, <1>2, <1>3, <1>4, <1>5, <1>6, <1>7, <1>9, <1>11, <1>12, <1>13,
     <1>14, <1>15, <1>16 DEF Next, Step

\* Every variable keeps its type (lines 14-19 and what the calls return).
THEOREM TypeCorrect == Spec => []TypeOK
<1>1. Init => TypeOK
  BY CallTypes DEF Init, TypeOK, Statuses
<1> QED BY <1>1, TypedStep, PTL DEF Spec

-----------------------------------------------------------------------------
(* The write transaction is the abstract one                               *)

\* A write transaction, the handle's or a call's own, holds LMDB's lock, and
\* nothing is left of one that has ended.
LockHeld ==
    \A h \in Handles :
        /\ inTxn[h] => writer = h
        /\ Running(h) /\ call[h].op = "write" /\ ~inTxn[h] => writer = h
        /\ ~inTxn[h] => txn[h] = {}

LEMMA LockHeldStep == TypeOK /\ LockHeld /\ [Next]_vars => LockHeld'
<1> SUFFICES ASSUME TypeOK, LockHeld, [Next]_vars PROVE LockHeld'
  OBVIOUS
<1> USE CallTypes, BackendAssumption DEF TypeOK, LockHeld, Running
<1>1. CASE UNCHANGED vars
  BY <1>1 DEF vars, calling
<1>2. ASSUME NEW h \in Handles, Open(h) \/ OpenLeaks(h) PROVE LockHeld'
  BY <1>2 DEF Open, OpenLeaks, calling
<1>3. ASSUME NEW h \in Handles, Close(h) PROVE LockHeld'
  BY <1>3 DEF Close
<1>4. ASSUME NEW h \in Handles, TransactionBegin(h) PROVE LockHeld'
  BY <1>4 DEF TransactionBegin, Idle
<1>5. ASSUME NEW h \in Handles, TransactionCommit(h) PROVE LockHeld'
  BY <1>5 DEF TransactionCommit, Idle, EndTxn
<1>6. ASSUME NEW h \in Handles, TransactionRollback(h) PROVE LockHeld'
  BY <1>6 DEF TransactionRollback, Idle, EndTxn, calling
<1>7. ASSUME NEW h \in Handles, NEW op \in Ops, NEW o \in Oids \cup {NoOid},
             Invoke(h, op, o)
      PROVE  LockHeld'
  BY <1>7 DEF Invoke
<1>8. ASSUME NEW h \in Handles, BeginChild(h) \/ BeginReader(h) \/ BeginWriter(h)
      PROVE  LockHeld'
  <2>1. call[h] \in Calls \ {NoCall} /\ Begun(h)
    BY <1>8 DEF BeginChild, BeginReader, BeginWriter, Starting
  <2>2. /\ call'[h] # NoCall /\ call'[h].op = call[h].op
        /\ \A g \in Handles \ {h} : call'[g] = call[g]
    BY <2>1 DEF Begun, Calls
  <2> QED
    BY <1>8, <2>2 DEF BeginChild, BeginReader, BeginWriter, Starting
<1>9. ASSUME NEW h \in Handles, BeginFails(h) PROVE LockHeld'
  BY <1>9 DEF BeginFails, Returns
<1>10. ASSUME NEW h \in Handles, NEW s, Returns(h, s)
       PROVE  /\ call'[h] = NoCall
              /\ \A g \in Handles \ {h} : call'[g] = call[g]
  BY <1>10 DEF Returns
<1>11. ASSUME NEW h \in Handles, Get(h) PROVE LockHeld'
  BY <1>10, <1>11 DEF Get
<1>12. ASSUME NEW h \in Handles, Put(h) PROVE LockHeld'
  BY <1>10, <1>12 DEF Put
<1>13. ASSUME NEW h \in Handles, CursorFails(h) \/ ForeachEnds(h) PROVE LockHeld'
  BY <1>10, <1>13 DEF CursorFails, ForeachEnds
<1>14. ASSUME NEW h \in Handles, NEW o \in Oids, Visit(h, o) PROVE LockHeld'
  BY <1>10, <1>14 DEF Visit
<1>15. ASSUME NEW h \in Handles, NEW op \in Ops, CallbackFails(h, op) PROVE LockHeld'
  BY <1>15 DEF CallbackFails
<1>16. ASSUME NEW h \in Handles, NEW o \in Oids, CallbackWrites(h, o) PROVE LockHeld'
  BY <1>16 DEF CallbackWrites
<1> QED
  BY <1>1, <1>2, <1>3, <1>4, <1>5, <1>6, <1>7, <1>8, <1>9, <1>11, <1>12, <1>13,
     <1>14, <1>15, <1>16 DEF Next, Step

LEMMA TransactionsStep ==
    TypeOK /\ LockHeld /\ [Next]_vars => [Transactions!Next]_(Transactions!vars)
<1> SUFFICES ASSUME TypeOK, LockHeld, [Next]_vars
             PROVE  Transactions!Next \/ UNCHANGED Transactions!vars
  OBVIOUS
<1> USE BackendAssumption DEF TypeOK, InTransaction, Written
<1>1. ASSUME UNCHANGED <<env, writer, inTxn, txn>> PROVE UNCHANGED Transactions!vars
  BY <1>1 DEF Transactions!vars
<1>2. CASE UNCHANGED vars
  BY <1>1, <1>2 DEF vars
<1>3. ASSUME NEW h \in Handles, Open(h) \/ TransactionBegin(h) \/ OpenLeaks(h)
      PROVE  Transactions!Next \/ UNCHANGED Transactions!vars
  <2>1. CASE Open(h)
    BY <1>1, <2>1 DEF Open
  <2>2. CASE OpenLeaks(h)
    BY <2>2 DEF OpenLeaks, Transactions!vars, LockHeld
  <2>3. CASE TransactionBegin(h) /\ UNCHANGED <<writer, inTxn>>
    BY <1>1, <2>3 DEF TransactionBegin
  <2>4. CASE TransactionBegin(h) /\ writer = NoHandle /\ writer' = h
             /\ inTxn' = [inTxn EXCEPT ![h] = TRUE]
    <3>1. ~inTxn[h] /\ txn[h] = {}
      BY <2>4 DEF LockHeld
    <3>2. Transactions!Begin(h)
      BY <2>4, <3>1 DEF TransactionBegin, Transactions!Begin
    <3> QED BY <3>2 DEF Transactions!Next
  <2> QED BY <1>3, <2>1, <2>2, <2>3, <2>4 DEF TransactionBegin
<1>4. ASSUME NEW h \in Handles,
             Close(h) \/ TransactionRollback(h) \/ TransactionCommit(h)
      PROVE  Transactions!Next \/ UNCHANGED Transactions!vars
  <2>1. CASE inTxn[h]
    <3>1. writer = h /\ writer' = NoHandle
      BY <1>4, <2>1
      DEF Close, TransactionRollback, TransactionCommit, EndTxn, LockHeld
    <3>2. env' = env \/ env' = env \cup txn[h]
      BY <1>4 DEF Close, TransactionRollback, TransactionCommit
    <3>3. Transactions!Commit \/ Transactions!Abort
      BY <2>1, <3>1, <3>2 DEF Transactions!Commit, Transactions!Abort
    <3> QED BY <3>3 DEF Transactions!Next
  <2>2. CASE ~inTxn[h]
    <3>1. /\ env' = env /\ txn[h] = {} /\ txn' = txn /\ inTxn' = inTxn
          /\ writer' = writer \/ (writer = h /\ writer' = NoHandle)
      <4>1. txn[h] = {}
        BY <2>2 DEF LockHeld
      <4>2. inTxn = [inTxn EXCEPT ![h] = FALSE] /\ txn = [txn EXCEPT ![h] = {}]
        BY <2>2, <4>1
      <4>3. CASE Close(h)
        BY <4>1, <4>2, <4>3 DEF Close
      <4>4. CASE TransactionRollback(h)
        BY <2>2, <4>1, <4>2, <4>4 DEF TransactionRollback, EndTxn
      <4>5. CASE TransactionCommit(h)
        BY <2>2, <4>1, <4>2, <4>5 DEF TransactionCommit, EndTxn
      <4> QED BY <1>4, <4>3, <4>4, <4>5
    <3> QED BY <2>2, <3>1 DEF Transactions!vars
  <2> QED BY <2>1, <2>2
<1>5. ASSUME NEW h \in Handles, BeginWriter(h)
      PROVE  UNCHANGED Transactions!vars
  BY <1>5 DEF BeginWriter, Transactions!vars
<1>6. ASSUME NEW h \in Handles, Put(h)
      PROVE  Transactions!Next \/ UNCHANGED Transactions!vars
  <2>1. /\ Running(h) /\ call[h].op = "write" /\ writer = h
        /\ UNCHANGED inTxn /\ writer' = IF inTxn[h] THEN writer ELSE NoHandle
    BY <1>6 DEF Put, LockHeld
  <2>2. call[h].oid \in Oids
    BY <2>1, CallTypes DEF Running
  <2>3. CASE UNCHANGED <<env, txn>>
    BY <2>1, <2>3 DEF Transactions!vars
  <2>4. CASE inTxn[h] /\ txn' = [txn EXCEPT ![h] = @ \cup {call[h].oid}]
             /\ UNCHANGED env
    <3>1. Transactions!Put(call[h].oid)
      BY <2>1, <2>4 DEF Transactions!Put
    <3> QED BY <2>2, <3>1 DEF Transactions!Next
  <2>5. CASE ~inTxn[h] /\ env' = env \cup {call[h].oid} /\ UNCHANGED txn
    <3>1. Transactions!PutAlone(call[h].oid)
      BY <2>1, <2>5 DEF Transactions!PutAlone
    <3> QED BY <2>2, <3>1 DEF Transactions!Next
  <2> QED BY <1>6, <2>3, <2>4, <2>5 DEF Put
<1>7. ASSUME NEW h \in Handles, NEW o \in Oids, CallbackWrites(h, o)
      PROVE  Transactions!Next
  <2>1. Transactions!PutAlone(o)
    BY <1>7 DEF CallbackWrites, Transactions!PutAlone
  <2> QED BY <2>1 DEF Transactions!Next
<1>8. ASSUME NEW h \in Handles,
             \/ \E op \in Ops, o \in Oids \cup {NoOid} : Invoke(h, op, o)
             \/ BeginChild(h) \/ BeginReader(h) \/ BeginFails(h) \/ Get(h)
             \/ CursorFails(h) \/ ForeachEnds(h)
             \/ \E o \in Oids : Visit(h, o)
             \/ \E op \in Ops : CallbackFails(h, op)
      PROVE  UNCHANGED <<env, writer, inTxn, txn>>
  BY <1>8 DEF Invoke, BeginChild, BeginReader, BeginFails, Get, CursorFails,
              ForeachEnds, Visit, CallbackFails
<1> QED
  BY <1>1, <1>2, <1>3, <1>4, <1>5, <1>6, <1>7, <1>8 DEF Next, Step

\* Whatever fails and however the handles interleave, a handle's write
\* transaction is the only one, its objects are committed together or not at
\* all, and no other write comes in between (lines 27-47, 195-238).
THEOREM KeepsTheTransactions == Spec => KeepsTransactions
<1>1. Init => TypeOK /\ LockHeld
  BY CallTypes DEF Init, TypeOK, Statuses, LockHeld, Running
<1>2. Init => Transactions!Init
  BY DEF Init, Transactions!Init, InTransaction, Written
<1>3. TypeOK /\ LockHeld /\ [Next]_vars => (TypeOK /\ LockHeld)'
  BY TypedStep, LockHeldStep
<1> QED
  BY <1>1, <1>2, <1>3, TransactionsStep, PTL
  DEF Spec, KeepsTransactions, Transactions!Spec

-----------------------------------------------------------------------------
(* Nothing is left open                                                    *)

\* The transactions that are open are the ones the code still refers to: a
\* handle's own, and below it or beside it that of the call in progress.  On a
\* handle whose error paths may leak, only what the lock protects is known.
Writing(h) == inTxn[h] \/ (Running(h) /\ call[h].op = "write")

InUse ==
    \A h \in Handles :
        /\ Writing(h) => writer = h
        /\ AbortsAll(h) =>
              /\ child[h] => inTxn[h]
              /\ reader[h] => ~inTxn[h]
              /\ ~Running(h) => ~child[h] /\ ~reader[h]
              /\ writer = h => Writing(h)

LEMMA InUseStep == TypeOK /\ InUse /\ [Next]_vars => InUse'
<1> SUFFICES ASSUME TypeOK, InUse, [Next]_vars
             PROVE  InUse'
  OBVIOUS
<1> USE CallTypes, BackendAssumption DEF TypeOK, InUse, Running, Writing, AbortsAll
<1>1. CASE UNCHANGED vars
  BY <1>1 DEF vars, calling
<1>2. ASSUME NEW h \in Handles, Open(h) \/ OpenLeaks(h) PROVE InUse'
  BY <1>2 DEF Open, OpenLeaks, calling
<1>3. ASSUME NEW h \in Handles, Close(h) PROVE InUse'
  BY <1>3 DEF Close
<1>4. ASSUME NEW h \in Handles, TransactionBegin(h) PROVE InUse'
  BY <1>4 DEF TransactionBegin, Idle
<1>5. ASSUME NEW h \in Handles, TransactionCommit(h) PROVE InUse'
  BY <1>5 DEF TransactionCommit, Idle, EndTxn
<1>6. ASSUME NEW h \in Handles, TransactionRollback(h) PROVE InUse'
  BY <1>6 DEF TransactionRollback, Idle, EndTxn, calling
<1>7. ASSUME NEW h \in Handles, NEW op \in Ops, NEW o \in Oids \cup {NoOid},
             Invoke(h, op, o)
      PROVE  InUse'
  <2>1. call'[h].begun = FALSE /\ \A g \in Handles \ {h} : call'[g] = call[g]
    BY <1>7 DEF Invoke
  <2> QED BY <1>7, <2>1 DEF Invoke, Idle
<1>8. ASSUME NEW h \in Handles, BeginChild(h) \/ BeginReader(h) \/ BeginWriter(h)
      PROVE  InUse'
  <2>1. call[h] \in Calls \ {NoCall} /\ Begun(h)
    BY <1>8 DEF BeginChild, BeginReader, BeginWriter, Starting
  <2>2. /\ call'[h] # NoCall /\ call'[h].op = call[h].op /\ call'[h].begun
        /\ \A g \in Handles \ {h} : call'[g] = call[g]
    BY <2>1 DEF Begun, Calls
  <2>3. CASE BeginChild(h)
    BY <2>2, <2>3 DEF BeginChild, Starting
  <2>4. CASE BeginReader(h)
    BY <2>2, <2>4 DEF BeginReader, Starting
  <2>5. CASE BeginWriter(h)
    BY <2>2, <2>5 DEF BeginWriter, Starting
  <2> QED BY <1>8, <2>3, <2>4, <2>5
<1>9. ASSUME NEW h \in Handles, NEW s, Returns(h, s)
      PROVE  /\ call'[h] = NoCall
             /\ \A g \in Handles \ {h} : call'[g] = call[g]
  BY <1>9 DEF Returns
<1>10. ASSUME NEW h \in Handles, BeginFails(h) PROVE InUse'
  BY <1>9, <1>10 DEF BeginFails, Starting
<1>11. ASSUME NEW h \in Handles, Get(h) PROVE InUse'
  BY <1>9, <1>11 DEF Get, EndCall
<1>12. ASSUME NEW h \in Handles, Put(h) PROVE InUse'
  BY <1>9, <1>12 DEF Put, EndCall
<1>13. ASSUME NEW h \in Handles, CursorFails(h) PROVE InUse'
  BY <1>9, <1>13 DEF CursorFails
<1>14. ASSUME NEW h \in Handles, ForeachEnds(h) PROVE InUse'
  BY <1>9, <1>14 DEF ForeachEnds, EndCall
<1>15. ASSUME NEW h \in Handles, NEW o \in Oids, Visit(h, o) PROVE InUse'
  <2>1. CASE UNCHANGED <<child, reader, call>>
    BY <1>15, <2>1 DEF Visit
  <2>2. CASE Returns(h, "EUSER") /\ EndCall(h)
    BY <1>9, <1>15, <2>2 DEF Visit, EndCall
  <2> QED BY <1>15, <2>1, <2>2 DEF Visit
<1>16. ASSUME NEW h \in Handles, NEW op \in Ops, CallbackFails(h, op) PROVE InUse'
  BY <1>16 DEF CallbackFails
<1>17. ASSUME NEW h \in Handles, NEW o \in Oids, CallbackWrites(h, o) PROVE InUse'
  BY <1>17 DEF CallbackWrites
<1> QED
  BY <1>1, <1>2, <1>3, <1>4, <1>5, <1>6, <1>7, <1>8, <1>10, <1>11, <1>12, <1>13,
     <1>14, <1>15, <1>16, <1>17 DEF Next, Step

\* On a handle where mdb_cursor_open and mdb_dbi_open do not fail, whose error
\* paths abort nothing (lines 105 and 161), every call ends what it opened,
\* however it ends and whatever happens on the other handles.
THEOREM NoLeaks == Spec => []NothingLeaks
<1>1. Init => TypeOK /\ InUse
  BY CallTypes, BackendAssumption
     DEF Init, TypeOK, Statuses, InUse, Running, Writing
<1>2. TypeOK /\ InUse /\ [Next]_vars => (TypeOK /\ InUse)'
  BY TypedStep, InUseStep
<1>3. InUse => NothingLeaks
  BY DEF InUse, NothingLeaks, Running, Writing
<1> QED BY <1>1, <1>2, <1>3, PTL DEF Spec

-----------------------------------------------------------------------------
(* What the calls answer                                                     *)

\* A call sees what was there when it was made, and nothing that is not there
\* while it runs: the environment only grows, and nobody else changes the
\* handle's own transaction.
SeesWhatIsThere ==
    \A h \in Handles :
        /\ Starting(h) => atCall[h] \subseteq There(h)
        /\ Running(h) => /\ atCall[h] \subseteq snap[h] /\ snap[h] \subseteq There(h)
                         /\ visited[h] \subseteq snap[h]
        /\ ~Running(h) => visited[h] = {}

LEMMA SeesStep == TypeOK /\ SeesWhatIsThere /\ [Next]_vars => SeesWhatIsThere'
<1> SUFFICES ASSUME TypeOK, SeesWhatIsThere, [Next]_vars
             PROVE  SeesWhatIsThere'
  OBVIOUS
<1> USE CallTypes DEF TypeOK, SeesWhatIsThere, Running, Starting, There
<1>1. CASE UNCHANGED vars
  BY <1>1 DEF vars, calling
<1>2. ASSUME NEW h \in Handles, Open(h) \/ OpenLeaks(h) PROVE SeesWhatIsThere'
  BY <1>2 DEF Open, OpenLeaks, calling
<1>3. ASSUME NEW h \in Handles, Close(h) PROVE SeesWhatIsThere'
  BY <1>3 DEF Close
<1>4. ASSUME NEW h \in Handles, TransactionBegin(h) PROVE SeesWhatIsThere'
  BY <1>4 DEF TransactionBegin, Idle
<1>5. ASSUME NEW h \in Handles, TransactionCommit(h) PROVE SeesWhatIsThere'
  BY <1>5 DEF TransactionCommit, Idle, EndTxn
<1>6. ASSUME NEW h \in Handles, TransactionRollback(h) PROVE SeesWhatIsThere'
  BY <1>6 DEF TransactionRollback, Idle, EndTxn, calling
<1>7. ASSUME NEW h \in Handles, NEW op \in Ops, NEW o \in Oids \cup {NoOid},
             Invoke(h, op, o)
      PROVE  SeesWhatIsThere'
  <2>1. call'[h].begun = FALSE /\ \A g \in Handles \ {h} : call'[g] = call[g]
    BY <1>7 DEF Invoke
  <2> QED BY <1>7, <2>1 DEF Invoke, Idle
<1>8. ASSUME NEW h \in Handles, BeginChild(h) \/ BeginReader(h) \/ BeginWriter(h)
      PROVE  SeesWhatIsThere'
  <2>1. /\ UNCHANGED <<env, txn, atCall, visited>> /\ Starting(h)
        /\ call' = [call EXCEPT ![h].begun = TRUE]
        /\ snap' = [snap EXCEPT ![h] = There(h)]
    BY <1>8 DEF BeginChild, BeginReader, BeginWriter, Begun
  <2>2. call'[h] # NoCall /\ call'[h].begun /\ \A g \in Handles \ {h} : call'[g] = call[g]
    BY <2>1 DEF Calls
  <2> QED BY <2>1, <2>2
<1>9. ASSUME NEW h \in Handles, NEW s, Returns(h, s), env \subseteq env',
             \A g \in Handles \ {h} : txn'[g] = txn[g]
      PROVE  SeesWhatIsThere'
  BY <1>9 DEF Returns
<1>10. ASSUME NEW h \in Handles, BeginFails(h) \/ Get(h) \/ Put(h) \/ CursorFails(h)
                                 \/ ForeachEnds(h)
       PROVE  SeesWhatIsThere'
  BY <1>9, <1>10 DEF BeginFails, Get, Put, CursorFails, ForeachEnds
<1>11. ASSUME NEW h \in Handles, NEW o \in Oids, Visit(h, o) PROVE SeesWhatIsThere'
  <2>1. CASE Returns(h, "EUSER")
    BY <1>9, <1>11, <2>1 DEF Visit
  <2>2. CASE visited' = [visited EXCEPT ![h] = @ \cup {o}] /\ UNCHANGED <<call, snap, atCall>>
    BY <1>11, <2>2 DEF Visit
  <2> QED BY <1>11, <2>1, <2>2 DEF Visit
<1>12. ASSUME NEW h \in Handles, NEW op \in Ops, CallbackFails(h, op)
       PROVE  SeesWhatIsThere'
  BY <1>12 DEF CallbackFails
<1>13. ASSUME NEW h \in Handles, NEW o \in Oids, CallbackWrites(h, o)
       PROVE  SeesWhatIsThere'
  BY <1>13 DEF CallbackWrites
<1> QED
  BY <1>1, <1>2, <1>3, <1>4, <1>5, <1>6, <1>7, <1>8, <1>10, <1>11, <1>12, <1>13
     DEF Next, Step

\* A call that returns is one of these.
Ends(h) ==
    BeginFails(h) \/ Get(h) \/ Put(h) \/ CursorFails(h) \/ ForeachEnds(h)
    \/ \E o \in Oids : Visit(h, o)

LEMMA OnlyTheseReturn ==
    ASSUME TypeOK, [Next]_vars, NEW h \in Handles, Returning(h)
    PROVE  Ends(h)
<1> USE CallTypes DEF TypeOK, Returning
<1>0. call'[h] # call[h]
  OBVIOUS
<1>1. ASSUME NEW g \in Handles, UNCHANGED call
      PROVE  FALSE
  BY <1>0, <1>1
<1>2. ASSUME NEW g \in Handles, Close(g) PROVE FALSE
  BY <1>0, <1>2 DEF Close
<1>3. ASSUME NEW g \in Handles, NEW op \in Ops, NEW o \in Oids \cup {NoOid}, Invoke(g, op, o)
      PROVE  FALSE
  BY <1>0, <1>3 DEF Invoke, Idle
<1>4. ASSUME NEW g \in Handles, BeginChild(g) \/ BeginReader(g) \/ BeginWriter(g)
      PROVE  FALSE
  <2>1. call[g] \in Calls \ {NoCall} /\ call' = [call EXCEPT ![g].begun = TRUE]
    BY <1>4 DEF BeginChild, BeginReader, BeginWriter, Starting, Begun
  <2> QED BY <1>0, <2>1
<1>5. ASSUME NEW g \in Handles, g # h, NEW s, Returns(g, s) PROVE FALSE
  BY <1>0, <1>5 DEF Returns
<1>6. ASSUME NEW g \in Handles, Ends(g) PROVE Ends(h)
  <2>1. CASE g = h
    BY <1>6, <2>1
  <2>2. CASE g # h
    <3>1. UNCHANGED call \/ \E s : Returns(g, s)
      BY <1>6 DEF Ends, BeginFails, Get, Put, CursorFails, ForeachEnds, Visit
    <3> QED BY <1>1, <1>5, <2>2, <3>1
  <2> QED BY <2>1, <2>2
<1> QED
  BY <1>1, <1>2, <1>3, <1>4, <1>6
     DEF Next, Step, Ends, vars, calling, Open, OpenLeaks, TransactionBegin,
         TransactionCommit, TransactionRollback, CallbackFails, CallbackWrites

\* A call answers what is there, whatever fails and whoever commits in between
\* (lines 27-132).
THEOREM TrueAnswers == Spec => AnswersAreTrue
<1>1. Init => TypeOK /\ SeesWhatIsThere
  BY CallTypes, BackendAssumption
     DEF Init, TypeOK, Statuses, SeesWhatIsThere, Running, Starting
<1>2. TypeOK /\ SeesWhatIsThere /\ [Next]_vars => (TypeOK /\ SeesWhatIsThere)'
  BY TypedStep, SeesStep
<1>3. ASSUME TypeOK, SeesWhatIsThere, [Next]_vars, NEW h \in Handles, Returning(h)
      PROVE  LET c == call[h]
                 status == result'[h]
             IN  /\ c.op \in {"read", "read_header"} /\ status = "OK"
                       => c.oid \in There(h)
                 /\ status \in {"ENOTFOUND", "no"} => c.oid \notin atCall[h]
                 /\ c.op = "foreach" /\ status = "OK"
                       => atCall[h] \subseteq visited[h] /\ visited[h] \subseteq There(h)
                 /\ c.op = "write" /\ status = "OK" => c.oid \in There(h)'
  <2> USE <1>3 DEF TypeOK, SeesWhatIsThere, Running, Starting
  <2>1. Ends(h)
    BY OnlyTheseReturn
  <2>2. ASSUME NEW s, Returns(h, s) PROVE result'[h] = s
    BY <2>2 DEF Returns
  <2>3. CASE BeginFails(h)
    BY <2>2, <2>3 DEF BeginFails, Failed
  <2>4. CASE Get(h)
    BY <2>2, <2>4 DEF Get, Failed
  <2>5. CASE Put(h)
    BY <2>2, <2>5 DEF Put, There
  <2>6. CASE CursorFails(h)
    BY <2>2, <2>6 DEF CursorFails
  <2>7. CASE ForeachEnds(h)
    BY <2>2, <2>7 DEF ForeachEnds
  <2>8. ASSUME NEW o \in Oids, Visit(h, o) PROVE result'[h] = "EUSER"
    BY <2>2, <2>8 DEF Visit, Returning
  <2> QED BY <2>1, <2>3, <2>4, <2>5, <2>6, <2>7, <2>8 DEF Ends
<1>4. TypeOK /\ SeesWhatIsThere /\ [Next]_vars =>
        [\A h \in Handles :
          LET c == call[h]
              status == result'[h]
          IN  Returning(h) =>
                /\ c.op \in {"read", "read_header"} /\ status = "OK"
                      => c.oid \in There(h)
                /\ status \in {"ENOTFOUND", "no"} => c.oid \notin atCall[h]
                /\ c.op = "foreach" /\ status = "OK"
                      => atCall[h] \subseteq visited[h] /\ visited[h] \subseteq There(h)
                /\ c.op = "write" /\ status = "OK" => c.oid \in There(h)']_vars
  BY <1>3
<1> QED BY <1>1, <1>2, <1>4, PTL DEF Spec, AnswersAreTrue

\* A call that only reads succeeds, and exists is exact, as long as no call that
\* only reads fails by itself: no earlier call has left a child or a reader in
\* the way (lines 52, 78, 101, 122 and 131).
THEOREM ReadsGoThrough == Spec => ReadsSucceed
<1>1. Init => TypeOK /\ InUse /\ SeesWhatIsThere
  BY CallTypes, BackendAssumption
     DEF Init, TypeOK, Statuses, InUse, SeesWhatIsThere, Running, Writing, Starting
<1>2. TypeOK /\ InUse /\ SeesWhatIsThere /\ [Next]_vars => (TypeOK /\ InUse /\ SeesWhatIsThere)'
  BY TypedStep, InUseStep, SeesStep
<1>3. ASSUME TypeOK, InUse, SeesWhatIsThere, [Next]_vars, NEW h \in Handles, Returning(h),
             call[h].op # "write", Faults[h] \subseteq {"put", "commit"}
      PROVE  /\ result'[h] # "ERROR"
             /\ result'[h] = "yes" => call[h].oid \in There(h)
  <2> USE <1>3 DEF TypeOK, InUse, SeesWhatIsThere, Running, Starting, AbortsAll
  <2>1. Ends(h)
    BY OnlyTheseReturn
  <2>2. ASSUME NEW s, Returns(h, s) PROVE result'[h] = s
    BY <2>2 DEF Returns
  <2>3. ~BeginFails(h) /\ ~CursorFails(h) /\ ~Put(h)
    BY DEF BeginFails, CursorFails, Put
  <2>4. CASE Get(h)
    BY <2>2, <2>4 DEF Get
  <2>5. CASE ForeachEnds(h)
    BY <2>2, <2>5 DEF ForeachEnds
  <2>6. ASSUME NEW o \in Oids, Visit(h, o) PROVE result'[h] = "EUSER"
    BY <2>2, <2>6 DEF Visit, Returning
  <2> QED BY <2>1, <2>3, <2>4, <2>5, <2>6 DEF Ends
<1>4. TypeOK /\ InUse /\ SeesWhatIsThere /\ [Next]_vars =>
        [\A h \in Handles :
          Returning(h) /\ call[h].op # "write" /\ Faults[h] \subseteq {"put", "commit"} =>
             /\ result'[h] # "ERROR"
             /\ result'[h] = "yes" => call[h].oid \in There(h)]_vars
  BY <1>3
<1> QED BY <1>1, <1>2, <1>4, PTL DEF Spec, ReadsSucceed
=============================================================================
