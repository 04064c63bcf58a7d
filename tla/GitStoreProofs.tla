--------------------------- MODULE GitStoreProofs ---------------------------
(***************************************************************************)
(* What GitStore guarantees for every set of handles, keys and values, for *)
(* every set of failing calls and any number of crashes.                   *)
(***************************************************************************)
EXTENDS MCGitStore, SetInduction, TLAPS

\* A save that is past a call knows what the call gave it.
StepsKnow ==
    \A h \in Handles :
        /\ pc[h] \in SaveSteps \cup {"rollback"} => base[h] # 0
        /\ pc[h] \in (SaveSteps \cup {"rollback"}) \ {"loadIndex"} => index[h] \in Trees
        /\ pc[h] \in {"initPack", "initRollback", "pack", "rollback"} => new[h] # 0
        /\ pc[h] \in SaveSteps => req[h] \in Requests

Typed == TypeOK /\ StepsKnow

-----------------------------------------------------------------------------
LEMMA EmptyTreeType == EmptyTree \in Trees
BY DEF EmptyTree, Trees

LEMMA AppliedType ==
    ASSUME NEW r \in Requests, NEW t \in Trees
    PROVE  Applied(r, t) \in Trees
BY DEF Requests, Trees, Applied, Removed, Added, Present

LEMMA AddedType ==
    ASSUME NEW r \in Requests, NEW S, NEW t \in Trees
    PROVE  Added(r, S, t) \in Trees
BY DEF Requests, Trees, Added

\* A commit record appended to the log: the commits before it stay as they are.
LEMMA AppendCommit ==
    ASSUME NEW s \in Seq(CommitRecords), NEW r \in CommitRecords
    PROVE  /\ Append(s, r) \in Seq(CommitRecords)
           /\ Len(Append(s, r)) = Len(s) + 1
           /\ DOMAIN Append(s, r) = 1..(Len(s) + 1)
           /\ DOMAIN s = 1..Len(s)
           /\ Append(s, r)[Len(s) + 1] = r
           /\ \A i \in 1..Len(s) : Append(s, r)[i] = s[i]
OBVIOUS

LEMMA AnswerTypes ==
    /\ NoAnswer \in Answers
    /\ Saved \in Answers
    /\ Error \in Answers
    /\ \A S \in SUBSET Keys : Fetched(S) \in Answers
    /\ \A v \in Values \cup {NoValue} : Node(v) \in Answers
BY DEF Answers, NoAnswer, Saved, Error, Fetched, Node

LEMMA TypedInit == Init => Typed
<1> SUFFICES ASSUME Init PROVE Typed
  OBVIOUS
<1> USE DEF Init
<1>1. repo \in BOOLEAN /\ indexFile \in Trees /\ writer \in Handles \cup {NoHandle}
  BY EmptyTreeType
<1>2. commits \in Seq(CommitRecords) /\ DOMAIN commits = {} /\ Len(commits) = 0
  OBVIOUS
<1>3. /\ head \in 0..Len(commits)
      /\ base \in [Handles -> 0..Len(commits)]
      /\ new \in [Handles -> 0..Len(commits)]
      /\ acked \subseteq 1..Len(commits)
  BY <1>2
<1>4. pc \in [Handles -> Steps]
  BY DEF Steps
<1>5. req \in [Handles -> Requests \cup {NoRequest}]
  OBVIOUS
<1>6. index \in [Handles -> Trees \cup {NotLoaded}]
  OBVIOUS
<1>7. answer \in [Handles -> Answers]
  BY AnswerTypes
<1>8. crashes \in 0..MaxCrashes
  BY ConstantsAssumption
<1>9. StepsKnow
  BY DEF StepsKnow, SaveSteps
<1> QED
  BY <1>1, <1>2, <1>3, <1>4, <1>5, <1>6, <1>7, <1>8, <1>9 DEF TypeOK, Typed
-----------------------------------------------------------------------------
(* Every step keeps Typed.  The frame of a step is what UNCHANGED says; the  *)
(* lemmas name the parts that do change.                                    *)

LEMMA TypedNext == Typed /\ [Next]_vars => Typed'
<1> SUFFICES ASSUME Typed, [Next]_vars PROVE Typed'
  OBVIOUS
<1> USE ConstantsAssumption, EmptyTreeType, AnswerTypes
<1> USE DEF Typed, TypeOK, StepsKnow, disk, lock, local, Goto, Answer, Over, Steps,
            InitSteps, SaveSteps
<1>1. ASSUME NEW h \in Handles, OpenExisting(h) PROVE Typed'
  BY <1>1 DEF OpenExisting
<1>2. ASSUME NEW h \in Handles, OpenMissing(h) PROVE Typed'
  BY <1>2 DEF OpenMissing
<1>3. ASSUME NEW h \in Handles, InitRepo(h) PROVE Typed'
  BY <1>3 DEF InitRepo
<1>4. ASSUME NEW h \in Handles, InitBegin(h) PROVE Typed'
  BY <1>4 DEF InitBegin, Locks
<1>5. ASSUME NEW h \in Handles, InitPack(h) PROVE Typed'
  BY <1>5 DEF InitPack
<1>6. ASSUME NEW h \in Handles, InitRollback(h) PROVE Typed'
  BY <1>6 DEF InitRollback, Unlocks
<1>7. ASSUME NEW h \in Handles, LoadIndex(h) PROVE Typed'
  BY <1>7 DEF LoadIndex
<1>8. ASSUME NEW h \in Handles, BeginTxn(h) PROVE Typed'
  BY <1>8 DEF BeginTxn, Locks
<1>9. ASSUME NEW h \in Handles, UpdateIndex(h) PROVE Typed'
  BY <1>9, AppliedType DEF UpdateIndex, Writes
<1>10. ASSUME NEW h \in Handles, WriteTree(h) PROVE Typed'
  BY <1>10 DEF WriteTree, Writes
<1>11. ASSUME NEW h \in Handles, WriteIndex(h) PROVE Typed'
  BY <1>11 DEF WriteIndex
<1>12. ASSUME NEW h \in Handles, WritePack(h) PROVE Typed'
  BY <1>12 DEF WritePack
<1>13. ASSUME NEW h \in Handles, PackMissesObject(h) PROVE Typed'
  BY <1>13 DEF PackMissesObject, Raise
<1>14. ASSUME NEW h \in Handles, Rollback(h) PROVE Typed'
  <2>1. new[h] \in 1..Len(commits)
    BY <1>14 DEF Rollback
  <2>2. acked' \subseteq 1..Len(commits)
    BY <1>14, <2>1 DEF Rollback
  <2>3. UNCHANGED <<repo, head, indexFile, commits, index, crashes>> /\ writer' = NoHandle
    BY <1>14 DEF Rollback, Unlocks
  <2>4. TypeOK'
    BY <1>14, <2>2, <2>3 DEF Rollback
  <2>5. StepsKnow'
    BY <1>14 DEF Rollback
  <2> QED
    BY <2>4, <2>5
<1>15. ASSUME NEW h \in Handles, Fetch(h) PROVE Typed'
  BY <1>15 DEF Fetch, Present
<1>16. ASSUME NEW h \in Handles, Release(h) PROVE Typed'
  BY <1>16 DEF Release, Forget, Unlocks
<1>17. ASSUME NEW h \in Handles, Crash(h) PROVE Typed'
  BY <1>17 DEF Crash, Forget, Unlocks
<1>18. ASSUME NEW h \in Handles, InitCommit(h) PROVE Typed'
  <2> DEFINE r == [tree |-> EmptyTree, parent |-> 0, message |-> FALSE, email |-> AppEmail]
  <2>1. r \in CommitRecords /\ r.parent < Len(commits) + 1
    BY DEF CommitRecords, Emails
  <2>2. commits' = Append(commits, r)
    BY <1>18 DEF InitCommit
  <2>3. /\ commits' \in Seq(CommitRecords)
        /\ Len(commits') = Len(commits) + 1
        /\ DOMAIN commits = 1..Len(commits)
        /\ DOMAIN commits' = 1..(Len(commits) + 1)
        /\ commits'[Len(commits) + 1] = r
        /\ \A i \in 1..Len(commits) : commits'[i] = commits[i]
    BY <2>1, <2>2, AppendCommit
  <2>4. \A c \in DOMAIN commits' : commits'[c].parent < c
    BY <2>1, <2>3
  <2> HIDE DEF r
  <2>5. TypeOK'
    BY <1>18, <2>3, <2>4 DEF InitCommit, Writes
  <2>6. StepsKnow'
    BY <1>18, <2>3 DEF InitCommit, Writes
  <2> QED
    BY <2>5, <2>6
<1>19. ASSUME NEW h \in Handles, CreateCommit(h) PROVE Typed'
  <2> DEFINE r == [tree |-> index[h], parent |-> ParentOf(h),
                   message |-> req[h].message, email |-> req[h].email]
  <2>0. ParentOf(h) \in Nat /\ ParentOf(h) < Len(commits) + 1
    <3>1. base[h] \in 1..Len(commits)
      BY <1>19 DEF CreateCommit
    <3>2. commits[base[h]] \in CommitRecords /\ commits[base[h]].parent < base[h]
      BY <3>1
    <3> QED
      BY <3>1, <3>2 DEF ParentOf, CommitRecords
  <2>1. r \in CommitRecords /\ r.parent < Len(commits) + 1
    BY <1>19, <2>0 DEF CreateCommit, CommitRecords, Requests
  <2>2. commits' = Append(commits, r)
    BY <1>19 DEF CreateCommit
  <2>3. /\ commits' \in Seq(CommitRecords)
        /\ Len(commits') = Len(commits) + 1
        /\ DOMAIN commits = 1..Len(commits)
        /\ DOMAIN commits' = 1..(Len(commits) + 1)
        /\ commits'[Len(commits) + 1] = r
        /\ \A i \in 1..Len(commits) : commits'[i] = commits[i]
    BY <2>1, <2>2, AppendCommit
  <2>4. \A c \in DOMAIN commits' : commits'[c].parent < c
    BY SMTT(60), <2>1, <2>3
  <2> HIDE DEF r
  <2>5. TypeOK'
    BY <1>19, <2>3, <2>4 DEF CreateCommit, Writes
  <2>6. StepsKnow'
    BY <1>19, <2>3 DEF CreateCommit, Writes
  <2> QED
    BY <2>5, <2>6
<1>20. ASSUME NEW h \in Handles, Throw(h) PROVE Typed'
  <2>1. CASE pc[h] = "update"
    <3>1. PICK done \in SUBSET Present(req[h].put) :
             index' = [index EXCEPT ![h] = Added(req[h], done, @)]
      BY <1>20, <2>1 DEF Throw
    <3>2. Added(req[h], done, index[h]) \in Trees
      BY <2>1, AddedType
    <3>3. UNCHANGED writer
      BY <1>20, <2>1 DEF Throw, Writes
    <3> QED
      BY <1>20, <2>1, <3>1, <3>2, <3>3 DEF Throw, Raise
  <2>2. CASE pc[h] # "update"
    BY <1>20, <2>2 DEF Throw, Raise
  <2> QED
    BY <2>1, <2>2
<1>21. ASSUME NEW h \in Handles, NEW r \in Requests, SaveStart(h, r) PROVE Typed'
  <2>1. CASE CommitReadable(h)
    <3>1. head # 0 /\ head \in 0..Len(commits)
      BY <2>1 DEF CommitReadable
    <3>2. /\ pc[h] = "ready"
          /\ pc' = [pc EXCEPT ![h] = "loadIndex"]
          /\ req' = [req EXCEPT ![h] = r]
          /\ base' = [base EXCEPT ![h] = head]
          /\ UNCHANGED <<disk, lock, index, new, answer, acked, crashes>>
      BY <1>21, <2>1 DEF SaveStart
    <3>3. TypeOK'
      BY <3>1, <3>2
    <3>4. StepsKnow'
      BY <3>1, <3>2
    <3> QED
      BY <3>3, <3>4
  <2>2. CASE ~CommitReadable(h)
    BY ZenonT(60), <1>21, <2>2 DEF SaveStart
  <2> QED
    BY <2>1, <2>2
<1>22. ASSUME NEW h \in Handles, NEW k \in Keys, NewValues(h, k) PROVE Typed'
  <2>1. PICK v \in Values \cup {NoValue} :
           answer' = [answer EXCEPT ![h] = Error] \/ answer' = [answer EXCEPT ![h] = Node(v)]
    BY <1>22 DEF NewValues
  <2>2. answer' \in [Handles -> Answers]
    BY <2>1
  <2> QED
    BY <1>22, <2>2 DEF NewValues
<1>23. ASSUME UNCHANGED vars PROVE Typed'
  BY <1>23 DEF vars
<1> QED
  BY <1>1, <1>2, <1>3, <1>4, <1>5, <1>6, <1>7, <1>8, <1>9, <1>10, <1>11, <1>12,
     <1>13, <1>14, <1>15, <1>16, <1>17, <1>18, <1>19, <1>20, <1>21, <1>22, <1>23
     DEF Next, Client, Step
\* Every variable of the store keeps to its type, whatever fails or crashes
\* (all of GitIncrementalStore.m:99-330 and 394-450).
THEOREM TypeCorrect == Spec => []TypeOK
<1>1. Spec => []Typed
  BY TypedInit, TypedNext, PTL DEF Spec
<1> QED
  BY <1>1, PTL DEF Typed

-----------------------------------------------------------------------------
(* Durability.  The inductive invariant says what the steps between the      *)
(* lock and the rollback rely on.                                            *)

LockedSaveSteps == {"update", "writeTree", "writeIndex", "commit", "pack", "rollback"}

\* Only commits that exist are packed.
PackedKnown == \A c : Commit(c) \in packed => c \in 1..Len(commits)

\* Whoever is between begin and rollback holds the lock.
LockHeld ==
    \A h \in Handles :
        pc[h] \in LockedSaveSteps \cup {"initCommit", "initPack", "initRollback"}
            => writer = h

\* The commit a save stands on is packed.  Before the lock is taken the save may
\* have read it through a transaction that an earlier, failed save left open;
\* then the lock is this handle's own, and the save never gets it.
BaseStored ==
    \A h \in Handles :
        /\ pc[h] \in LockedSaveSteps => Commit(base[h]) \in packed
        /\ pc[h] \in {"loadIndex", "begin"} => writer = h \/ Commit(base[h]) \in packed

\* So the parent of a commit that is about to be packed is packed.
ParentStored ==
    \A h \in Handles :
        /\ pc[h] = "initPack" => IsRoot(new[h])
        /\ pc[h] = "pack" => IsRoot(new[h]) \/ Commit(commits[new[h]].parent) \in packed

\* A save that wrote its pack has its commit stored.
PackWritten == \A h \in Handles : pc[h] = "rollback" => Closure(new[h]) \subseteq packed

DurabilityInv ==
    /\ Typed
    /\ PackedKnown
    /\ LockHeld
    /\ BaseStored
    /\ ParentStored
    /\ PackWritten
    /\ AckedDurable
    /\ HistoryDurable
    /\ OnlyUserCommitsBelow

\* Of all commits a closure holds just the one it is the closure of.
LEMMA ClosureCommit ==
    ASSUME NEW c, NEW d, Commit(d) \in Closure(c)
    PROVE  c = d
BY DEF Closure, Commit, Tree, Blobs, Blob

LEMMA DurabilityInit == Init => DurabilityInv
<1> SUFFICES ASSUME Init PROVE DurabilityInv
  OBVIOUS
<1>1. Typed
  BY TypedInit
<1>2. packed = {} /\ acked = {} /\ \A h \in Handles : pc[h] = "closed"
  BY DEF Init
<1>3. DOMAIN commits = {}
  BY DEF Init
<1> QED
  BY <1>1, <1>2, <1>3 DEF DurabilityInv, PackedKnown, LockHeld, BaseStored,
     ParentStored, PackWritten, AckedDurable, HistoryDurable, OnlyUserCommitsBelow,
     LockedSaveSteps

\* Steps that create no commit and pack nothing, and bring nobody to a pack.
LEMMA DurabilityQuiet ==
    ASSUME DurabilityInv, Typed', UNCHANGED <<packed, commits, acked>>,
           LockHeld', BaseStored',
           \A g \in Handles : pc'[g] \in {"initPack", "pack", "rollback"}
                                => pc'[g] = pc[g] /\ new'[g] = new[g]
    PROVE  DurabilityInv'
<1> USE DEF DurabilityInv, Closure, IsRoot, IsUserCommit, Commit, Tree, Blobs, Blob
<1>1. ParentStored'
  BY DEF ParentStored
<1>2. PackWritten'
  BY DEF PackWritten
<1>3. PackedKnown' /\ AckedDurable' /\ HistoryDurable' /\ OnlyUserCommitsBelow'
  BY DEF PackedKnown, AckedDurable, HistoryDurable, OnlyUserCommitsBelow
<1> QED
  BY <1>1, <1>2, <1>3

\* A pack of new[h] is written by the holder of the lock.
PackMade(h) ==
    /\ pc[h] \in {"initPack", "pack"}
    /\ pc' = [pc EXCEPT ![h] = IF pc[h] = "pack" THEN "rollback" ELSE "initRollback"]
    /\ packed' = packed \cup Closure(new[h])
    /\ new[h] \in 1..Len(commits)
    /\ writer = h
    /\ IsRoot(new[h]) \/ Commit(commits[new[h]].parent) \in packed
    /\ UNCHANGED <<commits, acked, base, new, writer>>

LEMMA DurabilityPack ==
    ASSUME DurabilityInv, Typed', NEW h \in Handles, PackMade(h)
    PROVE  DurabilityInv'
<1> USE DEF PackMade, LockedSaveSteps
<1>k. pc \in [Handles -> Steps]
  BY DEF DurabilityInv, Typed, TypeOK
<1>1. \A c : Closure(c)' = Closure(c) /\ IsRoot(c)' = IsRoot(c)
               /\ IsUserCommit(c)' = IsUserCommit(c)
  BY DEF Closure, Commit, Tree, Blobs, Blob, IsRoot, IsUserCommit
<1>2. \A c : Commit(c) \in packed' => Commit(c) \in packed \/ c = new[h]
  BY ClosureCommit
<1>3. PackedKnown'
  BY <1>2 DEF DurabilityInv, PackedKnown
<1>4. LockHeld'
  BY <1>k DEF DurabilityInv, LockHeld
<1>5. BaseStored'
  BY <1>k DEF DurabilityInv, BaseStored
<1>6. ParentStored'
  BY <1>k, <1>1 DEF DurabilityInv, ParentStored
<1>7. PackWritten'
  BY <1>k, <1>1 DEF DurabilityInv, PackWritten
<1>8. AckedDurable'
  BY <1>1 DEF DurabilityInv, AckedDurable
<1>9. HistoryDurable'
  BY <1>1, <1>2 DEF DurabilityInv, HistoryDurable
<1>10. OnlyUserCommitsBelow'
  BY <1>1 DEF DurabilityInv, OnlyUserCommitsBelow
<1> QED
  BY <1>3, <1>4, <1>5, <1>6, <1>7, <1>8, <1>9, <1>10 DEF DurabilityInv

\* A commit r is made by h, on nothing or on a packed user or initial commit.
CommitMade(h, r) ==
    /\ r \in CommitRecords
    /\ commits' = Append(commits, r)
    /\ pc[h] \in {"initCommit", "commit"}
    /\ pc' = [pc EXCEPT ![h] = IF pc[h] = "commit" THEN "pack" ELSE "initPack"]
    /\ new' = [new EXCEPT ![h] = Len(commits) + 1]
    /\ UNCHANGED <<packed, acked, base, writer>>
    /\ \/ r.parent = 0
       \/ /\ pc[h] = "commit"
          /\ r.parent \in 1..Len(commits)
          /\ Commit(r.parent) \in packed
          /\ IsRoot(r.parent) \/ IsUserCommit(r.parent)

LEMMA DurabilityCommit ==
    ASSUME DurabilityInv, Typed', NEW h \in Handles, NEW r, CommitMade(h, r)
    PROVE  DurabilityInv'
<1> USE DEF CommitMade, LockedSaveSteps
<1>k. /\ pc \in [Handles -> Steps] /\ new \in [Handles -> 0..Len(commits)]
      /\ commits \in Seq(CommitRecords)
      /\ acked \subseteq 1..Len(commits)
      /\ \A c \in DOMAIN commits : commits[c].parent < c /\ commits[c].parent \in Nat
  <2>1. /\ pc \in [Handles -> Steps] /\ new \in [Handles -> 0..Len(commits)]
        /\ commits \in Seq(CommitRecords)
        /\ acked \subseteq 1..Len(commits)
        /\ \A c \in DOMAIN commits : commits[c].parent < c
    BY DEF DurabilityInv, Typed, TypeOK
  <2>2. \A c \in DOMAIN commits : commits[c] \in CommitRecords
    BY <2>1
  <2> QED
    BY <2>1, <2>2 DEF CommitRecords
<1>a. /\ Len(commits') = Len(commits) + 1
      /\ DOMAIN commits' = 1..(Len(commits) + 1)
      /\ DOMAIN commits = 1..Len(commits)
      /\ commits'[Len(commits) + 1] = r
      /\ \A c \in 1..Len(commits) : commits'[c] = commits[c]
  BY <1>k, AppendCommit
<1>1. \A c \in 1..Len(commits) :
         /\ Closure(c)' = Closure(c)
         /\ IsRoot(c)' = IsRoot(c)
         /\ IsUserCommit(c)' = IsUserCommit(c)
  BY <1>a DEF Closure, Commit, Tree, Blobs, Blob, IsRoot, IsUserCommit
<1>2. Commit(Len(commits) + 1) \notin packed /\ Len(commits) \in Nat
  BY <1>k DEF DurabilityInv, PackedKnown
<1>3. PackedKnown'
  BY <1>2, <1>a DEF DurabilityInv, PackedKnown
<1>4. LockHeld'
  BY <1>k DEF DurabilityInv, LockHeld
<1>5. BaseStored'
  BY <1>k DEF DurabilityInv, BaseStored
<1>6. ASSUME NEW g \in Handles, g # h, pc[g] \in {"initPack", "pack", "rollback"}
      PROVE  FALSE
  BY <1>6 DEF DurabilityInv, LockHeld
<1>7. ParentStored'
  BY <1>k, <1>a, <1>6 DEF ParentStored, IsRoot
<1>8. PackWritten'
  BY <1>k, <1>6 DEF PackWritten
<1>9. AckedDurable'
  BY <1>k, <1>1 DEF DurabilityInv, AckedDurable
<1>10. HistoryDurable'
  <2> SUFFICES ASSUME NEW c \in DOMAIN commits', Commit(c) \in packed
               PROVE  /\ Closure(c)' \subseteq packed
                      /\ IsRoot(c)' \/ Commit(commits'[c].parent) \in packed
    BY DEF HistoryDurable, Commit
  <2>1. c \in 1..Len(commits)
    BY <1>2, <1>a
  <2> QED
    BY <2>1, <1>1, <1>a DEF DurabilityInv, HistoryDurable
<1>11. OnlyUserCommitsBelow'
  <2> SUFFICES ASSUME NEW c \in DOMAIN commits', NEW p, p = commits'[c].parent, p # 0
               PROVE  commits'[p].parent = 0 \/ commits'[p].email # AppEmail
    BY DEF OnlyUserCommitsBelow, IsRoot, IsUserCommit
  <2>1. CASE c \in 1..Len(commits)
    <3>1. p = commits[c].parent /\ p \in 1..Len(commits)
      BY <1>k, <1>a, <2>1, <1>2
    <3>2. commits[p].parent = 0 \/ commits[p].email # AppEmail
      BY <2>1, <3>1, <1>a DEF DurabilityInv, OnlyUserCommitsBelow, IsRoot, IsUserCommit
    <3> QED
      BY <3>1, <3>2, <1>a
  <2>2. CASE c = Len(commits) + 1
    <3>1. /\ p = r.parent /\ p \in 1..Len(commits)
          /\ commits[p].parent = 0 \/ commits[p].email # AppEmail
      BY <2>2, <1>a DEF IsRoot, IsUserCommit
    <3> QED
      BY <3>1, <1>a
  <2>3. c \in 1..Len(commits) \/ c = Len(commits) + 1
    <3> HIDE DEF CommitMade
    <3> QED
      BY <1>a, <1>2
  <2> QED
    BY <2>1, <2>2, <2>3
<1> QED
  BY <1>3, <1>4, <1>5, <1>7, <1>8, <1>9, <1>10, <1>11 DEF DurabilityInv

LEMMA DurabilityNext == DurabilityInv /\ [Next]_vars => DurabilityInv'
<1> SUFFICES ASSUME DurabilityInv, [Next]_vars PROVE DurabilityInv'
  OBVIOUS
<1> USE ConstantsAssumption
<1>t. Typed /\ Typed'
  BY TypedNext DEF DurabilityInv
<1> DEFINE Bringing == \A g \in Handles :
              pc'[g] \in {"initPack", "pack", "rollback"}
                  => pc'[g] = pc[g] /\ new'[g] = new[g]
<1>q. ASSUME UNCHANGED <<packed, commits, acked>>, LockHeld', BaseStored', Bringing
      PROVE  DurabilityInv'
  BY <1>q, <1>t, DurabilityQuiet
<1>k. pc \in [Handles -> Steps] /\ new \in [Handles -> 0..Len(commits)]
      /\ base \in [Handles -> 0..Len(commits)]
  BY <1>t DEF Typed, TypeOK
<1> USE DEF disk, lock, local, Goto, Answer, Over, SaveSteps, InitSteps, Steps,
            LockedSaveSteps
<1>1. ASSUME NEW h \in Handles, OpenExisting(h) PROVE DurabilityInv'
  <2>1. UNCHANGED <<packed, commits, acked>> /\ Bringing
    BY <1>1, <1>k DEF OpenExisting
  <2>2. LockHeld'
    BY <1>1, <1>k DEF OpenExisting, DurabilityInv, LockHeld
  <2>3. BaseStored'
    BY <1>1, <1>k, <2>2 DEF OpenExisting, DurabilityInv, LockHeld, BaseStored
  <2> QED
    BY <1>q, <2>1, <2>2, <2>3
<1>2. ASSUME NEW h \in Handles, OpenMissing(h) PROVE DurabilityInv'
  <2>1. UNCHANGED <<packed, commits, acked>> /\ Bringing
    BY <1>2, <1>k DEF OpenMissing
  <2>2. LockHeld'
    BY <1>2, <1>k DEF OpenMissing, DurabilityInv, LockHeld
  <2>3. BaseStored'
    BY <1>2, <1>k, <2>2 DEF OpenMissing, DurabilityInv, LockHeld, BaseStored
  <2> QED
    BY <1>q, <2>1, <2>2, <2>3
<1>3. ASSUME NEW h \in Handles, InitRepo(h) PROVE DurabilityInv'
  <2>1. UNCHANGED <<packed, commits, acked>> /\ Bringing
    BY <1>3, <1>k DEF InitRepo
  <2>2. LockHeld'
    BY <1>3, <1>k DEF InitRepo, DurabilityInv, LockHeld
  <2>3. BaseStored'
    BY <1>3, <1>k, <2>2 DEF InitRepo, DurabilityInv, LockHeld, BaseStored
  <2> QED
    BY <1>q, <2>1, <2>2, <2>3
<1>4. ASSUME NEW h \in Handles, InitBegin(h) PROVE DurabilityInv'
  <2>1. UNCHANGED <<packed, commits, acked>> /\ Bringing
    BY <1>4, <1>k DEF InitBegin, Locks
  <2>2. LockHeld'
    BY <1>4, <1>k DEF InitBegin, Locks, DurabilityInv, LockHeld
  <2>3. BaseStored'
    BY <1>4, <1>k, <2>2 DEF InitBegin, Locks, DurabilityInv, LockHeld, BaseStored
  <2> QED
    BY <1>q, <2>1, <2>2, <2>3
<1>5. ASSUME NEW h \in Handles, InitRollback(h) PROVE DurabilityInv'
  <2>1. UNCHANGED <<packed, commits, acked>> /\ Bringing
    BY <1>5, <1>k DEF InitRollback, Unlocks
  <2>2. LockHeld'
    BY <1>5, <1>k DEF InitRollback, Unlocks, DurabilityInv, LockHeld
  <2>3. BaseStored'
    BY <1>5, <1>k, <2>2 DEF InitRollback, Unlocks, DurabilityInv, LockHeld, BaseStored
  <2> QED
    BY <1>q, <2>1, <2>2, <2>3
<1>6. ASSUME NEW h \in Handles, LoadIndex(h) PROVE DurabilityInv'
  <2>1. UNCHANGED <<packed, commits, acked>> /\ Bringing
    BY <1>6, <1>k DEF LoadIndex
  <2>2. LockHeld'
    BY <1>6, <1>k DEF LoadIndex, DurabilityInv, LockHeld
  <2>3. BaseStored'
    BY <1>6, <1>k, <2>2 DEF LoadIndex, DurabilityInv, LockHeld, BaseStored
  <2> QED
    BY <1>q, <2>1, <2>2, <2>3
<1>7. ASSUME NEW h \in Handles, BeginTxn(h) PROVE DurabilityInv'
  <2>1. UNCHANGED <<packed, commits, acked>> /\ Bringing
    BY <1>7, <1>k DEF BeginTxn, Locks
  <2>2. LockHeld'
    BY <1>7, <1>k DEF BeginTxn, Locks, DurabilityInv, LockHeld
  <2>3. BaseStored'
    BY <1>7, <1>k, <2>2 DEF BeginTxn, Locks, DurabilityInv, LockHeld, BaseStored
  <2> QED
    BY <1>q, <2>1, <2>2, <2>3
<1>8. ASSUME NEW h \in Handles, UpdateIndex(h) PROVE DurabilityInv'
  <2>1. UNCHANGED <<packed, commits, acked>> /\ Bringing
    BY <1>8, <1>k DEF UpdateIndex, Writes
  <2>2. LockHeld'
    BY <1>8, <1>k DEF UpdateIndex, Writes, DurabilityInv, LockHeld
  <2>3. BaseStored'
    BY <1>8, <1>k, <2>2 DEF UpdateIndex, Writes, DurabilityInv, LockHeld, BaseStored
  <2> QED
    BY <1>q, <2>1, <2>2, <2>3
<1>9. ASSUME NEW h \in Handles, WriteTree(h) PROVE DurabilityInv'
  <2>1. UNCHANGED <<packed, commits, acked>> /\ Bringing
    BY <1>9, <1>k DEF WriteTree, Writes
  <2>2. LockHeld'
    BY <1>9, <1>k DEF WriteTree, Writes, DurabilityInv, LockHeld
  <2>3. BaseStored'
    BY <1>9, <1>k, <2>2 DEF WriteTree, Writes, DurabilityInv, LockHeld, BaseStored
  <2> QED
    BY <1>q, <2>1, <2>2, <2>3
<1>10. ASSUME NEW h \in Handles, WriteIndex(h) PROVE DurabilityInv'
  <2>1. UNCHANGED <<packed, commits, acked>> /\ Bringing
    BY <1>10, <1>k DEF WriteIndex
  <2>2. LockHeld'
    BY <1>10, <1>k DEF WriteIndex, DurabilityInv, LockHeld
  <2>3. BaseStored'
    BY <1>10, <1>k, <2>2 DEF WriteIndex, DurabilityInv, LockHeld, BaseStored
  <2> QED
    BY <1>q, <2>1, <2>2, <2>3
<1>11. ASSUME NEW h \in Handles, PackMissesObject(h) PROVE DurabilityInv'
  <2>1. UNCHANGED <<packed, commits, acked>> /\ Bringing
    BY <1>11, <1>k DEF PackMissesObject, Raise
  <2>2. LockHeld'
    BY <1>11, <1>k DEF PackMissesObject, Raise, DurabilityInv, LockHeld
  <2>3. BaseStored'
    BY <1>11, <1>k, <2>2 DEF PackMissesObject, Raise, DurabilityInv, LockHeld, BaseStored
  <2> QED
    BY <1>q, <2>1, <2>2, <2>3
<1>12. ASSUME NEW h \in Handles, Throw(h) PROVE DurabilityInv'
  <2>1. UNCHANGED <<packed, commits, acked>> /\ Bringing
    BY <1>12, <1>k DEF Throw, Raise, Writes
  <2>2. LockHeld'
    BY <1>12, <1>k DEF Throw, Raise, Writes, DurabilityInv, LockHeld
  <2>3. BaseStored'
    BY <1>12, <1>k, <2>2 DEF Throw, Raise, Writes, DurabilityInv, LockHeld, BaseStored
  <2> QED
    BY <1>q, <2>1, <2>2, <2>3
<1>13. ASSUME NEW h \in Handles, Fetch(h) PROVE DurabilityInv'
  <2>1. UNCHANGED <<packed, commits, acked>> /\ Bringing
    BY <1>13, <1>k DEF Fetch
  <2>2. LockHeld'
    BY <1>13, <1>k DEF Fetch, DurabilityInv, LockHeld
  <2>3. BaseStored'
    BY <1>13, <1>k, <2>2 DEF Fetch, DurabilityInv, LockHeld, BaseStored
  <2> QED
    BY <1>q, <2>1, <2>2, <2>3
<1>14. ASSUME NEW h \in Handles, Release(h) PROVE DurabilityInv'
  <2>1. UNCHANGED <<packed, commits, acked>> /\ Bringing
    BY <1>14, <1>k DEF Release, Forget, Unlocks
  <2>2. LockHeld'
    BY <1>14, <1>k DEF Release, Forget, Unlocks, DurabilityInv, LockHeld
  <2>3. BaseStored'
    BY <1>14, <1>k, <2>2 DEF Release, Forget, Unlocks, DurabilityInv, LockHeld, BaseStored
  <2> QED
    BY <1>q, <2>1, <2>2, <2>3
<1>15. ASSUME NEW h \in Handles, Crash(h) PROVE DurabilityInv'
  <2>1. UNCHANGED <<packed, commits, acked>> /\ Bringing
    BY <1>15, <1>k DEF Crash, Forget, Unlocks
  <2>2. LockHeld'
    BY <1>15, <1>k DEF Crash, Forget, Unlocks, DurabilityInv, LockHeld
  <2>3. BaseStored'
    BY <1>15, <1>k, <2>2 DEF Crash, Forget, Unlocks, DurabilityInv, LockHeld, BaseStored
  <2> QED
    BY <1>q, <2>1, <2>2, <2>3<1>16. ASSUME NEW h \in Handles, NEW r \in Requests, SaveStart(h, r) PROVE DurabilityInv'
  <2>1. UNCHANGED <<packed, commits, acked>> /\ Bringing
    BY <1>16, <1>k DEF SaveStart
  <2>2. LockHeld'
    BY <1>16, <1>k DEF SaveStart, DurabilityInv, LockHeld
  <2>3. CommitReadable(h) => writer = h \/ Commit(head) \in packed
    BY DEF CommitReadable, Visible
  <2>4. BaseStored'
    <3>1. CASE CommitReadable(h)
      BY <1>16, <1>k, <2>3, <3>1 DEF SaveStart, DurabilityInv, BaseStored
    <3>2. CASE ~CommitReadable(h)
      BY <1>16, <3>2 DEF SaveStart, DurabilityInv, BaseStored
    <3> QED
      BY <3>1, <3>2
  <2> QED
    BY <1>q, <2>1, <2>2, <2>4
<1>17. ASSUME NEW h \in Handles, NEW k \in Keys, NewValues(h, k) PROVE DurabilityInv'
  <2>1. UNCHANGED <<packed, commits, acked, pc, new, base, writer>>
    BY <1>17 DEF NewValues
  <2> QED
    BY <1>q, <2>1 DEF DurabilityInv, LockHeld, BaseStored
<1>18. ASSUME UNCHANGED vars PROVE DurabilityInv'
  <2>1. UNCHANGED <<packed, commits, acked, pc, new, base, writer>>
    BY <1>18 DEF vars
  <2> QED
    BY <1>q, <2>1 DEF DurabilityInv, LockHeld, BaseStored
<1>19. ASSUME NEW h \in Handles, InitPack(h) PROVE DurabilityInv'
  <2>1. PackMade(h)
    BY <1>19, <1>k, <1>t DEF InitPack, PackMade, Typed, StepsKnow, DurabilityInv,
       LockHeld, ParentStored
  <2> QED
    BY <1>t, <2>1, DurabilityPack
<1>20. ASSUME NEW h \in Handles, WritePack(h) PROVE DurabilityInv'
  <2>1. PackMade(h)
    BY <1>20, <1>k, <1>t DEF WritePack, PackMade, Typed, StepsKnow, DurabilityInv,
       LockHeld, ParentStored
  <2> QED
    BY <1>t, <2>1, DurabilityPack
<1>21. ASSUME NEW h \in Handles, Rollback(h) PROVE DurabilityInv'
  <2>1. /\ pc[h] = "rollback" /\ writer = h
        /\ UNCHANGED <<packed, commits>>
        /\ acked' = acked \cup {new[h]}
        /\ pc' = [pc EXCEPT ![h] = "ready"]
        /\ new' = [new EXCEPT ![h] = 0]
        /\ base' = [base EXCEPT ![h] = 0]
        /\ writer' = NoHandle
    BY <1>21 DEF Rollback, Unlocks, DurabilityInv, LockHeld
  <2>2. LockHeld' /\ BaseStored'
    BY <2>1, <1>k DEF DurabilityInv, LockHeld, BaseStored
  <2>3. \A c : Closure(c)' = Closure(c) /\ IsRoot(c)' = IsRoot(c)
                 /\ IsUserCommit(c)' = IsUserCommit(c)
    BY <2>1 DEF Closure, Commit, Tree, Blobs, Blob, IsRoot, IsUserCommit
  <2>4. ParentStored' /\ PackWritten'
    BY <2>1, <2>3, <1>k DEF DurabilityInv, ParentStored, PackWritten
  <2>5. AckedDurable'
    BY <2>1, <2>3 DEF DurabilityInv, PackWritten, AckedDurable
  <2>6. PackedKnown' /\ HistoryDurable' /\ OnlyUserCommitsBelow'
    BY <2>1, <2>3 DEF DurabilityInv, PackedKnown, HistoryDurable, OnlyUserCommitsBelow
  <2> QED
    BY <1>t, <2>2, <2>4, <2>5, <2>6 DEF DurabilityInv
<1>22. ASSUME NEW h \in Handles, InitCommit(h) PROVE DurabilityInv'
  <2> DEFINE r == [tree |-> EmptyTree, parent |-> 0, message |-> FALSE, email |-> AppEmail]
  <2>1. r \in CommitRecords /\ r.parent = 0
    BY EmptyTreeType DEF CommitRecords, Emails
  <2>2. /\ commits' = Append(commits, r)
        /\ pc[h] = "initCommit"
        /\ pc' = [pc EXCEPT ![h] = "initPack"]
        /\ new' = [new EXCEPT ![h] = Len(commits) + 1]
        /\ UNCHANGED <<packed, acked, base, writer>>
    <3>1. Len(commits') = Len(commits) + 1
      BY <1>22, <1>t, <2>1, AppendCommit DEF InitCommit, Typed, TypeOK
    <3> QED
      BY <1>22, <3>1 DEF InitCommit, Writes
  <2>3. CommitMade(h, r)
    <3> HIDE DEF r
    <3> QED
      BY <1>t, <2>1, <2>2 DEF CommitMade, Typed, TypeOK
  <2> QED
    BY <1>t, <2>3, DurabilityCommit
<1>23. ASSUME NEW h \in Handles, CreateCommit(h) PROVE DurabilityInv'
  <2> DEFINE r == [tree |-> index[h], parent |-> ParentOf(h),
                   message |-> req[h].message, email |-> req[h].email]
             p == commits[base[h]].parent
  <2>0. /\ base[h] \in 1..Len(commits)
        /\ commits \in Seq(CommitRecords)
        /\ DOMAIN commits = 1..Len(commits)
        /\ \A c \in DOMAIN commits : commits[c].parent < c
        /\ commits[base[h]] \in CommitRecords
        /\ Commit(base[h]) \in packed
    BY <1>23, <1>t DEF CreateCommit, Typed, TypeOK, StepsKnow, DurabilityInv, BaseStored
  <2>1. p \in 0..Len(commits) /\ ParentOf(h) \in 1..Len(commits)
    BY <2>0 DEF CommitRecords, ParentOf
  <2>2. r \in CommitRecords
    BY <1>23, <1>t, <2>1 DEF CreateCommit, CommitRecords, Requests, Typed, TypeOK, StepsKnow
  <2>3. IsRoot(base[h]) \/ Commit(p) \in packed
    BY <2>0 DEF DurabilityInv, HistoryDurable
  <2>4. Commit(ParentOf(h)) \in packed
    BY <2>0, <2>3 DEF ParentOf, IsRoot
  <2>5. IsRoot(ParentOf(h)) \/ IsUserCommit(ParentOf(h))
    <3>1. CASE p = 0
      BY <3>1 DEF ParentOf, IsRoot
    <3>2. CASE p # 0 /\ IsUserCommit(base[h])
      BY <3>2 DEF ParentOf, IsUserCommit
    <3>3. CASE p # 0 /\ ~IsUserCommit(base[h])
      <4>1. ParentOf(h) = p
        BY <2>3, <3>3 DEF ParentOf, IsUserCommit, IsRoot, Visible
      <4> QED
        BY <2>0, <3>3, <4>1 DEF DurabilityInv, OnlyUserCommitsBelow
    <3> QED
      BY <3>1, <3>2, <3>3
  <2>6. /\ commits' = Append(commits, r)
        /\ pc[h] = "commit"
        /\ pc' = [pc EXCEPT ![h] = "pack"]
        /\ new' = [new EXCEPT ![h] = Len(commits) + 1]
        /\ UNCHANGED <<packed, acked, base, writer>>
    <3>1. commits' = Append(commits, r)
      BY <1>23 DEF CreateCommit
    <3>2. Len(commits') = Len(commits) + 1
      BY <2>0, <2>2, <3>1, AppendCommit
    <3> QED
      BY <1>23, <3>1, <3>2 DEF CreateCommit, Writes
  <2>7. CommitMade(h, r)
    <3>1. r.parent = ParentOf(h)
      OBVIOUS
    <3> HIDE DEF r
    <3> QED
      BY <2>1, <2>2, <2>4, <2>5, <2>6, <3>1 DEF CommitMade
  <2> QED
    BY <1>t, <2>7, DurabilityCommit
<1> QED
  BY <1>1, <1>2, <1>3, <1>4, <1>5, <1>6, <1>7, <1>8, <1>9, <1>10, <1>11, <1>12,
     <1>13, <1>14, <1>15, <1>16, <1>17, <1>18, <1>19, <1>20, <1>21, <1>22, <1>23
     DEF Next, Client, Step

\* What was acknowledged is stored for good, whatever failed or crashed since.
THEOREM Durability == Spec => []AckedDurable
<1>1. Spec => []DurabilityInv
  BY DurabilityInit, DurabilityNext, PTL DEF Spec
<1> QED
  BY <1>1, PTL DEF DurabilityInv

\* And so is the history of every commit that is stored, with all its blobs.
THEOREM HistoryKept == Spec => []HistoryDurable
<1>1. Spec => []DurabilityInv
  BY DurabilityInit, DurabilityNext, PTL DEF Spec
<1> QED
  BY <1>1, PTL DEF DurabilityInv

\* No commit stands on an autosave, the initial commit aside.
THEOREM AutosavesOverwritten == Spec => []OnlyUserCommitsBelow
<1>1. Spec => []DurabilityInv
  BY DurabilityInit, DurabilityNext, PTL DEF Spec
<1> QED
  BY <1>1, PTL DEF DurabilityInv

-----------------------------------------------------------------------------
(* Any number of handles, as long as no call fails and no process dies.      *)
(* Whenever nobody writes, HEAD is stored, and every blob HEAD names can be  *)
(* looked up.  A blob a commit names comes from the index, and the index     *)
(* from a file, which may be another handle's work: the invariant follows    *)
(* the blobs along that way.                                                 *)

\* No call fails and no process dies.
Undisturbed == Faults = {} /\ MaxCrashes = 0

\* Between these calls a save has blobs in its index that no pack may hold.
Preparing == {"writeTree", "writeIndex", "commit", "pack"}
Writing == LockedSaveSteps \cup {"initCommit", "initPack", "initRollback"}

\* Only a request, or an open, that is under way holds the lock.
LockUsed == \A h \in Handles : writer = h => pc[h] \in Writing

\* The blobs the index file may name before they are in a pack: those of the
\* save that wrote it last.
Coming == UNION {Blobs(index[h]) : h \in {g \in Handles : pc[g] \in {"commit", "pack"}}}

\* Every blob of the index file and of a cached index is in a pack, or will be.
IndexStored ==
    /\ Blobs(indexFile) \subseteq packed \cup Coming
    /\ \A h \in Handles :
          index[h] # NotLoaded =>
              Blobs(index[h]) \subseteq
                  packed \cup (IF pc[h] \in Preparing THEN txn ELSE Coming)

\* What a save is about to pack is in its transaction, or packed.
CommitComplete ==
    \A h \in Handles :
        /\ pc[h] \in {"writeIndex", "commit", "pack"} => Tree(index[h]) \in txn
        /\ pc[h] = "pack" => /\ commits[new[h]].tree = index[h]
                             /\ Commit(new[h]) \in txn

\* HEAD is packed, or the handle that moved it is about to pack it.
HeadStored ==
    head # 0 => \/ Closure(head) \subseteq packed
                \/ \E h \in Handles : pc[h] \in {"initPack", "pack"} /\ new[h] = head

UndisturbedInv == LockUsed /\ IndexStored /\ CommitComplete /\ HeadStored

-----------------------------------------------------------------------------
\* The lock has one holder: while a handle writes, no other one does.
LEMMA OneWriter ==
    ASSUME DurabilityInv, NEW h \in Handles, pc[h] \in Writing
    PROVE  writer = h /\ \A g \in Handles \ {h} : pc[g] \notin Writing
BY DEF DurabilityInv, LockHeld, Writing

\* What an index names after a request: what it named, and what was put.
LEMMA AppliedBlobs ==
    ASSUME NEW r \in Requests, NEW t \in Trees
    PROVE  Blobs(Applied(r, t)) \subseteq Blobs(t) \cup Blobs(r.put)
BY DEF Requests, Trees, Applied, Removed, Added, Present, Blobs, Blob

\* The pack of a save never misses an object.
LEMMA PackFindsAll ==
    ASSUME DurabilityInv, UndisturbedInv, NEW h \in Handles, pc[h] = "pack"
    PROVE  Closure(new[h]) \subseteq Visible(h)
<1>1. writer = h
  BY OneWriter DEF Writing, LockedSaveSteps
<1>2. index[h] # NotLoaded
  BY ConstantsAssumption DEF DurabilityInv, Typed, StepsKnow, SaveSteps, Trees
<1>3. Blobs(index[h]) \subseteq packed \cup txn
  BY <1>2 DEF UndisturbedInv, IndexStored, Preparing
<1>4. commits[new[h]].tree = index[h] /\ Commit(new[h]) \in txn /\ Tree(index[h]) \in txn
  BY DEF UndisturbedInv, CommitComplete
<1> QED
  BY <1>1, <1>3, <1>4 DEF Closure, Visible

LEMMA UndisturbedInit == Init => UndisturbedInv
<1> SUFFICES ASSUME Init PROVE UndisturbedInv
  OBVIOUS
<1>1. LockUsed
  BY ConstantsAssumption DEF Init, LockUsed
<1>2. Blobs(EmptyTree) = {}
  BY DEF Blobs, Present, EmptyTree
<1>3. IndexStored
  BY <1>2 DEF Init, IndexStored
<1>4. CommitComplete /\ HeadStored
  BY DEF Init, CommitComplete, HeadStored
<1> QED
  BY <1>1, <1>3, <1>4 DEF UndisturbedInv

\* The parts of the invariant look at the packs, the log, the indexes and at
\* which handles are on their way to a pack.  A step that changes none of them,
\* and takes nobody from there or to there, keeps them.
LEMMA UndisturbedQuiet ==
    ASSUME UndisturbedInv, NEW h \in Handles, NEW s,
           UNCHANGED <<head, indexFile, packed, commits, lock, index>>,
           pc \in [Handles -> Steps], pc' = [pc EXCEPT ![h] = s],
           pc[h] \notin Writing, s \notin Writing,
           UNCHANGED new \/ new' = [new EXCEPT ![h] = 0],
           new \in [Handles -> 0..Len(commits)]
    PROVE  UndisturbedInv'
<1> USE DEF Writing, LockedSaveSteps, Preparing, lock
<1>1. LockUsed'
  BY DEF UndisturbedInv, LockUsed
<1>2. Coming' = Coming
  BY DEF Coming, Blobs, Present, Blob
<1>4. IndexStored'
  BY <1>2 DEF UndisturbedInv, IndexStored, Blobs, Present, Blob
<1>5. CommitComplete'
  BY DEF UndisturbedInv, CommitComplete, Tree, Commit
<1>6. HeadStored'
  BY DEF UndisturbedInv, HeadStored, Closure, Tree, Commit, Blobs, Present, Blob
<1> QED
  BY <1>1, <1>4, <1>5, <1>6 DEF UndisturbedInv

\* A step of the handle that writes, or comes to write: what it does to the lock
\* and to what is on disk.
LEMMA UndisturbedNext ==
    ASSUME Undisturbed, DurabilityInv, Typed', UndisturbedInv, [Next]_vars
    PROVE  UndisturbedInv'
<1> USE DEF Writing, LockedSaveSteps, Preparing, Goto, disk, lock, local
<1>t. /\ pc \in [Handles -> Steps]
      /\ index \in [Handles -> Trees \cup {NotLoaded}]
      /\ new \in [Handles -> 0..Len(commits)]
      /\ commits \in Seq(CommitRecords)
      /\ writer \in Handles \cup {NoHandle}
      /\ NoHandle \notin Handles
      /\ NotLoaded \notin Trees
  BY ConstantsAssumption DEF DurabilityInv, Typed, TypeOK, Trees
<1>w. \A g \in Handles : pc[g] \in Writing <=> writer = g
  BY DEF DurabilityInv, LockHeld, UndisturbedInv, LockUsed
<1>l. \A g \in Handles : pc[g] \in Preparing \cup {"update"} => index[g] \in Trees
  BY DEF DurabilityInv, Typed, StepsKnow, SaveSteps
<1>1. ASSUME NEW h \in Handles, OpenExisting(h) PROVE UndisturbedInv'
  BY <1>1, <1>t, UndisturbedQuiet DEF OpenExisting
<1>2. ASSUME NEW h \in Handles, OpenMissing(h) PROVE UndisturbedInv'
  BY <1>2, <1>t, UndisturbedQuiet DEF OpenMissing
<1>3. ASSUME NEW h \in Handles, InitRepo(h) PROVE UndisturbedInv'
  BY <1>3, <1>t, UndisturbedQuiet DEF InitRepo
<1>4. ASSUME NEW h \in Handles, Fetch(h) PROVE UndisturbedInv'
  <2>1. UNCHANGED <<head, indexFile, packed, commits, lock, index, pc, new>>
    BY <1>4 DEF Fetch
  <2> QED
    BY <2>1, <1>4, <1>t, UndisturbedQuiet DEF Fetch
<1>5. ASSUME NEW h \in Handles, NEW k \in Keys, NewValues(h, k) PROVE UndisturbedInv'
  BY <1>5, <1>t, UndisturbedQuiet DEF NewValues
<1>6. ASSUME NEW h \in Handles, NEW r \in Requests, SaveStart(h, r) PROVE UndisturbedInv'
  <2>1. pc[h] = "ready" /\ UNCHANGED <<disk, lock, index, new>>
    BY <1>6 DEF SaveStart
  <2>2. pc' = [pc EXCEPT ![h] = "loadIndex"] \/ pc' = [pc EXCEPT ![h] = "ready"]
    BY <1>6, <1>t, <2>1 DEF SaveStart
  <2> QED
    BY <2>1, <2>2, <1>t, UndisturbedQuiet
<1>7. ASSUME NEW h \in Handles, Throw(h) PROVE UndisturbedInv'
  BY <1>7 DEF Throw, Undisturbed
<1>8. ASSUME NEW h \in Handles, Crash(h) PROVE UndisturbedInv'
  <2>1. crashes \in 0..MaxCrashes
    BY DEF DurabilityInv, Typed, TypeOK
  <2> QED
    BY <1>8, <2>1 DEF Crash, Undisturbed
<1>9. ASSUME NEW h \in Handles, PackMissesObject(h) PROVE UndisturbedInv'
  BY <1>9, PackFindsAll DEF PackMissesObject
<1>10. ASSUME UNCHANGED vars PROVE UndisturbedInv'
  BY <1>10 DEF vars, UndisturbedInv, LockUsed, IndexStored, Coming, CommitComplete,
     HeadStored, Closure, Tree, Commit, Blobs, Present, Blob
<1> USE DEF Tree, Commit, Blobs, Present, Blob
<1>11. ASSUME NEW h \in Handles, Release(h) PROVE UndisturbedInv'
  <2>1. /\ UNCHANGED <<head, indexFile, packed, commits, lock>>
        /\ index' = [index EXCEPT ![h] = NotLoaded]
        /\ new' = [new EXCEPT ![h] = 0]
        /\ pc[h] = "ready" /\ pc' = [pc EXCEPT ![h] = "closed"]
    BY <1>11, <1>w DEF Release, Forget, Over
  <2>2. LockUsed' /\ Coming' = Coming
    BY <2>1, <1>w, <1>t DEF LockUsed, Coming
  <2>3. IndexStored'
    BY <2>1, <2>2, <1>t DEF UndisturbedInv, IndexStored
  <2>4. CommitComplete' /\ HeadStored'
    BY <2>1, <1>t DEF UndisturbedInv, CommitComplete, HeadStored, Closure
  <2> QED
    BY <2>2, <2>3, <2>4 DEF UndisturbedInv
<1>12. ASSUME NEW h \in Handles, LoadIndex(h) PROVE UndisturbedInv'
  <2>1. /\ UNCHANGED <<head, indexFile, packed, commits, lock, new>>
        /\ index' = [index EXCEPT ![h] = IF @ = NotLoaded THEN indexFile ELSE @]
        /\ pc[h] = "loadIndex" /\ pc' = [pc EXCEPT ![h] = "begin"]
    BY <1>12 DEF LoadIndex
  <2>2. LockUsed' /\ Coming' = Coming
    BY <2>1, <1>w, <1>t DEF LockUsed, Coming
  <2>3. IndexStored'
    BY <2>1, <2>2, <1>t DEF UndisturbedInv, IndexStored
  <2>4. CommitComplete' /\ HeadStored'
    BY <2>1, <1>t DEF UndisturbedInv, CommitComplete, HeadStored, Closure
  <2> QED
    BY <2>2, <2>3, <2>4 DEF UndisturbedInv
<1>13. ASSUME NEW h \in Handles, InitBegin(h) \/ BeginTxn(h) PROVE UndisturbedInv'
  <2>1. /\ UNCHANGED <<head, indexFile, packed, commits, index, new>>
        /\ writer = NoHandle /\ writer' = h /\ txn' = {}
        /\ pc[h] \in {"initBegin", "begin"}
        /\ \E s \in {"initCommit", "update"} : pc' = [pc EXCEPT ![h] = s]
    BY <1>13 DEF InitBegin, BeginTxn, Locks
  <2>2. \A g \in Handles : pc[g] \notin Writing
    BY <1>w, <1>t, <2>1
  <2>3. LockUsed' /\ Coming' = Coming
    BY <2>1, <2>2, <1>t DEF LockUsed, Coming
  <2>4. IndexStored'
    BY <2>1, <2>2, <2>3, <1>t DEF UndisturbedInv, IndexStored
  <2>5. CommitComplete' /\ HeadStored'
    BY <2>1, <2>2, <1>t DEF UndisturbedInv, CommitComplete, HeadStored, Closure
  <2> QED
    BY <2>3, <2>4, <2>5 DEF UndisturbedInv
<1>14. ASSUME NEW h \in Handles, InitRollback(h) \/ Rollback(h) PROVE UndisturbedInv'
  <2>1. /\ UNCHANGED <<head, indexFile, packed, commits, index>>
        /\ writer' = NoHandle
        /\ new' = [new EXCEPT ![h] = 0]
        /\ pc[h] \in {"initRollback", "rollback"} /\ pc' = [pc EXCEPT ![h] = "ready"]
    BY <1>14 DEF InitRollback, Rollback, Unlocks, Over
  <2>2. \A g \in Handles : pc'[g] \notin Writing
    BY <1>w, <1>t, <2>1
  <2>3. LockUsed' /\ Coming' = Coming
    BY <2>1, <2>2, <1>t DEF LockUsed, Coming
  <2>4. IndexStored'
    BY <2>1, <2>2, <2>3, <1>t DEF UndisturbedInv, IndexStored
  <2>5. CommitComplete' /\ HeadStored'
    BY <2>1, <2>2, <1>t DEF UndisturbedInv, CommitComplete, HeadStored, Closure
  <2> QED
    BY <2>3, <2>4, <2>5 DEF UndisturbedInv
<1>15. ASSUME NEW h \in Handles, InitCommit(h) PROVE UndisturbedInv'
  <2>1. /\ UNCHANGED <<indexFile, packed, writer, index>>
        /\ txn \subseteq txn'
        /\ new' = [new EXCEPT ![h] = Len(commits')] /\ head' = Len(commits')
        /\ pc[h] = "initCommit" /\ pc' = [pc EXCEPT ![h] = "initPack"]
    BY <1>15 DEF InitCommit, Writes
  <2>2. writer = h /\ \A g \in Handles \ {h} : pc[g] \notin Writing
    BY <1>w, <2>1
  <2>3. LockUsed' /\ Coming' = Coming
    BY <2>1, <2>2, <1>t DEF LockUsed, Coming
  <2>4. IndexStored'
    BY <2>1, <2>2, <2>3, <1>t DEF UndisturbedInv, IndexStored
  <2>5. CommitComplete' /\ HeadStored'
    BY <2>1, <2>2, <1>t DEF CommitComplete, HeadStored
  <2> QED
    BY <2>3, <2>4, <2>5 DEF UndisturbedInv
<1>16. ASSUME NEW h \in Handles, InitPack(h) \/ WritePack(h) PROVE UndisturbedInv'
  <2>1. /\ UNCHANGED <<head, indexFile, commits, writer, txn, index, new>>
        /\ packed' = packed \cup Closure(new[h])
        /\ \/ pc[h] = "initPack" /\ pc' = [pc EXCEPT ![h] = "initRollback"]
           \/ pc[h] = "pack" /\ pc' = [pc EXCEPT ![h] = "rollback"]
    BY <1>16 DEF InitPack, WritePack
  <2>2. writer = h /\ \A g \in Handles \ {h} : pc[g] \notin Writing
    BY <1>w, <2>1
  <2> HIDE DEF Blobs
  <2>3. LockUsed' /\ Coming' = {}
    <3>1. \A g \in Handles : pc'[g] \notin {"commit", "pack"}
      BY <2>1, <2>2, <1>t
    <3> QED
      BY <2>1, <2>2, <3>1, <1>t DEF LockUsed, Coming
  <2>4. packed \cup Coming \subseteq packed'
    <3>1. CASE pc[h] = "initPack"
      BY <3>1, <2>1, <2>2 DEF Coming
    <3>2. CASE pc[h] = "pack"
      <4>1. Blobs(index[h]) \subseteq Closure(new[h])
        BY <3>2 DEF UndisturbedInv, CommitComplete, Closure
      <4>2. Coming = Blobs(index[h])
        BY <3>2, <2>2 DEF Coming
      <4> QED
        BY <4>1, <4>2, <2>1
    <3> QED
      BY <2>1, <3>1, <3>2
  <2>5. IndexStored'
    <3>1. Blobs(indexFile) \subseteq packed'
      BY <2>4 DEF UndisturbedInv, IndexStored
    <3>2. ASSUME NEW g \in Handles, index[g] # NotLoaded
          PROVE  Blobs(index[g]) \subseteq packed'
      <4>1. CASE pc[g] \in Preparing
        <5>1. g = h /\ pc[h] = "pack"
          BY <4>1, <2>1, <2>2
        <5> QED
          BY <5>1, <2>1 DEF UndisturbedInv, CommitComplete, Closure
      <4>2. CASE pc[g] \notin Preparing
        BY <3>2, <4>2, <2>4 DEF UndisturbedInv, IndexStored
      <4> QED
        BY <4>1, <4>2
    <3>3. \A g \in Handles : pc'[g] \notin Preparing
      BY <2>1, <2>2, <1>t
    <3> QED
      BY <3>1, <3>2, <3>3, <2>1 DEF IndexStored
  <2>6. CommitComplete'
    BY <2>1, <2>2, <1>t DEF CommitComplete
  <2>7. HeadStored'
    BY <2>1, <2>2 DEF UndisturbedInv, HeadStored, Closure
  <2> QED
    BY <2>3, <2>5, <2>6, <2>7 DEF UndisturbedInv
<1>17. ASSUME NEW h \in Handles, UpdateIndex(h) PROVE UndisturbedInv'
  <2>1. /\ UNCHANGED <<head, indexFile, packed, commits, writer, new>>
        /\ txn' = txn \cup Blobs(req[h].put)
        /\ index' = [index EXCEPT ![h] = Applied(req[h], @)]
        /\ pc[h] = "update" /\ pc' = [pc EXCEPT ![h] = "writeTree"]
    BY <1>17 DEF UpdateIndex, Writes
  <2>2. writer = h /\ \A g \in Handles \ {h} : pc[g] \notin Writing
    BY <1>w, <2>1
  <2>3. LockUsed' /\ Coming' = {} /\ Coming = {}
    BY <2>1, <2>2, <1>t DEF LockUsed, Coming
  <2>4. Blobs(index[h]) \subseteq packed
    BY <2>1, <2>3, <1>l, <1>t DEF UndisturbedInv, IndexStored
  <2>5. req[h] \in Requests
    BY <2>1 DEF DurabilityInv, Typed, StepsKnow, SaveSteps
  <2> HIDE DEF Blobs
  <2>6. Blobs(index'[h]) \subseteq packed' \cup txn'
    <3>1. Blobs(Applied(req[h], index[h])) \subseteq Blobs(index[h]) \cup Blobs(req[h].put)
      BY <2>1, <2>5, <1>l, AppliedBlobs
    <3>2. index'[h] = Applied(req[h], index[h])
      BY <2>1, <1>t
    <3> QED
      BY <2>1, <2>4, <3>1, <3>2
  <2>7. IndexStored'
    <3>1. ASSUME NEW g \in Handles \ {h}, index'[g] # NotLoaded
          PROVE  Blobs(index'[g]) \subseteq packed'
      BY <2>1, <2>2, <2>3, <3>1, <1>t DEF UndisturbedInv, IndexStored
    <3>2. Blobs(indexFile') \subseteq packed'
      BY <2>1, <2>3 DEF UndisturbedInv, IndexStored
    <3>3. pc'[h] = "writeTree"
      BY <2>1, <1>t
    <3> QED
      BY <2>6, <3>1, <3>2, <3>3 DEF IndexStored
  <2>8. CommitComplete'
    BY <2>1, <2>2, <1>t DEF CommitComplete
  <2>9. HeadStored'
    BY <2>1, <2>2, <1>t DEF UndisturbedInv, HeadStored, Closure
  <2> QED
    BY <2>3, <2>7, <2>8, <2>9 DEF UndisturbedInv
<1>18. ASSUME NEW h \in Handles, WriteTree(h) PROVE UndisturbedInv'
  <2>1. /\ UNCHANGED <<head, indexFile, packed, commits, writer, index, new>>
        /\ txn' = txn \cup {Tree(index[h])}
        /\ pc[h] = "writeTree" /\ pc' = [pc EXCEPT ![h] = "writeIndex"]
    BY <1>18 DEF WriteTree, Writes
  <2>2. writer = h /\ \A g \in Handles \ {h} : pc[g] \notin Writing
    BY <1>w, <2>1
  <2>3. LockUsed' /\ Coming' = Coming
    BY <2>1, <2>2, <1>t DEF LockUsed, Coming
  <2> HIDE DEF Blobs
  <2>4. IndexStored'
    BY <2>1, <2>2, <2>3, <1>t DEF UndisturbedInv, IndexStored
  <2>5. CommitComplete' /\ HeadStored'
    BY <2>1, <2>2, <1>t DEF UndisturbedInv, CommitComplete, HeadStored, Closure
  <2> QED
    BY <2>3, <2>4, <2>5 DEF UndisturbedInv
<1>19. ASSUME NEW h \in Handles, WriteIndex(h) PROVE UndisturbedInv'
  <2>1. /\ UNCHANGED <<head, packed, commits, writer, txn, index, new>>
        /\ indexFile' = index[h]
        /\ pc[h] = "writeIndex" /\ pc' = [pc EXCEPT ![h] = "commit"]
    BY <1>19 DEF WriteIndex
  <2>2. writer = h /\ \A g \in Handles \ {h} : pc[g] \notin Writing
    BY <1>w, <2>1
  <2>3. LockUsed'
    BY <2>1, <2>2, <1>t DEF LockUsed
  <2> HIDE DEF Blobs
  <2>4. Coming = {} /\ Coming' = Blobs(indexFile')
    BY <2>1, <2>2, <1>t DEF Coming
  <2>5. IndexStored'
    BY <2>1, <2>2, <2>4, <1>t DEF UndisturbedInv, IndexStored
  <2>6. CommitComplete' /\ HeadStored'
    BY <2>1, <2>2, <1>t DEF UndisturbedInv, CommitComplete, HeadStored, Closure
  <2> QED
    BY <2>3, <2>5, <2>6 DEF UndisturbedInv
<1>20. ASSUME NEW h \in Handles, CreateCommit(h) PROVE UndisturbedInv'
  <2> DEFINE r == [tree |-> index[h], parent |-> ParentOf(h),
                   message |-> req[h].message, email |-> req[h].email]
  <2>1. /\ UNCHANGED <<indexFile, packed, writer, index>>
        /\ commits' = Append(commits, r)
        /\ txn' = txn \cup {Commit(Len(commits'))}
        /\ new' = [new EXCEPT ![h] = Len(commits')] /\ head' = Len(commits')
        /\ pc[h] = "commit" /\ pc' = [pc EXCEPT ![h] = "pack"]
    BY <1>20 DEF CreateCommit, Writes
  <2>2. writer = h /\ \A g \in Handles \ {h} : pc[g] \notin Writing
    BY <1>w, <2>1
  <2>3. LockUsed' /\ Coming' = Coming
    BY <2>1, <2>2, <1>t DEF LockUsed, Coming
  <2>4. commits'[Len(commits')].tree = index[h]
    <3>1. commits'[Len(commits) + 1] = r /\ Len(commits') = Len(commits) + 1
      BY <2>1, <1>t
    <3> QED
      BY <3>1
  <2> HIDE DEF Blobs, r
  <2>5. IndexStored'
    BY <2>1, <2>2, <2>3, <1>t DEF UndisturbedInv, IndexStored
  <2>6. CommitComplete' /\ HeadStored'
    BY <2>1, <2>2, <2>4, <1>t DEF UndisturbedInv, CommitComplete, HeadStored
  <2> QED
    BY <2>3, <2>5, <2>6 DEF UndisturbedInv
<1> QED
  BY <1>1, <1>2, <1>3, <1>4, <1>5, <1>6, <1>7, <1>8, <1>9, <1>10, <1>11, <1>12,
     <1>13, <1>14, <1>15, <1>16, <1>17, <1>18, <1>19, <1>20 DEF Next, Client, Step

-----------------------------------------------------------------------------
LEMMA SpecUndisturbed == Undisturbed => (Spec => [](DurabilityInv /\ UndisturbedInv))
<1> SUFFICES ASSUME Undisturbed PROVE Spec => [](DurabilityInv /\ UndisturbedInv)
  OBVIOUS
<1>1. Init => DurabilityInv /\ UndisturbedInv
  BY DurabilityInit, UndisturbedInit
<1>2. DurabilityInv /\ UndisturbedInv /\ [Next]_vars => (DurabilityInv /\ UndisturbedInv)'
  BY DurabilityNext, UndisturbedNext DEF DurabilityInv
<1> QED
  BY <1>1, <1>2, PTL DEF Spec

\* While the lock is free, HEAD and all it holds are in packs, for any number of
\* handles on one repository: the window between moving the branch and writing
\* the pack is closed by the lock (lines 190-201 and 429-439).
THEOREM HeadIsDurable == Undisturbed => (Spec => []HeadDurable)
<1> SUFFICES ASSUME Undisturbed PROVE Spec => []HeadDurable
  OBVIOUS
<1>1. DurabilityInv /\ UndisturbedInv => HeadDurable
  <2> SUFFICES ASSUME DurabilityInv, UndisturbedInv, writer = NoHandle, head # 0
               PROVE  Closure(head) \subseteq packed
    BY DEF HeadDurable
  <2>1. \A h \in Handles : pc[h] \notin {"initPack", "pack"}
    BY ConstantsAssumption DEF DurabilityInv, LockHeld, LockedSaveSteps
  <2> QED
    BY <2>1 DEF UndisturbedInv, HeadStored
<1> QED
  BY <1>1, SpecUndisturbed, PTL

\* The unchecked result of git_blob_lookup is always defined: a handle that can
\* read HEAD's tree can read every blob the tree names, whichever handle's index
\* file the name came from (lines 111, 175 and 301-308).
THEOREM BlobLookups == Undisturbed => (Spec => []BlobLookupDefined)
<1> SUFFICES ASSUME Undisturbed PROVE Spec => []BlobLookupDefined
  OBVIOUS
<1>1. DurabilityInv /\ UndisturbedInv => BlobLookupDefined
  <2> SUFFICES ASSUME DurabilityInv, UndisturbedInv, NEW h \in Handles,
                      pc[h] = "ready", TreeReadable(h)
               PROVE  Blobs(commits[head].tree) \subseteq Visible(h)
    BY DEF BlobLookupDefined
  <2>1. writer # h
    BY DEF UndisturbedInv, LockUsed, Writing, LockedSaveSteps
  <2>2. head \in DOMAIN commits /\ Commit(head) \in packed
    BY <2>1 DEF TreeReadable, CommitReadable, Visible, DurabilityInv, Typed, TypeOK
  <2>3. Closure(head) \subseteq packed
    BY <2>2 DEF DurabilityInv, HistoryDurable
  <2> QED
    BY <2>3 DEF Closure, Visible
<1> QED
  BY <1>1, SpecUndisturbed, PTL

-----------------------------------------------------------------------------
(* One handle                                                              *)
(*                                                                         *)
(* What GitStore guarantees when one handle opens the repository, as in an *)
(* application with one persistent store: user commits stay in the history *)
(* whatever fails or crashes, and as long as nothing does, the handle      *)
(* keeps the promise of ManagedObjectStore.                                *)

\* The repository is one store's.
OneHandle == \A g, h \in Handles : g = h

\* A client does not commit under the address that marks the store's own saves.
OwnAddress == AppEmail \notin UserEmails

-----------------------------------------------------------------------------
(* Ancestors                                                               *)

\* A commit is in its own history.
LEMMA AncestorSelf ==
    ASSUME NEW c \in DOMAIN commits
    PROVE  c \in Ancestors(c)
BY DEF Ancestors

\* What else is in its history is in that of its parent.
LEMMA AncestorParent ==
    ASSUME NEW c \in DOMAIN commits, NEW a \in Ancestors(c), a # c
    PROVE  ~IsRoot(c) /\ a \in Ancestors(commits[c].parent)
<1> DEFINE p == commits[c].parent
           Ids == DOMAIN commits
           Closed(S) == \A d \in S : IsRoot(d) \/ commits[d].parent \in S
<1>1. a \in Ids /\ \A S \in SUBSET Ids : c \in S /\ Closed(S) => a \in S
  BY DEF Ancestors
<1>2. ~IsRoot(c)
  <2> SUFFICES ASSUME IsRoot(c) PROVE FALSE
    OBVIOUS
  <2>1. {c} \in SUBSET Ids /\ c \in {c} /\ Closed({c})
    OBVIOUS
  <2> QED BY <1>1, <2>1
<1>3. ASSUME NEW S \in SUBSET Ids, p \in S, Closed(S) PROVE a \in S
  <2>1. S \cup {c} \in SUBSET Ids /\ c \in S \cup {c} /\ Closed(S \cup {c})
    BY <1>3
  <2>2. a \in S \cup {c}
    <3> HIDE DEF Closed
    <3> QED BY <1>1, <2>1
  <2> QED BY <2>2
<1> QED BY <1>1, <1>2, <1>3 DEF Ancestors

\* A commit that is appended has the history of its parent.
LEMMA AncestorAppend ==
    ASSUME commits \in Seq(CommitRecords), \A c \in DOMAIN commits : commits[c].parent < c,
           NEW r \in CommitRecords, commits' = Append(commits, r),
           r.parent \in 1..Len(commits), NEW a \in Ancestors(r.parent), NEW n, n = Len(commits) + 1
    PROVE  a \in Ancestors(n)'
<1> DEFINE Ids == DOMAIN commits
           Closed(S) == \A d \in S : IsRoot(d) \/ commits[d].parent \in S
<1>1. a \in Ids /\ \A S \in SUBSET Ids : r.parent \in S /\ Closed(S) => a \in S
  BY DEF Ancestors
<1>2. /\ Ids = 1..Len(commits) /\ Len(commits) \in Nat /\ DOMAIN commits' = 1..n
      /\ commits'[n] = r /\ \A c \in Ids : commits'[c] = commits[c]
  BY AppendCommit
<1>p. \A c \in Ids : commits[c].parent \in Nat
  <2>1. \A c \in Ids : commits[c] \in CommitRecords
    BY <1>2
  <2> QED BY <2>1 DEF CommitRecords
<1>3. ASSUME NEW S \in SUBSET (DOMAIN commits'), n \in S,
             \A d \in S : commits'[d].parent = 0 \/ commits'[d].parent \in S
      PROVE  a \in S
  <2> DEFINE T == S \cap Ids
  <2>1. r.parent \in T
    BY <1>2, <1>3
  <2>2. ASSUME NEW d \in T PROVE commits[d].parent = 0 \/ commits[d].parent \in T
    <3>1. commits[d].parent = 0 \/ commits[d].parent \in S
      BY <1>2, <1>3
    <3>2. commits[d].parent \in Nat /\ commits[d].parent < d /\ d \in 1..Len(commits)
      BY <1>2, <1>p
    <3> QED BY <1>2, <3>1, <3>2
  <2>3. Closed(T)
    BY <2>2 DEF IsRoot
  <2> HIDE DEF T, Closed
  <2>4. a \in T
    BY <1>1, <2>1, <2>3 DEF T
  <2> QED BY <2>4 DEF T
<1>4. a \in DOMAIN commits'
  BY <1>1, <1>2
<1> QED BY <1>3, <1>4 DEF Ancestors, IsRoot

-----------------------------------------------------------------------------
(* The order of things                                                     *)

\* The repository is created once, before anything is saved.
CreatedOnce ==
    /\ ~repo => head = 0
    /\ head = 0 => acked = {}
    /\ \A h \in Handles :
          /\ pc[h] \in {"initRepo", "initBegin", "initCommit"} => head = 0
          /\ pc[h] \in {"initBegin", "initCommit"} => repo

\* A save is based on HEAD until it moves it.
OnHead ==
    \A h \in Handles :
        /\ pc[h] \in SaveSteps \ {"pack"} => base[h] = head
        /\ pc[h] \in {"pack", "rollback"} => new[h] = head

OrderInv == Typed /\ CreatedOnce /\ OnHead

LEMMA OrderInit == Init => OrderInv
BY TypedInit DEF Init, OrderInv, CreatedOnce, OnHead, SaveSteps

LEMMA OrderNext ==
    ASSUME OneHandle, OrderInv, [Next]_vars
    PROVE  OrderInv'
<1> USE DEF SaveSteps, Goto, disk, lock, local
<1>t. Typed'
  BY TypedNext DEF OrderInv
<1>k. /\ pc \in [Handles -> Steps] /\ base \in [Handles -> 0..Len(commits)]
      /\ new \in [Handles -> 0..Len(commits)] /\ commits \in Seq(CommitRecords)
  BY DEF OrderInv, Typed, TypeOK
<1>o. ASSUME NEW h \in Handles PROVE \A g \in Handles : g = h
  BY DEF OneHandle
\* The handle goes on, with HEAD as it is.
<1>q. ASSUME NEW h \in Handles, NEW s, pc' = [pc EXCEPT ![h] = s],
             UNCHANGED <<head, acked, repo>>,
             s \in {"initRepo", "initBegin", "initCommit"} => head = 0,
             s \in {"initBegin", "initCommit"} => repo,
             s \in SaveSteps \ {"pack"} => base'[h] = head,
             s \in {"pack", "rollback"} => new'[h] = head
      PROVE  OrderInv'
  <2>1. \A g \in Handles : g = h /\ pc'[g] = s
    BY <1>q, <1>k, <1>o
  <2>2. CreatedOnce'
    BY <1>q, <2>1 DEF OrderInv, CreatedOnce
  <2>3. OnHead'
    BY <1>q, <2>1 DEF OnHead
  <2> QED BY <1>t, <2>2, <2>3 DEF OrderInv
<1>1. ASSUME NEW h \in Handles, OpenExisting(h) PROVE OrderInv'
  BY <1>1, <1>q DEF OpenExisting
<1>2. ASSUME NEW h \in Handles, OpenMissing(h) PROVE OrderInv'
  BY <1>2, <1>q DEF OpenMissing, OrderInv, CreatedOnce
<1>3. ASSUME NEW h \in Handles, InitRepo(h) PROVE OrderInv'
  <2>1. /\ pc[h] = "initRepo" /\ repo' = TRUE /\ pc' = [pc EXCEPT ![h] = "initBegin"]
        /\ UNCHANGED <<head, acked, base, new>>
    BY <1>3 DEF InitRepo
  <2>2. \A g \in Handles : pc'[g] = "initBegin"
    BY <2>1, <1>k, <1>o
  <2>3. CreatedOnce' /\ OnHead'
    BY <2>1, <2>2 DEF OrderInv, CreatedOnce, OnHead
  <2> QED BY <1>t, <2>3 DEF OrderInv
<1>4. ASSUME NEW h \in Handles, InitBegin(h) PROVE OrderInv'
  BY <1>4, <1>q DEF InitBegin, OrderInv, CreatedOnce
<1>5. ASSUME NEW h \in Handles, InitCommit(h) PROVE OrderInv'
  <2>1. /\ pc[h] = "initCommit" /\ pc' = [pc EXCEPT ![h] = "initPack"]
        /\ head' = Len(commits') /\ Len(commits') = Len(commits) + 1
        /\ UNCHANGED <<repo, acked>>
    BY <1>5, <1>k DEF InitCommit
  <2>2. \A g \in Handles : pc'[g] = "initPack"
    BY <2>1, <1>k, <1>o
  <2>3. CreatedOnce' /\ OnHead'
    BY <2>1, <2>2, <1>k DEF OrderInv, CreatedOnce, OnHead
  <2> QED BY <1>t, <2>3 DEF OrderInv
<1>6. ASSUME NEW h \in Handles, InitPack(h) \/ InitRollback(h) PROVE OrderInv'
  <2>1. CASE InitPack(h)
    BY <2>1, <1>q DEF InitPack
  <2>2. CASE InitRollback(h)
    BY <2>2, <1>q DEF InitRollback
  <2> QED BY <1>6, <2>1, <2>2
<1>7. ASSUME NEW h \in Handles, NEW r \in Requests, SaveStart(h, r) PROVE OrderInv'
  <2>1. pc[h] = "ready" /\ UNCHANGED <<disk, new, acked>>
    BY <1>7 DEF SaveStart
  <2>2. CASE CommitReadable(h)
    <3>1. pc' = [pc EXCEPT ![h] = "loadIndex"] /\ base' = [base EXCEPT ![h] = head]
      BY <1>7, <2>2 DEF SaveStart
    <3> QED BY <2>1, <3>1, <1>k, <1>q
  <2>3. CASE ~CommitReadable(h)
    <3>1. pc' = [pc EXCEPT ![h] = "ready"]
      BY <1>7, <2>1, <2>3, <1>k DEF SaveStart
    <3> QED BY <2>1, <3>1, <1>q
  <2> QED BY <2>2, <2>3
<1>8. ASSUME NEW h \in Handles, LoadIndex(h) PROVE OrderInv'
  BY <1>8, <1>q DEF LoadIndex, OrderInv, OnHead
<1>9. ASSUME NEW h \in Handles, BeginTxn(h) PROVE OrderInv'
  BY <1>9, <1>q DEF BeginTxn, OrderInv, OnHead
<1>10. ASSUME NEW h \in Handles, UpdateIndex(h) PROVE OrderInv'
  BY <1>10, <1>q DEF UpdateIndex, OrderInv, OnHead
<1>11. ASSUME NEW h \in Handles, WriteTree(h) \/ WriteIndex(h) PROVE OrderInv'
  <2>1. CASE WriteTree(h)
    BY <2>1, <1>q DEF WriteTree, OrderInv, OnHead
  <2>2. CASE WriteIndex(h)
    BY <2>2, <1>q DEF WriteIndex, OrderInv, OnHead
  <2> QED BY <1>11, <2>1, <2>2
<1>12. ASSUME NEW h \in Handles, CreateCommit(h) PROVE OrderInv'
  <2>1. /\ pc[h] = "commit" /\ pc' = [pc EXCEPT ![h] = "pack"]
        /\ head' = Len(commits') /\ Len(commits') = Len(commits) + 1
        /\ new' = [new EXCEPT ![h] = Len(commits')] /\ UNCHANGED <<repo, acked>>
    BY <1>12, <1>k DEF CreateCommit
  <2>2. \A g \in Handles : pc'[g] = "pack" /\ new'[g] = head'
    BY <2>1, <1>k, <1>o
  <2>3. base[h] = head /\ base[h] # 0
    BY <2>1 DEF OrderInv, OnHead, Typed, StepsKnow
  <2>4. CreatedOnce' /\ OnHead'
    BY <2>1, <2>2, <2>3, <1>k DEF OrderInv, CreatedOnce, OnHead
  <2> QED BY <1>t, <2>4 DEF OrderInv
<1>13. ASSUME NEW h \in Handles, WritePack(h) PROVE OrderInv'
  BY <1>13, <1>q DEF WritePack, OrderInv, OnHead
<1>14. ASSUME NEW h \in Handles, Rollback(h) PROVE OrderInv'
  <2>1. /\ pc[h] = "rollback" /\ pc' = [pc EXCEPT ![h] = "ready"] /\ UNCHANGED disk
    BY <1>14 DEF Rollback
  <2>2. head # 0
    BY <2>1 DEF OrderInv, OnHead, Typed, StepsKnow
  <2>3. \A g \in Handles : pc'[g] = "ready"
    BY <2>1, <1>k, <1>o
  <2>4. CreatedOnce' /\ OnHead'
    BY <2>1, <2>2, <2>3 DEF OrderInv, CreatedOnce, OnHead
  <2> QED BY <1>t, <2>4 DEF OrderInv
<1>15. ASSUME NEW h \in Handles, PackMissesObject(h) \/ Throw(h) PROVE OrderInv'
  <2>1. pc' = [pc EXCEPT ![h] = "ready"] /\ UNCHANGED <<disk, acked>>
    BY <1>15 DEF PackMissesObject, Throw, Raise
  <2> QED BY <2>1, <1>q
<1>16. ASSUME NEW h \in Handles, Release(h) \/ Crash(h) PROVE OrderInv'
  <2>1. pc' = [pc EXCEPT ![h] = "closed"] /\ UNCHANGED <<disk, acked>>
    BY <1>16 DEF Release, Crash, Forget
  <2> QED BY <2>1, <1>q
<1>17. ASSUME NEW h \in Handles, Fetch(h) \/ \E k \in Keys : NewValues(h, k)
       PROVE  OrderInv'
  <2>1. UNCHANGED <<disk, pc, base, new, acked>>
    BY <1>17 DEF Fetch, NewValues
  <2> QED BY <2>1, <1>t DEF OrderInv, CreatedOnce, OnHead
<1>18. ASSUME UNCHANGED vars PROVE OrderInv'
  BY <1>18, <1>t DEF vars, OrderInv, CreatedOnce, OnHead
<1> QED
  BY <1>1, <1>2, <1>3, <1>4, <1>5, <1>6, <1>7, <1>8, <1>9, <1>10, <1>11, <1>12, <1>13,
     <1>14, <1>15, <1>16, <1>17, <1>18 DEF Next, Client, Step

-----------------------------------------------------------------------------
(* User commits are kept                                                   *)

\* The address tells user commits from autosaves.
MessagesMarked == \A c \in DOMAIN commits : commits[c].message => IsUserCommit(c)

KeptInv == MessagesMarked /\ UserCommitsKept

LEMMA KeptInit == Init => KeptInv
BY DEF Init, KeptInv, MessagesMarked, UserCommitsKept

\* Steps that leave the log, HEAD and what was acknowledged alone.
LEMMA KeptQuiet ==
    ASSUME KeptInv, UNCHANGED <<commits, head, acked>>
    PROVE  KeptInv'
BY DEF KeptInv, MessagesMarked, UserCommitsKept, IsUserCommit, Ancestors, IsRoot

LEMMA KeptCommit ==
    ASSUME OwnAddress, OrderInv, KeptInv, NEW h \in Handles, CreateCommit(h)
    PROVE  KeptInv'
<1> DEFINE r == [tree |-> index[h], parent |-> ParentOf(h),
                 message |-> req[h].message, email |-> req[h].email]
           n == Len(commits) + 1
           p == commits[head].parent
<1>1. /\ pc[h] = "commit" /\ commits' = Append(commits, r) /\ head' = Len(commits')
      /\ new' = [new EXCEPT ![h] = Len(commits')] /\ pc' = [pc EXCEPT ![h] = "pack"]
      /\ UNCHANGED <<repo, req, base, index, acked>>
  BY DEF CreateCommit, Goto
<1>2. /\ base[h] = head /\ head \in DOMAIN commits /\ index[h] \in Trees /\ req[h] \in Requests
      /\ commits \in Seq(CommitRecords) /\ DOMAIN commits = 1..Len(commits) /\ Len(commits) \in Nat
      /\ \A c \in DOMAIN commits : commits[c].parent < c
      /\ pc \in [Handles -> Steps] /\ new \in [Handles -> 0..Len(commits)]
      /\ acked \subseteq 1..Len(commits)
  BY <1>1 DEF OrderInv, Typed, TypeOK, StepsKnow, SaveSteps, OnHead
<1>3. p \in Nat /\ p < head
  <2>1. commits[head] \in CommitRecords
    BY <1>2
  <2> QED BY <1>2, <2>1 DEF CommitRecords
<1>4. /\ r.parent \in {head, p} \ {0} /\ r.parent \in 1..Len(commits)
      /\ r.parent # head => commits[head].email = AppEmail
  <2>1. r.parent = ParentOf(h)
    OBVIOUS
  <2>2. \/ ParentOf(h) = head
        \/ ParentOf(h) = p /\ p # 0 /\ commits[head].email = AppEmail
    BY <1>2 DEF ParentOf
  <2> HIDE DEF r, p
  <2> QED BY <1>2, <1>3, <2>1, <2>2
<1>5. r \in CommitRecords /\ (r.message => r.email # AppEmail)
  <2>1. req[h].message \in BOOLEAN /\ req[h].email \in Emails
        /\ (req[h].message => req[h].email # AppEmail)
    BY <1>2 DEF Requests, OwnAddress
  <2>2. ParentOf(h) \in Nat
    BY <1>4
  <2> QED BY <1>2, <2>1, <2>2 DEF CommitRecords
<1> HIDE DEF r
<1>6. /\ Len(commits') = n /\ DOMAIN commits' = 1..n /\ commits'[n] = r
      /\ \A c \in DOMAIN commits : commits'[c] = commits[c]
  BY <1>1, <1>2, <1>5, AppendCommit
<1>7. MessagesMarked'
  BY <1>2, <1>5, <1>6 DEF KeptInv, MessagesMarked, IsUserCommit
<1>8. PICK m : m = n
  OBVIOUS
<1> HIDE DEF n
<1>9. ASSUME NEW c \in acked, commits'[c].message PROVE c \in Ancestors(m)'
  <2>1. c \in DOMAIN commits /\ commits[c].message
    BY <1>2, <1>6, <1>9
  <2>2. c \in Ancestors(head)
    BY <2>1 DEF KeptInv, UserCommitsKept
  <2>3. c \in Ancestors(r.parent)
    <3>1. CASE r.parent = head
      BY <2>2, <3>1
    <3>2. CASE r.parent # head
      <4>1. c # head
        BY <1>4, <2>1, <3>2 DEF KeptInv, MessagesMarked, IsUserCommit
      <4> QED BY <1>2, <1>4, <2>2, <3>2, <4>1, AncestorParent
    <3> QED BY <3>1, <3>2
  <2>4. m = Len(commits) + 1
    BY <1>8 DEF n
  <2> QED BY <1>1, <1>2, <1>4, <1>5, <2>3, <2>4, AncestorAppend
<1>10. UserCommitsKept'
  <2>1. head' = m /\ m # 0 /\ acked' = acked
    BY <1>1, <1>2, <1>6, <1>8 DEF n
  <2>2. ASSUME NEW c \in acked, commits'[c].message
        PROVE  c \in Ancestors(head)'
    <3>1. c \in Ancestors(m)'
      BY <1>9, <2>2
    <3> QED BY <2>1, <3>1 DEF Ancestors, IsRoot
  <2> QED BY <2>1, <2>2 DEF UserCommitsKept
<1> QED BY <1>7, <1>10 DEF KeptInv

\* The commit that creates the repository: nothing was saved before it.
LEMMA KeptFirst ==
    ASSUME OrderInv, KeptInv, NEW h \in Handles, InitCommit(h)
    PROVE  KeptInv'
<1> DEFINE r == [tree |-> EmptyTree, parent |-> 0, message |-> FALSE, email |-> AppEmail]
<1>1. pc[h] = "initCommit" /\ commits' = Append(commits, r) /\ UNCHANGED acked
  BY DEF InitCommit
<1>2. commits \in Seq(CommitRecords) /\ r \in CommitRecords /\ r.message = FALSE
  BY EmptyTreeType DEF OrderInv, Typed, TypeOK, CommitRecords, Emails
<1>3. acked = {}
  BY <1>1 DEF OrderInv, CreatedOnce
<1> HIDE DEF r
<1>4. /\ Len(commits) \in Nat
      /\ DOMAIN commits' = 1..(Len(commits) + 1) /\ DOMAIN commits = 1..Len(commits)
      /\ commits'[Len(commits) + 1] = r
      /\ \A c \in 1..Len(commits) : commits'[c] = commits[c]
  BY <1>1, <1>2, AppendCommit
<1>5. MessagesMarked'
  BY <1>2, <1>4 DEF KeptInv, MessagesMarked, IsUserCommit
<1>6. UserCommitsKept'
  BY <1>1, <1>3 DEF UserCommitsKept
<1> QED BY <1>5, <1>6 DEF KeptInv

LEMMA KeptNext ==
    ASSUME OwnAddress, OrderInv, KeptInv, [Next]_vars
    PROVE  KeptInv'
<1> USE DEF disk, local
<1>1. ASSUME NEW h \in Handles, InitCommit(h) PROVE KeptInv'
  BY <1>1, KeptFirst
<1>2. ASSUME NEW h \in Handles, CreateCommit(h) PROVE KeptInv'
  BY <1>2, KeptCommit
<1>3. ASSUME NEW h \in Handles, Rollback(h) PROVE KeptInv'
  <2>1. /\ pc[h] = "rollback"
        /\ acked' = acked \cup {new[h]} /\ UNCHANGED disk
    BY <1>3 DEF Rollback
  <2>2. new[h] = head /\ head # 0 /\ head \in DOMAIN commits
    BY <2>1 DEF OrderInv, OnHead, Typed, TypeOK, StepsKnow, SaveSteps
  <2>3. MessagesMarked'
    BY <2>1 DEF KeptInv, MessagesMarked, IsUserCommit
  <2>4. \A c \in acked' : commits[c].message => c \in Ancestors(head)
    BY <2>1, <2>2, AncestorSelf DEF KeptInv, UserCommitsKept
  <2>5. UserCommitsKept'
    BY <2>1, <2>2, <2>4 DEF UserCommitsKept, Ancestors, IsRoot
  <2> QED BY <2>3, <2>5 DEF KeptInv
<1>4. ASSUME NEW h \in Handles,
             \/ InitRepo(h) \/ InitBegin(h) \/ InitPack(h) \/ InitRollback(h)
             \/ LoadIndex(h) \/ BeginTxn(h) \/ UpdateIndex(h) \/ WriteTree(h)
             \/ WriteIndex(h) \/ WritePack(h) \/ PackMissesObject(h)
      PROVE  KeptInv'
  <2>1. UNCHANGED <<commits, head, acked>>
    BY <1>4 DEF InitRepo, InitBegin, InitPack, InitRollback, LoadIndex, BeginTxn,
       UpdateIndex, WriteTree, WriteIndex, WritePack, PackMissesObject, Raise
  <2> QED BY <2>1, KeptQuiet
<1>5. ASSUME NEW h \in Handles, Client(h) \/ Throw(h) \/ Crash(h) PROVE KeptInv'
  <2>1. UNCHANGED <<commits, head, acked>>
    BY <1>5 DEF Client, OpenExisting, OpenMissing, SaveStart, Fetch, NewValues, Release,
       Throw, Crash, Raise, Forget
  <2> QED BY <2>1, KeptQuiet
<1>6. ASSUME UNCHANGED vars PROVE KeptInv'
  BY <1>6, KeptQuiet DEF vars
<1> QED BY <1>1, <1>2, <1>3, <1>4, <1>5, <1>6 DEF Next, Step

\* The commit of a GitCommitChangesRequest that returned stays in the history of
\* HEAD, whichever call fails and whenever the process dies, as long as the
\* repository is one store's and its client does not commit under the store's own
\* address (lines 181-190).
THEOREM UserCommitsStay == OneHandle /\ OwnAddress => (Spec => []UserCommitsKept)
<1> SUFFICES ASSUME OneHandle, OwnAddress PROVE Spec => []UserCommitsKept
  OBVIOUS
<1>1. OrderInv /\ KeptInv /\ [Next]_vars => (OrderInv /\ KeptInv)'
  BY OrderNext, KeptNext
<1>2. OrderInv /\ KeptInv => UserCommitsKept
  BY DEF KeptInv
<1> QED BY OrderInit, KeptInit, <1>1, <1>2, PTL DEF Spec

\* Nor does a save drop one on the way: that takes a second handle, which moves
\* the branch between the two reads of HEAD (lines 102-108, 114 and 181-190).
THEOREM SavesKeep == OneHandle /\ OwnAddress => (Spec => SavesKeepUserCommits)
<1> SUFFICES ASSUME OneHandle, OwnAddress PROVE Spec => SavesKeepUserCommits
  OBVIOUS
<1>1. OrderInv /\ KeptInv /\ [Next]_vars => (OrderInv /\ KeptInv)'
  BY OrderNext, KeptNext
<1>2. OrderInv /\ KeptInv /\ [Next]_vars =>
          [\A h \in Handles : pc[h] = "commit" /\ pc'[h] = "pack" =>
              (UserCommitsKept => UserCommitsKept')]_vars
  BY <1>1 DEF KeptInv
<1> QED BY OrderInit, KeptInit, <1>1, <1>2, PTL DEF Spec, SavesKeepUserCommits

-----------------------------------------------------------------------------
(* Three copies of one tree                                                *)

\* The index file and the cached index hold HEAD's tree.  A save changes first
\* the cached index, then the file, then HEAD.
AgreeInv ==
    /\ head = 0 => indexFile = EmptyTree /\ \A h \in Handles : index[h] = NotLoaded
    /\ head # 0 =>
        \A h \in Handles :
            /\ pc[h] # "commit" => indexFile = commits[head].tree
            /\ pc[h] = "commit" => indexFile = index[h]
            /\ pc[h] \in {"writeTree", "writeIndex", "commit"} =>
                   index[h] = Applied(req[h], commits[head].tree)
            /\ pc[h] \notin {"writeTree", "writeIndex", "commit"} =>
                   index[h] \in {NotLoaded, commits[head].tree}

LEMMA AgreeInit == Init => AgreeInv
BY DEF Init, AgreeInv

LEMMA AgreeNext ==
    ASSUME OneHandle, Undisturbed, DurabilityInv, UndisturbedInv, OrderInv, AgreeInv, [Next]_vars
    PROVE  AgreeInv'
<1> USE DEF disk, lock, local, Goto
<1>k. /\ pc \in [Handles -> Steps] /\ index \in [Handles -> Trees \cup {NotLoaded}]
      /\ req \in [Handles -> Requests \cup {NoRequest}]
      /\ commits \in Seq(CommitRecords) /\ NotLoaded \notin Trees /\ crashes \in 0..MaxCrashes
  BY ConstantsAssumption DEF OrderInv, Typed, TypeOK, Trees
<1>o. ASSUME NEW h \in Handles PROVE \A g \in Handles : g = h
  BY DEF OneHandle
<1>b. ASSUME NEW h \in Handles, pc[h] \in SaveSteps \cup {"rollback"}
      PROVE  head # 0 /\ (pc[h] \notin {"loadIndex"} => index[h] \in Trees)
  BY <1>b DEF OrderInv, OnHead, Typed, StepsKnow, SaveSteps
\* The handle goes on outside the part of a save in which the copies differ.
<1>q. ASSUME NEW h \in Handles, NEW s,
             pc[h] \notin {"writeTree", "writeIndex", "commit"},
             s \notin {"writeTree", "writeIndex", "commit"},
             UNCHANGED <<commits, head, indexFile>>, pc' = [pc EXCEPT ![h] = s],
             index' = index \/ index' = [index EXCEPT ![h] = NotLoaded]
      PROVE  AgreeInv'
  <2>1. \A g \in Handles : g = h /\ pc'[g] = s /\ index'[g] \in {index[g], NotLoaded}
    BY <1>q, <1>k, <1>o
  <2> QED BY <1>q, <2>1 DEF AgreeInv
<1>1. ASSUME NEW h \in Handles, OpenExisting(h) PROVE AgreeInv'
  BY <1>1, <1>q DEF OpenExisting
<1>2. ASSUME NEW h \in Handles, OpenMissing(h) PROVE AgreeInv'
  BY <1>2, <1>q DEF OpenMissing
<1>3. ASSUME NEW h \in Handles, InitRepo(h) PROVE AgreeInv'
  BY <1>3, <1>q DEF InitRepo
<1>4. ASSUME NEW h \in Handles, InitBegin(h) PROVE AgreeInv'
  BY <1>4, <1>q DEF InitBegin
<1>5. ASSUME NEW h \in Handles, InitCommit(h) PROVE AgreeInv'
  <2> DEFINE r == [tree |-> EmptyTree, parent |-> 0, message |-> FALSE, email |-> AppEmail]
  <2>1. /\ pc[h] = "initCommit" /\ commits' = Append(commits, r) /\ head' = Len(commits')
        /\ pc' = [pc EXCEPT ![h] = "initPack"] /\ UNCHANGED <<index, indexFile>>
    BY <1>5 DEF InitCommit
  <2>2. r \in CommitRecords /\ r.tree = EmptyTree
    BY EmptyTreeType DEF CommitRecords, Emails
  <2> HIDE DEF r
  <2>3. commits'[head'].tree = EmptyTree /\ head' # 0
    BY <2>1, <2>2, <1>k, AppendCommit
  <2>4. head = 0
    BY <2>1 DEF OrderInv, CreatedOnce
  <2>5. \A g \in Handles : pc'[g] = "initPack"
    BY <2>1, <1>k, <1>o
  <2> QED BY <2>1, <2>3, <2>4, <2>5 DEF AgreeInv
<1>6. ASSUME NEW h \in Handles, InitPack(h) \/ InitRollback(h) PROVE AgreeInv'
  <2>1. CASE InitPack(h)
    BY <2>1, <1>q DEF InitPack
  <2>2. CASE InitRollback(h)
    BY <2>2, <1>q DEF InitRollback
  <2> QED BY <1>6, <2>1, <2>2
<1>7. ASSUME NEW h \in Handles, NEW r \in Requests, SaveStart(h, r) PROVE AgreeInv'
  <2>1. pc[h] = "ready" /\ UNCHANGED <<disk, index>>
    BY <1>7 DEF SaveStart
  <2>2. pc' = [pc EXCEPT ![h] = "loadIndex"] \/ pc' = [pc EXCEPT ![h] = "ready"]
    BY <1>7, <2>1, <1>k DEF SaveStart
  <2>3. CASE pc' = [pc EXCEPT ![h] = "loadIndex"]
    BY <2>1, <2>3, <1>q
  <2>4. CASE pc' = [pc EXCEPT ![h] = "ready"]
    BY <2>1, <2>4, <1>q
  <2> QED BY <2>2, <2>3, <2>4
<1>8. ASSUME NEW h \in Handles, LoadIndex(h) PROVE AgreeInv'
  <2>1. /\ pc[h] = "loadIndex" /\ pc' = [pc EXCEPT ![h] = "begin"]
        /\ index' = [index EXCEPT ![h] = IF @ = NotLoaded THEN indexFile ELSE @]
        /\ UNCHANGED <<commits, head, indexFile>>
    BY <1>8 DEF LoadIndex
  <2>2. head # 0 /\ indexFile = commits[head].tree
    BY <2>1, <1>b DEF AgreeInv, SaveSteps
  <2>3. index'[h] = commits[head].tree
    BY <2>1, <2>2, <1>k DEF AgreeInv
  <2>4. \A g \in Handles : g = h /\ pc'[g] = "begin"
    BY <2>1, <1>k, <1>o
  <2> QED BY <2>1, <2>2, <2>3, <2>4 DEF AgreeInv
<1>9. ASSUME NEW h \in Handles, BeginTxn(h) PROVE AgreeInv'
  BY <1>9, <1>q DEF BeginTxn
<1>10. ASSUME NEW h \in Handles, UpdateIndex(h) PROVE AgreeInv'
  <2>1. /\ pc[h] = "update" /\ pc' = [pc EXCEPT ![h] = "writeTree"]
        /\ index' = [index EXCEPT ![h] = Applied(req[h], @)]
        /\ UNCHANGED <<commits, head, indexFile, req>>
    BY <1>10 DEF UpdateIndex
  <2>2. head # 0 /\ index[h] = commits[head].tree /\ indexFile = commits[head].tree
    BY <2>1, <1>b, <1>k DEF AgreeInv, SaveSteps
  <2>3. index'[h] = Applied(req[h], commits[head].tree)
    BY <2>1, <2>2, <1>k
  <2>4. \A g \in Handles : g = h /\ pc'[g] = "writeTree"
    BY <2>1, <1>k, <1>o
  <2> QED BY <2>1, <2>2, <2>3, <2>4 DEF AgreeInv, Applied, Removed, Added, Present
<1>11. ASSUME NEW h \in Handles, WriteTree(h) PROVE AgreeInv'
  <2>1. /\ pc[h] = "writeTree" /\ pc' = [pc EXCEPT ![h] = "writeIndex"]
        /\ UNCHANGED <<commits, head, indexFile, req, index>>
    BY <1>11 DEF WriteTree
  <2>2. head # 0
    BY <2>1, <1>b DEF SaveSteps
  <2>3. \A g \in Handles : g = h /\ pc'[g] = "writeIndex"
    BY <2>1, <1>k, <1>o
  <2> QED BY <2>1, <2>2, <2>3 DEF AgreeInv, Applied, Removed, Added, Present
<1>12. ASSUME NEW h \in Handles, WriteIndex(h) PROVE AgreeInv'
  <2>1. /\ pc[h] = "writeIndex" /\ pc' = [pc EXCEPT ![h] = "commit"]
        /\ indexFile' = index[h] /\ UNCHANGED <<commits, head, req, index>>
    BY <1>12 DEF WriteIndex
  <2>2. head # 0
    BY <2>1, <1>b DEF SaveSteps
  <2>3. \A g \in Handles : g = h /\ pc'[g] = "commit"
    BY <2>1, <1>k, <1>o
  <2> QED BY <2>1, <2>2, <2>3 DEF AgreeInv, Applied, Removed, Added, Present
<1>13. ASSUME NEW h \in Handles, CreateCommit(h) PROVE AgreeInv'
  <2> DEFINE r == [tree |-> index[h], parent |-> ParentOf(h),
                   message |-> req[h].message, email |-> req[h].email]
  <2>1. /\ pc[h] = "commit" /\ commits' = Append(commits, r) /\ head' = Len(commits')
        /\ pc' = [pc EXCEPT ![h] = "pack"] /\ UNCHANGED <<index, indexFile>>
    BY <1>13 DEF CreateCommit
  <2>2. r.tree = index[h]
    OBVIOUS
  <2> HIDE DEF r
  <2>3. commits'[head'].tree = index[h] /\ head' # 0
    BY <2>1, <2>2, <1>k
  <2>4. head # 0 /\ indexFile = index[h]
    BY <2>1, <1>b DEF AgreeInv, SaveSteps
  <2>5. \A g \in Handles : g = h /\ pc'[g] = "pack"
    BY <2>1, <1>k, <1>o
  <2> QED BY <2>1, <2>3, <2>4, <2>5 DEF AgreeInv
<1>14. ASSUME NEW h \in Handles, WritePack(h) \/ Rollback(h) PROVE AgreeInv'
  <2>1. CASE WritePack(h)
    BY <2>1, <1>q DEF WritePack
  <2>2. CASE Rollback(h)
    BY <2>2, <1>q DEF Rollback
  <2> QED BY <1>14, <2>1, <2>2
<1>15. ASSUME NEW h \in Handles, PackMissesObject(h) \/ Throw(h) \/ Crash(h) PROVE AgreeInv'
  BY <1>15, <1>k, PackFindsAll DEF PackMissesObject, Throw, Crash, Undisturbed
<1>16. ASSUME NEW h \in Handles, Release(h) PROVE AgreeInv'
  BY <1>16, <1>q DEF Release, Forget
<1>17. ASSUME NEW h \in Handles, Fetch(h) \/ \E k \in Keys : NewValues(h, k)
       PROVE  AgreeInv'
  <2>1. UNCHANGED <<disk, pc, index, req>>
    BY <1>17 DEF Fetch, NewValues
  <2> QED BY <2>1 DEF AgreeInv, Applied, Removed, Added, Present
<1>18. ASSUME UNCHANGED vars PROVE AgreeInv'
  BY <1>18 DEF vars, AgreeInv, Applied, Removed, Added, Present
<1> QED
  BY <1>1, <1>2, <1>3, <1>4, <1>5, <1>6, <1>7, <1>8, <1>9, <1>10, <1>11, <1>12, <1>13,
     <1>14, <1>15, <1>16, <1>17, <1>18 DEF Next, Client, Step

AloneInv == DurabilityInv /\ UndisturbedInv /\ OrderInv /\ AgreeInv

LEMMA SpecAlone == OneHandle /\ Undisturbed => (Spec => []AloneInv)
<1> SUFFICES ASSUME OneHandle, Undisturbed PROVE Spec => []AloneInv
  OBVIOUS
<1>1. Init => AloneInv
  BY DurabilityInit, UndisturbedInit, OrderInit, AgreeInit DEF AloneInv
<1>2. AloneInv /\ [Next]_vars => AloneInv'
  BY DurabilityNext, UndisturbedNext, OrderNext, AgreeNext DEF AloneInv, DurabilityInv
<1> QED BY <1>1, <1>2, PTL DEF Spec

\* The index file, the cached index and the tree of HEAD agree whenever no request
\* is under way: an update loses nothing and brings nothing back, as long as one
\* handle has the repository and no call fails (lines 108, 111, 174-175 and 190).
THEOREM IndexesAgree == OneHandle /\ Undisturbed => (Spec => []IndexAgreesWithHead)
<1> SUFFICES ASSUME OneHandle, Undisturbed PROVE Spec => []IndexAgreesWithHead
  OBVIOUS
<1>1. AloneInv => IndexAgreesWithHead
  BY DEF AloneInv, AgreeInv, IndexAgreesWithHead
<1> QED BY <1>1, SpecAlone, PTL

\* From "commit" to "pack" leads one call.
LEMMA OnlyCommit ==
    ASSUME OneHandle, Typed, [Next]_vars, NEW h \in Handles, pc[h] = "commit", pc'[h] = "pack"
    PROVE  CreateCommit(h)
<1> USE DEF Goto, disk, lock, local
<1>1. pc \in [Handles -> Steps] /\ \A g \in Handles : g = h
  BY DEF OneHandle, Typed, TypeOK
<1>2. ~(UNCHANGED vars)
  BY DEF vars
<1>3. ~Client(h)
  BY DEF Client, OpenExisting, OpenMissing, SaveStart, Fetch, NewValues, Release
<1>4. ~Throw(h) /\ ~Crash(h)
  BY <1>1 DEF Throw, Raise, Crash, Forget
<1>5. Step(h) => CreateCommit(h)
  BY DEF Step, InitRepo, InitBegin, InitCommit, InitPack, InitRollback, LoadIndex, BeginTxn,
     UpdateIndex, WriteTree, WriteIndex, WritePack, PackMissesObject, Rollback
<1> QED BY <1>1, <1>2, <1>3, <1>4, <1>5 DEF Next

\* A commit holds what it is based on with the changes of its own request.  What
\* it takes to break this is a call that fails, or a process that dies, with its
\* changes in the index, or another handle (lines 111-113 and 174-190).
THEOREM SavesOnlyChanges == OneHandle /\ Undisturbed => (Spec => SavesOnlyItsChanges)
<1> SUFFICES ASSUME OneHandle, Undisturbed PROVE Spec => SavesOnlyItsChanges
  OBVIOUS
<1>1. ASSUME AloneInv, [Next]_vars, NEW h \in Handles, pc[h] = "commit", pc'[h] = "pack"
      PROVE  commits'[head'].tree = Applied(req[h], commits[base[h]].tree)
  <2> DEFINE r == [tree |-> index[h], parent |-> ParentOf(h),
                   message |-> req[h].message, email |-> req[h].email]
  <2>1. CreateCommit(h)
    BY <1>1, OnlyCommit DEF AloneInv, OrderInv
  <2>2. commits' = Append(commits, r) /\ head' = Len(commits') /\ commits \in Seq(CommitRecords)
    BY <1>1, <2>1 DEF CreateCommit, AloneInv, OrderInv, Typed, TypeOK
  <2>3. r.tree = index[h]
    OBVIOUS
  <2> HIDE DEF r
  <2>4. commits'[head'].tree = index[h]
    BY <2>2, <2>3
  <2>5. base[h] = head /\ head # 0
    BY <1>1 DEF AloneInv, OrderInv, OnHead, Typed, StepsKnow, SaveSteps
  <2>6. index[h] = Applied(req[h], commits[head].tree)
    BY <1>1, <2>5 DEF AloneInv, AgreeInv
  <2> QED BY <2>4, <2>5, <2>6
<1>2. AloneInv /\ [Next]_vars =>
          [\A h \in Handles : pc[h] = "commit" /\ pc'[h] = "pack" =>
              commits'[head'].tree = Applied(req[h], commits[base[h]].tree)]_vars
  BY <1>1
<1> QED BY <1>2, SpecAlone, PTL DEF Spec, SavesOnlyItsChanges

-----------------------------------------------------------------------------
(* The states the user committed                                           *)

\* What a commit adds to them.
OwnTree(r) == IF r.message THEN <<r.tree>> ELSE <<>>

\* The equation of keptAt, for a log cs and a function f.
KeptStep(cs, f, c) == IF c = 0 THEN <<>> ELSE f[cs[c].parent] \o OwnTree(cs[c])

LEMMA KeptStepCases ==
    ASSUME NEW cs, NEW f, NEW c
    PROVE  /\ c = 0 => KeptStep(cs, f, c) = <<>>
           /\ c # 0 => KeptStep(cs, f, c) = f[cs[c].parent] \o OwnTree(cs[c])
BY Zenon DEF KeptStep

\* A log, as TypeOK has it.
Log(cs) == cs \in Seq(CommitRecords) /\ \A c \in DOMAIN cs : cs[c].parent < c

LEMMA LogParents ==
    ASSUME NEW cs, Log(cs)
    PROVE  \A c \in 1..Len(cs) : cs[c] \in CommitRecords /\ cs[c].parent \in 0..(c - 1)
<1>1. Len(cs) \in Nat /\ \A c \in 1..Len(cs) : cs[c] \in CommitRecords /\ cs[c].parent < c
  BY DEF Log
<1>2. \A c \in 1..Len(cs) : cs[c].parent \in Nat
  BY <1>1 DEF CommitRecords
<1> QED BY <1>1, <1>2

LEMMA OwnTreeType ==
    ASSUME NEW r \in CommitRecords
    PROVE  OwnTree(r) \in Seq(Trees)
BY DEF CommitRecords, OwnTree

LEMMA KeptExists ==
    ASSUME NEW cs, Log(cs)
    PROVE  \E f \in [0..Len(cs) -> Seq(Trees)] : \A c \in 0..Len(cs) : f[c] = KeptStep(cs, f, c)
<1> DEFINE S == {n \in Nat : n <= Len(cs) =>
                    \E f \in [0..n -> Seq(Trees)] : \A c \in 0..n : f[c] = KeptStep(cs, f, c)}
<1>0. Len(cs) \in Nat
  BY DEF Log
<1>1. 0 \in S
  <2>1. [c \in 0..0 |-> <<>>] \in [0..0 -> Seq(Trees)]
    OBVIOUS
  <2>2. \A c \in 0..0 : [d \in 0..0 |-> <<>>][c] = KeptStep(cs, [d \in 0..0 |-> <<>>], c)
    BY DEF KeptStep
  <2> QED BY <2>1, <2>2
<1>2. ASSUME NEW n \in Nat, n \in S PROVE n + 1 \in S
  <2> SUFFICES ASSUME n + 1 <= Len(cs)
               PROVE  \E g \in [0..(n + 1) -> Seq(Trees)] :
                         \A c \in 0..(n + 1) : g[c] = KeptStep(cs, g, c)
    OBVIOUS
  <2>1. PICK f \in [0..n -> Seq(Trees)] : \A c \in 0..n : f[c] = KeptStep(cs, f, c)
    BY <1>0, <1>2
  <2>2. \A c \in 1..(n + 1) : cs[c] \in CommitRecords /\ cs[c].parent \in 0..(c - 1)
    BY <1>0, LogParents
  <2> DEFINE last == f[cs[n + 1].parent] \o OwnTree(cs[n + 1])
             g == [c \in 0..(n + 1) |-> IF c <= n THEN f[c] ELSE last]
  <2>3. last \in Seq(Trees)
    <3>1. f[cs[n + 1].parent] \in Seq(Trees) /\ OwnTree(cs[n + 1]) \in Seq(Trees)
      BY <2>2, OwnTreeType
    <3> QED BY <3>1
  <2> HIDE DEF last
  <2>4. /\ g \in [0..(n + 1) -> Seq(Trees)]
        /\ \A d \in 0..n : g[d] = f[d]
        /\ g[n + 1] = last
    BY <2>3
  <2> HIDE DEF g
  <2>5. ASSUME NEW c \in 0..(n + 1) PROVE g[c] = KeptStep(cs, g, c)
    <3>1. CASE c = 0
      <4>1. f[0] = <<>> /\ g[0] = f[0]
        <5>1. 0 \in 0..n
          OBVIOUS
        <5>2. KeptStep(cs, f, 0) = <<>>
          BY Zenon, KeptStepCases
        <5> QED BY <2>1, <2>4, <5>1, <5>2
      <4> QED BY <3>1, <4>1, KeptStepCases
    <3>2. CASE c \in 1..n
      <4>1. cs[c].parent \in 0..n
        BY SMTT(60), <2>2, <3>2
      <4>2. f[c] = f[cs[c].parent] \o OwnTree(cs[c]) /\ g[c] = f[c]
        <5>1. c \in 0..n /\ c # 0
          BY <3>2
        <5> QED BY <2>1, <2>4, <5>1, KeptStepCases
      <4>3. g[cs[c].parent] = f[cs[c].parent]
        BY <2>4, <4>1
      <4>4. c # 0
        BY <3>2
      <4> QED BY <4>2, <4>3, <4>4, KeptStepCases
    <3>3. CASE c = n + 1
      <4>1. cs[n + 1].parent \in 0..n
        <5>1. n + 1 \in 1..(n + 1) /\ (n + 1) - 1 = n
          OBVIOUS
        <5> QED BY <2>2, <5>1
      <4>2. g[cs[n + 1].parent] = f[cs[n + 1].parent]
        BY <2>4, <4>1
      <4>3. g[n + 1] = g[cs[n + 1].parent] \o OwnTree(cs[n + 1])
        BY <2>4, <4>2 DEF last
      <4>4. c # 0
        BY <3>3
      <4> QED BY <3>3, <4>3, <4>4, KeptStepCases
    <3> QED BY <3>1, <3>2, <3>3
  <2> QED BY <2>4, <2>5
<1>3. Len(cs) \in S
  <2> HIDE DEF S
  <2> QED BY <1>0, <1>1, <1>2, NaturalInduction
<1> QED BY <1>0, <1>3

\* Two logs that begin alike give the same states at what they share.
LEMMA KeptShared ==
    ASSUME NEW cs, Log(cs), NEW ds, NEW f, NEW g,
           \A c \in 1..Len(cs) : ds[c] = cs[c],
           \A c \in 0..Len(cs) : f[c] = KeptStep(cs, f, c) /\ g[c] = KeptStep(ds, g, c)
    PROVE  \A c \in 0..Len(cs) : f[c] = g[c]
<1> DEFINE S == {n \in Nat : \A c \in 0..Len(cs) : c <= n => f[c] = g[c]}
<1>0. Len(cs) \in Nat
  BY DEF Log
<1>1. 0 \in S
  BY <1>0 DEF KeptStep
<1>2. ASSUME NEW n \in Nat, n \in S PROVE n + 1 \in S
  <2>1. ASSUME n + 1 <= Len(cs) PROVE f[n + 1] = g[n + 1]
    <3>1. n + 1 \in 1..Len(cs) /\ cs[n + 1].parent \in 0..n /\ n <= Len(cs)
      BY <1>0, <2>1, LogParents
    <3>2. f[cs[n + 1].parent] = g[cs[n + 1].parent]
      BY <1>0, <1>2, <3>1
    <3> QED BY <1>0, <3>1, <3>2 DEF KeptStep
  <2> QED BY <1>0, <1>2, <2>1
<1>3. Len(cs) \in S
  <2> HIDE DEF S
  <2> QED BY <1>0, <1>1, <1>2, NaturalInduction
<1> QED BY <1>0, <1>3

\* So keptAt, which is KeptOf(commits), is what its equation says.
KeptOf(cs) ==
    CHOOSE f : f = [c \in 0..Len(cs) |->
                       IF c = 0 THEN <<>>
                       ELSE f[cs[c].parent] \o (IF cs[c].message THEN <<cs[c].tree>> ELSE <<>>)]

LEMMA KeptOfDef ==
    ASSUME NEW cs, Log(cs)
    PROVE  /\ KeptOf(cs) \in [0..Len(cs) -> Seq(Trees)]
           /\ \A c \in 0..Len(cs) : KeptOf(cs)[c] = KeptStep(cs, KeptOf(cs), c)
<1> DEFINE Def(f) == [c \in 0..Len(cs) |->
                         IF c = 0 THEN <<>>
                         ELSE f[cs[c].parent]
                              \o (IF cs[c].message THEN <<cs[c].tree>> ELSE <<>>)]
           k == KeptOf(cs)
<1>1. PICK f \in [0..Len(cs) -> Seq(Trees)] : \A c \in 0..Len(cs) : f[c] = KeptStep(cs, f, c)
  BY KeptExists
<1>2. \A g : Def(g) = [c \in 0..Len(cs) |-> KeptStep(cs, g, c)]
  BY Zenon DEF KeptStep, OwnTree
<1>3. f = Def(f)
  <2> HIDE DEF Def
  <2> QED BY <1>1, <1>2
<1>4. k = CHOOSE g : g = Def(g)
  BY DEF KeptOf
<1> HIDE DEF Def, k
<1>5. k = Def(k)
  BY <1>3, <1>4
<1>6. k = [c \in 0..Len(cs) |-> KeptStep(cs, k, c)]
  BY <1>2, <1>5
<1>7. \A c \in 0..Len(cs) : k[c] = KeptStep(cs, k, c)
  BY <1>6
<1>8. \A c \in 0..Len(cs) : f[c] = k[c]
  BY <1>1, <1>7, KeptShared
<1>9. k \in [0..Len(cs) -> Seq(Trees)]
  BY <1>1, <1>6, <1>8
<1> QED BY <1>7, <1>9 DEF k

\* A commit that is appended adds its own tree, if the user made it, to the
\* states of its parent, and changes none of those that are there.
LEMMA KeptOfAppend ==
    ASSUME NEW cs, Log(cs), NEW r \in CommitRecords, r.parent \in 0..Len(cs)
    PROVE  KeptOf(Append(cs, r))[Len(cs) + 1] = KeptOf(cs)[r.parent] \o OwnTree(r)
<1> DEFINE ds == Append(cs, r)
           n == Len(cs) + 1
           f == KeptOf(cs)
           g == KeptOf(ds)
<1>1. /\ Len(cs) \in Nat /\ cs \in Seq(CommitRecords)
      /\ \A c \in 1..Len(cs) : cs[c].parent < c
  BY DEF Log
<1>2. /\ ds \in Seq(CommitRecords) /\ Len(ds) = n /\ DOMAIN ds = 1..n /\ ds[n] = r
      /\ \A c \in 1..Len(cs) : ds[c] = cs[c]
  BY <1>1, AppendCommit
<1>3. n # 0 /\ n \in 0..n /\ 0..Len(cs) \subseteq 0..n /\ r.parent < n
  BY <1>1
<1> HIDE DEF ds
<1>4. Log(ds)
  <2>1. ASSUME NEW c \in DOMAIN ds PROVE ds[c].parent < c
    <3>1. CASE c \in 1..Len(cs)
      BY <1>1, <1>2, <3>1
    <3>2. CASE c = n
      BY <1>2, <1>3, <3>2
    <3> QED BY <1>1, <1>2, <3>1, <3>2
  <2> QED BY <1>2, <2>1 DEF Log
<1>5. \A c \in 0..n : g[c] = KeptStep(ds, g, c)
  BY <1>2, <1>4, KeptOfDef
<1>6. \A c \in 0..Len(cs) : f[c] = KeptStep(cs, f, c)
  BY KeptOfDef
<1> HIDE DEF f, g, n
<1>7. \A c \in 0..Len(cs) : f[c] = g[c]
  BY SMTT(60), <1>2, <1>3, <1>5, <1>6, KeptShared
<1>8. g[n] = g[r.parent] \o OwnTree(r)
  BY ZenonT(60), <1>2, <1>3, <1>5, KeptStepCases
<1> QED BY <1>7, <1>8 DEF f, g, n, ds

LEMMA KeptAtIs == keptAt = KeptOf(commits) /\ keptAt' = KeptOf(commits')
BY DEF keptAt, KeptOf

-----------------------------------------------------------------------------
(* The promise of ManagedObjectStore                                       *)

\* No request is left over when it has been answered.
NoRequestLeft == \A h \in Handles : pc[h] \notin SaveSteps \cup {"rollback"} => req[h] = NoRequest

PromiseInv == AloneInv /\ KeptInv /\ NoRequestLeft

LEMMA NoRequestLeftNext ==
    ASSUME Typed, NoRequestLeft, [Next]_vars
    PROVE  NoRequestLeft'
<1> USE DEF SaveSteps, Goto, disk, lock, local, Over, NoRequestLeft
<1>k. pc \in [Handles -> Steps] /\ req \in [Handles -> Requests \cup {NoRequest}]
  BY DEF Typed, TypeOK
\* Steps that leave the request, and end it only to forget it.
<1>q. ASSUME NEW h \in Handles, NEW s, pc' = [pc EXCEPT ![h] = s],
             \/ req' = [req EXCEPT ![h] = NoRequest]
             \/ req' = req /\ (s \in SaveSteps \cup {"rollback"}
                                \/ pc[h] \notin SaveSteps \cup {"rollback"})
      PROVE  NoRequestLeft'
  BY <1>q, <1>k
<1>1. ASSUME NEW h \in Handles,
             \/ OpenExisting(h) \/ OpenMissing(h) \/ InitRepo(h) \/ InitBegin(h)
             \/ InitCommit(h) \/ InitPack(h) \/ LoadIndex(h) \/ BeginTxn(h)
             \/ UpdateIndex(h) \/ WriteTree(h) \/ WriteIndex(h) \/ CreateCommit(h) \/ WritePack(h)
      PROVE  NoRequestLeft'
  <2>1. \E s : /\ pc' = [pc EXCEPT ![h] = s] /\ req' = req
               /\ s \in SaveSteps \cup {"rollback"} \/ pc[h] \notin SaveSteps \cup {"rollback"}
    BY <1>1 DEF OpenExisting, OpenMissing, InitRepo, InitBegin, InitCommit, InitPack,
       LoadIndex, BeginTxn, UpdateIndex, WriteTree, WriteIndex, CreateCommit, WritePack
  <2> QED BY <2>1, <1>q
<1>2. ASSUME NEW h \in Handles,
             \/ InitRollback(h) \/ Rollback(h) \/ PackMissesObject(h) \/ Throw(h)
             \/ Release(h) \/ Crash(h)
      PROVE  NoRequestLeft'
  <2>1. \E s : pc' = [pc EXCEPT ![h] = s] /\ req' = [req EXCEPT ![h] = NoRequest]
    BY <1>2 DEF InitRollback, Rollback, PackMissesObject, Throw, Raise, Release, Crash, Forget
  <2> QED BY <2>1, <1>q
<1>3. ASSUME NEW h \in Handles, NEW r \in Requests, SaveStart(h, r) PROVE NoRequestLeft'
  BY <1>3, <1>k DEF SaveStart
<1>4. ASSUME NEW h \in Handles, Fetch(h) \/ \E k \in Keys : NewValues(h, k)
      PROVE  NoRequestLeft'
  <2>1. UNCHANGED <<pc, req>>
    BY <1>4 DEF Fetch, NewValues
  <2> QED BY <2>1
<1>5. ASSUME UNCHANGED vars PROVE NoRequestLeft'
  BY <1>5 DEF vars
<1> QED BY <1>1, <1>2, <1>3, <1>4, <1>5 DEF Next, Client, Step

LEMMA SpecPromise ==
    OneHandle /\ Undisturbed /\ OwnAddress => (Spec => []PromiseInv)
<1> SUFFICES ASSUME OneHandle, Undisturbed, OwnAddress PROVE Spec => []PromiseInv
  OBVIOUS
<1>1. Init => KeptInv /\ NoRequestLeft
  BY KeptInit DEF Init, NoRequestLeft
<1>2. AloneInv /\ KeptInv /\ NoRequestLeft /\ [Next]_vars => (KeptInv /\ NoRequestLeft)'
  BY KeptNext, NoRequestLeftNext DEF AloneInv, OrderInv
<1> QED BY <1>1, <1>2, SpecAlone, PTL DEF Spec, PromiseInv

\* A handle at rest reads HEAD.
LEMMA RestReads ==
    ASSUME OneHandle, AloneInv, NEW h \in Handles, pc[h] = "ready", head # 0
    PROVE  TreeReadable(h) /\ Blobs(commits[head].tree) \subseteq Visible(h)
<1>1. \A g \in Handles : pc[g] = "ready"
  BY DEF OneHandle
<1>2. Closure(head) \subseteq packed
  BY <1>1 DEF AloneInv, UndisturbedInv, HeadStored
<1> QED BY <1>2 DEF TreeReadable, CommitReadable, Visible, Closure

\* The actions of ManagedObjectStore, in terms of the handle.
LEMMA PromiseActions ==
    ASSUME OneHandle, NEW h \in Handles
    PROVE  /\ UNCHANGED <<headTree, keptAt[head], phaseOf(h), requestOf(h), answer>>
                => UNCHANGED Promise!vars
           /\ \A r : /\ phaseOf(h) = "idle" /\ phaseOf(h)' = "called" /\ requestOf(h)' = r
                     /\ UNCHANGED <<headTree, keptAt[head], answer>>
                     => Promise!Call(h, r)
           /\ /\ phaseOf(h) = "called" /\ phaseOf(h)' = "applied"
              /\ headTree' = Promise!Applied(requestOf(h), headTree)
              /\ keptAt[head]' = IF requestOf(h).message THEN keptAt[head] \o <<headTree'>>
                                                        ELSE keptAt[head]
              /\ UNCHANGED <<requestOf(h), answer>>
              => Promise!Take(h)
           /\ /\ phaseOf(h) = "applied" /\ phaseOf(h)' = "idle"
              /\ answer' = [answer EXCEPT ![h] = Saved]
              /\ requestOf(h)' = Promise!NoRequest
              /\ UNCHANGED <<headTree, keptAt[head]>>
              => Promise!Return(h)
           /\ /\ phaseOf(h) = "idle"
              /\ UNCHANGED <<headTree, keptAt[head], phaseOf(h), requestOf(h)>>
              => /\ answer' = [answer EXCEPT ![h] = IF Present(headTree) = {} THEN Error
                                                   ELSE Fetched(Present(headTree))]
                        => Promise!Fetch(h)
                 /\ \A k : answer' = [answer EXCEPT ![h] = IF headTree[k] = NoValue THEN Error
                                                          ELSE Node(headTree[k])]
                        => Promise!NewValues(h, k)
                 /\ answer' = [answer EXCEPT ![h] = NoAnswer] => Promise!Reopen(h)
<1>1. /\ [g \in Handles |-> phaseOf(g)][h] = phaseOf(h)
      /\ [g \in Handles |-> requestOf(g)][h] = requestOf(h)
  OBVIOUS
<1>o. \A g \in Handles : g = h
  BY DEF OneHandle
<1>2. UNCHANGED phaseOf(h) => UNCHANGED [g \in Handles |-> phaseOf(g)]
  BY <1>o DEF phaseOf
<1>3. UNCHANGED requestOf(h) => UNCHANGED [g \in Handles |-> requestOf(g)]
  BY <1>o DEF requestOf
<1>4. ASSUME NEW x, phaseOf(h)' = x
      PROVE  [g \in Handles |-> phaseOf(g)]' = [[g \in Handles |-> phaseOf(g)] EXCEPT ![h] = x]
  BY <1>4, <1>o DEF phaseOf
<1>5. ASSUME NEW x, requestOf(h)' = x
      PROVE  [g \in Handles |-> requestOf(g)]' = [[g \in Handles |-> requestOf(g)] EXCEPT ![h] = x]
  BY <1>5, <1>o DEF requestOf
<1> HIDE DEF headTree, keptAt, phaseOf, requestOf
<1>6. UNCHANGED <<headTree, keptAt[head], phaseOf(h), requestOf(h), answer>>
                => UNCHANGED Promise!vars
  BY <1>2, <1>3 DEF Promise!vars
<1>7. ASSUME NEW r, phaseOf(h) = "idle", phaseOf(h)' = "called", requestOf(h)' = r,
             UNCHANGED <<headTree, keptAt[head], answer>>
      PROVE  Promise!Call(h, r)
  BY <1>1, <1>4, <1>5, <1>7 DEF Promise!Call
<1>8. ASSUME phaseOf(h) = "called", phaseOf(h)' = "applied",
             headTree' = Promise!Applied(requestOf(h), headTree),
             keptAt[head]' = IF requestOf(h).message THEN keptAt[head] \o <<headTree'>>
                                                     ELSE keptAt[head],
             UNCHANGED <<requestOf(h), answer>>
      PROVE  Promise!Take(h)
  BY <1>1, <1>3, <1>4, <1>8 DEF Promise!Take
<1>9. ASSUME phaseOf(h) = "applied", phaseOf(h)' = "idle",
             answer' = [answer EXCEPT ![h] = Saved],
             requestOf(h)' = Promise!NoRequest,
             UNCHANGED <<headTree, keptAt[head]>>
      PROVE  Promise!Return(h)
  BY <1>1, <1>4, <1>5, <1>9 DEF Promise!Return, Promise!Saved, Saved
<1>10. ASSUME phaseOf(h) = "idle",
              UNCHANGED <<headTree, keptAt[head], phaseOf(h), requestOf(h)>>
       PROVE  /\ answer' = [answer EXCEPT ![h] = IF Present(headTree) = {} THEN Error
                                                ELSE Fetched(Present(headTree))]
                     => Promise!Fetch(h)
              /\ \A k : answer' = [answer EXCEPT ![h] = IF headTree[k] = NoValue THEN Error
                                                       ELSE Node(headTree[k])]
                     => Promise!NewValues(h, k)
              /\ answer' = [answer EXCEPT ![h] = NoAnswer] => Promise!Reopen(h)
  BY <1>1, <1>2, <1>3, <1>10
     DEF Promise!Fetch, Promise!NewValues, Promise!Reopen, Promise!Present, Promise!Error,
         Promise!Fetched, Promise!Node, Promise!NoAnswer, Present, Error, Fetched, Node, NoAnswer
<1> QED BY <1>6, <1>7, <1>8, <1>9, <1>10

LEMMA SameStates ==
    ASSUME UNCHANGED <<head, commits>>
    PROVE  UNCHANGED <<headTree, keptAt[head]>>
BY DEF headTree, keptAt

\* A save takes effect when the branch moves.
LEMMA CommitTakes ==
    ASSUME OneHandle, PromiseInv, NEW h \in Handles, CreateCommit(h)
    PROVE  Promise!Take(h)
<1> DEFINE r == [tree |-> index[h], parent |-> ParentOf(h),
                 message |-> req[h].message, email |-> req[h].email]
           n == Len(commits) + 1
<1>1. /\ pc[h] = "commit" /\ commits' = Append(commits, r) /\ head' = Len(commits')
      /\ pc' = [pc EXCEPT ![h] = "pack"] /\ UNCHANGED <<req, answer>>
  BY DEF CreateCommit, Goto
<1>2. /\ base[h] = head /\ head \in 1..Len(commits) /\ index[h] \in Trees /\ req[h] \in Requests
      /\ Log(commits) /\ Len(commits) \in Nat /\ commits \in Seq(CommitRecords)
      /\ pc \in [Handles -> Steps]
  BY <1>1 DEF PromiseInv, AloneInv, OrderInv, Typed, TypeOK, StepsKnow, SaveSteps, OnHead, Log
<1>3. index[h] = Applied(req[h], commits[head].tree)
  BY <1>1, <1>2 DEF PromiseInv, AloneInv, AgreeInv
<1>4. KeptOf(commits) \in [0..Len(commits) -> Seq(Trees)]
  BY <1>2, KeptOfDef
<1>5. r.parent \in 0..Len(commits) /\ KeptOf(commits)[r.parent] = KeptOf(commits)[head]
  <2>1. r.parent = ParentOf(h)
    OBVIOUS
  <2>2. \/ ParentOf(h) = head
        \/ ParentOf(h) = commits[head].parent /\ commits[head].email = AppEmail
    BY <1>2 DEF ParentOf
  <2>3. CASE ParentOf(h) = head
    BY <1>2, <2>1, <2>3
  <2>4. CASE ParentOf(h) = commits[head].parent /\ commits[head].email = AppEmail
    <3>1. commits[head].parent \in 0..Len(commits) /\ commits[head] \in CommitRecords
      BY <1>2, LogParents
    <3>2. commits[head].message = FALSE
      <4>1. commits[head].message \in BOOLEAN
        BY <3>1 DEF CommitRecords
      <4> QED BY <1>2, <2>4, <4>1 DEF PromiseInv, KeptInv, MessagesMarked, IsUserCommit
    <3>3. OwnTree(commits[head]) = <<>>
      BY <3>2 DEF OwnTree
    <3>4. KeptOf(commits)[head] = KeptOf(commits)[commits[head].parent] \o <<>>
      <4>1. head \in 0..Len(commits) /\ head # 0
        BY <1>2
      <4>2. KeptOf(commits)[head] = KeptStep(commits, KeptOf(commits), head)
        BY <1>2, <4>1, KeptOfDef
      <4> QED BY <3>3, <4>1, <4>2, KeptStepCases
    <3>5. KeptOf(commits)[commits[head].parent] \in Seq(Trees)
      BY <1>4, <3>1
    <3>6. KeptOf(commits)[head] = KeptOf(commits)[commits[head].parent]
      BY <3>4, <3>5
    <3> HIDE DEF r
    <3> QED BY <2>1, <2>4, <3>1, <3>6
  <2> QED BY <2>2, <2>3, <2>4
<1>6. r \in CommitRecords /\ r.tree = index[h] /\ r.message = req[h].message
  <2>1. req[h].message \in BOOLEAN /\ req[h].email \in Emails
    BY <1>2 DEF Requests
  <2>2. ParentOf(h) \in Nat
    BY <1>5
  <2> QED BY <1>2, <2>1, <2>2 DEF CommitRecords
<1> HIDE DEF r
<1>7. head' = n /\ commits'[n] = r /\ n # 0
  BY <1>1, <1>2, <1>6, AppendCommit
<1>8. headTree = commits[head].tree /\ headTree' = index[h]
  BY <1>2, <1>6, <1>7 DEF headTree
<1>9. headTree' = Promise!Applied(requestOf(h), headTree)
  BY <1>3, <1>8
     DEF Promise!Applied, requestOf, Applied, Removed, Added, Present
<1>10. keptAt[head] = KeptOf(commits)[head] /\ keptAt[head]' = KeptOf(commits')[n]
  BY <1>7, KeptAtIs
<1>11. KeptOf(commits')[n] = KeptOf(commits)[head] \o OwnTree(r)
  BY <1>1, <1>2, <1>5, <1>6, KeptOfAppend
<1>12. KeptOf(commits)[head] \in Seq(Trees)
  BY <1>2, <1>4
<1>13. keptAt[head]' = IF requestOf(h).message THEN keptAt[head] \o <<headTree'>>
                                               ELSE keptAt[head]
  <2>1. requestOf(h).message = req[h].message
    BY DEF requestOf
  <2>2. CASE req[h].message
    <3>1. OwnTree(r) = <<headTree'>>
      BY <1>6, <1>8, <2>2 DEF OwnTree
    <3> QED BY <1>10, <1>11, <2>1, <2>2, <3>1
  <2>3. CASE ~req[h].message
    <3>1. OwnTree(r) = <<>>
      BY <1>6, <2>3 DEF OwnTree
    <3>2. KeptOf(commits)[head] \o <<>> = KeptOf(commits)[head]
      BY <1>12
    <3> QED BY <1>10, <1>11, <2>1, <2>3, <3>1, <3>2
  <2> QED BY <2>2, <2>3
<1>14. phaseOf(h) = "called" /\ phaseOf(h)' = "applied" /\ UNCHANGED <<requestOf(h), answer>>
  BY <1>1, <1>2 DEF phaseOf, requestOf, SaveSteps
<1> QED BY <1>9, <1>13, <1>14, PromiseActions

\* Every other step is a call, a return, a read, or nothing a client can see.
LEMMA PromiseStep ==
    ASSUME OneHandle, Undisturbed, PromiseInv, [Next]_vars
    PROVE  Promise!Next \/ UNCHANGED Promise!vars
<1> USE DEF SaveSteps, Goto, disk, lock, local, Answer, Over
<1>k. /\ pc \in [Handles -> Steps] /\ req \in [Handles -> Requests \cup {NoRequest}]
      /\ commits \in Seq(CommitRecords) /\ head \in 0..Len(commits) /\ crashes \in 0..MaxCrashes
  BY DEF PromiseInv, AloneInv, OrderInv, Typed, TypeOK
<1>r. ASSUME NEW h \in Handles, pc[h] \notin SaveSteps \cup {"rollback"}
      PROVE  req[h] = NoRequest
  BY <1>r DEF PromiseInv, NoRequestLeft
\* The client sees no difference.
<1>q. ASSUME NEW h \in Handles, UNCHANGED <<head, commits, answer>>,
             UNCHANGED <<phaseOf(h), requestOf(h)>>
      PROVE  UNCHANGED Promise!vars
  BY <1>q, SameStates, PromiseActions
<1>1. ASSUME NEW h \in Handles,
             \/ OpenExisting(h) \/ OpenMissing(h) \/ InitRepo(h) \/ InitBegin(h) \/ InitPack(h)
      PROVE  UNCHANGED Promise!vars
  <2>1. /\ UNCHANGED <<head, commits, answer, req>>
        /\ \E s \in {"ready"} \cup InitSteps : pc' = [pc EXCEPT ![h] = s]
        /\ pc[h] \in {"closed"} \cup InitSteps
    BY <1>1 DEF OpenExisting, OpenMissing, InitRepo, InitBegin, InitPack, InitSteps
  <2>2. UNCHANGED <<phaseOf(h), requestOf(h)>>
    BY <2>1, <1>k DEF phaseOf, requestOf, InitSteps
  <2> QED BY <2>1, <2>2, <1>q
<1>2. ASSUME NEW h \in Handles,
             \/ LoadIndex(h) \/ BeginTxn(h) \/ UpdateIndex(h) \/ WriteTree(h) \/ WriteIndex(h)
      PROVE  UNCHANGED Promise!vars
  <2>1. /\ UNCHANGED <<head, commits, answer, req>>
        /\ \E s \in SaveSteps \ {"pack"} : pc' = [pc EXCEPT ![h] = s]
        /\ pc[h] \in SaveSteps \ {"pack"}
    BY <1>2 DEF LoadIndex, BeginTxn, UpdateIndex, WriteTree, WriteIndex
  <2>2. UNCHANGED <<phaseOf(h), requestOf(h)>>
    BY <2>1, <1>k DEF phaseOf, requestOf
  <2> QED BY <2>1, <2>2, <1>q
<1>3. ASSUME NEW h \in Handles, WritePack(h) PROVE UNCHANGED Promise!vars
  <2>1. /\ UNCHANGED <<head, commits, answer, req>>
        /\ pc[h] = "pack" /\ pc' = [pc EXCEPT ![h] = "rollback"]
    BY <1>3 DEF WritePack
  <2>2. UNCHANGED <<phaseOf(h), requestOf(h)>>
    BY <2>1, <1>k DEF phaseOf, requestOf
  <2> QED BY <2>1, <2>2, <1>q
<1>4. ASSUME NEW h \in Handles, InitRollback(h) PROVE UNCHANGED Promise!vars
  <2>1. /\ UNCHANGED <<head, commits, answer>> /\ req' = [req EXCEPT ![h] = NoRequest]
        /\ pc[h] = "initRollback" /\ pc' = [pc EXCEPT ![h] = "ready"]
    BY <1>4 DEF InitRollback
  <2>2. UNCHANGED <<phaseOf(h), requestOf(h)>>
    BY <2>1, <1>k, <1>r DEF phaseOf, requestOf
  <2> QED BY <2>1, <2>2, <1>q
<1>5. ASSUME NEW h \in Handles, InitCommit(h) PROVE UNCHANGED Promise!vars
  <2> DEFINE r == [tree |-> EmptyTree, parent |-> 0, message |-> FALSE, email |-> AppEmail]
             n == Len(commits) + 1
  <2>1. /\ pc[h] = "initCommit" /\ commits' = Append(commits, r) /\ head' = Len(commits')
        /\ pc' = [pc EXCEPT ![h] = "initPack"] /\ UNCHANGED <<req, answer>>
    BY <1>5 DEF InitCommit
  <2>2. r \in CommitRecords /\ r.tree = EmptyTree /\ r.parent = 0 /\ r.message = FALSE
    BY EmptyTreeType DEF CommitRecords, Emails
  <2> HIDE DEF r
  <2>3. head' = n /\ commits'[n] = r /\ n # 0 /\ 0 \in 0..Len(commits)
    BY <2>1, <2>2, <1>k, AppendCommit
  <2>4. head = 0
    BY <2>1 DEF PromiseInv, AloneInv, OrderInv, CreatedOnce
  <2>5. headTree' = headTree
    BY <2>2, <2>3, <2>4 DEF headTree
  <2>6. Log(commits)
    BY DEF PromiseInv, AloneInv, OrderInv, Typed, TypeOK, Log
  <2>7. KeptOf(commits)[0] = <<>>
    <3>1. KeptOf(commits)[0] = KeptStep(commits, KeptOf(commits), 0)
      BY <2>3, <2>6, KeptOfDef
    <3> QED BY Zenon, <3>1, KeptStepCases
  <2>8. KeptOf(commits')[n] = <<>> \o OwnTree(r)
    BY <2>1, <2>2, <2>3, <2>6, <2>7, KeptOfAppend
  <2>9. <<>> \o OwnTree(r) = <<>>
    BY <2>2 DEF OwnTree
  <2>10. keptAt[head]' = keptAt[head]
    BY <2>3, <2>4, <2>7, <2>8, <2>9, KeptAtIs
  <2>11. UNCHANGED <<phaseOf(h), requestOf(h)>>
    BY <2>1, <1>k DEF phaseOf, requestOf
  <2> QED BY <2>1, <2>5, <2>10, <2>11, PromiseActions
<1>6. ASSUME NEW h \in Handles, NEW r \in Requests, SaveStart(h, r) PROVE Promise!Next
  <2>1. pc[h] = "ready" /\ UNCHANGED <<head, commits>>
    BY <1>6 DEF SaveStart
  <2>2. CASE CommitReadable(h)
    <3> DEFINE a == [put |-> r.put, del |-> r.del, message |-> r.message]
    <3>1. pc' = [pc EXCEPT ![h] = "loadIndex"] /\ req' = [req EXCEPT ![h] = r] /\ answer' = answer
      BY <1>6, <2>2 DEF SaveStart
    <3>2. requestOf(h)' = a /\ phaseOf(h) = "idle" /\ phaseOf(h)' = "called"
      BY <2>1, <3>1, <1>k DEF requestOf, phaseOf
    <3>3. a \in Promise!Requests
      BY DEF Requests, Trees, Promise!Requests, Promise!Trees
    <3> HIDE DEF a
    <3>4. Promise!Call(h, a)
      BY <2>1, <3>1, <3>2, SameStates, PromiseActions
    <3> QED BY <3>3, <3>4 DEF Promise!Next
  <2>3. CASE ~CommitReadable(h)
    <3>1. answer' = [answer EXCEPT ![h] = Error] /\ UNCHANGED <<pc, req>>
      BY <1>6, <2>3 DEF SaveStart
    <3>2. head = 0
      BY <2>1, <2>3, RestReads DEF PromiseInv, TreeReadable
    <3>3. Present(headTree) = {}
      BY <3>2 DEF headTree, EmptyTree, Present
    <3>4. phaseOf(h) = "idle" /\ UNCHANGED <<phaseOf(h), requestOf(h)>>
      BY <2>1, <3>1 DEF phaseOf, requestOf
    <3>5. Promise!Fetch(h)
      BY <2>1, <3>1, <3>3, <3>4, SameStates, PromiseActions
    <3> QED BY <3>5 DEF Promise!Next
  <2> QED BY <2>2, <2>3
<1>7. ASSUME NEW h \in Handles, CreateCommit(h) PROVE Promise!Next
  BY <1>7, CommitTakes DEF Promise!Next
<1>8. ASSUME NEW h \in Handles, Rollback(h) PROVE Promise!Next
  <2>1. /\ pc[h] = "rollback" /\ pc' = [pc EXCEPT ![h] = "ready"]
        /\ req' = [req EXCEPT ![h] = NoRequest] /\ answer' = [answer EXCEPT ![h] = Saved]
        /\ UNCHANGED <<head, commits>>
    BY <1>8 DEF Rollback
  <2>2. phaseOf(h) = "applied" /\ phaseOf(h)' = "idle" /\ requestOf(h)' = Promise!NoRequest
    BY <2>1, <1>k DEF phaseOf, requestOf, NoRequest, EmptyTree, Promise!NoRequest
  <2>3. Promise!Return(h)
    BY <2>1, <2>2, SameStates, PromiseActions
  <2> QED BY <2>3 DEF Promise!Next
<1>9. ASSUME NEW h \in Handles, Fetch(h) PROVE Promise!Next
  <2>1. /\ pc[h] = "ready" /\ UNCHANGED <<head, commits, pc, req>>
        /\ answer' = [answer EXCEPT ![h] =
                          IF TreeReadable(h) /\ Present(commits[head].tree) # {}
                          THEN Fetched(Present(commits[head].tree)) ELSE Error]
    BY <1>9 DEF Fetch
  <2>2. phaseOf(h) = "idle" /\ UNCHANGED <<phaseOf(h), requestOf(h)>>
    BY <2>1 DEF phaseOf, requestOf
  <2>3. answer' = [answer EXCEPT ![h] = IF Present(headTree) = {} THEN Error
                                        ELSE Fetched(Present(headTree))]
    <3>1. CASE head = 0
      <4>1. ~TreeReadable(h)
        BY <3>1 DEF TreeReadable, CommitReadable
      <4>2. Present(headTree) = {}
        BY <3>1 DEF headTree, EmptyTree, Present
      <4> QED BY <2>1, <4>1, <4>2
    <3>2. CASE head # 0
      <4>1. TreeReadable(h) /\ headTree = commits[head].tree
        BY <2>1, <3>2, RestReads DEF PromiseInv, headTree
      <4> QED BY <2>1, <4>1
    <3> QED BY <3>1, <3>2
  <2>4. Promise!Fetch(h)
    BY <2>1, <2>2, <2>3, SameStates, PromiseActions
  <2> QED BY <2>4 DEF Promise!Next
<1>10. ASSUME NEW h \in Handles, NEW k \in Keys, NewValues(h, k) PROVE Promise!Next
  <2>1. /\ pc[h] = "ready" /\ UNCHANGED <<head, commits, pc, req>>
    BY <1>10 DEF NewValues
  <2>2. phaseOf(h) = "idle" /\ UNCHANGED <<phaseOf(h), requestOf(h)>>
    BY <2>1 DEF phaseOf, requestOf
  <2>3. answer' = [answer EXCEPT ![h] = IF headTree[k] = NoValue THEN Error ELSE Node(headTree[k])]
    <3>1. CASE head = 0
      <4>1. ~TreeReadable(h)
        BY <3>1 DEF TreeReadable, CommitReadable
      <4>2. headTree[k] = NoValue
        BY <3>1 DEF headTree, EmptyTree
      <4>3. answer' = [answer EXCEPT ![h] = Error]
        BY <1>10, <4>1 DEF NewValues
      <4> QED BY <4>2, <4>3
    <3>2. CASE head # 0
      <4>1. /\ TreeReadable(h) /\ headTree = commits[head].tree
            /\ Blobs(commits[head].tree) \subseteq Visible(h)
        BY <2>1, <3>2, RestReads DEF PromiseInv, headTree
      <4>2. headTree[k] # NoValue => Blob(headTree[k]) \in Visible(h)
        BY <4>1 DEF Blobs, Present
      <4>3. CASE headTree[k] = NoValue
        BY <1>10, <4>1, <4>3 DEF NewValues
      <4>4. CASE headTree[k] # NoValue
        BY <1>10, <4>1, <4>2, <4>4 DEF NewValues
      <4> QED BY <4>3, <4>4
    <3> QED BY <3>1, <3>2
  <2>4. Promise!NewValues(h, k)
    BY <2>1, <2>2, <2>3, SameStates, PromiseActions
  <2> QED BY <2>4 DEF Promise!Next
<1>11. ASSUME NEW h \in Handles, Release(h) PROVE Promise!Next
  <2>1. /\ pc[h] = "ready" /\ pc' = [pc EXCEPT ![h] = "closed"]
        /\ req' = [req EXCEPT ![h] = NoRequest] /\ answer' = [answer EXCEPT ![h] = NoAnswer]
        /\ UNCHANGED <<head, commits>>
    BY <1>11 DEF Release, Forget
  <2>2. phaseOf(h) = "idle" /\ UNCHANGED <<phaseOf(h), requestOf(h)>>
    BY <2>1, <1>k, <1>r DEF phaseOf, requestOf
  <2>3. Promise!Reopen(h)
    BY <2>1, <2>2, SameStates, PromiseActions
  <2> QED BY <2>3 DEF Promise!Next
<1>12. ASSUME NEW h \in Handles, PackMissesObject(h) \/ Throw(h) \/ Crash(h) PROVE FALSE
  BY <1>12, <1>k, PackFindsAll
     DEF PackMissesObject, Throw, Crash, Undisturbed, PromiseInv, AloneInv
<1>13. ASSUME UNCHANGED vars PROVE UNCHANGED Promise!vars
  BY <1>13, SameStates DEF vars, Promise!vars, phaseOf, requestOf
<1> QED
  BY <1>1, <1>2, <1>3, <1>4, <1>5, <1>6, <1>7, <1>8, <1>9, <1>10, <1>11, <1>12, <1>13
     DEF Next, Client, Step

\* One handle keeps the promise of ManagedObjectStore, for any objects and any
\* sequence of requests, as long as no call fails: a save takes effect once, at the
\* instant the branch moves, and entirely; user commits are kept for good; what is
\* read is what was last saved (saveRequest:, fetchRequest: and
\* newValuesForObjectWithID:, lines 102-308).
THEOREM StoreKeepsPromise == OneHandle /\ Undisturbed /\ OwnAddress => (Spec => KeepsPromise)
<1> SUFFICES ASSUME OneHandle, Undisturbed, OwnAddress PROVE Spec => KeepsPromise
  OBVIOUS
<1>1. Init => Promise!Init
  <2> SUFFICES ASSUME Init PROVE Promise!Init
    OBVIOUS
  <2>1. headTree = [k \in Keys |-> NoValue] /\ answer = [h \in Handles |-> Promise!NoAnswer]
    BY DEF Init, headTree, EmptyTree, NoAnswer, Promise!NoAnswer
  <2>2. keptAt[head] = <<>>
    <3>1. Log(commits) /\ head = 0 /\ 0 \in 0..Len(commits)
      BY DEF Init, Log
    <3>2. KeptOf(commits)[0] = KeptStep(commits, KeptOf(commits), 0)
      BY <3>1, KeptOfDef
    <3> QED BY Zenon, <3>1, <3>2, KeptStepCases, KeptAtIs
  <2>3. /\ [h \in Handles |-> phaseOf(h)] = [h \in Handles |-> "idle"]
        /\ [h \in Handles |-> requestOf(h)] = [h \in Handles |-> Promise!NoRequest]
    BY DEF Init, phaseOf, requestOf, NoRequest, EmptyTree, Promise!NoRequest, SaveSteps
  <2> HIDE DEF headTree, keptAt, phaseOf, requestOf
  <2> QED BY <2>1, <2>2, <2>3 DEF Promise!Init
<1>2. PromiseInv /\ [Next]_vars => [Promise!Next]_(Promise!vars)
  BY PromiseStep
<1> QED BY <1>1, <1>2, SpecPromise, PTL DEF Spec, KeepsPromise, Promise!Spec
=============================================================================
