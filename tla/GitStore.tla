------------------------------ MODULE GitStore ------------------------------
(***************************************************************************)
(* The store itself: GitIncrementalStore.m over a git repository whose     *)
(* object database writes to an LMDB environment                           *)
(* (lmdb_transactional_backend.cc).                                        *)
(*                                                                         *)
(* A handle is one GitIncrementalStore: a process, or one of several       *)
(* stores, that opened the repository.  On disk there are the packs, the   *)
(* branch that HEAD names, git's index file and the LMDB environment; LMDB *)
(* gives its one write transaction to one handle at a time.  A save is not *)
(* one step: each call into libgit2 that other handles, or a crash, can    *)
(* come between is an action of its own.                                   *)
(*                                                                         *)
(* A commit is known by its position in "commits", the sequence of all     *)
(* commits ever created, stored or not: what is stored says "packed".      *)
(***************************************************************************)
EXTENDS Integers, Sequences, FiniteSets

CONSTANTS
    Handles,      \* the stores that open the repository
    Keys,         \* keyPathRepresentation of the managed objects
    Values,       \* serialized property dictionaries (blob contents)
    AppEmail,     \* emptyCommitEmail: the bundle identifier
    UserEmails,   \* what a GitCommitChangesRequest may carry as its email
    Faults,       \* the steps at which a call into libgit2 may fail
    MaxCommits,   \* bound: commits created, the initial ones included
    MaxCrashes,   \* bound: processes that die
    NoValue,      \* no object under this key
    NoHandle,     \* the LMDB write lock is free
    NotLoaded     \* the repository handle has not read the index file yet

SaveSteps == {"loadIndex", "begin", "update", "writeTree", "writeIndex",
              "commit", "pack"}

ASSUME ConstantsAssumption ==
    /\ NoValue \notin Values
    /\ NoHandle \notin Handles
    /\ NotLoaded \notin [Keys -> Values \cup {NoValue}]
    /\ Faults \subseteq SaveSteps
    /\ MaxCommits \in Nat
    /\ MaxCrashes \in Nat

VARIABLES
    repo,        \* git_repository_open would succeed
    head,        \* the commit HEAD resolves to; 0 while the branch is unborn
    indexFile,   \* git's index file: key -> blob
    packed,      \* the objects in packs: what survives every crash
    commits,     \* every commit created, by position
    writer,      \* the handle inside an LMDB write transaction
    txn,         \* the objects written in that transaction
    pc,          \* per handle: the call it makes next
    req,         \* per handle: the NSSaveChangesRequest in progress
    base,        \* per handle: the commit HEAD named when the save began
    index,       \* per handle: the git_index its repository handle caches
    new,         \* per handle: the commit this save created
    answer,      \* per handle: what the last request returned
    acked,       \* auxiliary: the commits of the saves that returned
    crashes      \* auxiliary: processes that died

disk == <<repo, head, indexFile, packed, commits>>
lock == <<writer, txn>>
local == <<req, base, index, new>>
vars == <<disk, lock, pc, local, answer, acked, crashes>>

-----------------------------------------------------------------------------
(* Objects of the git database                                             *)

Emails == UserEmails \cup {AppEmail}
Trees == [Keys -> Values \cup {NoValue}]
EmptyTree == [k \in Keys |-> NoValue]
Present(t) == {k \in Keys : t[k] # NoValue}

Blob(v) == <<"blob", v>>
Tree(t) == <<"tree", t>>
Commit(c) == <<"commit", c>>

\* What a commit object says; parent 0 is no parent.
CommitRecords ==
    [tree : Trees, parent : Nat, message : BOOLEAN, email : Emails]

Blobs(t) == {Blob(t[k]) : k \in Present(t)}

\* What git_packbuilder_insert_commit puts in a pack: the commit, its tree
\* and the tree's blobs; not the commit's parents.
Closure(c) == {Commit(c), Tree(commits[c].tree)} \cup Blobs(commits[c].tree)

\* Objects a handle can read: the packs, and the LMDB environment through its
\* own transaction.  Nothing is ever committed to LMDB (line 201).
Visible(h) == packed \cup (IF writer = h THEN txn ELSE {})

\* A request of Core Data: objects to insert or update, objects to delete,
\* and for a GitCommitChangesRequest a message and an email of its own.
Requests ==
    {r \in [put : Trees, del : SUBSET Keys, message : BOOLEAN, email : Emails] :
        /\ \A k \in r.del : r.put[k] = NoValue
        /\ IF r.message THEN r.email \in UserEmails ELSE r.email = AppEmail}

NoRequest == [put |-> EmptyTree, del |-> {}, message |-> FALSE, email |-> AppEmail]

\* index_add of the keys in S, then remove_bypath of the deleted ones.
Added(r, S, t) == [k \in Keys |-> IF k \in S THEN r.put[k] ELSE t[k]]
Removed(r, t) == [k \in Keys |-> IF k \in r.del THEN NoValue ELSE t[k]]
\* Bug for comparison: deleted objects stay in the index.
AppliedWithoutDeletes(r, t) == Added(r, Present(r.put), t)
Applied(r, t) == Removed(r, Added(r, Present(r.put), t))

NoAnswer   == [kind |-> "none",    keys |-> {}, value |-> NoValue]
Saved      == [kind |-> "saved",   keys |-> {}, value |-> NoValue]
Error      == [kind |-> "error",   keys |-> {}, value |-> NoValue]
Fetched(S) == [kind |-> "fetched", keys |-> S,  value |-> NoValue]
Node(v)    == [kind |-> "node",    keys |-> {}, value |-> v]

Answers == [kind : {"none", "saved", "error", "fetched", "node"},
            keys : SUBSET Keys, value : Values \cup {NoValue}]

InitSteps == {"initRepo", "initBegin", "initCommit", "initPack", "initRollback"}

Steps == {"closed", "ready", "rollback"} \cup InitSteps \cup SaveSteps

\* Handles on their way to creating a commit, for the bound MaxCommits.
Pending == {h \in Handles :
               pc[h] \in {"initRepo", "initBegin", "initCommit"}
                         \cup (SaveSteps \ {"pack"})}
MayCreate == Len(commits) + Cardinality(Pending) < MaxCommits

Goto(h, step) == pc' = [pc EXCEPT ![h] = step]
Answer(h, a) == answer' = [answer EXCEPT ![h] = a]
\* The request is over; only the cached index outlives it.
Over(h) ==
    /\ req' = [req EXCEPT ![h] = NoRequest]
    /\ base' = [base EXCEPT ![h] = 0]
    /\ new' = [new EXCEPT ![h] = 0]
Locks(h) == writer = NoHandle /\ writer' = h /\ txn' = {}
Unlocks == writer' = NoHandle /\ txn' = {}
Writes(objs) == txn' = txn \cup objs /\ UNCHANGED writer

-----------------------------------------------------------------------------
(* Opening: initWithPersistentStoreCoordinator:                            *)

Init ==
    /\ repo = FALSE
    /\ head = 0
    /\ indexFile = EmptyTree
    /\ packed = {}
    /\ commits = <<>>
    /\ writer = NoHandle
    /\ txn = {}
    /\ pc = [h \in Handles |-> "closed"]
    /\ req = [h \in Handles |-> NoRequest]
    /\ base = [h \in Handles |-> 0]
    /\ index = [h \in Handles |-> NotLoaded]
    /\ new = [h \in Handles |-> 0]
    /\ answer = [h \in Handles |-> NoAnswer]
    /\ acked = {}
    /\ crashes = 0

\* git_repository_open succeeds: the backend's constructor opens and commits a
\* write transaction of its own, for which the lock must be free.
OpenExisting(h) ==
    /\ pc[h] = "closed"
    /\ repo
    /\ writer = NoHandle
    /\ Goto(h, "ready")
    /\ UNCHANGED <<disk, lock, local, answer, acked, crashes>>

\* git_repository_open fails, so the other branch creates the repository.
OpenMissing(h) ==
    /\ pc[h] = "closed"
    /\ ~repo
    /\ MayCreate
    /\ Goto(h, "initRepo")
    /\ UNCHANGED <<disk, lock, local, answer, acked, crashes>>

\* git_repository_init; on a repository that exists by now it changes nothing.
InitRepo(h) ==
    /\ pc[h] = "initRepo"
    /\ repo' = TRUE
    /\ Goto(h, "initBegin")
    /\ UNCHANGED <<head, indexFile, packed, commits, lock, local, answer, acked,
                   crashes>>

\* The backend's constructor and git_odb_transaction_begin.
InitBegin(h) ==
    /\ pc[h] = "initBegin"
    /\ writer = NoHandle
    /\ Locks(h)
    /\ Goto(h, "initCommit")
    /\ UNCHANGED <<disk, local, answer, acked, crashes>>

\* The empty tree and its commit, which has no parent and becomes HEAD
\* whatever HEAD was.
InitCommit(h) ==
    /\ pc[h] = "initCommit"
    /\ commits' = Append(commits, [tree |-> EmptyTree, parent |-> 0,
                                   message |-> FALSE, email |-> AppEmail])
    /\ new' = [new EXCEPT ![h] = Len(commits')]
    /\ head' = Len(commits')
    /\ Writes({Tree(EmptyTree), Commit(Len(commits'))})
    /\ Goto(h, "initPack")
    /\ UNCHANGED <<repo, indexFile, packed, req, base, index, answer, acked,
                   crashes>>

InitPack(h) ==
    /\ pc[h] = "initPack"
    /\ packed' = packed \cup Closure(new[h])
    /\ Goto(h, "initRollback")
    /\ UNCHANGED <<repo, head, indexFile, commits, lock, local, answer, acked,
                   crashes>>

InitRollback(h) ==
    /\ pc[h] = "initRollback"
    /\ Unlocks
    /\ Over(h)
    /\ Goto(h, "ready")
    /\ UNCHANGED <<disk, index, answer, acked, crashes>>

-----------------------------------------------------------------------------
(* saveRequest:withContext:error:                                          *)

\* HEAD can be resolved and its commit read.
CommitReadable(h) == head # 0 /\ Commit(head) \in Visible(h)

\* executeRequest: with a save; HEAD and its commit are looked up.
SaveStart(h, r) ==
    /\ pc[h] = "ready"
    /\ MayCreate
    /\ IF CommitReadable(h)
       THEN /\ Goto(h, "loadIndex")
            /\ req' = [req EXCEPT ![h] = r]
            /\ base' = [base EXCEPT ![h] = head]
            /\ UNCHANGED answer
       ELSE /\ Answer(h, Error)
            /\ UNCHANGED <<pc, req, base>>
    /\ UNCHANGED <<disk, lock, index, new, acked, crashes>>

\* git_repository_index reads the file the first time only.
LoadIndex(h) ==
    /\ pc[h] = "loadIndex"
    /\ index' = [index EXCEPT ![h] = IF @ = NotLoaded THEN indexFile ELSE @]
    /\ Goto(h, "begin")
    /\ UNCHANGED <<disk, lock, req, base, new, answer, acked, crashes>>

\* mdb_txn_begin waits until no transaction is open, one of this handle's own
\* included.
BeginTxn(h) ==
    /\ pc[h] = "begin"
    /\ writer = NoHandle
    /\ Locks(h)
    /\ Goto(h, "update")
    /\ UNCHANGED <<disk, local, answer, acked, crashes>>

\* The updateIndex block on every inserted and updated object, then the
\* deleted ones.
UpdateIndex(h) ==
    /\ pc[h] = "update"
    /\ Writes(Blobs(req[h].put))
    /\ index' = [index EXCEPT ![h] = Applied(req[h], @)]
    /\ Goto(h, "writeTree")
    /\ UNCHANGED <<disk, req, base, new, answer, acked, crashes>>

\* git_index_write_tree; it does not ask whether the blobs are there.
WriteTree(h) ==
    /\ pc[h] = "writeTree"
    /\ Writes({Tree(index[h])})
    /\ Goto(h, "writeIndex")
    /\ UNCHANGED <<disk, local, answer, acked, crashes>>

\* Bug for comparison: git_index_write is left out.
WriteIndexLeftOut(h) ==
    /\ pc[h] = "writeIndex"
    /\ Goto(h, "commit")
    /\ UNCHANGED <<disk, lock, local, answer, acked, crashes>>

\* git_index_write replaces the file: the repository, not the transaction.
WriteIndex(h) ==
    /\ pc[h] = "writeIndex"
    /\ indexFile' = index[h]
    /\ Goto(h, "commit")
    /\ UNCHANGED <<repo, head, packed, commits, lock, local, answer, acked,
                   crashes>>

\* Bugs for comparison: autosaves pile up; anything is overwritten.
ParentIsBase(h) == base[h]
ParentSkipsBase(h) ==
    IF commits[base[h]].parent = 0 THEN base[h] ELSE commits[base[h]].parent

\* "only keep user commits (with messages) and the initial repository creation
\* save; over-write just saves": the commit's own parent replaces the base
\* when the base was an autosave that has a parent that can be read.
ParentOf(h) ==
    LET p == commits[base[h]].parent
    IN  IF p # 0 /\ Commit(p) \in Visible(h) /\ commits[base[h]].email = AppEmail
        THEN p
        ELSE base[h]

\* git_commit_create writes the commit and moves HEAD's branch to it.  The tree
\* is the one WriteTree wrote, which index[h] still is.
CreateCommit(h) ==
    /\ pc[h] = "commit"
    /\ commits' = Append(commits, [tree |-> index[h], parent |-> ParentOf(h),
                                   message |-> req[h].message,
                                   email |-> req[h].email])
    /\ new' = [new EXCEPT ![h] = Len(commits')]
    /\ head' = Len(commits')
    /\ Writes({Commit(Len(commits'))})
    /\ Goto(h, "pack")
    /\ UNCHANGED <<repo, indexFile, packed, req, base, index, answer, acked,
                   crashes>>

\* Bug for comparison: the pack gets the commit and its tree only.
PackWithoutBlobs(h) ==
    /\ pc[h] = "pack"
    /\ packed' = packed \cup {Commit(new[h]), Tree(commits[new[h]].tree)}
    /\ Goto(h, "rollback")
    /\ UNCHANGED <<repo, head, indexFile, commits, lock, local, answer, acked,
                   crashes>>

\* git_packbuilder_insert_commit and _write.
WritePack(h) ==
    /\ pc[h] = "pack"
    /\ Closure(new[h]) \subseteq Visible(h)
    /\ packed' = packed \cup Closure(new[h])
    /\ Goto(h, "rollback")
    /\ UNCHANGED <<repo, head, indexFile, commits, lock, local, answer, acked,
                   crashes>>

\* Bug for comparison: the transaction is left open.
RollbackLeftOut(h) ==
    /\ pc[h] = "rollback"
    /\ acked' = acked \cup {new[h]}
    /\ Answer(h, Saved)
    /\ Over(h)
    /\ Goto(h, "ready")
    /\ UNCHANGED <<disk, lock, index, crashes>>

\* git_odb_transaction_rollback, and the empty array that is returned.
Rollback(h) ==
    /\ pc[h] = "rollback"
    /\ Unlocks
    /\ acked' = acked \cup {new[h]}
    /\ Answer(h, Saved)
    /\ Over(h)
    /\ Goto(h, "ready")
    /\ UNCHANGED <<disk, index, crashes>>

\* throw_if_error: the request ends where it is; the transaction stays open.
Raise(h) ==
    /\ Answer(h, Error)
    /\ Over(h)
    /\ Goto(h, "ready")
    /\ UNCHANGED <<disk, acked, crashes>>

\* Bug for comparison: the result of git_packbuilder_insert_commit is ignored.
PackFailureIgnored(h) ==
    /\ pc[h] = "pack"
    /\ ~(Closure(new[h]) \subseteq Visible(h))
    /\ Goto(h, "rollback")
    /\ UNCHANGED <<disk, lock, local, answer, acked, crashes>>

\* The pack builder needs every object of the commit.
PackMissesObject(h) ==
    /\ pc[h] = "pack"
    /\ ~(Closure(new[h]) \subseteq Visible(h))
    /\ UNCHANGED <<lock, index>>
    /\ Raise(h)

\* A call fails.  A begin that fails has opened no transaction; when the
\* updateIndex block raises it may have handled any part of the objects.
Throw(h) ==
    /\ pc[h] \in Faults
    /\ IF pc[h] = "update"
       THEN \E done \in SUBSET Present(req[h].put) :
               /\ Writes({Blob(req[h].put[k]) : k \in done})
               /\ index' = [index EXCEPT ![h] = Added(req[h], done, @)]
       ELSE UNCHANGED <<lock, index>>
    /\ Raise(h)

-----------------------------------------------------------------------------
(* Reading                                                                 *)

TreeReadable(h) == CommitReadable(h) /\ Tree(commits[head].tree) \in Visible(h)

\* fetchRequest: without a predicate.  An entity none of whose objects are
\* stored has no tree entry, which raises.
Fetch(h) ==
    /\ pc[h] = "ready"
    /\ Answer(h, IF TreeReadable(h) /\ Present(commits[head].tree) # {}
                 THEN Fetched(Present(commits[head].tree))
                 ELSE Error)
    /\ UNCHANGED <<disk, lock, pc, local, acked, crashes>>

\* newValuesForObjectWithID: The result of git_blob_lookup is not looked at: if
\* the blob is not there, an uninitialized pointer is read.
NewValues(h, k) ==
    /\ pc[h] = "ready"
    /\ \E v \in Values \cup {NoValue} :
          LET entry == commits[head].tree[k]
          IN  IF ~TreeReadable(h)       THEN Answer(h, Error)
              ELSE IF entry = NoValue   THEN Answer(h, Error)
              ELSE /\ Blob(entry) \in Visible(h) => v = entry
                   /\ Answer(h, Node(v))
    /\ UNCHANGED <<disk, lock, pc, local, acked, crashes>>

-----------------------------------------------------------------------------
(* Going away                                                              *)

\* The process forgets everything; LMDB drops its transaction.
Forget(h) ==
    /\ Goto(h, "closed")
    /\ Over(h)
    /\ index' = [index EXCEPT ![h] = NotLoaded]
    /\ Answer(h, NoAnswer)
    /\ IF writer = h THEN Unlocks ELSE UNCHANGED lock
    /\ UNCHANGED <<disk, acked>>

\* dealloc: git_repository_free frees the object database with its backend,
\* whose destructor aborts the transaction a failed save left open.
Release(h) ==
    /\ pc[h] = "ready"
    /\ Forget(h)
    /\ UNCHANGED crashes

\* The process dies between two calls.  A failure while the repository is
\* being created ends the same way: the exception leaves the initializer.
Crash(h) ==
    /\ pc[h] # "closed"
    /\ crashes < MaxCrashes
    /\ crashes' = crashes + 1
    /\ Forget(h)

-----------------------------------------------------------------------------
\* The calls of a request, or of an open, that is under way.
Step(h) ==
    \/ InitRepo(h) \/ InitBegin(h) \/ InitCommit(h) \/ InitPack(h)
    \/ InitRollback(h)
    \/ LoadIndex(h) \/ BeginTxn(h) \/ UpdateIndex(h) \/ WriteTree(h)
    \/ WriteIndex(h) \/ CreateCommit(h) \/ WritePack(h)
    \/ PackMissesObject(h) \/ Rollback(h)

Client(h) ==
    \/ OpenExisting(h) \/ OpenMissing(h)
    \/ \E r \in Requests : SaveStart(h, r)
    \/ Fetch(h)
    \/ \E k \in Keys : NewValues(h, k)
    \/ Release(h)

Next == \E h \in Handles : Client(h) \/ Step(h) \/ Throw(h) \/ Crash(h)

Spec == Init /\ [][Next]_vars

\* A thread that is inside a call goes on.  Nothing says that a client ever
\* makes a request, or that a call ever fails.
FairSpec == Spec /\ \A h \in Handles : WF_vars(Step(h))

-----------------------------------------------------------------------------
(* Properties                                                              *)

TypeOK ==
    /\ repo \in BOOLEAN
    /\ commits \in Seq(CommitRecords)
    /\ \A c \in DOMAIN commits : commits[c].parent < c
    /\ head \in 0..Len(commits)
    /\ indexFile \in Trees
    /\ writer \in Handles \cup {NoHandle}
    /\ pc \in [Handles -> Steps]
    /\ req \in [Handles -> Requests \cup {NoRequest}]
    /\ base \in [Handles -> 0..Len(commits)]
    /\ index \in [Handles -> Trees \cup {NotLoaded}]
    /\ new \in [Handles -> 0..Len(commits)]
    /\ answer \in [Handles -> Answers]
    /\ acked \subseteq 1..Len(commits)
    /\ crashes \in 0..MaxCrashes

IsRoot(c) == commits[c].parent = 0
IsUserCommit(c) == commits[c].email # AppEmail

\* c and the commits reached from it by parents: the smallest set with c in it
\* that holds the parent of each of its members.
Ancestors(c) ==
    LET Ids == DOMAIN commits
        ParentClosed(S) == \A d \in S : IsRoot(d) \/ commits[d].parent \in S
    IN  {a \in Ids : \A S \in SUBSET Ids : c \in S /\ ParentClosed(S) => a \in S}

\* A save that returned is stored for good: its commit, its tree and every blob
\* of its tree are in packs, although the transaction they were written in is
\* always rolled back, whatever failed or crashed since (lines 193-203).
AckedDurable == \A c \in acked : Closure(c) \subseteq packed

\* While no write transaction is open, HEAD and all that it holds are in packs:
\* the branch moves before the pack is written, both within the lock
\* (lines 190-201 and 429-439).
HeadDurable == writer = NoHandle /\ head # 0 => Closure(head) \subseteq packed

\* A commit in a pack has its tree, its blobs and its parent in packs, although
\* only the newest commit is ever packed and its unchanged blobs come from the
\* index file: so history can be walked, and a blob lookup whose result nobody
\* checks finds the blob (lines 182, 196 and 305).
HistoryDurable ==
    \A c \in DOMAIN commits :
        Commit(c) \in packed =>
            /\ Closure(c) \subseteq packed
            /\ IsRoot(c) \/ Commit(commits[c].parent) \in packed

\* Autosaves do not pile up: what a commit stands on is a user commit or the
\* commit that created the repository (lines 178-183).
OnlyUserCommitsBelow ==
    \A c \in DOMAIN commits :
        LET p == commits[c].parent IN p = 0 \/ IsRoot(p) \/ IsUserCommit(p)

\* The commit of a GitCommitChangesRequest that returned stays in the history of
\* HEAD: overwriting autosaves never overwrites it (lines 181-190).
UserCommitsKept ==
    \A c \in acked : commits[c].message => head # 0 /\ c \in Ancestors(head)

\* The index file, the index a handle has cached and the tree of HEAD are three
\* copies of the same thing: they agree whenever no request is under way
\* (lines 108, 111, 174-175 and 190).
IndexAgreesWithHead ==
    \A h \in Handles :
        pc[h] = "ready" /\ head # 0 =>
            /\ indexFile = commits[head].tree
            /\ index[h] \in {NotLoaded, commits[head].tree}

\* newValuesForObjectWithID: never uses the blob pointer of a lookup that failed:
\* a handle that can read HEAD's tree can read every blob the tree names, those
\* that came from the index file of another handle included (lines 301-308).
BlobLookupDefined ==
    \A h \in Handles :
        pc[h] = "ready" /\ TreeReadable(h) =>
            Blobs(commits[head].tree) \subseteq Visible(h)

\* A store at rest can read HEAD: a save that did not happen entirely did not
\* happen, since "writes are done within a transaction" (line 113).
HeadReadable ==
    \A h \in Handles : pc[h] = "ready" /\ head # 0 => TreeReadable(h)

\* A commit holds the state it was based on with the changes of its own request,
\* and nothing that an earlier save failed to commit: "writes are done within a
\* transaction" (lines 111-113 and 174-190).
SavesOnlyItsChanges ==
    [][\A h \in Handles : pc[h] = "commit" /\ pc'[h] = "pack" =>
          commits'[head'].tree = Applied(req[h], commits[base[h]].tree)]_vars

\* A save never drops a user commit from the history of HEAD: "only keep user
\* commits (with messages)" (lines 102-108, 114 and 181-190).
SavesKeepUserCommits ==
    [][\A h \in Handles : pc[h] = "commit" /\ pc'[h] = "pack" =>
          (UserCommitsKept => UserCommitsKept')]_vars

\* A save returns: it waits for the write lock, and what holds the lock lets it
\* go (lines 114 and 201-203).
SaveReturns == \A h \in Handles : pc[h] = "begin" ~> pc[h] = "ready"

=============================================================================
