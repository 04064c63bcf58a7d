----------------------------- MODULE MCGitStore -----------------------------
(***************************************************************************)
(* GitStore on instances TLC can enumerate, and the refinement mapping to  *)
(* ManagedObjectStore.  Each cfg gives the constants their values.         *)
(***************************************************************************)
EXTENDS GitStore

\* What HEAD holds; an unborn branch holds nothing.
headTree == IF head = 0 THEN EmptyTree ELSE commits[head].tree

\* The trees of the user commits in the history of each commit, oldest first.
keptAt[c \in 0..Len(commits)] ==
    IF c = 0 THEN <<>>
    ELSE keptAt[commits[c].parent]
         \o (IF commits[c].message THEN <<commits[c].tree>> ELSE <<>>)

phaseOf(h) ==
    IF pc[h] \in SaveSteps \ {"pack"} THEN "called"
    ELSE IF pc[h] \in {"pack", "rollback"} THEN "applied"
    ELSE "idle"

requestOf(h) == [put |-> req[h].put, del |-> req[h].del, message |-> req[h].message]

Promise == INSTANCE ManagedObjectStore
    WITH objects <- headTree,
         kept    <- keptAt[head],
         phase   <- [h \in Handles |-> phaseOf(h)],
         request <- [h \in Handles |-> requestOf(h)]

\* One handle at a time keeps the promise of ManagedObjectStore: a save takes
\* effect at the instant HEAD moves, entirely and once, its user commits are
\* kept and its autosaves replaced, and reads see what the last save wrote
\* (saveRequest:, fetchRequest: and newValuesForObjectWithID:).
KeepsPromise == Promise!Spec

\* Two requests never wait on each other for ever: the handle that holds the
\* write lock lets it go (lines 114, 201, 413 and 439).
LockReleased == \A h \in Handles : writer = h ~> writer # h
=============================================================================
