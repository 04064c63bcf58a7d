------------------------- MODULE ManagedObjectStore -------------------------
(***************************************************************************)
(* What a client of GitIncrementalStore is promised, with no repository,   *)
(* no transaction and no pack in sight: a map of managed objects, the      *)
(* sequence of states the user committed, and requests that take effect    *)
(* at one instant between their call and their return.                     *)
(*                                                                         *)
(* NSSaveChangesRequest and GitCommitChangesRequest are one kind of        *)
(* request; "message" tells them apart (GitIncrementalStore.m:24-46).      *)
(***************************************************************************)
EXTENDS Sequences

CONSTANTS Handles,    \* the open stores, one per persistent store coordinator
          Keys,       \* object identities
          Values,     \* stored property dictionaries
          NoValue     \* stands for "no object under this key"

VARIABLES objects,    \* the managed objects, a function on Keys
          kept,       \* the states of the user commits, oldest first
          phase,      \* per handle: "idle", "called", "applied"
          request,    \* per handle: the save being executed
          answer      \* per handle: what the last request returned

vars == <<objects, kept, phase, request, answer>>

Trees == [Keys -> Values \cup {NoValue}]

Present(t) == {k \in Keys : t[k] # NoValue}

Applied(r, t) ==
    [k \in Keys |-> IF k \in r.del THEN NoValue
                    ELSE IF r.put[k] # NoValue THEN r.put[k] ELSE t[k]]

NoAnswer   == [kind |-> "none",    keys |-> {}, value |-> NoValue]
Saved      == [kind |-> "saved",   keys |-> {}, value |-> NoValue]
Error      == [kind |-> "error",   keys |-> {}, value |-> NoValue]
Fetched(S) == [kind |-> "fetched", keys |-> S,  value |-> NoValue]
Node(v)    == [kind |-> "node",    keys |-> {}, value |-> v]

NoRequest == [put |-> [k \in Keys |-> NoValue], del |-> {}, message |-> FALSE]

Init ==
    /\ objects = [k \in Keys |-> NoValue]
    /\ kept = <<>>
    /\ phase = [h \in Handles |-> "idle"]
    /\ request = [h \in Handles |-> NoRequest]
    /\ answer = [h \in Handles |-> NoAnswer]

Call(h, r) ==
    /\ phase[h] = "idle"
    /\ phase' = [phase EXCEPT ![h] = "called"]
    /\ request' = [request EXCEPT ![h] = r]
    /\ UNCHANGED <<objects, kept, answer>>

\* The save takes effect: all of its changes at once, and a user commit is
\* recorded for good.
Take(h) ==
    /\ phase[h] = "called"
    /\ phase' = [phase EXCEPT ![h] = "applied"]
    /\ objects' = Applied(request[h], objects)
    /\ kept' = IF request[h].message THEN kept \o <<objects'>> ELSE kept
    /\ UNCHANGED <<request, answer>>

Return(h) ==
    /\ phase[h] = "applied"
    /\ phase' = [phase EXCEPT ![h] = "idle"]
    /\ answer' = [answer EXCEPT ![h] = Saved]
    /\ request' = [request EXCEPT ![h] = NoRequest]
    /\ UNCHANGED <<objects, kept>>

\* A save that raises has changed nothing.
Fail(h) ==
    /\ phase[h] = "called"
    /\ phase' = [phase EXCEPT ![h] = "idle"]
    /\ answer' = [answer EXCEPT ![h] = Error]
    /\ request' = [request EXCEPT ![h] = NoRequest]
    /\ UNCHANGED <<objects, kept>>

Fetch(h) ==
    /\ phase[h] = "idle"
    /\ answer' = [answer EXCEPT ![h] = IF Present(objects) = {} THEN Error
                                       ELSE Fetched(Present(objects))]
    /\ UNCHANGED <<objects, kept, phase, request>>

NewValues(h, k) ==
    /\ phase[h] = "idle"
    /\ answer' = [answer EXCEPT ![h] = IF objects[k] = NoValue THEN Error
                                       ELSE Node(objects[k])]
    /\ UNCHANGED <<objects, kept, phase, request>>

\* A handle that goes away or comes back forgets its last answer.
Reopen(h) ==
    /\ phase[h] = "idle"
    /\ answer' = [answer EXCEPT ![h] = NoAnswer]
    /\ UNCHANGED <<objects, kept, phase, request>>

Requests == {r \in [put : Trees, del : SUBSET Keys, message : BOOLEAN] :
                \A k \in r.del : r.put[k] = NoValue}

Next ==
    \E h \in Handles :
        \/ \E r \in Requests : Call(h, r)
        \/ Take(h)
        \/ Return(h)
        \/ Fail(h)
        \/ Fetch(h)
        \/ \E k \in Keys : NewValues(h, k)
        \/ Reopen(h)

Spec == Init /\ [][Next]_vars
=============================================================================
