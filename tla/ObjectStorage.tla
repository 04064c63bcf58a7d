---------------------------- MODULE ObjectStorage ----------------------------
(***************************************************************************)
(* The objects of a store, as blobs of HEAD's tree: saving them with the   *)
(* serialization in use, reading them with the one in use later, and       *)
(* fetching them.  A save is one step here; GitStore has its steps.        *)
(***************************************************************************)
EXTENDS ObjectCodec

CONSTANTS
    EntityOf,     \* reference object -> name of its entity
    Subentities,  \* entity -> the sequence of its direct subentities
    Contents,     \* reference object -> the property values it may get
    HashOrders,   \* the orders in which a dictionary may enumerate its keys
    Printed,      \* what "%c%c%c" may make of the prefix of the tree walk
    Bound,        \* of offsets and limits
    MaxTime       \* bound of the clock

Refs == DOMAIN EntityOf
NoBlob == [format |-> "none"]

\* The values that Core Data lets a property have.
IsContent(c) ==
    /\ c # None /\ DOMAIN c = DOMAIN Property
    /\ \A n \in Attributes :
          CASE Property[n].type = "plain"  -> PlainValue(c[n])
            [] Property[n].type = "date"   ->
                   c[n] = None \/ (c[n] = Date(c[n].t) /\ c[n].t \in DOMAIN Holds)
            [] Property[n].type = "base64" ->
                   c[n] = None \/ (c[n] = Data(c[n].bytes) /\ c[n].bytes \in Seq(Nat))
    /\ \A n \in DOMAIN Property :
          CASE Property[n].kind = "one"     -> c[n] = None \/ \E r \in Refs : c[n] = Ref(r)
            [] Property[n].kind = "many"    -> c[n] \subseteq Refs
            [] Property[n].kind = "ordered" -> c[n] \in Seq(Refs)
            [] OTHER                        -> TRUE

\* Entities form a forest.  A fetch sorts and selects by the property "number".
ASSUME StorageAssumption ==
    /\ ToSet(RefOrder) = Refs
    /\ \A o \in HashOrders : o \in Seq(DOMAIN Property) /\ ToSet(o) = DOMAIN Property
    /\ DOMAIN Contents = Refs /\ \A r \in Refs : \A c \in Contents[r] : IsContent(c)
    /\ \A e \in DOMAIN Subentities :
          /\ Subentities[e] \in Seq(DOMAIN Subentities \ {e})
          /\ IsInjective(Subentities[e])
    /\ Bound \in Nat /\ MaxTime \in Nat
    /\ "number" \in Attributes /\ Property["number"].type = "plain"
    /\ Property["number"].default.is \in {"nil", "number"}
    /\ \A r \in Refs : \A c \in Contents[r] : c["number"].is \in {"nil", "number"}

VARIABLES
    tree,      \* reference object -> its blob
    useJSON,   \* which class entityPersistanceClass is
    now,       \* the clock
    saved      \* auxiliary: the values each object was saved with

vars == <<tree, useJSON, now, saved>>

Init ==
    /\ tree = [r \in Refs |-> NoBlob]
    /\ useJSON = FALSE
    /\ now = 0
    /\ saved = [r \in Refs |-> None]

-----------------------------------------------------------------------------
(* saveRequest: of one object; one that raises stores nothing              *)

SaveMsgPack(r, c, d, order) ==
    /\ ~useJSON
    /\ tree' = [tree EXCEPT ![r] = MsgPackData(d, Among(order, DOMAIN d))]

SaveJSON(r, c, d) ==
    /\ useJSON
    /\ \A n \in DOMAIN d : HasJSON(d[n])
    /\ tree' = [tree EXCEPT ![r] = JSONBlob(d)]

Save(r, c) ==
    /\ \E e \in Enumerations(c) :
          \/ \E order \in HashOrders : SaveMsgPack(r, c, Dictionary(c, e), order)
          \/ SaveJSON(r, c, Dictionary(c, e))
    /\ saved' = [saved EXCEPT ![r] = c]
    /\ UNCHANGED <<useJSON, now>>

\* Mutant: the path of the object is not found in the index and nothing is removed.
DeleteMisses(r) ==
    /\ tree[r] # NoBlob
    /\ saved' = [saved EXCEPT ![r] = None]
    /\ UNCHANGED <<tree, useJSON, now>>

Delete(r) ==
    /\ tree[r] # NoBlob
    /\ tree' = [tree EXCEPT ![r] = NoBlob]
    /\ saved' = [saved EXCEPT ![r] = None]
    /\ UNCHANGED <<useJSON, now>>

SetUseJSON ==
    /\ useJSON' = ~useJSON
    /\ UNCHANGED <<tree, now, saved>>

\* The store is opened again: initWithPersistentStoreCoordinator: sets useJSON.
Reopen ==
    /\ useJSON' = FALSE
    /\ UNCHANGED <<tree, now, saved>>

Tick ==
    /\ now < MaxTime
    /\ now' = now + 1
    /\ UNCHANGED <<tree, useJSON, saved>>

Next ==
    \/ \E r \in Refs : (\E c \in Contents[r] : Save(r, c)) \/ Delete(r)
    \/ SetUseJSON \/ Reopen \/ Tick

Spec == Init /\ [][Next]_vars

-----------------------------------------------------------------------------
(* newValuesForObjectWithID:                                               *)

Objects == {r \in Refs : tree[r] # NoBlob}

\* An object ID: an entity, and a reference object that may begin with what was
\* taken for its prefix.  Its path in the tree is made of all three.
ID(entity, prefix, r) == [entity |-> entity, prefix |-> prefix, ref |-> r]
IdOf(r) == ID(EntityOf[r], "", r)

\* The lookup raises if nothing is at the path (line 303).
Reads(id) ==
    IF id.ref \in Objects /\ id = IdOf(id.ref)
    THEN NewValues(IF useJSON THEN JSONObject(tree[id.ref]) ELSE MsgPackObject(tree[id.ref]),
                   useJSON, now)
    ELSE {Raised}

-----------------------------------------------------------------------------
(* fetchRequest:                                                           *)

Requests ==
    [entity : DOMAIN Subentities, subentities : BOOLEAN, sorted : BOOLEAN, predicate : BOOLEAN]
Windows == [offset : 0..Bound, limit : 0..Bound]

\* collectEntities, of the direct subentities and then of the entity.
Collected(req) ==
    IF req.subentities THEN Append(Subentities[req.entity], req.entity) ELSE <<req.entity>>
InTree(entity) == Among(RefOrder, {r \in Objects : EntityOf[r] = entity})

\* The walk of each tree makes an id of every name in it, with the entity of the
\* request.  The prefix of the walk is empty where the objects lie: the three bytes
\* printed before the name are its NUL and what is behind it (lines 239-240).
Found(req, prefix) ==
    [i \in DOMAIN Collected(req) |->
        LET names == InTree(Collected(req)[i])
        IN  [j \in DOMAIN names |-> ID(req.entity, prefix, names[j])]]

\* The fetch reads the objects to evaluate its predicate, a number above 0, and to
\* sort by number, where nil comes first.
NumberOf(read) == IF read.is = "values" /\ read.of["number"] # None
                  THEN read.of["number"].n ELSE -1
Chosen(req, s, read) ==
    IF req.predicate THEN Among(s, {id \in ToSet(s) : NumberOf(read[id]) > 0}) ELSE s
SortedBy(s, read) ==
    {t \in SetToSeqs(ToSet(s)) :
        \A i, j \in DOMAIN t : i < j => NumberOf(read[t[i]]) <= NumberOf(read[t[j]])}

\* removeObjectsInRange: of the offset, then of what is beyond the limit.
AfterOffset(s, offset) ==
    IF offset # 0 /\ s # <<>> THEN SubSeq(s, Min({offset, Len(s)}) + 1, Len(s)) ELSE s
AfterLimit(s, limit) ==
    IF limit # 0 /\ Len(s) > limit THEN SubSeq(s, 1, limit) ELSE s

\* Mutant: the limit is applied before the offset.
WindowSwapped(s, w) == AfterOffset(AfterLimit(s, w.limit), w.offset)

Window(s, w) == AfterLimit(AfterOffset(s, w.offset), w.limit)

\* The managed objects, in order, that a fetch takes its window of, or that it raises:
\* an entity without objects has no tree, and an object may not be readable.
Fetched(req, prefix, read) ==
    LET found == Found(req, prefix)
        s == FlattenSeq(found)
        t == Chosen(req, s, read)
    IN  IF \/ <<>> \in ToSet(found)
           \/ req.predicate /\ \E id \in ToSet(s) : read[id] = Raised
           \/ req.sorted /\ Len(t) > 1 /\ \E id \in ToSet(t) : read[id] = Raised
        THEN {Raised}
        ELSE {[is |-> "fetched", of |-> u] : u \in IF req.sorted THEN SortedBy(t, read) ELSE {t}}

-----------------------------------------------------------------------------
(* Properties                                                              *)

Formats == {"none", "empty", "msgpack", "json"}

TypeOK ==
    /\ DOMAIN tree = Refs /\ \A r \in Refs : tree[r].format \in Formats
    /\ useJSON \in BOOLEAN
    /\ now \in 0..MaxTime
    /\ \A r \in Refs : saved[r] \in Contents[r] \cup {None}
    /\ \A r \in Refs : saved[r] = None <=> tree[r] = NoBlob

\* A value as it was saved; nil is read as the default, and so is what is transient.
SameValue(n, c, v) ==
    IF n \in Attributes
    THEN v[n] = IF Property[n].transient \/ c[n] = None THEN Property[n].default ELSE c[n]
    ELSE IF Property[n].transient THEN v[n] = None
    ELSE CASE Property[n].kind = "one"     -> v[n] = c[n]
           [] Property[n].kind = "many"    -> v[n] = List(v[n].refs) /\ v[n].refs \in SetToSeqs(c[n])
           [] Property[n].kind = "ordered" -> v[n] = List(c[n])

\* A date is written as the time since the reference date and is read as that time from
\* now (DateAsRelativeTimeIntervalValueTransformer.m, lines 21 and 31).
IsDate(n) == n \in Attributes /\ Property[n].type = "date"
DateRead(n, c) ==
    LET kept == IF Property[n].transient THEN None ELSE c[n]
    IN  Date(now + (IF kept = None THEN 0 ELSE kept.t))

\* Data without a transformer are packed as they are and read behind a mark that they
\* do not have (MsgPackSerialization.mm, lines 148-159 and 36), or as a text if they do.
IsPlainData(n, c) ==
    /\ n \in Attributes \cap Permanent /\ Property[n].type = "plain"
    /\ c[n].is = "data" /\ c[n] # Property[n].default
DataRead(bytes) ==
    LET rest == SubSeq(bytes, 4, Len(bytes))
    IN  IF IsPrefix(BOM, bytes) THEN String(rest) ELSE Data(rest)

ComesBack(r, n, v) ==
    IF IsDate(n) THEN v[n] = DateRead(n, saved[r])
    ELSE IF IsPlainData(n, saved[r])
    THEN Len(saved[r][n].bytes) >= 3 => v[n] = DataRead(saved[r][n].bytes)
    ELSE SameValue(n, saved[r], v)

FormatInUse == IF useJSON THEN "json" ELSE "msgpack"

\* An object is read, now or after the store is opened again, by the serialization it
\* was saved with, and every property with its value, but for two: a date is later by
\* the time of the reading, though transformers are there "to restore the original
\* type" (the comment at line 315), and data without a transformer are short of their
\* first three bytes, if they have as many, though MsgPackSerialization "can store
\* NSData as well" (MsgPackSerialization.h, line 16).  By another serialization, or if it
\* holds what MsgPack has no form for, an object is never read with values: it raises or
\* has none (lines 116-167, 299-330).
ReadBack ==
    \A r \in Objects :
        LET reads == Reads(IdOf(r))
        IN  IF tree[r].format = FormatInUse
            THEN /\ \E v \in reads : v.is = "values"
                 /\ \A v \in reads \ {Raised} :
                        v.is = "values" /\ \A n \in DOMAIN Property : ComesBack(r, n, v.of)
            ELSE reads \subseteq {Raised, Nothing}

\* The same values make the same blob, so that nothing changes in the commit: the
\* order in which relationships and dictionaries are enumerated does not show in
\* MsgPack (the comments at lines 152 and 158).
SameValuesSameBlob ==
    [][\A r \in Refs :
          saved'[r] = saved[r] /\ tree'[r].format = tree[r].format => tree'[r] = tree[r]]_vars

\* The ids of what a request asks for, as the fetch makes them, and how each of them
\* may be read.
Asked(req, prefix) ==
    {ID(req.entity, prefix, r) : r \in {o \in Objects : EntityOf[o] \in ToSet(Collected(req))}}
Readings(ids) ==
    LET reads == [id \in ids |-> Reads(id)]
    IN  {f \in [ids -> UNION Range(reads)] : \A id \in ids : f[id] \in reads[id]}

\* The number an object was saved with, where nil is the default.
SavedNumber(r) ==
    LET property == Property["number"]
        v == IF property.transient \/ saved[r]["number"] = None
             THEN property.default ELSE saved[r]["number"]
    IN  IF v = None THEN -1 ELSE v.n

\* Which of the ids asked for are those of objects, and how they are read.
IdsRead(req, prefix, read) ==
    \A id \in Asked(req, prefix) :
        IF EntityOf[id.ref] = req.entity /\ prefix = ""
        THEN read[id].is = "values" => NumberOf(read[id]) = SavedNumber(id.ref)
        ELSE read[id] = Raised

\* A fetch answers one id for each object of the entity and of its direct subentities
\* that is read as satisfying the predicate, no more than the limit, those after the
\* offset in the order of the numbers; and it raises only where an entity has no object
\* or an id cannot be read (lines 219-260).  An id is that of the object, and is read with
\* what the object was saved with, if the object is of the entity of the request and
\* the three bytes show as nothing.  Any other id is of nothing that is stored: those of
\* subentities (line 240), and all of them where the bytes show, since there is no prefix
\* for "undo the prefix/hash" (the comment at line 239) to undo.
FetchExact ==
    \A req \in Requests, prefix \in Printed :
        LET asked == Asked(req, prefix)
        IN  \A read \in Readings(asked) :
            LET match == {id \in asked : req.predicate => NumberOf(read[id]) > 0}
                below(n) == Cardinality({id \in match : NumberOf(read[id]) < n})
                upTo(n) == Cardinality({id \in match : NumberOf(read[id]) <= n})
            IN  /\ IdsRead(req, prefix, read)
                /\ \A f \in Fetched(req, prefix, read) :
                      IF f = Raised
                      THEN \/ \E e \in ToSet(Collected(req)) : \A r \in Objects : EntityOf[r] # e
                           \/ \E id \in asked : read[id] = Raised
                      ELSE \A w \in Windows :
                               LET got == Window(f.of, w)
                                   rest == Max({0, Cardinality(match) - w.offset})
                               IN  /\ ToSet(got) \subseteq match
                                   /\ IsInjective(got)
                                   /\ Len(got) = IF w.limit = 0 THEN rest ELSE Min({w.limit, rest})
                                   /\ req.sorted => \A i \in DOMAIN got :
                                          LET n == NumberOf(read[got[i]])
                                          IN  below(n) < w.offset + i /\ w.offset + i <= upTo(n)
=============================================================================
