# Verification of GitIncrementalStore

GitIncrementalStore is an `NSIncrementalStore`: a Core Data store that keeps
managed objects as blobs in the tree of a git repository, and every save as a
commit. This directory holds TLA+ modules of the parts that carry its logic, the
TLC configurations that check them on small instances, and proofs for TLAPS.

Line numbers below are those of `src/GitIncrementalStore/GitIncrementalStore.m`
unless another file is named.

## 1. The system

| Component | State it keeps | Operations | Talks to |
|---|---|---|---|
| **Store** `GitIncrementalStore.m` | one `git_repository` handle; on disk HEAD's branch, git's index file, the packs | `initWithPersistentStoreCoordinator:` (394), `executeRequest:` (332), `saveRequest:` (99), `fetchRequest:` (207), `newValuesForObjectWithID:` (287), `metadata` / `setMetadata:` (377), `dealloc` (455) | libgit2, the LMDB backend, MsgPackSerialization |
| **LMDB backend** `lmdb_transactional_backend.cc` | one LMDB environment, the transaction `backend->txn` | read, read_header, write, exists, foreach; begin, commit, rollback | called by libgit2's object database and, for transactions, by the store |
| **Object codec** `GitIncrementalStore.m:48-88, 116-167, 299-330`, value transformers | which serialization is in use | property dictionary ↔ blob | MsgPackSerialization |
| **Fetch pipeline** `GitIncrementalStore.m:219-282` | – | tree walk, predicate, sort, offset, limit, result type | git trees, the codec |
| **MsgPackSerialization** `MsgPackSerialization.mm` | – | property lists ↔ MessagePack | MsgPack packer and unpacker |
| **MsgPack unpacker** `unpack_template.h` | a stack automaton that can stop at any byte | `template_execute` | callbacks that build objects |
| **MsgPack streaming unpacker** `unpack.c` | a reference-counted buffer, the zone of the message being parsed | init, reserve, feed, next, release zone, destroy | `template_execute`, the client |
| **MsgPack zone** `zone.c`, `zone.hpp` | a list of chunks, an array of finalizers | malloc, push finalizer, allocate, swap, clear, destroy | unpacker, adaptors |
| **MsgPack buffers** `vrefbuffer.c`, `sbuffer.h`, `zbuffer.h` | growing output buffers | write, append, migrate, flush, release, clear | the packer |
| **MsgPack packer** `pack_template.h`, `objectc.c` | – | shortest encodings | a buffer |
| **MsgPack type adaptors** `type/*.hpp` | the variable that is converted to | `operator>>`, `operator<<` | objects, packer, zone |
| C++ wrappers, application, unit tests, build files | – | – | – |

**Where it is hard.** A save is a dozen calls into libgit2. Some act on a
transaction (objects written to LMDB), some on files at once (the index file, the
branch that HEAD names, the pack). The transaction is *always rolled back*: the
pack is what makes a save durable. Between any two calls the process may die,
another store on the same repository may run, or a call may fail and raise. State
is read before the lock and used after it (HEAD, the index). In the backend every
call opens a transaction of its own below, or beside, the store's, and each of its
error paths must end it. The parser may stop between any two bytes and must go on
as if it had not. In the streaming unpacker the objects returned point into the
buffer that goes on being filled, rewound, grown and replaced. The output buffers
and the zone hand memory from one owner to another, and any allocation may fail in
the middle of it.

**What makes each part correct.**

* Store: a save that returned stays stored and reachable; a save takes effect
  entirely, once, and with its own changes only; user commits are never dropped
  and autosaves never pile up; HEAD, the index file and the cached index agree;
  a request returns.
* Codec and fetch: what is read is what was saved, equal values make equal blobs, a
  fetch answers exactly what was asked. The code does so for most values and for some
  fetches; where it does not, section 3 says.
* Backend: one writer; objects of a transaction are private and are committed
  together or not at all; an answer is true for what the call could see; no call
  leaves a transaction behind.
* Parser and packer: what was packed is delivered, however the bytes are cut; an
  integer converts to a type exactly or raises.
* Streaming unpacker: no byte of the stream is lost, repeated or moved; objects
  stay valid as long as their zone; every count is given back once; every
  message is delivered.
* Buffers: the bytes of the writes that succeeded, in order, whatever failed.
* Zone: pieces never overlap; a finalizer runs for exactly the objects built.
* Adaptors: a variable holds the message received last and nothing else, as far as
  its type promises that; packing a value, or the object made of it, is the same.

`PROJECT.json` lists the hazards one by one, at their lines, with the properties
that cover them.

## 2. The modules

| Module | Models | Role |
|---|---|---|
| `ManagedObjectStore` | – | what a client of the store is promised: a map of objects, the sequence of user commits, requests that take effect at one instant |
| `GitStore` | `GitIncrementalStore.m` with libgit2 and the LMDB lock | the store; any number of handles |
| `MCGitStore` | – | instances for TLC, the refinement mapping to `ManagedObjectStore` |
| `GitStoreProofs` | – | theorems about `GitStore`: for any number of handles, then for one, and the refinement of `ManagedObjectStore` |
| `ObjectCodec` | 116-167, 299-330, `MsgPackSerialization.mm`, the value transformers | property values ↔ blobs, in both serializations |
| `ObjectStorage`, `MCObjectStorage` | `saveRequest:`, `newValuesForObjectWithID:`, `fetchRequest:`, `setUseJSON:` | objects saved, read and fetched over time |
| `ObjectStorageProofs` | – | theorems about `ObjectStorage` and `ObjectCodec` |
| `WriteTransactions` | – | what the backend promises: atomic, isolated write transactions |
| `LmdbBackend`, `MCLmdbBackend` | `lmdb_transactional_backend.cc` with LMDB | the backend; any number of handles |
| `LmdbBackendProofs` | – | theorems about `LmdbBackend` |
| `MsgPackFormat` | the callbacks of `unpack.c`, the tables of `unpack_template.h` | what one header, or the bytes after one, stand for |
| `MessageParse` | – | what the parser promises: the messages of a stream that is there at once |
| `MsgPackParser` | `unpack_template.h`, `msgpack_unpacker_next`, `msgpack_unpack`, `msgpack_unpack_next` | the automaton, label by label, resumed or begun again |
| `MsgPackParserProofs` | – | theorems about `MsgPackParser` and `PackedStreams` |
| `MsgPackPack` | `pack_template.h`, `type/int.hpp` | the form each function packs a value in; integer conversion |
| `MsgPackPackObject` | `objectc.c` | `msgpack_pack_object`, which recurs on the depth of an object |
| `PackedStreams`, `MCPackedStreams` | – | packer and parser composed; streams for TLC |
| `Unpacker`, `MCUnpacker` | `unpack.c`, `unpack.h`, the finalizers of `zone.c` | the streaming unpacker's memory |
| `UnpackerProofs` | – | theorems about `Unpacker` |
| `WriteBuffer` | – | what a buffer promises: a sequence of bytes |
| `VrefBuffer` | `vrefbuffer.c`, `vrefbuffer.h` | the buffer of references |
| `VrefBufferProofs` | – | theorems about `VrefBuffer`, and its refinement of `WriteBuffer` |
| `SBuffer`, `ZBuffer` | `sbuffer.h`, `zbuffer.h` | the plain and the compressing buffer |
| `Zone` | `zone.c`, `zone.h`, `zone.hpp` | chunks, pieces and finalizers |
| `Library` | – | sbuffer, zbuffer and zone side by side: their constants and what is claimed of them |
| `LibraryProofs` | – | theorems about `SBuffer`, `ZBuffer` and `Zone` |
| `TypeAdaptors` | `type/*.hpp`, `object.hpp` | conversion, packing and objects of C++ types |
| `MCLibrary` | – | instances of `VrefBuffer`, `Library` and `TypeAdaptors` |
| `SetInduction` | – | induction on the natural numbers, stated with sets; the laws of sequences that the proofs share |

Operators whose comment begins with *Bug for comparison* or *Mutant* are not used
by any specification. Each is a plausible mistake in one definition; with it in
place of that definition the named property is violated (`PROJECT.json`,
"mutants").

### GitStore

A *handle* is one `GitIncrementalStore`, in a process of its own or not. Shared,
on disk: `repo`, `head`, `indexFile`, `packed`, and the ghost sequence `commits`,
which gives every commit ever created a number. Shared, in LMDB: `writer` and
`txn`, the lock and the uncommitted objects. Per handle: `pc`, the libgit2 call it
makes next; `req`, `base` (the HEAD it read), `index` (the `git_index` that the
repository handle caches), `new`, and `answer`.

| Action | Code |
|---|---|
| `OpenExisting`, `OpenMissing` | `git_repository_open` succeeds or not, 405-408 |
| `InitRepo`, `InitBegin`, `InitCommit`, `InitPack`, `InitRollback` | creating the repository, 409-449 |
| `SaveStart`, `LoadIndex`, `BeginTxn` | HEAD, its commit and the index are read, then the lock is taken, 101-114 |
| `UpdateIndex`, `WriteTree`, `WriteIndex` | blobs, deletions, the tree, the index file, 116-176 |
| `CreateCommit` with `ParentOf` | the choice of the parent and `git_commit_create`, 178-191 |
| `WritePack`, `PackMissesObject`, `Rollback` | 193-204 |
| `Throw` | `throw_if_error` after any call that fails, 90-94 |
| `Fetch`, `NewValues` | 207-282 and 287-330, as far as which objects and which blob |
| `Release`, `Crash` | `dealloc` and the backend's destructor; the death of the process |

Data: a managed object is a key, a property dictionary a value, a tree a function
from keys to values. All keys belong to one entity. Timestamps, wording and the
order in a tree are left out. An exception while the repository is created leaves
the initializer, so it is the same as a crash there and is not a step of its own.

What libgit2 and LMDB do is taken from how the code uses them (external): the
index of a repository handle is read from its file once; `git_index_write_tree`
does not ask whether blobs exist; `git_commit_create` with `"HEAD"` moves the
branch without comparing it with the parent; the pack builder takes the commit,
its tree and its blobs and fails if one cannot be read; writing a reference, an
index file or a pack is atomic; `git_repository_init` changes nothing in a
repository that exists; freeing the repository frees the object database and the
backend. LMDB gives the write lock to one transaction at a time, makes a second
begin wait, also in the same thread, and drops the transaction and the lock of a
process that dies.

### LmdbBackend

Shared: `env` (committed objects) and `writer` (LMDB's lock). Per handle: `inTxn`
and `txn` (`backend->txn` and what was written in it), `child` and `reader` (the
transactions calls open below it or without it), the `call` in progress with its
snapshot, the keys `foreach` has `visited`, the last `result`. A call is made
(`Invoke`), begins its transaction (`BeginChild`, `BeginReader`, `BeginWriter`,
`BeginFails`) and ends (`Get`, `Put`, `ForeachEnds`, `CursorFails`), so that other
handles commit in between. `foreach` visits its keys one step at a time, in any
order, and its callback may call the backend (`CallbackFails`, `CallbackWrites`).
`Failed` is what a call that could not be made tells libgit2: `exists` has no
status for that and says the object is there (lines 123 and 131 of
`lmdb_transactional_backend.cc`). `atCall` is auxiliary.

### ObjectCodec and ObjectStorage

`ObjectStorage` keeps the blob of every object (`tree`), which serialization is in
use (`useJSON`), the time (`now`) and, as an auxiliary variable, what each object
was saved with. `Save` is one object of `saveRequest:`: its dictionary (`Dictionary`,
one `Entry` per property, with an order for each unordered relationship) and its
blob, by `SaveMsgPack` or `SaveJSON`. `Delete`, `SetUseJSON` and `Reopen` are the
other ways the state changes. `Reads` and `Fetched` are the two requests that read;
they change nothing and are operators, quantified over in the properties.

An object ID (`ID`) is an entity and a reference object, which is the name of the object
in the tree, or that name behind something else. `Found` are the ids that a fetch makes:
with the entity of the request (240), and with what `"%c%c%c"` prints of the walk's prefix
before the name (239). Objects lie directly in the tree of their entity, so the prefix is
the empty string, and what is printed are its terminator and the two bytes behind it.
`Printed` is the set of what that may show as; `""` is nothing, the case in which the id
has the name as its reference object. `Reads` raises unless an id is that of an object of
the tree (`IdOf`).

`ObjectCodec` has the values. A number is an integer and `Holds` says which of
`CFNumber`'s conversions keep it, so that `NumberForm` takes the same branch as
`-[NSNumber msgPack]`. Data are bytes, and a string is told from data by its mark
(`BOM`), as in the source. A dictionary enumerates its keys in any of `HashOrders`. A
serialization that fails is an empty blob; one that raises stores nothing. What
`NSJSONSerialization`, `NSPredicate` and sorting do is external: of JSON, which values
it has a form for and that an empty blob has none; a predicate and a sort are one
of each, by the number of an object.

### MsgPackParser

One action per label of `template_execute`: `Execute` (the locals are loaded),
`Header`, `Trail`, `Push`, `HeaderAgain`, `Finish`, `Failed` and `Out`, where the
context is `Saved` and the caller takes over. `stack` is shared between the context
and the locals, as in the code. `api` is which of the three callers is used:
`msgpack_unpacker_next` resumes, `msgpack_unpack` and `msgpack_unpack_next` begin
again with a context of their own, after a client that takes the offset back
(`GoBack`). `Feed` appends any number of bytes. The branches for a callback that fails
(`unpack_template.h:142`) are left out, since none does: a zone whose allocation fails writes
through the null pointer before it could say so (`zone.c:84-89`), which is a fault in `Zone`.

`HeaderCell` and `TrailCell` of `MsgPackFormat` are the switches of the header byte
and of the bytes that follow. Integers are their eight bytes, most significant
first, so that the widths of the code show: `Widened` extends by sign or by zero.

`MessageParse` is the same parse without calls: `Take` a cell, `Place` an object in a
container, `Deliver`. `MsgPackParser!Whole` maps the one to the other; `Position` says
which byte a parse that had them all would be at.

### MsgPackPack

Operators, one per packing function, from eight bytes to the bytes that are
appended, with the comparisons of the macros (`Below`, `BelowMinus`). `pack_cint` and
`pack_unsigned_cint` choose by the size of the C type. `convert_integer` is that of
`type/int.hpp`. The recursive `msgpack_pack_object` is in `MsgPackPackObject`, so that
theorems may use the rest.

### PackedStreams

A *packing* is an object as a program packs it: its value, the packings of its parts,
the head, one of all those the packing functions choose for such a value (`Heads`), the
cells that are appended, and how many places of the stack it needs. `WellPacked` says
when the fields agree. `Packings` and `Sent` (sequences of packings) are constants, and
the streams are the bytes of `Sent` (`PackedAssumption`), so that the depth of an object is
that of its packings and no definition recurs. `MCPackedStreams` builds packings for TLC.
`PackObjectAssumption`, which TLC evaluates, says that those with the heads of
`msgpack_pack_object` have the bytes it writes.

### Unpacker

`heap` maps addresses to buffers (count, size, bytes), `zones` to zones (how often
each gives back each buffer). The fields of `msgpack_unpacker` are variables of
their own; `cell` and `raws` are its parser context; `result` is the client's
`msgpack_unpacked`, `kept` the objects whose zone it took over. Addresses are
reused as soon as they are free, and `realloc` may move the buffer, so that a
dangling pointer shows. The stream is a sequence of cells, what `template_execute`
consumes at once or not at all; bytes are known by their position. Reserving is
`Rewind`, `Grow`, `GrowFails` or `Replace`, the branches of
`msgpack_unpacker_expand_buffer`; taking an object is `NextReturnsFalse`,
`NextReturnsObject` or, when `release_zone` fails, `NextReturnsBare`. The client
may free what it kept at any time, as another thread would.

### VrefBuffer, SBuffer, ZBuffer, Zone

Memory is addresses from a small set, used again as soon as they are free, so that a
dangling reference shows; every `malloc` and `realloc` may fail.

* `VrefBuffer`: `vbuf` are the fields of `msgpack_vrefbuffer`, `heap` the bytes of each
  chunk. A write is `WriteRef`, `CopyInChunk` or `CopyInNewChunk`; `Clear`, `Renew` and
  `Migrate` are the other operations. A `memcpy` outside of its memory sets `overrun`, to
  `"write"` at line 146 and to `"migrate"` at line 173; after that the buffers do nothing
  more.
* `SBuffer`: `Write` with the doubling loop, `Release`, after which the client owns the
  block and may `Free` it, `Clear`.
* `ZBuffer`: `deflate` is a step that reads some of its input and puts out some of what
  is pending; zlib's promise to lose nothing is external. `Write` and `Flush` are loops
  (`WriteRound`, `FlushRound`, `FlushExpand`) that may end at each round.
* `Zone`: `Malloc`, `PushFinalizer`, `Allocate` with a constructor that may throw (what
  it builds is a C++ object, so its size is not 0), `Clear`, `Renew`, `Swap`. `fault` is
  memory used that is not there: the null of an unchecked `malloc` (`zone.c:84`) and a
  list of more than one chunk that is cleared (`zone.c:60`).

### TypeAdaptors

A type is a record, a value a sequence, a tuple or a number. `Convert` is
`operator>>`, with the value it leaves when it raises in the middle; `AsObject` is
`operator<<` to an object and `Pack` that to a packer. A variable of one of `Types`
receives one of `Messages` after the other. The sets and maps of the standard library
are external (`Inserted`): sorted, or in any order for those of tr1.
`tuple.hpp` and `define.hpp` spell one template out for 0 to 32 members; here the
members are a sequence.

## 3. The checks

Every run lists its properties in `PROJECT.json`. States are distinct states.

| Run | Instance | Shows |
|---|---|---|
| `save` | one handle, 2 keys, 2 values, 4 commits, nothing fails (0.5 M) | `IndexAgreesWithHead`; `KeepsPromise`: the store implements `ManagedObjectStore`; `SaveReturns` |
| `faults` | one handle, 2 keys, 1 value, 4 commits, every call may fail, 2 crashes (3.3 M) | `AckedDurable`, `HistoryDurable`, `OnlyUserCommitsBelow`, `UserCommitsKept` |
| `two` | two handles, 1 key, 4 commits, nothing fails (0.5 M) | `HeadDurable`, `BlobLookupDefined`, `LockReleased` |
| `objects` | 4 objects of 3 entities, 8 properties, 2 serializations, 2 times (10 k) | `ReadBack`, of every property; `FetchExact`, of every id as the fetch makes it; `SameValuesSameBlob` |
| `backend` | two handles, 2 objects; every LMDB call may fail on one, writes and commits on the other (175 k) | `NothingLeaks`, `ReadsSucceed`, `AnswersAreTrue`; `KeepsTransactions`: the backend implements `WriteTransactions` |
| `parser` | 162 streams, cut anywhere, 3 callers, a stack of 2 (50 k) | `DeliversWhatWasPacked`, `WholeCells`, `ConvertsExactly`; `SameAsWhole`: the parser implements `MessageParse`; `AllDelivered` |
| `unpacker` | a stream of 3 messages and a bad byte, 4 buffers, 4 zones, every allocation may fail (73 k) | `RawsIntact`, `CountsExact`, `WindowExact`, `MessagesDelivered` |
| `library` | 2 vrefbuffers, an sbuffer, a zbuffer, 2 zones, variables of 28 types and 27 messages (161 k) | `HoldsWhatWasWritten`, `ChunksOwnedOnce`, `RoomIsThere`; `SBufferAppends`, `SBufferReleasedIntact`; `ZBufferFlushedIsWritten`; `ZonePiecesApart`, `ZoneFinalizersMatch`; `VariableReceived`, `VariablePacksAsObject` |

`TypeOK` of a module is a theorem or is checked by its run.

Four runs show a disagreement between the code and what a comment or a test says; each
is expected to find a violation, and is explained under "findings".

| Run | What happens |
|---|---|
| `unpackedhead` | A process dies after HEAD moved and before the pack is written. HEAD names a commit that was only in the transaction. |
| `leakedtxn` | A save raises, its transaction stays open, and the next save on the handle waits for it for ever. |
| `lostupdate` | Two stores read the same HEAD before either has the lock; the second save drops the first one's user commit. |
| `resurfacing` | A save that died after the index file was written is committed by the next save. |

In the serializations and in fetches, what the code does differs from what is said of it
in four more places. There the properties say what the code does:

* A date is written as the time since the reference date and read as that time from now
  (`DateAsRelativeTimeIntervalValueTransformer.m:21`, 31), while transformers are there "to
  restore the original type" (`GitIncrementalStore.m:315`). `ReadBack`: it comes back later
  by the time of the reading (`DateRead`).
* `MsgPackSerialization` "can store NSData as well" (`MsgPackSerialization.h:16`); data are
  packed without a mark (`.mm:148-159`) and read from the fourth byte on (`.mm:36`).
  `ReadBack`: data without a transformer come back without their first three bytes, and as
  a text if these are the mark of one (`DataRead`); of fewer than three bytes, where the
  length wraps, nothing is claimed.
* A fetch that includes subentities makes ids with the entity of the request
  (`GitIncrementalStore.m:240`); a fetch by id is expected to find its object
  (`GitIncrementalStoreTests.mm:95-100`). `FetchExact`: an id with another entity than that
  of the object is the id of nothing that is stored (`IdsRead`).
* Line 239 is to "undo the prefix/hash" that lies before the name, and there is none: the
  three bytes are the terminator of an empty string and what is behind it. `FetchExact`:
  unless they show as nothing, every id is that of nothing stored. `Printed` has both cases.

Two more consequences of the code are in the model and limit what is claimed: a
process that dies between `git_repository_init` and the initial commit leaves a
repository that every later open accepts (405) and none completes; and a commit
request whose email is the bundle identifier is taken for an autosave and
over-written (182), so the runs give users another email.

The runs with failures and crashes claim less than the ones without, on purpose:
`HeadReadable` and `SavesOnlyItsChanges` do not hold with crashes, `SaveReturns`
not with failures, and `UserCommitsKept` and `IndexAgreesWithHead` not with two
handles, since saves overlap and since two handles may both create the repository,
the second initial commit replacing HEAD. What remains true then (`AckedDurable`,
`HistoryDurable`, `OnlyUserCommitsBelow`) is checked there and proved in general. In
the same way `NothingLeaks` and `ReadsSucceed` speak of a handle on which neither
`mdb_cursor_open` nor `mdb_dbi_open` fails (lines 106 and 161 return with a
transaction open) or no read fails, whatever fails on the others; nothing
is promised of a vrefbuffer after an overrun, of a zone after a fault, or of a
zbuffer after a write that failed. The hazards at these lines have no property in
`PROJECT.json`, but a note.

`UserCommitsKept` is about the parents that saves choose. `commits` remembers every commit
ever created, also one that a crash left in no pack, so in `faults` it does not say that the
history can be read; `HistoryDurable` does, of what is packed, and `unpackedhead` shows what
a HEAD that is not packed leads to.

**Bounds.** `MaxCommits` bounds the commits, the initial one included: 4 leaves
three saves, enough for an autosave over an autosave over a user commit, in each
order, and for a save after a save that failed or died. `MaxCrashes = 2` lets a
process die again in the repair of the first death. Two keys tell "the changes of
this save" from "everything"; two values tell an update from an insertion. A
request may put any tree and delete any other keys, also those that are not there.
Two handles suffice for every overlap of two saves, two creations, or a save and a
creation. In `LmdbBackend` two objects tell a snapshot from the present, and two
handles a reader from a writer.

In `objects` one object gets every kind of value in every property and the others
numbers, so that sorting, predicates and windows have something to tell apart; a
value's round trip does not depend on the other objects. An entity and its direct
subentities have at most three objects, and fewer in most states, so that with
`Bound = 2` an offset lies before, at and beyond the end, and a limit too.

In `parser` the integers are those at the edge of a form, on both sides, in every
form of every type that holds them; the containers are up to one level deeper than
the stack, which is 2 for 32; the pairs of messages have a bad one in either
place. Every message is fed in every cutting of its bytes.

In `Unpacker` the first buffer holds one byte, so that every branch of the expansion
is taken; the stream has a raw in the middle of a message, a raw at its end and a
message without one. `Buffers` and `Zones` bound how many are alive at once: each of
the 2 raws can pin one buffer, each message one zone, and one more of each is needed.

In `library` the chunk sizes and writes are such that a write is shorter than what is
free, as long, longer, and longer than a chunk, and the two vrefbuffers have different
chunk sizes; three chunks let a migration meet an allocation that fails. The parts
share nothing, so a behaviour uses one of them, chosen at the start.

**Deadlock** is not checked in the `GitStore` runs with failures or two handles: a
handle may have reached `MaxCommits`, and a handle whose failed save left its
transaction open really does hang (`leakedtxn`). Nor in `unpacker`, where the client
is done once everything is destroyed; in `parser`, where the stream ends; in
`library`, where a buffer that was overrun does nothing more.

**Fairness.** `GitStore!FairSpec` has weak fairness of `Step` per handle: a thread
inside a request makes its next call. There is none for making a request, failing
or crashing, so a lock held by a handle whose save raised stays held.
`Unpacker!FairSpec` has weak fairness of reserving, feeding and taking, the loop of
`src/MsgPack/test/streaming_c.cc:37-52`; the client need never free an object.
`MsgPackParser!FairSpec` is weak fairness of the parser's own steps and of the client
that begins again, and strong fairness of reading bytes, because between two reads the
parser runs and reading is disabled. Liveness is claimed only with these.

## 4. The proofs

Everything below is proved for every value of the constants; the only assumption is the
module's own (`ConstantsAssumption`, `BackendAssumption`, `ParserAssumption`,
`PackedAssumption`, `VrefAssumption`, `UnpackerAssumption`, `LibraryAssumption`,
`CodecAssumption` with `StorageAssumption`). It says what the constants are, that null
values are not members of the sets they stand beside, and that a size the code doubles
is not 0. Of the objects it says what Core Data guarantees (`IsContent`: the values a
property of each kind may have, and that its default is one of them), that no two names
or identifiers compare equal, that an entity is not below itself, and that the property
a fetch selects and sorts by is a number or absent.

**GitStore** (`GitStoreProofs`), for any number of handles. `TypeCorrect`: `Spec =>
[]TypeOK`. `Durability`: `Spec => []AckedDurable`. `HistoryKept`: `Spec =>
[]HistoryDurable`. `AutosavesOverwritten`: `Spec => []OnlyUserCommitsBelow`. None of
these is inductive. `TypeOK` needs `StepsKnow`: which of `base`, `index`, `new`, `req` a
handle has at which `pc`. The durability of what was acknowledged needs to be known
before the acknowledgement: `DurabilityInv` adds

* `LockHeld`: a handle between begin and rollback is the writer, so the objects of
  `txn` are its own;
* `PackedKnown`: packs and transaction hold only commits that exist;
* `BaseStored` and `ParentStored`: the HEAD a save stands on, once it holds the
  lock, and the parent of the commit it creates, are packed. This is where the
  order of the calls matters: HEAD is looked up before the lock is taken, and
  outside of the transaction only packs can be read. The one exception before the
  lock is a handle whose earlier, failed save left its transaction open: it may
  read through that, but the lock is then its own and the save never gets it;
* `PackWritten`: a handle about to roll back has its commit's closure in a pack.

The steps that write are in lemmas of their own (`DurabilityCommit`,
`DurabilityPack`); all others change none of the variables these facts are about
(`DurabilityQuiet`). A commit record once appended never changes (`AppendCommit`).

Two theorems are about handles that race while no call fails and nobody dies
(`Undisturbed`; with crashes both are false, as the run `unpackedhead` shows).
`HeadIsDurable`: `[]HeadDurable`. `BlobLookups`: `[]BlobLookupDefined`. The invariant
follows the blobs: those of the index file and of every cached index are packed or are
those of the save that holds the lock (`IndexStored`), that save has everything it
will pack in its transaction (`CommitComplete`), so its pack is whole (`PackFindsAll`),
and HEAD is packed or the one who moved it is about to pack it (`HeadStored`).

**One handle** (`GitStoreProofs`, second part). An application opens one store per
repository, in one process (`OneHandle`), and commits under the address of its user:
`AppEmail`, the bundle identifier, marks the store's own saves (`OwnAddress`). Under
these hypotheses:

* `UserCommitsStay`: `Spec => []UserCommitsKept`, and `SavesKeep`: no save drops a user
  commit on the way, whatever fails or dies. `OrderInv`: a save stands on HEAD until it
  moves it, and the repository is created before anything is saved. `KeptInv`: with
  `UserCommitsKept`, a commit of a commit request is under another address than
  `AppEmail`, so that no later save takes it for an autosave. `Ancestors` is an
  intersection of sets closed under "parent", so that these proofs need no induction.
* `IndexesAgree`: `[]IndexAgreesWithHead`, and `SavesOnlyChanges`: a commit is its base
  with its own request's changes, as long as nothing fails (`Undisturbed`). `AgreeInv`
  says at every call which of the index file, the cached index and HEAD's tree are
  ahead of which.
* `StoreKeepsPromise`: `Spec => KeepsPromise`, the refinement of `ManagedObjectStore`.
  A save takes effect at `CreateCommit`; all else is a stutter, a request or an answer
  (`PromiseStep`). The user commits the abstract store keeps are computed along the
  parents of HEAD by a recursive function; that it exists and satisfies its
  equation is proved by `NaturalInduction` (`KeptOfDef`), and that a longer log gives the
  same values for the commits that were there. `PromiseInv` adds that all of HEAD can
  be read by the handle when it answers (`RestReads`).

That the hypotheses are needed is what the runs `lostupdate` (two handles), `resurfacing`
and `unpackedhead` (a crash) show. They are hypotheses of the theorem and not of the
specification: the runs have instances with and without them.

**ObjectStorage** (`ObjectStorageProofs`), for any properties, entities, objects, values
and enumeration orders, and whatever the prefix is printed as. `TypeCorrect`: `Spec =>
[]TypeOK`. `SameValuesMakeSameBlob`: `Spec => SameValuesSameBlob`. `WhatIsSavedIsRead`:
`Spec => []ReadBack`. `FetchesAreExact`: `Spec => []FetchExact`. One invariant carries
all four: `BlobsMade`, that each blob is what a save made, in some serialization and
some enumeration order, of the values the object was saved with. What remains is about
operators.

* *Writing.* An enumeration order disappears where the code sorts: the members of a
  relationship come out the same whatever order they came in (`SortedMembers`,
  `SameDictionary`), and so do the keys (`SamePacking`).
* *Reading.* Each form a value other than plain data is packed in is unpacked to the
  value, a string told from data by its mark (`EntryUnpacked`); the pairs come back as
  the dictionary (`PackingRead`); and each property of the dictionary, or the default of
  one that was left out, is the value saved (`DictionaryRestores`, with one lemma for
  each kind of property); a date is later by the time of the reading (`DateRestored`) and
  plain data lose their first three bytes (`DataUnpacked`); together they are the object
  (`BlobsReadBack`). A blob of the other
  serialization is refused (`OtherFormatRead`).
* *Fetching.* The walk over the trees of an entity and its subentities finds each object
  once, and makes ids that differ where the objects do (`TreeIds`, `AllFound`,
  `SameIds`); which of them are those of objects, and how these are read, is `AskedReads`.
  `WindowIs` is what offset and limit leave. An object is in the window when
  the number of objects before it, its rank, says so (`RankOf`), and a sorted sequence
  has one order of ranks.

`Among`, the elements of a sequence that are in a set, is a recursive function; that it
exists and lists those elements in their order is proved by induction (`AmongElements`).

**LmdbBackend** (`LmdbBackendProofs`). `TypeCorrect`. `KeepsTheTransactions`: `Spec
=> KeepsTransactions`, by step simulation; the invariant `LockHeld` says that a
write transaction, the handle's or a call's own, holds the lock and that nothing
is left of one that ended. `NoLeaks`: `Spec => []NothingLeaks`, from `InUse`, which also
says what is open during a call. `TrueAnswers`: `Spec => AnswersAreTrue`, from
`SeesWhatIsThere`: while a call runs, what was there when it was made is in its
snapshot, and its snapshot is still there. `ReadsGoThrough`: `Spec => ReadsSucceed`, from
`InUse`: the begin of a call finds neither a child nor a reader in its way.

**MsgPackParser** (`MsgPackParserProofs`), for every stream, cutting, caller and stack
size. `TypeCorrect`: `Spec => []TypeOK`; the stack's bound depends on the frames below
`top` and on what each `cs` says about `trail`. `DeliversTheWhole`: `Spec => SameAsWhole`,
the refinement of `MessageParse`. Each label maps to a step or a stutter (`TakesRefines`,
`StepRefines`); what makes it go through is that the context saved at `Out` and the
locals loaded at `Execute` agree (`IInv`), and that after bytes that were refused a
context can only refuse them again (`Refusal`, `Hopeless`).

**PackedStreams** (the rest of `MsgPackParserProofs`), for any packings, nested however,
and the same streams, cuttings, callers and stack sizes. `DeliversPackings`: `Spec =>
[]DeliversWhatWasPacked`. `IntegersConvert`: `Spec => []ConvertsExactly`.
`StopsBetweenCells`: `Spec => []WholeCells`. The argument has four parts.

* *What a head stands for.* `IntegersRead`: from each form in which each function packs an
  integer, the parser's tables read that integer: the tests of the macros are bounds on
  its bytes (`BelowBytes`, `BelowMinusBytes`), and what they leave out is what `Widened` puts
  back. `HeadsRead`: likewise for each head of each object.
* *Where a parse is.* `Progress`: for each container on the stack there is the packing it
  comes from, the number of its parts that are parsed, and the cells that follow it
  (`Levels`); the next byte is the first of a packing, of a cell inside of one, or comes
  after one that is about to be put into its container (`Stands`). That a frame holds the
  parts parsed so far and counts the others is `FrameIs`. Each step of `MessageParse`
  keeps it (`TakeIsTook`, `PlaceIs`, `DeliverIs`, `RestartIs`): the depth of an object
  appears as the place on the stack, so no induction over objects is needed.
* *The parser makes those steps.* `Follows` states `Progress` of the state that
  `MsgPackParser!Whole` maps to, and is carried along `StepRefines` (`NextFollows`).
  Once bytes are refused or the stack is full, it is known which message that was.
* *What follows.* What was delivered is a beginning of the list of values
  (`GivenIsExpected`). `ComparedAlike`: the comparisons of `type/int.hpp`, with the least
  and the largest value of a type, agree with the ranges of the packing functions. `Waits`:
  a call that ends wants a cell that is not complete, and by `EndsAround` no cell ends
  between.

**Unpacker** (`UnpackerProofs`), for any stream, buffers, zones and failures.
`TypeCorrect`, `RawsStayIntact` (`[]RawsIntact`), `CountsAreExact` (`[]CountsExact`),
`WindowIsExact` (`[]WindowExact`). They hold together or not at all: an object is intact
because its buffer has a count, and the count is there because its zone gives it back
exactly once. `IInv` states the counts as one sum over the zones alive and the
unpacker's own reference (`CountsOK`); that a sum over a finite set changes in the one
term that changed is proved from the fold's definition. It adds where the raws of the
message in progress lie (`Parsed`, `RawOK`), what the client holds (`Held`, `Owned`) and
that the bytes not yet parsed are those of the stream (`Unread`).

**VrefBuffer** (`VrefBufferProofs`), for any number of buffers, chunks and writes.
`TypeCorrect`, `OwnedOnce` (`[]ChunksOwnedOnce`), `CopiesHaveRoom` (`[]RoomIsThere`). A
buffer's place may be in a chunk that came from another buffer, and after a clear it counts
on `chunk_size` bytes there, also in a chunk that is shorter (`vrefbuffer.c:91`).
`RoomIsThere` says that this is the only way in which it counts on memory that is not
there, so that a copy past the end of a chunk takes two buffers of different `chunk_size`;
`OneSizeFits` is its consequence, that there is none where all are the same. What is
inductive is `RoomInv`, that a place ends inside its chunk or at a `chunk_size`, with `Sized`,
that every chunk has at least the `chunk_size` of some buffer.
`HoldsItsWrites`: `Spec => HoldsWhatWasWritten`, the refinement of `WriteBuffer`. What
is needed beyond the invariant is `PlacedInv`: the copies in the chunk of the next copy
end below its place, so that a `memcpy` overwrites none of them (`BytesKept`); with the
ownership of chunks, neither does that of another buffer (`OneBufferHolds`). A copy
that follows the last one lengthens its reference by exactly its bytes
(`BytesCopied`). What a buffer holds is `FlattenSeq` of its references; its laws
(`FlattenMore`, `FlattenTwo`) are in `SetInduction`.

**SBuffer, ZBuffer, Zone** (`LibraryProofs`). They share nothing, so each theorem is about
a specification of its own. `SBufferKeepsOrder`: the sbuffer implements `WriteBuffer`;
`ReleasedStaysIntact`: a block that was released is never written again. `SInv`: the
buffer's block and the released ones are different, and what is held fits. The doubling
loop ends with room enough (`PowerOfTwo`). `FlushPutsOutAll`: `ZInv` follows every
byte from what was written through the input and what deflate still has to what
came out. `PiecesStayApart` and `FinalizersRun`: `MInv` says of each zone that its chunks
are a chain without repetitions, that the pieces of a chunk lie below what is free, and
that the finalizers are the objects built; `Swap` exchanges two zones, and no chunk
belongs to two. A `Malloc` of size 0, which the run leaves out, is covered.

**Induction.** The library states induction with an operator as parameter, which the
provers cannot instantiate. `SetInduction` states it with a set (`NaturalInduction`: a set
that has 0 and with `n` also `n + 1` has all of `Nat`), from the well-foundedness of `<`. A
recursive function is a `CHOOSE`, so each use first proves that a function with its
equations exists. The module also has what the proofs say about sequences: that a finite
set has a listing without repetitions, what `FlattenSeq` of one sequence more is and which
elements it has, that it has none twice when its parts have none in common, and how
sequences are cut and put together.

**Only model-checked**: liveness and deadlock, which are out of the provers' reach;
and `VariableReceived` and `VariablePacksAsObject`, about `RECURSIVE` operators: for
these the provers' SMT backend is not available. All other safety properties of the
passing runs are theorems.

## 5. Not modelled

* **The repetitions of `tuple.hpp` and `define.hpp`**: 16 970 of the sources' 24 775
  lines spell the same few templates out for 0 to 32 members. They are modelled once,
  for any number of members, and mapped to a stretch of each template's repetitions;
  of the other lines about half are mapped. Accessors, constructors and `make_tuple`
  only move values.
* **The C++ wrappers** (`unpack.hpp`, `pack.hpp`, `sbuffer.hpp`, `vrefbuffer.hpp`,
  `zbuffer.hpp`): they call the C functions and turn a failure into an exception.
  `skip_nonparsed_buffer` and `remove_nonparsed_buffer`, which drop bytes of a stream, and
  `msgpack_unpacker_reset` in the middle of a message are used by nobody here.
* `metadata` and `setMetadata:` (377-392), a file that is read or written whole; the
  text of object identifiers (48-88); the result types of a fetch other than objects,
  and fetched properties.
* `msgpack_object_equal`, printing, raw references, narrowing to `float`,
  `vector<bool>`. How `std::sort` orders equal keys of an `assoc_vector` is left open.
* Timestamps, reflog messages, formatting and the words of errors.
* In `GitStore`, several entities: a key belongs to one. `ObjectStorage` has several.
* That LMDB's map is full, or that the disk is: a failing call with no other effect.
* `exists` saying that an object is there when LMDB failed is in the model, but no
  property forbids it; with failing reads it would not hold.
* Threads inside one handle. Core Data calls a store under its coordinator's lock.
* Sizes that overflow `size_t`; a constructor that allocates in the zone it is built in.
* The application, tests and build files: no logic of the store.
