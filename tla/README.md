# Verification of YangKV

YangKV (`src/`) is a small key-value store in C++: sets are numbered, logged
and queued per partition; one Writer thread per partition moves them into an
in-memory list; full lists are frozen into the current version; a Compacter
thread merges the frozen lists into a table file. This directory holds TLA+
models of these parts, TLC configurations that check them on small instances,
and theorems that TLAPS proves for every instance. `PROJECT.json` lists the
components, the runs, the mutants that show each property can fail, the source
lines behind each definition, the hazards and the findings.

## 1. The system

| component | state | operations | works with |
|---|---|---|---|
| set path (`main/yangkvMain.cpp`, `memory/message_queue.*`, `utils/logwriter.*`) | `idx_`, per partition `lock_`, the log file, the ring `queue_` with `w_ptr` and `r_ptr` | `setKey`, `delKey`, `push`, `pop`, `getFront`, `search` | called by any thread; shares the ring with the Writer and with gets |
| Writer (`memory/writer.*`, `memory/skiplist.h`) | the active list, its rwlock | `workRound`, `mayInsertMessage`, `getEntry` | pops the ring, calls `AppendFrozenList` |
| versions (`main/versionset.*`, `utils/condlock.h`) | `current_`, per version its frozen lists, count, files and references | `AppendFrozenList`, `AppendVersion`, `apply`, `Unref`, `Get` | Writers, Compacter and gets |
| Compacter (`memory/compacter.*`) | a file number, `inCompact_` | `workRound`, `compact` | reads versions without a lock, broadcasts on the `CondLock` |
| get path (`main/yangkvMain.cpp`) | none | `getValue` | queue, active list, frozen lists, in this order |
| recovery (constructor of `MessageQueue`, `utils/logreader.*`, `YangkvMain::init`) | log files, `max_id_` | replay, choice of a log number and of `idx_` | runs before the threads exist |
| files (`utils/env.*`) | a buffer of 64 KiB, a descriptor | `AppendSize`, `Append`, `Flush`, `Sync`, `Close` | under the logs and tables |
| table writer (`main/builder.*`, `table/table_builder.*`, `table/block_builder.*`, `utils/comparator.h`) | blocks being filled, index, offset | `BuildTable`, `Add`, `Flush`, `Finish` | called by the Compacter |
| formats (`utils/dbformat.*`, `table/format.*`) | none | encoding and decoding of entries, numbers, handles, footers | log, table, edits |
| table reading (`table/format.*`, `table/block.*`, `utils/env.*`) | none | `Footer::DecodeFrom`, `RandomAccessFile::Read`, `ReadBlock`, `Block` | no caller yet |
| filter block (`table/filter_block.*`) | keys that wait, filters, their offsets | `StartBlock`, `AddKey`, `Finish`, `KeyMayMatch` | in no build target; `TableBuilder` has its calls in comments |
| version edits (`main/versionedit.*`) | one edit | `EncodeTo`, `DecodeFrom`, `AddFile`, `DeleteFile` | only `AddFile` has a caller |
| `VersionSet::Builder` (`main/versionset.cpp`) | a base version, added and deleted files per level | `Apply`, `SaveTo`, `MaybeAddFile`, destructor | no caller; works on edits and versions |
| bloom filter, helpers, singleton, point cache, test drivers | | | section 7 |

What makes it hard: the ring has producers under a mutex and a consumer and
searchers under none; the Compacter reads and frees versions that Writers and
gets are using; the number of a set is drawn before any lock is taken; a get
looks at three places while entries move between them; the condition variable
is signalled without its mutex; an entry in the ring points into its caller's
strings; the process can die inside a record or the machine lose its power, and
a new run rebuilds its state from the logs.

What makes each part correct: nothing logged is lost or overwritten on its way
to a list (set path); versions never lose a list or a file and are compacted
when full (versions); a get that nothing overlaps is exact (get path); numbers
stay unique over restarts (recovery); a file is always a prefix of what was
handed to it, and what was synced stays (files); a table leads a reader to every
key, and one that was cut is refused (table writer and reading); what is
written is read back (formats, edits); a version has exactly the files its
edits ask for, each alive (`Builder`). The hazards in `PROJECT.json` say
where each of these could go wrong.

## 2. The modules

| module | models | state and actions against the code |
|---|---|---|
| `WriteAheadLog` | what one partition promises | numbers are drawn, each entry is logged once, the memtable follows the log with a bounded lag |
| `MessageQueue` | the set path and the Writer's loop of one partition | variables have the code's names. `push` is five steps: lock, record, key of the slot, rest of the slot, publish; the Writer's are `workRound`, `wrlock`, the test for empty, insert, pop and, when its list has `kMaxActiveListSize` keys, `AppendFrozenList`; the Writer may sleep in two of them. Implements `WriteAheadLog` |
| `ClientStrings` | whose memory a queued entry is made of | adds to `MessageQueue` each client's key string, which a client may change between two calls |
| `QueueSearch` | `MessageQueue::search` against `MessageQueue` | reads `w_ptr`, `r_ptr`, then the key and the rest of each slot as separate steps |
| `VersionSet` | frozen lists, versions, Compacter, `CondLock` | one action per access to shared state; a freed version answers anything and swallows what is stored in it; a table may fail to be written. Implements `FrozenLists` |
| `FrozenLists` | what frozen lists and compaction promise | a compaction moves everything in memory to disk in one step; only what is handed over late, or what a compaction could not write, may get lost |
| `YangKV` | the store end to end | extends `VersionSet`, gives its lists contents, adds queues, rwlocks and `getValue`; `search` and the store it races with are in the steps of `QueueSearch` and `MessageQueue`. Slots are seen through the sequence of all entries published: what a slot holds is the last of its place or the one being copied there |
| `Recovery` | logs over several runs | `MessageQueue`'s constructor and `init` step by step, sets, an end of the process at any time, by itself or with the machine's power, when every log may lose its end |
| `WritableFile` | the buffered file | one action per `write(2)`, which may be short or fail, and per `fdatasync`; a crash or a power failure between any two |
| `Comparator`, `TableBuilder` | the table writer | the operators of `comparator.h`; `Add`, `Flush`, `Finish` as operators on `Rep`, two actions for `BuildTable` |
| `FilterBlock` | the filter block | builder and reader as operators |
| `TableReader` | reading a table | composes `TableBuilder` and `FilterBlock`: the finished table as bytes, read through the footer, `ReadBlock` and `Block`, from reads cut anywhere |
| `Coding` | byte formats | encoders and decoders of numbers, entries, handles and footers as operators on sequences of bytes; used by `VersionEdit` and `TableBuilder` |
| `VersionEdit` | edits as bytes | `DecodeFrom` one field a step, over edits cut anywhere; log numbers are in an edit and in none of its bytes, as `EncodeTo` leaves them out |
| `VersionBuilder` | versions from edits | composes `VersionEdit` and `Comparator`; a `FileMetaData` is a place in `heap` with its counter; one action per call of the `Builder`, `AppendVersion` and a compaction |
| `MessageQueueProofs` | proofs | that the ring implements the log, and what a search without a lock answers |
| `VersionSetProofs` | proofs | what freezing and compaction keep, and that they implement `FrozenLists` |
| `YangKVProofs` | proofs | what a get of the whole store answers |
| `RecoveryProofs`, `WritableFileProofs` | proofs | numbers and replay over all runs; the bytes of a file |
| `FormatProofs` | proofs | index keys; what each encoding of `Coding` decodes to, also when it was cut |
| `TableBuilderProofs`, `VersionEditProofs` | proofs | whole tables; edits read back, and what versions make of them. All proof modules: section 5 |

`MC*` modules give symmetry and input sets; the modules that need neither are
run directly. Definitions whose
comment says *variant* are what a likely mistake in the code would make of the
definition they stand beside. No specification uses them; substituted for that
definition, each makes the run named in `PROJECT.json` fail.

Composition: `QueueSearch` extends `MessageQueue` with readers and
`ClientStrings` with the callers' memory; `YangKV` extends `VersionSet`;
`TableReader` reads what `TableBuilder` wrote; `VersionBuilder` applies what
`VersionEdit` decoded. `YangKV` relies on `MessageQueue`'s `RingHoldsLog` for one
thing: the slots between the cursors are the published entries in their order.
Its gets search the ring cursor by cursor and slot by slot, so a torn copy, one
entry's key beside another's number, is among their answers. `HitIsLogged` exempts
such a hit and `QuietReadIsExact` says which gets never have one: a slot is
given away while a get copies it only by pushes, and a torn copy matches only
if one of the entries involved has the get's key; if no set of that key is
unfinished or in the ring at any time of the get, its search finds nothing.
An entry that `search` passed over was inserted before (`PassedOverIsInserted`),
which does not mean that the list answers with it: entries that match are not
older than the get's snapshot, and `getEntry` refuses those that are newer.

### Abstractions

* A value is identified by the number of the set that wrote it.
* The copy of an entry into a ring slot is two steps, key and rest, so that a
  concurrent search can see a torn slot.
* `YangKV` inserts and pops in one step: the active list's rwlock is held, and
  a search reads neither `r_ptr` between the two nor the list.
* A freed version is undefined behaviour: `isFull` and `Get` on it return
  anything of the right kind, and a list stored in it is gone. A lock of a
  freed version that is released late is not modelled further.
* `file_seq_num_` is never initialised; files are numbered by their rank.
* `pthread_cond_wait` may wake without a broadcast, at most `MaxSpurious` times.
* `Recovery`: all keys are of one length and all values too, so that records
  sharing a buffer alias each other exactly; a torn record is completed with
  any number of `Garbage`.
* After a power failure a file is a first part of what was written to it, at
  least what was synced (`WritableFile`). No log is ever synced, so in `Recovery`
  each log of each partition may lose its end, on its own; the files themselves
  stay in their directory.
* `VersionSet` lets `MaxFailures` tables fail. What fails inside `BuildTable` is
  in `TableBuilder` and `WritableFile`; the one failure they leave out is
  `NewWritableFile`'s (`builder.cpp:61`), after which the process dies of a
  null pointer, as in `Recovery`'s crash.
* `ClientStrings` lets callers reuse a string, not destroy it.
* The repository has an interface for filter policies and no policy:
  `FilterBlock` uses the exact one, whose filters are their keys. It has no
  iterator over blocks either: `TableReadsBack` reads the entries of a block
  as the format defines them.
* Nothing calls `VersionSet::Builder`. `VersionBuilder` calls it as its interface
  and comments imply: any edits, one `SaveTo`, then `AppendVersion` and the end
  of the `Builder` in either order. Edits made in memory move or delete one file.
* An edit of `VersionEdit` has every field of the class but `has_comparator_`, which
  nothing sets, and `deleted_lists_`, pointers to lists in memory without a tag.
* Numbers in `Coding` are below 2^31, where the 32- and 64-bit encoders agree;
  keys and values of an edit are shorter than 2^29 bytes, so that the lengths
  written before them are below 2^31 too.
* `VersionEdit` writes its fields one after the other (`Fields`); one without a
  value has no bytes. Deleted files come in the order of their `std::set`.
* The log's blocks, CRCs and compression have no counterpart: the code writes
  no CRC (zeros) and compresses nothing.
* `TableBuilder` keeps blocks as sequences of entries and computes their sizes
  from the encodings in `Coding`; index entries and the footer hold encoded
  handles.

## 3. The runs

| run | shows | bounds, and why they suffice |
|---|---|---|
| `queue` | log, ring and list inputs agree; the queue implements `WriteAheadLog`; a record goes ahead of one smaller number of each other client at most; a producer asleep on a full ring does not stop a Writer that comes back from its own waits | three clients, ring of two, four numbers, lists of two keys: the ring wraps twice, two clients wait while one holds the lock, the Writer hands a list over |
| `search` | a search answers with an entry of its place in the log unless that slot was given away during the copy, and passes over nothing that is still queued | two clients, one reader, three numbers: a slot is reused during the search |
| `search_queued` | **finding**: a queued key is missed | as above |
| `client_strings` | **finding**: a string used again changes the entry in the ring | two clients, two keys, two sets |
| `versions` | no list is lost but late ones and those of a failed table; over-full versions stay bounded; file references are right; a full version is always compacted; the whole implements `FrozenLists` | two Writers of three lists, versions of two, one spurious wake-up, one failed table: versions overfill, Writers append during a merge and to freed versions |
| `version_wakeup` | **finding**: a wake-up is lost | versions of one list |
| `store` | a get that no set of its key overlaps is exact | one partition, two keys, lists of two, versions of one, four sets: entries pass queue, list, frozen list and table, and sets of the other key tear the slots the get copies |
| `store_overwrite` | **finding**: an overwritten key disappears for a concurrent get | as above |
| `recovery` | numbers are unique over runs; recovered entries are visible; replay leaves nothing out; the store opens if each partition's records fit its ring | two partitions, three keys, three sets, two ends by crash or power failure: torn records of two partitions, two old logs each at the last start, both of them cut |
| `file` | a file is a prefix of its input whatever fails; nothing that was not refused is lost; what was synced outlives a power failure | buffer of three bytes, appends up to seven, sixteen bytes in all: fits, spills into the buffer, is written past it |
| `table` | blocks, restart points, index and footer lead to every key, in order; the bytes are read back; no cut is taken for a block; each block finds its own filter | all sets of one to six of nine keys (prefixes of each other, neighbours, largest byte), values of two sizes, so blocks of one to three entries, longer and shorter than a filter's stretch of 32 bytes; any write failing; every cut |
| `version_edit` | of a whole edit everything comes back but its log numbers and all new files but the last; a cut one is refused or read as a first part; lengths counted are lengths written; a saved version has the files its edits ask for, counted rightly; a get's list of files has every file that may hold the key | every combination of fields with up to two new files, and numbers and lengths on both sides of each step of the encodings, cut at every byte; two Builders, four edits and compactions in all, on levels 0 and 1, three key ranges, two of which touch |

Every configuration sets `CHECK_DEADLOCK FALSE`: the system may stop
(`stopFLAG`, a closed file, a finished table), and clients need not call.
Runs that are expected to fail check the one property a finding is about.

## 4. Fairness

`WF(writerRuns)`, `WF(Compacter)`, `WF(push)`: the operating
system schedules runnable threads, and each of these loops or calls goes on
without further input. `push` is fair as a whole, over all clients, since
`std::mutex` is not fair between them. The Writer is fair outside the two calls in
which it waits for others: `pthread_rwlock_wrlock` (for gets, and the rwlock
prefers readers) and `AppendFrozenList` (for the mutex and the Compacter's
signal). The code does not see to it that these return: by the finding
`version_wakeup` a Writer can sleep in `AppendFrozenList` for good. Then its ring
fills and a producer spins in `push` with `lock_` held, so that all sets of the
partition stop. `LoggedIsInserted` and `LockIsReleased` therefore have
`WriterReturns` as their hypothesis, which is no fairness condition but says
that the Writer comes back each time; what they add is that nothing else can
stop the Writer, a producer asleep with the mutex held in particular.
No fairness is assumed of `setKey`,
`stop`, `crash` or spurious wake-ups: nobody has to cause them. In
`VersionSet`, `SF(AppendFrozenList(w))` lets each Writer get the mutex if it is
free again and again; `FullIsCompacted` does not need it, and in `version_wakeup`
it only makes the counterexample stronger: the Writer sleeps although every
Writer that could go on does. In `Recovery` the constructor, `init` and the
Writers are weakly fair.

## 5. What is proved

Every theorem is for all values of the constants that the modules' assumptions
allow: `QueueAssumption` and `ClientsAssumption` (a ring of at least one slot,
finitely many threads), `VersionSetAssumption` and `YangKVAssumption` (at least
one Writer, limits of at least one), `RecoveryAssumption`, `WritableFileAssumption`,
`TableBuilderAssumption`, `FilterBlockAssumption`, `VersionEditAssumption`,
`VersionBuilderAssumption` (the
first entry of a table is not after its last one: tables are filled from sorted
lists), and those of `Comparator`. The bounds (`MaxSets`, `MaxLists`, `MaxSpurious`,
`MaxFailures` and so on) are any natural numbers, so they bound nothing. None of
the invariants is inductive as the runs check it. Each proof module has a
strengthened one, one lemma for each action that keeps it, and the theorems.

**`MessageQueueProofs`**: `TypeCorrect`, `RingCorrect`, `PrefixCorrect`,
`ReturnedCorrect`, `Implements` (refinement of `WriteAheadLog`) and
`InversionIsBounded`. `IInv` adds what ties the threads to the cursors: who is
in the critical section holds the lock (`MutexInv`); the cursors differ by at
most the capacity and the log is as long as `w_ptr - 1`, plus one while a
producer is between its record and its publication (`CursorInv`, `LogInv`); a
producer past its wait has a free slot, and one past its store has its entry
there (`StoredInv`); the Writer's program counter fixes how many entries are
inserted against `r_ptr` (`WriterInv`); numbers in the log are below `idx_`,
distinct, and differ from those clients still carry (`SeqInv`). The arithmetic
fact behind it is `SlotsDiffer`: positions less than a capacity apart never
share a slot. `InversionIsBounded` counts by an injection: a smaller number that
comes later in the log was held by another client when the larger one was
logged. It bounds how many waiting numbers a record goes ahead of, not how
many records go ahead of a waiting number: the mutex may pass over a client any
number of times.

The same module, on top of that `IInv`, about `QueueSearch`: `SearchTypeCorrect`,
`HitCorrect`, `PassedCorrect`. A slot holds its position's entry, popped or not,
until the store of a position one round later begins (`KeptInv`); a search looks
at published positions only, and below its end at popped ones (`BoundsInv`);
what it copied of a slot not yet given away is the entry's (`CopyInv`); what it
passed was inserted (`PassedInv`).

**`VersionSetProofs`**: `VersionsTypeCorrect`, `OverfillIsBounded`,
`RefsCorrect`, `HistoryCorrect`. `IInv` says who holds the mutex and which
version `AppendList` works on (`LockInv`), that versions are freed one after the
other and the one being made has no lists (`ShapeInv`), that a version's count
together with the Writers about to append without a test is bounded
(`CountInv`), that what was merged is the beginning of the current lists and the
rest of them came late (`MergeInv`), and where each list that was handed over is
(`HistoryInv`, over the tables' lists followed by the version's). The attempt to prove
`OverfillBound` showed that an earlier, smaller bound was wrong beyond the run's
instance: a Writer can append to one version twice without a test that counts,
woken once before the broadcast that follows the installation and once by it.
The bound is now `kMaxFrozenList + 2 * kMaxWriter - 1`, and one for each
spurious wake-up; with two Writers of four lists and `kMaxFrozenList = 1` it is
reached.

In the same module: `CompactionImplementsStore`, that `VersionSet`
implements `FrozenLists`. Of the Compacter's steps only `Unref` is a step of
`FrozenLists` (its compaction); from then on the version made last counts, so
`install` changes nothing. `FlattenSeq` in the refinement mapping is computed
from the first sequence on; that it appends what is appended is proved with the
smallest position at which two such computations could differ.

**`YangKVProofs`**: `QuietReadCorrect`, `DBTypeCorrect`,
`DBImplementsVersionSet` (the store is a `VersionSet`, so the theorems above hold
of it) and `DBCompactionIsAtomic`. To `VersionSet`'s `IInv`, `DBInv` adds: every
entry has a number below `idx_` (`NumberInv`); lists after the active one are
empty (`FilledInv`); since a get began, whatever is under way for its key, and
whatever replaced the entry it began with, has a number from its snapshot on
(`OverlapInv`), so that the entry cannot have come back once it was replaced; a
reader is not ahead of `current_` and has its lists in order (`ReaderInv`); and,
for a get whose entry is still the last one of its key, the place where that
entry is (`WhereInv`): not in the active list any more once that was asked, and
still among the lists to look at if the version has it and was not freed. For
the search, a slot that is being copied is the next free one (`StoringInv`), and a
search moves between cursors that were true once (`SearchInv`); what it copied
for its key comes from an entry published, or on its way, since the get began
(`Touched`), of which there is none if no set of the key overlaps the get, so it
can only pass on to the list. No step of it is taken to be atomic but the reading
of one cursor or of one half of a slot. What
lets one argument do for all steps of others is `VersionsMove`: in a step,
`current_` never goes back, freed versions stay freed, a version gains only the
list its Writer fills, and a version that becomes current is empty. An entry
that leaves memory therefore never returns, and one that moves does so in the
direction of the search.

**`RecoveryProofs`**: `NumbersCorrect`, `VisibleCorrect`, `ReplayCorrect`,
`RecoveryTypeCorrect`. `IInv` relates the constructors' progress to what has
been read (`ProgressInv`, `ReadInv`: `max_id_` bounds the numbers of all
records read so far), makes record numbers unique over all logs of all runs
and below `idx_` once the store runs (`UniqueInv`, `DrawnInv`, `ClientInv`),
bounds what rings and lists hold (`VisibleInv`), and says for each log how much
of it is in the ring or in hand and which key its buffer has (`ReplayInv`).

**`WritableFileProofs`**: `PrefixCorrect`, `LossCorrect`, `SyncCorrect`,
`FileTypeCorrect`. File, buffer and what a call still has to write are
consecutive bytes, all of them while nothing failed (`FlowInv`); after a failure
nothing is left to write (`FailureInv`); between two records of a log the buffer
is empty, which is why `AppendSize` may copy without looking (`RecordInv`).

**`FormatProofs`**, for keys of any length over bytes of any width:
`SeparatorSeparates` (for `start` below `limit`, `FindShortestSeparator` lies
at or above `start` and strictly below `limit`, and is no longer) and
`SuccessorIsLater`. They rest on the uniqueness of the length of a common
prefix, and on a smallest element in a set of naturals. The lemmas about `Coding`
say what each reader makes of what its writer wrote, when any number of bytes is
missing at the end (`Cut`): the value and what follows it if all its bytes are
there, a failure if not (`Parsed`).

**`TableBuilderProofs`**: `TableTypeCorrect`, `RestartsCorrect`,
`IndexCorrect`, `CutTableCorrect`, `TableReadsCorrect`, `FilterCorrect`. `IInv`
says of every block, written or being filled, that its entries are keys, the last
one in `last_key`, and how its counter and restart points tell them apart
(`GoodRep`); that each index entry has the handle of its block and a key between
that block and all later ones; that no block is written empty (`Filled`); and that
the keys to come are above all of them and, while an entry is pending, above the
last key added, which is above the whole index (`Written`). The blocks lie one
behind the other up to the builder's offset, and the footer behind them (`Laid`).
The step that adds an index entry rests on `SeparatorSeparates`, for the last key
of a block and the first of the next. That the keys of a block are what
`Add` put there is an induction over the buffer, done by the smallest place at
which it could fail. For the bytes of the file (`TableReader`), `BlockFinishIs`
says how long a block is and what its last four bytes are, `RawBlockAt` that where
a handle points the file has the bytes of that block, and `BlockIsOne` that the
number of restart points read back, whatever 32 bits make of it, has room.

`TableReadsCorrect` needs more of `IInv`: while no write failed, the keys of all
blocks one behind the other are the keys added so far (`KeysOf`), a table with a
size is whole (`WholeOf`), and a block's buffer is the bytes of its entries
(`BytesKnown`). A reader that walks these bytes then meets the entries one by one
(`StepRead`, `BufferRead`), handles and footer are read as they were written
(`HandleRead`, `FooterRead`), and the first index entry not below a key is that
of the key's block, since index keys separate blocks (`GuidedTo`). Its hypothesis
is that the file is smaller than 2^31 bytes (`Small`), which bounds every length
and offset in it as `Coding` has them (section 3); the theorem says nothing of
larger tables.

`FilterCorrect`, for the same tables and every `kFilterBaseLg` up to 30 (the code
shifts an `int` by it), follows the filter builder block by block: filter `i` has
the keys of the blocks that begin in stretch `i - 1`, the keys that wait are those
of the stretch behind the last filter, and no keys of later stretches are known
(`Filters`, kept by `GenerateFilters`, `StartFilters` and `AddKeysFilters`); the
number of filters is that of the stretches before the offset reached
(`BuilderAt`). `Finish` puts the filters, the places where they begin, the place
where those begin and the base one behind the other (`Stands`), and the reader
finds each again (`FilterReaderIs`, `KeyMatches`). Behind the last filter
`KeyMayMatch` says yes to every key; that no data block begins there is where
`Filled` is needed, since an empty last block would have no filter. A block is
longer than it has keys (`KeysFit`), so the places in the filter block are small
when the file is.

**`VersionEditProofs`**: `LengthsCorrect`, `WholeEditCorrect` and
`CutEditCorrect`, for any number of files and keys and values of any length.
`IInv` says that `DecodeFrom` stands between two fields until it reports
corruption, which it does of cut edits only (`Good`): the bytes left are those of
the fields to come without the ones cut off, and what was decoded is what the
fields so far hold (`Behind`); a number that is not set has no bytes, so of the
places where it may stand the last one is meant (`Settled`). A field is read by
up to six readers one after the other; `Got` says that they all succeed exactly
when all their bytes are there, and `GotNext` adds one more reader. The tag is
one byte, so it is there whenever anything of its field is: a cut field is never
taken for another.

The same module, on top of that, about `VersionBuilder`: `BuilderInductive`,
`FilesCorrect`, `SearchInductive`, `SearchCorrect`, `SavedInductive` and
`SavedCorrect`, for any number of levels, edits, `Builder`s and tables. `BInv` says which versions are held at each phase
of a `Builder` and what their references are (`Phases`, `RefOf`), that no object
is added twice (`Once`), and that an object somebody holds is not deleted and
has as many references as holders: places in held versions, and in the
`Builder`'s added files as long as it lives (`Counts`). Each operation is then a
step on a function of the objects: it adds holders and references alike
(`CountsAdd`), or takes both away (`CountsDrop`, `CountsRelease`). `SInv` adds
that every table's range is in order and that above level 0 the files of every
version ascend (`Fit`). `SaveTo`'s assert is what keeps that: of its bisection the
proof only uses that it ends between the place it began at and the end of the
base files (`BoundIs`), since whatever order comes out is tested file by file
(`OneMoreAscends`). Where files ascend a key is in the range of one at most
(`OneHit`), so the first one that may have it is the only one. Only files read
from an edit that was not cut are known to be in order, which is why `SInv` rests
on `WholeEditCorrect`'s lemma.

`AInv` adds what a `Builder`'s edits ask for. Within a level of a version, and
within the added files of a level, the numbers of the files differ, and no added
file has the number of a base file, so `deleted_files` says of each file alone
whether it is wanted; the added files are in order, which is what `insert` keeps
(`InsertPuts`); and the wanted files are those of base and additions whose number
is not deleted (`Asked`). Each `Apply` keeps that because a new file's number is
not in its level before (`LevelAsks`). `SaveTo` is then followed file by file
(`RoundMerges`, `SaveMerges`): what was saved so far is what was taken from the
base and the additions, those deleted left out, and while the assert holds it
ascends; here the bisection has to find the right place, which it does where the
base ascends (`Bisected`), that is everywhere but in level 0, where any order
will do. If the assert fails, a file that ends at or behind the start of a later
one is wanted too, and the two overlap.

No induction rule can be instantiated by the installed backends. Where a recursive
function of a model has to be followed (`Coding`'s encoders, `FlattenSeq`, the
buffer of a block), the proof takes the smallest argument at which the
statement could fail and refutes it, for each such function by hand.

Only model-checked: all liveness (fairness is beyond the proof system's
backends), that is `LoggedIsInserted`, `LockIsReleased`, `FullIsCompacted` and
`InitEndsIfFits`.

## 6. Findings

1. `search` returns only entries newer than the get's own snapshot, so a set
   that has returned is invisible while it is queued (`search_queued`).
2. `getEntry` drops an entry newer than the snapshot although the entry it
   replaced is gone from the list (`store_overwrite`).
3. The Compacter broadcasts without the mutex; the wake-up can be lost
   (`version_wakeup`).
4. An entry in the ring holds the caller's pointers, not its bytes: a caller
   that uses its key string again, as `main/test.cpp` does, changes the key
   under which the list has the set; the log has the right one
   (`client_strings`). `MessageQueue` is about callers that leave their strings
   alone until the Writer has come by.

Seen while reading, and in the models as the code has them, without a run of
their own:

* The replay pushes into a ring that nobody empties yet (`message_queue.cpp:39`):
  with more records than slots the constructor never returns.
  `InitEndsIfFits` is about the other case; `main/run.sh` removes all logs
  before a test, which hides this one.
* `Version::Get` never opens a table (`versionset.cpp:92`): a compacted key is
  NotFound, and `QuietReadIsExact` is about entries in memory.
* A list that a woken Writer stores in a version that is already full or freed
  may be in no table (`versionset.cpp:280`, `builder.cpp:15`), and the lists of
  a table that failed are freed all the same, `BuildTable` reporting success
  (`builder.cpp:84`). `HistoryKept` and `CompactionIsAtomic` are about all other
  lists; the ghost `late` and `Unsaved` name these.
* No code reads `kMaxTableNumInLevel0` (`env.h:23`): level 0 only grows.
* All records of an old log are read into one buffer (`logreader.cpp:32`), so
  those still queued take the key of the last one; `ReplayIsComplete` asks for
  the key of the last record only.
* All new files of a decoded edit are one object (`versionedit.cpp:105`);
  `WholeEditIsReadBack` says they equal the last one.
* `EncodeTo` does not write what `SetLogNumber` set, although a tag `kLogNumber` is
  declared (`versionedit.cpp:7`) and its flag kept, and `DecodeFrom` would refuse
  the tag: log numbers are lost. Nothing calls `SetLogNumber`.
* A get overlapped by sets of its key may answer with one entry's key and
  another's value: `search` copies a slot while a producer fills it
  (`message_queue.cpp:82`). `HitIsLogged` and `QuietReadIsExact` exempt such gets.
* A client that waits for `lock_` with its number drawn can be overtaken by any
  number of later sets of another one (`yangkvMain.cpp:68`).
* A deleted key is written to the table as an empty value: the mark is dropped
  (`builder.cpp:69`). Nothing reads tables, so no answer depends on it.
* `file_seq_num_` is not initialised (`compacter.cpp:12`): the tables of a new
  run may overwrite those of an older one.
* `~Builder` deletes a file whose counter it takes to 0 while `AppendVersion`
  and `~Version` count as well (`versionset.cpp:165`); `FilesAreCounted` holds
  because a saved version has counted its files before.

## 7. Not modelled

* The bloom filter (`utils/bloomfilter.*`) is not a `FilterPolicy`: one call sets
  bits of a hash, one tests them, and only `utils/test.cpp` uses it.
* `hash_helper`, `status.h`, `option.h`, `config.h`, `filename.h`: value types, a
  hash, constants and names; the models use what they mean. `coding.*` is empty.
* `singleton` is one function-local static. `pointcache` does not compile and is
  in no build target.
* `Env`'s calls on directories and names pass their arguments on to the system;
  `SyncDirIfManifest` returns at once, since no file is a manifest.
* `LookupKey` (`utils/dbformat.h`) and `TableBuilder::Abandon` have no caller and
  no state that another part reads.
* The test drivers are callers of the store; the models' clients make their calls.

## 8. Plan

Done, in this order: `WriteAheadLog`, `MessageQueue` and its proofs,
`QueueSearch`, `VersionSet`, `YangKV`, `Recovery`, `WritableFile`,
`Comparator` and its proofs, `TableBuilder`, `Coding`, `VersionEdit`;
`ClientStrings`, `FilterBlock`, `TableReader`, `VersionBuilder`, `FrozenLists`,
failing tables, power failures; the proofs about `QueueSearch`, `VersionSet`,
`FrozenLists`, `YangKV`, `Recovery` and `WritableFile`; then those about
`TableBuilder`, `Coding`, `VersionEdit` and `VersionBuilder`, and about `FilterBlock`
as `TableReader` uses it.

To come:

* An abstract map that `YangKV` implements for the gets that
  `QuietReadIsExact` is about; two partitions in one `store` run.
