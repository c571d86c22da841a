# Verification of the concurrent and recovering parts of `thirdparty`

`thirdparty` collects C and C++ libraries with build files for one build
system. Nearly all of it is sequential code over byte strings. This project
models the parts in which threads, crashes or long sequences of legal calls meet
shared state, and leaves the rest aside (see *Not modelled*). Those parts are

* **leveldb 1.9.0** - the write path, background work, files and recovery, the
  tree of tables, and the skip list under the memtables;
* **RE2 20130115** - the cache of DFA states that concurrent searches build and
  throw away;
* **gperftools 2.0** - the central free lists of TCMalloc.

Line numbers below are those of the sources under `src/`; `PROJECT.json` maps
every definition to its lines.

## 1. Inventory

| Component | State it keeps | Operations | What is hard |
|---|---|---|---|
| Background work (`db_impl.cc`) | `imm_`, the version's scores, `bg_compaction_scheduled_`, `manual_compaction_`, `bg_cv_`, `bg_error_`, `shutting_down_` | `MaybeScheduleCompaction`, `BackgroundCall`, `BackgroundCompaction`, `CompactMemTable`, `DoCompactionWork`, `TEST_CompactRange`, `~DBImpl` | one condition variable for writers, manual compactions and the destructor; work only starts when somebody remembers to look; errors and a one-second back-off |
| Write path (`db_impl.cc`, `write_batch.cc`) | `writers_`, `mem_`, `log_`, last sequence | `Write`, `BuildBatchGroup`, `MakeRoomForWrite`, `TEST_CompactMemTable` | group commit; the head of the queue works without the mutex; failure between log and memtable |
| Point reads (`db_impl.cc`, `memtable.cc`) | pinned memtables and version | `GetSnapshot`, `Get` | reads while memtables are switched and flushed |
| Files and recovery (`db_impl.cc`, `version_set.cc`) | logs, tables, MANIFESTs, CURRENT, `pending_outputs_`, file numbers | `DB::Open`, `Recover`, `RecoverLogFile`, `NewDB`, `LogAndApply`, `WriteLevel0Table`, `DeleteObsoleteFiles` | a crash between any two steps, of the process or of the machine; deletion while versions are in use |
| Tree (`version_set.cc`, `db_impl.cc`) | levels of tables, snapshots | `PickCompaction`, `CompactRange`, `SetupOtherInputs`, `PickLevelForMemTableOutput`, `DoCompactionWork`, `Version::Get` | mistakes show several compactions later, as an old value that is back |
| Skip list (`skiplist.h`) | links, `max_height_` | `Insert`, `Contains`, `Seek`, `Next`, `Prev`, ... | readers without locks among single stores |
| DFA cache (`re2/dfa.cc`) | `state_cache_`, `start_[]`, `mem_budget_`, two locks | `Search`, `InlinedSearchLoop`, `AnalyzeSearch`, `RunStateOnByte`, `ResetCache`, `RWLocker`, `StateSaver` | lock upgrade in the middle of a search frees the states all searches point to |
| Central free lists (`central_freelist.cc`) | spans, slots, counters of each size class | `InsertRange`, `RemoveRange`, `MakeCacheSpace`, `EvictRandomSizeClass`, `ShrinkCache`, `Populate` | locks without an order; the lock given up between a decision and its effect |

How they interact:

```
 clients --Write--> WriteQueue --SwitchMemTable--> BackgroundWork (one work thread)
    |                  | log, memtable                | flush, compaction
    |                  v                              v
  Get/snapshot     CrashRecovery (files)          Compaction (levels)
    |                                                 |
    +------------> SkipList (memtable)  <-- read by flushes and iterators
```

`WriteQueue` EXTENDS `BackgroundWork` and shares `imm`, `l0`, `bg_cv` and
`bg_error` with it: the two are composed, not glued. `CrashRecovery` and
`Compaction` each take one question out of that composition - what is on disk,
and where in the tree an entry is - and abstract the scheduling to "a background
step may happen now". `DfaCache` and `CentralFreeList` stand alone.

Each of the 40 hazards in `PROJECT.json` is tied to the line where it bites and
to the properties that would catch it.

## 2. Modules

| Module | What | Code it stands for |
|---|---|---|
| `BackgroundWork` | scheduler of flushes and compactions | `db/db_impl.cc`, `db/version_set.cc` (scores, `CompactRange`) |
| `WriteQueue` | writers, log, memtables, `Get`; composed with `BackgroundWork` | `db/db_impl.cc`, `db/write_batch.cc`, `db/memtable.cc` |
| `AtomicStore` | what `WriteQueue` promises: a store that applies a batch at one instant | `include/leveldb/db.h` |
| `CrashRecovery` | files, crashes, `DB::Open` | `db/db_impl.cc`, `db/version_set.cc`, `db/builder.cc`, `db/log_reader.cc`, `db/log_writer.cc`, `db/filename.cc` |
| `Compaction` | the tree | `db/version_set.cc`, `db/db_impl.cc`, `db/dbformat.cc` |
| `SkipList` | skip list, store by store and load by load | `db/skiplist.h` |
| `OrderedSet` | what `SkipList` promises: iterators over an ordered set | the interface in `db/skiplist.h` |
| `DfaCache` | DFA state cache | `re2/dfa.cc` |
| `CentralFreeList` | central free lists | `src/central_freelist.cc` |
| `*Proofs` | theorems of the module they extend | - |
| `MC*` | instances for TLC | - |

The abstract specifications are `AtomicStore` and `OrderedSet`. `ImplementsStore`
maps each client's `Writer` to a call that is pending, ok or failed, and takes
the history of successful batches as the store. A call is decided when the group
it is in ends (`FinishGroup`), and at once when there is no room and the
background error is returned. The NULL batch of `TEST_CompactMemTable` is a
`Write` of no keys; that call is over when its wait for the flush begins.
`ImplementsOrderedSet` maps the nodes linked at level 0 to the set and an
iterator's search to a call that is pending until its last load.

**How state and actions correspond.** Variables carry the names of the members
they stand for (`imm`, `bg_compaction_scheduled`, `writers`, `log_number`,
`pending_outputs`, ...). An action is one critical section of the mutex at hand,
or one step that the code takes without it (an append, a sync, a store, a load);
the `pc` of a thread tells where it has given the mutex up. In `BackgroundWork`
the value of `bg` is the place where the background thread has released
`mutex_`: queued in the Env, building or logging a flush, in the loop of
`DoCompactionWork`, and so on. What the code calls on the way
(`MaybeScheduleCompaction`, `bg_cv_.SignalAll`, `DeleteObsoleteFiles`) is part of
the action that calls it.

**Definitions named `...Bug`** are not the code. Each is a slip somebody could
make in the definition before it, and shows that the property it is listed with
in `PROJECT.json` can be broken.

**Data abstraction.** Values are call numbers; a batch is a sequence of keys put to
one value; a log is a sequence of records of entries; a table is the set of its
entries; sizes in bytes are either counted in entries (`WriteBufferSize`,
`MaxGroup`) or left open. In `DfaCache` the regular expression is an automaton, and a
text is given in the order it is read, forward or backward, with the one byte that
follows it (`LastByte`): `EndText` if the text ends its context, else a byte of the
context (`dfa.cc:1467`);
a `State*` is named by its state and the holder knows whether it still is
in the cache. In `CentralFreeList` a span has the same number of objects for
every class.

**Assumptions about the environment (`CrashRecovery`).** A crash of the process
loses nothing that was appended. A crash of the machine keeps, of every log and
MANIFEST, some prefix that includes what was synced. Creating, renaming and
removing files are durable at once (leveldb syncs no directory). A log fits into
one block; one write is in progress at a time (justified by `OneLogger`); a
recovered log makes one table.

## 3. Runs

| Run | Instance | What it shows |
|---|---|---|
| `background` | 2 callers of `TEST_CompactRange`, `L0Trigger = L0Stop = 1`, one size compaction pending, manual ranges of one piece, one I/O failure, fair | `BgTypeOK`; work that exists is scheduled, no lost wakeup, nothing runs on a freed database, the manual slot is given back only on progress, level 0 stays limited; flushes, deletion, manual compactions and level-0 drainage make progress |
| `write_queue` | 3 clients, 2 keys, 3 calls, sync and plain, groups of at most 2 entries, memtables of 1, one failure; clients symmetric | one logger at a time; synced writes are durable; the log covers the memtable; sequence numbers are never used twice |
| `write_reads` | 2 clients with a two-key batch, 1 reader with and without a snapshot | `WriteQueue` implements `AtomicStore` |
| `write_live` | 2 clients, 1 key, 3 calls, one failure, fair | every call returns |
| `crash_recovery` | 2 writes, 2 crashes of process or machine, 1 failure (table, open, log sync or MANIFEST append), compactions, a reader that pins versions | synced writes survive; `DB::Open` finds every entry that is on disk; sequence numbers go up; acknowledged writes are in files that are in use; no table in use is deleted or unfinished; after the first write the database can be opened |
| `compaction` | 2 keys, 4 puts or deletes, 3 levels, 1 snapshot, manual compactions | `Get` and iterators find the newest value; levels are disjoint and ordered |
| `skip_list` | 4 keys, 3 heights, 1 iterator | chains at every level, no load of an unstored link, `SkipList` implements `OrderedSet` |
| `dfa_cache` | 2 threads, 3 searches of `ab+` in a text that ends its context and one that does not, room for 3 of 7 states, fair | no dangling state, right results, restores succeed, every search returns |
| `central_free_list` | 2 threads, 2 classes, 3 spans of 2 objects, 6 calls, fair | slots fit, objects are conserved, counters are exact, no slot is made, one lock at a time, every call returns |
| `replay_error` | 3 writes, replay of one log fails | *violation*, see *Findings* |
| `manual_level0` | 1 key, 3 writes, two outputs | *violation*, see *Findings* |
| `first_byte` | 2 threads search `bb` with `a\|bb`, room for 4 states | *violation*, see *Findings* |

**Why the bounds are enough to be interesting.** Three writers are the fewest
that give a leader, a member of its group and a writer that stays outside; two
entries per group let groups fill up; a memtable of one entry makes every other
write switch memtables, so that writers wait for `imm_` and for level 0. Two
crashes allow one during a recovery, or after the logs of the first have been
replayed. `MaxFile = 9` bounds how many files are made between them, and so how
many flushes and compactions: a second recovery ends with number 6 used, which
leaves three for tables and a memtable switch. Four writes of two keys over
three levels let a deletion be dropped too early and the old value come back
from below (the mutants of `compaction` show it), and `TreeIsCorrect` has the same
properties for any number of writes. Four
keys at three heights give a node between two others at each level while a
reader is on the way down. A capacity of three states forces a reset in nearly
every search. Two classes with two slots, and two threads, are what it takes for
threads to want to shrink each other's class.

`CHECK_DEADLOCK FALSE` is set where the system may stop: the calls are used
up, or the database is deleted. `skip_list` checks for deadlock: an iterator can
always move. Symmetry is used in `write_queue`, `write_reads` and `skip_list`
only, on clients or readers that no definition tells apart; no run with
liveness properties uses it.

**Fairness.** `BgFairness` is weak fairness of the background thread's next step
(the Env's work thread keeps running) and of each woken caller and the woken
destructor; strong fairness of `CompactionLoopEnds`, because the loop of
`DoCompactionWork` consumes one key of a finite input on each turn and is
only interrupted, never restarted, by the flush inside it. `WqFairness` has
the same for the background thread, and weak fairness for each client that is not
blocked on its condition variable; spurious wakeups get none. `DfaFairSpec` and
`CfFairSpec` are weak fairness of each thread's step inside a call. Starting a
call is never fair. With a bound on calls no lock is taken away from a
waiter for ever; starvation by an endless stream of other callers is therefore
outside what `SearchesReturn` and `CallsReturn` say. `ManualFinishes` and
`Level0Drains` carry their premise explicitly, since the code serves `imm_`
before manual requests and those before `PickCompaction`.

## 4. Proofs

All theorems hold for every value of the constants that satisfies the `ASSUME`s
of the module, and tlapm checks them to the last leaf.

* **`BackgroundWorkProofs`**: `BgInv` is inductive. `WaiterHasWaker` and
  `WorkIsScheduled` are parts of it but not inductive alone: a waiter is woken
  because the call on its way *ends*, and the end reschedules because the flag
  `bg_compaction_scheduled_` follows the thread (`FlagFollowsThread`). The other
  parts say what the background thread still finds when it takes the mutex again:
  the memtable it writes out (`FlushHoldsImm`), its inputs and its manual request
  (`JobStaysValid`, `SlotOwnerWaits`), room in level 0 (`ImmLeavesRoom`), and
  that deletion comes last (`DeleteIsLast`). Theorems: `BgTypeCorrect`,
  `WorkIsAlwaysScheduled`, `WaitersAreWoken`, `DeletedDatabaseIsQuiet`,
  `SlotProgress`, `Level0StaysLimited`.
* **`SkipListProofs`**: `SlInv` relates what `Insert` has found (`prev`) and stored
  so far to what searches rely on: at every level the links visit exactly the
  published nodes in order, the levels are nested (`Nested`), each `prev[i]` found
  is still the node to insert after (`WriterInv`, because nobody else inserts),
  and a search stands on a published node before its target (`ReaderInv`).
  Theorems: `SkipListInvariant`, `ChainsAlways`, `NoWildLoadAlways`, and the
  refinement `SkipListImplementsOrderedSet`: a search takes effect at its last
  load, and answers for the set as it is then, whatever was inserted since it began.
* **`DfaCacheProofs`**: `DfInv` says at which places of a search its thread holds the
  cache lock, for reading or writing, and that it then has no pointer that a
  reset has freed; a reset needs the lock for writing, so it is alone.
  `DataInv` says what the cache and the searches know. The graph is a part of the
  automaton: its arrows are `Delta`'s, or none yet, they stay inside the cache, and the
  budget is what the cache leaves (`GraphOK`). `start_` is a start state, and its
  `firstbyte` is one of three values (`InfoOK`, `GraphWell`). A search stands on the
  automaton's path over the text it has read so far, and its `lastmatch` is the last
  match on that path (`Whole`); what it skips with `memchr` cannot leave the start
  state if the byte it skips to is the only way out (`Skipped...`). These hold across the
  loss of the cache because a search saves what its state *is* before it waits for
  the lock, and finds or rebuilds that state after it. Induction over the text is
  replaced by a least counterexample among the positions (`LeastNat`, from
  the well-foundedness of the naturals): the paths exist (`PathsExist`), and the dead
  and full-match states stay what they are (`SpecialIsForEver`). Theorems:
  `DfaInvariant`, `NoDanglingStateAlways`, `DataInvariant`, `DfTypeAlwaysOK`;
  `RestoresAlwaysSucceed`, under the hypothesis `Capacity >= 3` (the constructor of
  `DFA` gives up on less than room for 20 states); `OnlyFirstByteMisleads`: a result is
  right, or its search was given a `firstbyte` that is not the only way out of its start
  state; and `ResultsAlwaysRight`, under the hypothesis that no start state has two
  ways out (`OneWayOut`, as with `ab+` of run `dfa_cache`) or that there is memory for
  every state (`EnoughMemory`). One of the two is needed: without either, run
  `first_byte` has a wrong result.
* **`CentralFreeListProofs`**: `CfInv` ties each lock to the place where its holder
  is (`LocksInv`), each call to objects and classes (`ThInv`) and each class's
  slots to its size (`SlotsInv`). `SlotsFit` survives because the size is
  compared with its maximum again after the lock is back. `SlotsAreNotMade` counts the
  slots of all classes as one set, of which a step adds or removes at most one
  element, and only while a call that has won a slot enters or leaves `Evicted`; it
  needs finitely many classes and threads (`FiniteAssumption`). Theorems:
  `CfInvariant`, `OneLockAlways`, `SlotsFitAlways`, `SlotsNeverMade`. `FlInv` adds to `CfInv` that every object of a
  span in use is in one place, a slot of a class, the range or the list of a
  call, the thread caches or the lists of the spans (`ObjectsOnce`), every span has one
  owner (`SpansOnce`), ranges and slots are whole and of their class (`CallsWhole`,
  `SlotsWhole`), and the counts are what the lists hold (`CountsInv`). None of these
  is inductive alone: `ReleaseToSpans` deletes a span because its *count* says so,
  and only because the count is exact are all other objects of it free
  (`LastOneOut`), so none is left in a slot or with another call. Theorems:
  `FlInvariant`, `ObjectsAlwaysConserved`, `CountersAlwaysExact`.
* **`WriteQueueProofs`**: `WqInv` has a part about the writers and one about the
  files. `WritersInv` takes the queue and the writers as parameters, because
  `CallWrite` puts a `Writer` into the queue and goes on in `MakeRoomForWrite` in one
  critical section: the lemmas about `MakeRoomForWrite` start from the queue
  that `CallWrite` has just made. It says that the queue holds exactly the calls
  that are not done, each once (`QueueInv`); that only its head is past
  `MakeRoomForWrite`, which is `OneLogger`; that the group the head leads is a
  prefix of the queue without a synchronous member under a plain leader
  (`GroupInv`); that values identify calls (`ValuesInv`); and which sequence numbers
  the group is about to use (`NumbersInv`). `FilesInv` says that a memtable's entries
  are in its log except for those that a failed append has left behind, that
  numbers above `last_sequence` exist only in the group at work (`Fresh`), and that
  every batch that succeeded is in the logs or tables, in a synced part if it was
  synchronous (`HistInv`). `SyncWritesAreDurable` needs all of it: a member is durable because its
  *leader* synced. Theorems: `WqInvariant`, `OnlyOneLogger`, `LogsCoverMemTables`,
  `SequencesIncreaseAlongLogs`, `SyncWritesStayDurable`. Where an argument asks for
  the least or greatest sequence number of a finite set, well-foundedness of the
  naturals takes the place of induction.
* **`WriteStoreProofs`**: `ReaderInv` says that what a reader has pinned holds every
  entry up to its snapshot that existed when it pinned it (`HasPinned`) and that
  those entries are the batches that had succeeded by then (`SeesView`); it
  holds on because memtables, logs and tables only grow (`EntriesGrow`) and new
  entries have higher numbers. Theorems: `ReadersKeepTheirView` and the refinement
  `WritePathIsAtomic`, WqSpec => ImplementsStore, with every step of the
  writers, the background thread and the readers mapped to a step of
  `AtomicStore` or to a stutter. That `Get` may stop at the first of memtable,
  immutable memtable and tables that has the key follows from
  `LogCoversMemTable` and `LogSequencesIncrease`.
* **`CrashRecoveryProofs`**: for any number of writes, crashes, failures and files,
  under the hypothesis `SafeFaults`: of the kinds of failures, only `"open"`,
  `"table"`, `"log sync"` and `"manifest"` occur. Each of the other five breaks a
  promise (section 6, and the finding about a failed replay), so no weaker hypothesis
  will do. A crash may come at any instant, and then nothing counts but the files;
  so `CrInv` has a part for each time of a process's life. `RunInv` says of an open
  database that the version is what the synced part of the MANIFEST names, that at
  most one edit is on its way and which one (`VersionInv`), that a table being
  written is nobody else's (`IsNew`), and that the logs from `log_number` on are
  there. `DataInv` says that the memtables are in these logs and that what was
  acknowledged is in a memtable or in a table of the version, synced if the write
  was synchronous. `OpenInv` says of `DB::Open` that what it read from the MANIFEST,
  has replayed and has yet to replay is all there is. `CurrentInv` says of every
  part of the MANIFEST that a crash can leave that it is readable, names whole tables and
  ends with file and sequence numbers that are large enough. The two promises about
  crashes are proved from these where the database runs (`RunningIsSafe`), step by
  step through `DB::Open` (`OpenStays`), and over a crash because a file that it
  shortens keeps what was synced (`CrashKeepsSynced`). Theorems: `CrInvariant`,
  `SyncedWritesAlwaysSurvive`, `AckedWritesStayOnDisk`, `OpenLosesNothing`,
  `SequencesAlwaysIncrease`, `TablesInUseStayWhole`, `DatabaseAlwaysOpens`: all
  the invariants of run `crash_recovery`.
* **`CompactionProofs`**: the four invariants of run `compaction`. They do not hold for
  every value of the constants (run `manual_level0`, and section 6), so the theorems say
  under which conditions they do, and which code keeps these. `LsmInv` has the ages
  (`AgeInv`: what is written later is younger, from level 0 the newer the table, from
  level to level `LevelsAreOrdered`), `LevelsAreApart` (below level 0 no user key is in
  two tables of a level), and what the compaction in progress relies on when it installs
  its results, although flushes have changed the tree since it chose its inputs
  (`CompInv`): its inputs are still there, no other table of the next level is in the
  way of its outputs, and what it drops will not be missed, by snapshots taken since
  either (`DropsAreSafe`: a newer entry hides it from everybody, or it is a deletion
  that goes with all that it deletes). This is inductive under two hypotheses about each
  compaction: `KeysStayWhole`, no user key is in two of its outputs; and
  `InputsAreWhole`, its inputs cover their range without a gap (`InputsLeaveNoGap`) and
  leave in level 0 no older table with one of their keys (`NothingOlderStays`). None of
  the three can be left out: without the first two the instances of section 6 go wrong,
  without the last run `manual_level0` does. Theorems, under both hypotheses:
  `TreeInvariant`, `GetsHold`, `IteratorsHold`, `DisjointHolds`, `OrderHolds`.
  `WholeUnlessManual`: `PickCompaction` and `SetupOtherInputs` always choose whole
  inputs, so without `CompactRange` the second hypothesis follows from the first. `NoGapsSuffice`:
  with one output for each compaction, only gaps are left to be excluded.
  `TreeIsCorrect`: with one output, and either no `CompactRange` or no more than two
  keys (nothing lies between them), nothing is assumed of the behaviour; this covers run
  `compaction`, which has two keys and manual compactions. That `Get` may stop at the
  first place with the key is `GetsFromInv`, from the ages; that `FindFile` finds it,
  from the disjoint levels.

Only model-checked:

* liveness (`WritesReturn` and the other properties under fairness) and what needs
  `ENABLED` are out of the prover's reach;
* `CompactMemTableFlushes`, which TLC refutes.

## 5. Findings

1. **`replay_error`** - `db_impl.cc:327` overwrites the status of one log's replay
   with the next one's. `DB::Open` returns OK without acknowledged writes although
   `db_impl.cc:420` says errors are to be reflected immediately.
2. **`manual_level0`** - `version_set.cc:1340` cuts the inputs of a manual
   compaction by size in level 0 too, where tables overlap: a newer table can
   sink below an older one, and `Get` (`version_set.cc:306`, "entries never hop
   across levels") then answers with an overwritten value.
3. **`first_byte`** - `dfa.cc:1727` publishes `firstbyte` when the analysis of the
   start state stopped halfway for lack of memory; before the cache is reset
   another search skips with it and misses a match. The other runs keep out of
   its way: `ab+` has only one byte that leads out of its start state.
   `OnlyFirstByteMisleads` (section 4) shows that nothing else in the sharing of the
   cache can make a result wrong.

## 6. Known limits

What TLC refutes but no run repeats, because each is a consequence of a decision
visible in the code:

* `CompactMemTableFlushes` (`WriteQueue`): `TEST_CompactMemTable`'s NULL batch can
  become a member of another writer's group (`db_impl.cc:1234` only skips it), and
  the call then returns without a memtable switch. `db_impl.h` says "Force current
  memtable contents to be compacted".
* `LostWritesAreLast` (`CrashRecovery`): after a memtable switch the old log is
  closed without a sync; a machine crash can lose its end and keep later, synced
  writes of the new log.
* Four kinds of I/O failures are modelled but off in the passing run, since
  with any of them in `Faults` the promises do not hold:
  - `"torn log"` (`log_writer.cc:91`: the header is appended, the payload is
    not): the log stays in use, and what later writes append after the fragment is
    not found by recovery, though they were acknowledged (`AckedWritesAreOnDisk`);
  - `"torn manifest"`: the same in the MANIFEST (`AckedWritesAreOnDisk`);
  - `"manifest sync"` (`version_set.cc:793`): the record is found in the file
    (`ManifestContains`), the edit is installed and the old log deleted; a crash
    of the machine can still take the record (`SyncedWritesSurvive`). The same
    rescue while `DB::Open` writes its new MANIFEST makes CURRENT name a file that a crash
    of the machine can leave empty (`DatabaseOpens`);
  - `"unread log"` (`db_impl.cc:366`): without `paranoid_checks` a log that
    cannot be opened for reading is passed over, and then obsolete
    (`OpenIsComplete`).
* `DatabaseOpens` claims nothing before the first acknowledged write: `NewDB`
  (`db_impl.cc:196`) makes CURRENT name a MANIFEST that was never synced.
* RE2's backward searches never bail out (`dfa.cc:1406` compares a negative
  distance as unsigned, the comment at 1401-1404 says otherwise); `TooSlow` has it
  as the code does. The consequence is time, not a result.
* `Evict` of a slot from another class succeeds although the class that wanted it
  may be at its maximum when the lock is back: the slot is then lost for good
  (`central_freelist.cc:179`). `SlotsAreNotMade` is therefore an inequality.

Run `compaction` keeps `MaxOutputs = 1` (all data of an instance is smaller than one
output file) and two keys (nothing lies between them), because with more the
properties do not hold. Besides `manual_level0` there are two ways in which the tree
goes wrong, and the theorems of `CompactionProofs` show that there is no other:

* a key split over two outputs. `db_impl.cc:947` closes an output once it is big
  enough, between two versions of one user key too. They are then in two
  tables of a level, and only in level 0 does `GetOverlappingInputs` widen the range to
  take both: the next size compaction can take the newer one down and leave
  the older above it, which `Get` then returns. With `MaxKey = 1`, `MaxSeq = 4`,
  `NumLevels = 3`, `MaxMemCompactLevel = 2`, `MaxSnapshots = 1`, `MaxOutputs = 2` and
  `Manual = FALSE` TLC refutes `GetsAreCorrect` and `LevelsAreOrdered` in seconds.
* a gap between inputs. A compaction flushes a full memtable on its way
  (`db_impl.cc:867`), and `PickLevelForMemTableOutput` does not look at the outputs to
  come. If the inputs of a manual compaction leave a gap, the new table may be
  put there, and an output then overlaps it; a debug build aborts at
  `version_set.cc:664`. With `MaxKey = 3`, `MaxSeq = 5`, `NumLevels = 2`,
  `MaxMemCompactLevel = 1`, `MaxSnapshots = 0`, `MaxOutputs = 1` and `Manual = TRUE` TLC
  refutes `LevelsAreDisjoint` in a few minutes.

## 7. Not modelled

| Part | Why |
|---|---|
| leveldb: table format, blocks, filters | pure encoding and decoding of immutable files by one thread; the models take a table for the entries it holds |
| leveldb: iterators (`DBIter`, merging and two-level iterators) | sequential moves over a fixed list; what they must find is `IteratorsAreCorrect`, stated of the tree |
| leveldb: log blocks and fragments | `CrashRecovery` takes records as whole and a log as one block |
| leveldb: LRU and table caches | reference counts under one mutex for each shard, nobody waits |
| leveldb: Env and ports | system calls; what the models assume of files, threads and the mutex is stated above |
| leveldb: repair, C API, tools, benchmarks | single-threaded tool, wrappers, drivers |
| RE2: parser, compiler, NFA, backtracker, one-pass; `BuildAllStates`, `PossibleMatchRange`, match lists | sequential algorithms over large data; `DfaCache` takes what they compute as a given automaton |
| gperftools: thread caches, page heap, profilers; `SpinLock`'s futex protocol | thread caches touch memory of their own and call the central lists; the page heap is sequential under one lock; `SpinLock` is taken to be a lock. `length`, `tc_length`, `OverheadBytes` only read |
| libev | an event loop around the kernel's polling; `ev_async_send`, its one interaction between threads, is a candidate for later |
| hadoop native code | JNI and pipe protocols whose other half is Java and not here |
| protobuf | parsers, generators, encoders; the only shared state is initialisation under `GoogleOnce` |
| googletest, googlemock, google benchmark | test framework and measurement driver |
| glog, gflags | formatting, files and a registry under one mutex |
| snappy, lzo | sequential codecs: out of reach at a size that says something |
| sparsehash, cpp-btree, cityhash, stringencoders, jsoncpp | sequential containers, hash functions and codecs |
| build files | descriptions for the build system |

The repository has about 378000 lines of implementation, most of them in the
libraries of this table; the map covers about 3400 lines of the others.

## 8. Plan: done and left

Done, in this order: `BackgroundWork` and its proofs; `WriteQueue` with
`AtomicStore`; `CrashRecovery`; `Compaction`; `SkipList` with `OrderedSet` and the
refinement proof; `DfaCache` and `CentralFreeList` with their proofs; the proofs about
`WriteQueue`, its refinement of `AtomicStore`, `CrashRecovery`, the conservation of
objects and slots in `CentralFreeList`, the results of `DfaCache`, and what holds of
`Compaction` under which conditions.

Left: log fragments and resynchronisation; `SpinLock` and `ev_async_send`.

## 9. How to run

    tlc -workers 2 -config MCWriteQueue.cfg MCWriteQueue
    tlapm SkipListProofs.tla

Each run's module and configuration are named in `PROJECT.json`. The largest runs
are `write_queue` (about 2150000 distinct states) and `write_reads` (about
710000); each passing run takes less than five minutes with two workers.
