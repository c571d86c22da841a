----------------------------- MODULE WriteQueue -----------------------------
(***************************************************************************)
(* The write and read paths of leveldb-1.9.0/db/db_impl.cc: DBImpl::Write  *)
(* with its queue of writers and group commit, MakeRoomForWrite, the log   *)
(* and the memtables, Get and GetSnapshot, TEST_CompactMemTable; composed  *)
(* with the background thread of BackgroundWork, which flushes the         *)
(* memtables that the writers fill.                                        *)
(*                                                                         *)
(* One action is one critical section of DBImpl::mutex_, or one of the     *)
(* steps the front writer takes without it: append to the log, sync it,    *)
(* insert one entry into the memtable.                                     *)
(*                                                                         *)
(* Data abstraction.  A batch is a sequence of keys put to one new value;  *)
(* the NULL batch of TEST_CompactMemTable is the empty one.  An entry is an *)
(* internal key with its value.  Memtables and their logs are numbered     *)
(* from 1 (a log has the number of its memtable, not a file number); the   *)
(* last one is mem_, and every other one except imm_ is in the tables of   *)
(* the current version.                                                    *)
(***************************************************************************)
EXTENDS BackgroundWork, Sequences, FiniteSetsExt

CONSTANTS
  Clients,         (* threads that call Write and TEST_CompactMemTable      *)
  Readers,         (* threads that call Get                                 *)
  Keys,
  Batches,         (* the batches clients write: non-empty sequences        *)
  SyncModes,       (* the values of WriteOptions::sync they use             *)
  MaxCalls,        (* bound: calls of Write, those with NULL included       *)
  WriteBufferSize, (* options_.write_buffer_size, in entries                *)
  L0Slowdown,      (* config::kL0_SlowdownWritesTrigger                     *)
  SmallBatch,      (* 128 KB in BuildBatchGroup, in entries                 *)
  MaxGroup         (* 1 MB in BuildBatchGroup, in entries                   *)

ASSUME WriteAssumption ==
  /\ Batches \subseteq Seq(Keys) \ {<<>>}
  /\ SyncModes \subseteq BOOLEAN /\ FALSE \in SyncModes
  /\ IsFiniteSet(Clients)
  /\ Clients \cap (Callers \cup {Destructor}) = {}
  /\ MaxCalls \in Nat /\ WriteBufferSize \in Nat /\ L0Slowdown \in Nat
  /\ SmallBatch \in Nat /\ MaxGroup \in Nat

VARIABLES
  writers,         (* writers_                                              *)
  w,               (* each client's Writer, and where its thread is         *)
  asleep,          (* clients blocked in w.cv.Wait()                        *)
  log, synced,     (* the records of each log, how many of them are synced  *)
  mtab,            (* the entries of each memtable; the last one is mem_    *)
  last_sequence,   (* versions_->LastSequence()                             *)
  rd,              (* each reader's Get                                     *)
  calls,           (* calls of Write so far; values are call numbers        *)
  hist             (* history: the batches whose Write succeeded, in order, *)
                   (* those of TEST_CompactMemTable (empty) among them      *)

files == <<log, synced, mtab>>
wqVars == <<writers, w, asleep, files, last_sequence, rd, calls, hist>>
bgButFaults == <<imm, tree, thread, manual, bg_cv, bg_error, closing>>

NullBatch == <<>>
IdleWriter == [pc |-> "idle", batch |-> NullBatch, sync |-> FALSE, val |-> 0,
               allow_delay |-> TRUE, done |-> FALSE, ok |-> TRUE,
               group |-> 0, updates |-> {}, last |-> 0, seen |-> 0]
IdleReader == [pc |-> "idle", key |-> 0, snap |-> 0, mem |-> 0, imm |-> NULL,
               tables |-> {}, got |-> 0, view |-> 0]

mem == Len(mtab)
InTables == (1..(mem - 1)) \ {imm}

-----------------------------------------------------------------------------
(* BuildBatchGroup, for the queue q and the Writers v.  Slots are the        *)
(* operations of the first n writers in the order of the combined batch.     *)
Slots(q, v, n) == UNION {{i} \X DOMAIN v[q[i]].batch : i \in 1..n}

Rank(s, S) ==
  Cardinality({p \in S : p[1] < s[1] \/ (p[1] = s[1] /\ p[2] <= s[2])})

Updates(q, v, n) ==
  {[seq |-> last_sequence + Rank(s, Slots(q, v, n)),
    key |-> v[q[s[1]]].batch[s[2]],
    val |-> v[q[s[1]]].val] : s \in Slots(q, v, n)}

MaxSize(size) == IF size <= SmallBatch THEN size + SmallBatch ELSE MaxGroup

CanJoinBug(q, v, i) ==
  v[q[i]].batch = NullBatch
    \/ Cardinality(Slots(q, v, i)) <= MaxSize(Len(v[q[1]].batch))

(* "Do not include a sync write into a batch handled by a non-sync write."   *)
CanJoin(q, v, i) ==
  /\ v[q[i]].sync => v[q[1]].sync
  /\ \/ v[q[i]].batch = NullBatch
     \/ Cardinality(Slots(q, v, i)) <= MaxSize(Len(v[q[1]].batch))

GroupSize(q, v) ==
  Cardinality({n \in 1..Len(q) : \A i \in 2..n : CanJoin(q, v, i)})

-----------------------------------------------------------------------------
HistAfter(q, v, n, ok) ==
  IF ok THEN hist \o [i \in 1..n |-> [keys |-> v[q[i]].batch, val |-> v[q[i]].val,
                                     sync |-> v[q[i]].sync]]
        ELSE hist

WritersAfter(t, q, v, n, ok) ==
  [x \in Clients |->
     IF x = t THEN [v[x] EXCEPT !.pc = "return", !.ok = ok]
     ELSE IF \E i \in 1..n : q[i] = x
          THEN [v[x] EXCEPT !.done = TRUE, !.ok = ok]
          ELSE v[x]]

FinishGroupBug(t, q, v, n, ok) ==
  /\ writers' = SubSeq(q, n + 1, Len(q))
  /\ w' = WritersAfter(t, q, v, n, ok)
  /\ asleep' = asleep \ {q[i] : i \in 1..n}
  /\ hist' = HistAfter(q, v, n, ok)

(* The end of Write: the front writer t hands its status to the n writers of *)
(* its group, takes them off the queue and signals them and the new head.    *)
FinishGroup(t, q, v, n, ok) ==
  /\ writers' = SubSeq(q, n + 1, Len(q))
  /\ w' = WritersAfter(t, q, v, n, ok)
  /\ asleep' = asleep \ {q[i] : i \in 1..(IF n < Len(q) THEN n + 1 ELSE n)}
  /\ hist' = HistAfter(q, v, n, ok)

(* Write after MakeRoomForWrite succeeded: form the group and unlock; the    *)
(* NULL batch has nothing to log.                                            *)
RoomMade(t, q, v) ==
  IF v[t].batch = NullBatch
  THEN FinishGroup(t, q, v, 1, TRUE)
  ELSE LET n == GroupSize(q, v) IN
       /\ w' = [v EXCEPT ![t].pc = "log", ![t].group = n,
                         ![t].updates = Updates(q, v, n),
                         ![t].last = last_sequence + Cardinality(Slots(q, v, n))]
       /\ writers' = q
       /\ UNCHANGED <<asleep, hist>>

-----------------------------------------------------------------------------
(* MakeRoomForWrite, from the top of its loop to the next point where it     *)
(* gives the mutex up; t is at the front of q.                               *)
MustForce(t, v) == v[t].batch = NullBatch
MayNotDelay(t, v) == ~v[t].allow_delay \/ MustForce(t, v) \/ l0 < L0Slowdown
HasRoom(t, v) == ~MustForce(t, v) /\ Cardinality(mtab[mem]) <= WriteBufferSize

YieldError(t, q, v) ==
  /\ bg_error
  /\ UNCHANGED <<bgVars, files>>
  /\ FinishGroup(t, q, v, 1, FALSE)

DelayOnce(t, q, v) ==
  /\ ~bg_error /\ ~MayNotDelay(t, v)
  /\ w' = [v EXCEPT ![t].pc = "sleep", ![t].allow_delay = FALSE]
  /\ writers' = q
  /\ UNCHANGED <<bgVars, asleep, files, hist>>

UseMemTable(t, q, v) ==
  /\ ~bg_error /\ MayNotDelay(t, v) /\ HasRoom(t, v)
  /\ UNCHANGED <<bgVars, files>>
  /\ RoomMade(t, q, v)

WaitForRoom(t, q, v) ==
  /\ ~bg_error /\ MayNotDelay(t, v) /\ ~HasRoom(t, v)
  /\ imm # NULL \/ Level0Full
  /\ bg_cv' = bg_cv \cup {t}
  /\ w' = [v EXCEPT ![t].pc = "room"]
  /\ writers' = q
  /\ UNCHANGED <<imm, tree, thread, manual, bg_error, closing, faults,
                 asleep, files, hist>>

NewLogFails(t, q, v) ==
  /\ ~bg_error /\ MayNotDelay(t, v) /\ ~HasRoom(t, v)
  /\ imm = NULL /\ ~Level0Full
  /\ Fault
  /\ UNCHANGED <<bgButFaults, files>>
  /\ FinishGroup(t, q, v, 1, FALSE)

(* The new memtable is empty: the loop finds room in it at once.             *)
UseNewMemTable(t, q, v) ==
  /\ MayNotDelay(t, v) /\ ~HasRoom(t, v)
  /\ SwitchMemTable(mem)
  /\ log' = Append(log, <<>>) /\ synced' = Append(synced, 0)
  /\ mtab' = Append(mtab, {})
  /\ RoomMade(t, q, v)

MakeRoomForWrite(t, q, v) ==
  \/ YieldError(t, q, v) \/ DelayOnce(t, q, v) \/ UseMemTable(t, q, v)
  \/ WaitForRoom(t, q, v) \/ NewLogFails(t, q, v) \/ UseNewMemTable(t, q, v)

-----------------------------------------------------------------------------
(* Write: join the queue; at the front, go on, else wait.                    *)
CallWrite(t) ==
  /\ w[t].pc = "idle" /\ dtor = "none" /\ calls < MaxCalls
  /\ calls' = calls + 1
  /\ \E b \in Batches \cup {NullBatch}, s \in SyncModes :
       LET me == [IdleWriter EXCEPT !.pc = "queue", !.batch = b, !.sync = s,
                                    !.val = calls + 1, !.seen = Len(hist)]
           v == [w EXCEPT ![t] = me]
           q == Append(writers, t)
       IN /\ b = NullBatch => ~s
          /\ IF writers = <<>>
             THEN MakeRoomForWrite(t, q, v)
             ELSE /\ writers' = q /\ w' = v
                  /\ asleep' = asleep \cup {t}
                  /\ UNCHANGED <<bgVars, files, hist>>
  /\ UNCHANGED <<last_sequence, rd>>

WriterRunsBug(t) ==
  /\ w[t].pc \in {"queue", "sleep", "room"} /\ t \notin asleep \cup bg_cv
  /\ IF w[t].done
     THEN /\ w' = [w EXCEPT ![t].pc = "return"]
          /\ UNCHANGED <<bgVars, writers, asleep, files, hist>>
     ELSE MakeRoomForWrite(t, writers, w)
  /\ UNCHANGED <<last_sequence, rd, calls>>

(* A client gets the mutex back in Write, after w.cv.Wait(), bg_cv_.Wait()   *)
(* or the one-millisecond sleep.                                             *)
WriterRuns(t) ==
  /\ w[t].pc \in {"queue", "sleep", "room"} /\ t \notin asleep \cup bg_cv
  /\ IF w[t].done
     THEN /\ w' = [w EXCEPT ![t].pc = "return"]
          /\ UNCHANGED <<bgVars, writers, asleep, files, hist>>
     ELSE IF writers[1] = t
          THEN MakeRoomForWrite(t, writers, w)
          ELSE /\ asleep' = asleep \cup {t}
               /\ UNCHANGED <<bgVars, writers, w, files, hist>>
  /\ UNCHANGED <<last_sequence, rd, calls>>

WriterWakesSpuriously(t) ==
  /\ t \in asleep
  /\ asleep' = asleep \ {t}
  /\ UNCHANGED <<bgVars, writers, w, files, last_sequence, rd, calls, hist>>

-----------------------------------------------------------------------------
(* The front writer without the mutex.                                       *)
AddRecordBug(t) ==
  /\ w[t].pc = "log"
  /\ log' = [log EXCEPT ![mem] = Append(@, w[t].updates)]
  /\ w' = [w EXCEPT ![t].pc = IF w[t].sync THEN "sync" ELSE "insert"]
  /\ last_sequence' = w[t].last
  /\ UNCHANGED <<bgVars, writers, asleep, synced, mtab, rd, calls, hist>>

AddRecord(t) ==
  /\ w[t].pc = "log"
  /\ log' = [log EXCEPT ![mem] = Append(@, w[t].updates)]
  /\ w' = [w EXCEPT ![t].pc = IF w[t].sync THEN "sync" ELSE "insert"]
  /\ UNCHANGED <<bgVars, writers, asleep, synced, mtab, last_sequence, rd,
                 calls, hist>>

SyncLog(t) ==
  /\ w[t].pc = "sync"
  /\ synced' = [synced EXCEPT ![mem] = Len(log[mem])]
  /\ w' = [w EXCEPT ![t].pc = "insert"]
  /\ UNCHANGED <<bgVars, writers, asleep, log, mtab, last_sequence, rd,
                 calls, hist>>

LogOrSyncFailsBug(t) ==
  /\ w[t].pc \in {"log", "sync"}
  /\ Fault
  /\ w' = [w EXCEPT ![t].pc = "insert", ![t].ok = FALSE]
  /\ UNCHANGED <<bgButFaults, writers, asleep, files, last_sequence, rd,
                 calls, hist>>

LogOrSyncFails(t) ==
  /\ w[t].pc \in {"log", "sync"}
  /\ Fault
  /\ w' = [w EXCEPT ![t].pc = "finish", ![t].ok = FALSE]
  /\ UNCHANGED <<bgButFaults, writers, asleep, files, last_sequence, rd,
                 calls, hist>>

(* WriteBatchInternal::InsertInto adds the entries in sequence order.        *)
InsertInto(t) ==
  /\ w[t].pc = "insert"
  /\ LET next == CHOOSE e \in w[t].updates : \A f \in w[t].updates : e.seq <= f.seq
     IN /\ mtab' = [mtab EXCEPT ![mem] = @ \cup {next}]
        /\ w' = [w EXCEPT ![t].updates = @ \ {next},
                          ![t].pc = IF w[t].updates = {next} THEN "finish"
                                                            ELSE "insert"]
  /\ UNCHANGED <<bgVars, writers, asleep, log, synced, last_sequence, rd,
                 calls, hist>>

FinishWriteBug(t) ==
  /\ w[t].pc = "finish"
  /\ last_sequence' = IF w[t].ok THEN w[t].last ELSE last_sequence
  /\ UNCHANGED <<bgVars, files, rd, calls>>
  /\ FinishGroup(t, writers, w, w[t].group, w[t].ok)

(* The mutex is back: SetLastSequence publishes the entries.                 *)
FinishWrite(t) ==
  /\ w[t].pc = "finish"
  /\ last_sequence' = w[t].last
  /\ UNCHANGED <<bgVars, files, rd, calls>>
  /\ FinishGroup(t, writers, w, w[t].group, w[t].ok)

-----------------------------------------------------------------------------
(* TEST_CompactMemTable, after its Write of the NULL batch succeeded, waits  *)
(* until imm_ is gone.                                                       *)
AwaitFlush(t) ==
  /\ w[t].batch = NullBatch /\ w[t].ok
  /\ w[t].pc = "return" \/ (w[t].pc = "flush" /\ t \notin bg_cv)
  /\ IF imm # NULL /\ ~bg_error
     THEN /\ bg_cv' = bg_cv \cup {t}
          /\ w' = [w EXCEPT ![t].pc = "flush"]
     ELSE /\ UNCHANGED bg_cv
          /\ w' = [w EXCEPT ![t].pc = "compacted", ![t].ok = (imm = NULL)]
  /\ UNCHANGED <<imm, tree, thread, manual, bg_error, closing, faults,
                 writers, asleep, files, last_sequence, rd, calls, hist>>

(* The call is over and the caller has its status.                           *)
ReturnToCaller(t) ==
  /\ \/ w[t].pc = "return" /\ (w[t].batch # NullBatch \/ ~w[t].ok)
     \/ w[t].pc = "compacted"
  /\ w' = [w EXCEPT ![t] = IdleWriter]
  /\ UNCHANGED <<bgVars, writers, asleep, files, last_sequence, rd, calls, hist>>

-----------------------------------------------------------------------------
GetSnapshot(r) ==
  /\ rd[r].pc = "idle" /\ dtor = "none"
  /\ rd' = [rd EXCEPT ![r].pc = "snapshot", ![r].snap = last_sequence,
                      ![r].view = Len(hist)]
  /\ UNCHANGED <<bgVars, writers, w, asleep, files, last_sequence, calls, hist>>

(* Get, with its snapshot or the latest state, pins mem_, imm_ and the       *)
(* current version, and unlocks.                                             *)
BeginGet(r) ==
  /\ rd[r].pc \in {"idle", "snapshot"} /\ dtor = "none"
  /\ \E k \in Keys :
       LET pinned == [rd[r] EXCEPT !.pc = "reading", !.key = k, !.mem = mem,
                                   !.imm = imm, !.tables = InTables]
       IN rd' = [rd EXCEPT ![r] =
                   IF rd[r].pc = "snapshot" THEN pinned
                   ELSE [pinned EXCEPT !.snap = last_sequence,
                                       !.view = Len(hist)]]
  /\ UNCHANGED <<bgVars, writers, w, asleep, files, last_sequence, calls, hist>>

(* Entries of reader r's key up to its snapshot, in memtable or table m.     *)
Visible(r, m) == {e \in mtab[m] : e.key = rd[r].key /\ e.seq <= rd[r].snap}

NewestValue(S) ==
  IF S = {} THEN 0 ELSE (CHOOSE e \in S : \A f \in S : f.seq <= e.seq).val

InMemTables(r) ==
  Visible(r, rd[r].mem) # {} \/ (rd[r].imm # NULL /\ Visible(r, rd[r].imm) # {})

(* mem, then imm, then the tables of the pinned version.                     *)
Lookup(r) ==
  IF Visible(r, rd[r].mem) # {} THEN NewestValue(Visible(r, rd[r].mem))
  ELSE IF rd[r].imm # NULL /\ Visible(r, rd[r].imm) # {}
       THEN NewestValue(Visible(r, rd[r].imm))
       ELSE NewestValue(UNION {Visible(r, m) : m \in rd[r].tables})

(* A Get that went to the tables may use up the seeks of a file.             *)
EndGet(r) ==
  /\ rd[r].pc = "reading"
  /\ rd' = [rd EXCEPT ![r].pc = "got", ![r].got = Lookup(r)]
  /\ \/ UNCHANGED bgVars
     \/ ~InMemTables(r) /\ rd[r].tables # {} /\ SeekCompactionDue
  /\ UNCHANGED <<writers, w, asleep, files, last_sequence, calls, hist>>

ReturnGet(r) ==
  /\ rd[r].pc = "got"
  /\ rd' = [rd EXCEPT ![r] = IdleReader]
  /\ UNCHANGED <<bgVars, writers, w, asleep, files, last_sequence, calls, hist>>

-----------------------------------------------------------------------------
WqInit ==
  /\ BgInit
  /\ writers = <<>> /\ asleep = {}
  /\ w = [t \in Clients |-> IdleWriter]
  /\ log = <<<<>>>> /\ synced = <<0>> /\ mtab = <<{}>>
  /\ last_sequence = 0
  /\ rd = [r \in Readers |-> IdleReader]
  /\ calls = 0 /\ hist = <<>>

WriterStep(t) ==
  \/ WriterRuns(t) \/ AddRecord(t) \/ SyncLog(t) \/ LogOrSyncFails(t)
  \/ InsertInto(t) \/ FinishWrite(t) \/ AwaitFlush(t) \/ ReturnToCaller(t)

ReaderStep(r) == EndGet(r) \/ ReturnGet(r)

AllCallsDone ==
  /\ \A t \in Clients : w[t].pc = "idle"
  /\ \A r \in Readers : rd[r].pc = "idle"

WqNext ==
  \/ \E t \in Clients : CallWrite(t) \/ WriterStep(t) \/ WriterWakesSpuriously(t)
  \/ \E r \in Readers : GetSnapshot(r) \/ BeginGet(r) \/ ReaderStep(r)
  \/ (BgStep \/ ClientStep) /\ UNCHANGED wqVars
  \/ AllCallsDone /\ BeginDelete /\ UNCHANGED wqVars

WqSpec == WqInit /\ [][WqNext]_<<bgVars, wqVars>>

(* Every thread keeps running: the background thread as in BackgroundWork,   *)
(* a client whenever it is not blocked on a condition variable.              *)
WqFairness ==
  /\ WF_<<bgVars, wqVars>>(BgStep /\ UNCHANGED wqVars)
  /\ SF_<<bgVars, wqVars>>(CompactionLoopEnds /\ UNCHANGED wqVars)
  /\ \A t \in Clients : WF_<<bgVars, wqVars>>(WriterStep(t))

WqFairSpec == WqSpec /\ WqFairness

-----------------------------------------------------------------------------

(* The comment in Write: the writer that logs "protects against concurrent   *)
(* loggers and concurrent writes into mem_".  At most one client is between  *)
(* the unlock and the lock, it is the head of the queue, the writers whose   *)
(* batches it carries stand right behind it, and none of them has been told  *)
(* that it is done.                                                          *)
OneLogger ==
  \A t \in Clients :
    w[t].pc \in {"log", "sync", "insert", "finish"} =>
      /\ w[t].group \in 1..Len(writers) /\ writers[1] = t
      /\ \A i \in 1..w[t].group : ~w[writers[i]].done

EntriesOf(m) == UNION {log[m][i] : i \in 1..Len(log[m])}
SyncedEntries(m) == UNION {log[m][i] : i \in 1..synced[m]}

(* WriteOptions::sync: once a group with a synchronous write in it has       *)
(* succeeded, its entries are in the synced part of a log or in a table -    *)
(* whoever led the group, and wherever memtables have moved since.           *)
SyncWritesAreDurable ==
  \A i \in 1..Len(hist) : hist[i].sync =>
    \E m \in 1..mem :
      LET mine == {e \in mtab[m] : e.val = hist[i].val} IN
        /\ {e.key : e \in mine} = {hist[i].keys[j] : j \in DOMAIN hist[i].keys}
        /\ m \in InTables \/ mine \subseteq SyncedEntries(m)

(* A log can be thrown away with its memtable: what is in a memtable is in   *)
(* the log of the same number, under the same sequence number.               *)
LogCoversMemTable ==
  \A m \in 1..mem : mtab[m] \subseteq EntriesOf(m)

(* No two log records carry the same sequence number, although a write that  *)
(* failed after its record went out has left that record in the log: the     *)
(* numbers in a log and in its successors only go up.                        *)
LogSequencesIncrease ==
  \A m, n \in 1..mem : \A i \in 1..Len(log[m]), j \in 1..Len(log[n]) :
    (m < n \/ (m = n /\ i < j)) =>
      \A e \in log[m][i], f \in log[n][j] : e.seq < f.seq

(* The clients cannot tell the database from a store that applies each batch *)
(* at one instant: the refinement mapping reads a call's status off its      *)
(* Writer; TEST_CompactMemTable is a Write of an empty batch, over when the  *)
(* wait for the flush begins.                                                *)
StoreStatus(t) ==
  CASE w[t].pc = "idle" -> "idle"
    [] w[t].pc \in {"flush", "compacted"} -> "ok"
    [] w[t].pc = "return" \/ (w[t].pc = "queue" /\ w[t].done) ->
         IF w[t].ok THEN "ok" ELSE "failed"
    [] OTHER -> "pending"
StoreWrite(t) == [pc |-> StoreStatus(t), keys |-> w[t].batch, val |-> w[t].val]

Store == INSTANCE AtomicStore WITH
  Values <- 1..MaxCalls, Batches <- Batches \cup {NullBatch},
  hist <- [i \in DOMAIN hist |-> [keys |-> hist[i].keys, val |-> hist[i].val]],
  wcall <- [t \in Clients |-> StoreWrite(t)],
  rcall <- [r \in Readers |-> [pc |-> rd[r].pc, key |-> rd[r].key,
                               view |-> rd[r].view, got |-> rd[r].got]]

ImplementsStore == Store!StoreSpec

(* Every call of Write and TEST_CompactMemTable returns.                     *)
WritesReturn ==
  \A t \in Clients : (w[t].pc # "idle") ~> (w[t].pc = "idle")

(* db_impl.h on TEST_CompactMemTable: "Force current memtable contents to be *)
(* compacted".  When it has returned OK, the writes that had succeeded       *)
(* before it was called are in tables.  No run checks this: TLC refutes it,  *)
(* because another writer's group can swallow the NULL batch.                *)
CompactMemTableFlushes ==
  \A t \in Clients : (w[t].pc = "compacted" /\ w[t].ok) =>
    \A i \in 1..w[t].seen : hist[i].keys # NullBatch => \E m \in InTables :
      \E e \in mtab[m] : e.val = hist[i].val
=============================================================================
