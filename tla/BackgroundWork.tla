--------------------------- MODULE BackgroundWork ---------------------------
(***************************************************************************)
(* Scheduling of background work in leveldb-1.9.0/db/db_impl.cc: the one   *)
(* background thread, the immutable memtable it must flush, the compactions *)
(* the tree asks for, manual compactions (TEST_CompactRange), errors and   *)
(* back-off, and the destructor that waits for all of it.                   *)
(*                                                                         *)
(* One action is one critical section of DBImpl::mutex_.  The points where *)
(* the code gives the mutex up (BuildTable, the MANIFEST write inside      *)
(* LogAndApply, the compaction loop, the one-second sleep, a wait on       *)
(* bg_cv_) are the states of the variable bg, or membership in bg_cv.      *)
(*                                                                         *)
(* Data abstraction.  A memtable is a number and NULL is 0.  Of the tree   *)
(* we keep what scheduling reads: the number of level-0 files (l0), how    *)
(* many more size compactions the deeper levels ask for (upper: the        *)
(* compaction score of levels >= 1), and whether the current version has a *)
(* file_to_compact_ (seek).                                                *)
(***************************************************************************)
EXTENDS Naturals, FiniteSets

CONSTANTS
  Callers,     (* threads that call TEST_CompactRange                       *)
  NoCaller,    (* the NULL value of manual_compaction_                      *)
  Destructor,  (* the thread that runs ~DBImpl                              *)
  L0Trigger,   (* config::kL0_CompactionTrigger                             *)
  L0Stop,      (* config::kL0_StopWritesTrigger                             *)
  MaxUpper,    (* bound: size compactions pending below level 0             *)
  MaxChunks,   (* bound: pieces CompactRange cuts a manual range into       *)
  MaxFaults,   (* bound: failed background I/O operations                   *)
  Paranoid     (* options_.paranoid_checks                                  *)

ASSUME ThreadsAssumption ==
  /\ NoCaller \notin Callers /\ Destructor \notin Callers
  /\ Paranoid \in BOOLEAN
ASSUME BoundsAssumption ==
  /\ L0Trigger \in Nat \ {0} /\ L0Stop \in Nat /\ L0Trigger <= L0Stop
  /\ MaxUpper \in Nat /\ MaxChunks \in Nat /\ MaxFaults \in Nat

VARIABLES
  imm,                      (* imm_                                         *)
  l0, upper, seek,          (* the current version, as far as it matters    *)
  bg_compaction_scheduled,
  bg,                       (* where the background thread is               *)
  job,                      (* the Compaction being worked on               *)
  manual_compaction,        (* the ManualCompaction slot                    *)
  request,                  (* each caller's ManualCompaction struct        *)
  caller,                   (* where each caller of TEST_CompactRange is    *)
  bg_cv,                    (* threads blocked in bg_cv_.Wait()             *)
  bg_error,                 (* ~bg_error_.ok()                              *)
  shutting_down,
  dtor,                     (* where ~DBImpl is                             *)
  faults                    (* failed background operations so far          *)

tree == <<l0, upper, seek>>
thread == <<bg_compaction_scheduled, bg, job>>
manual == <<manual_compaction, request, caller>>
closing == <<shutting_down, dtor>>
bgVars == <<imm, tree, thread, manual, bg_cv, bg_error, closing, faults>>

NULL == 0
NoJob == [kind |-> "none", manual |-> FALSE, l0in |-> 0]
IdleRequest == [level |-> 0, chunks |-> 0, done |-> TRUE]

(* "idle": no BGWork call is queued in the Env or running.  In the other     *)
(* states the call is queued, or has given the mutex up: while it builds a   *)
(* table or writes the MANIFEST for imm ("flush", "flushlog"), in the loop   *)
(* of DoCompactionWork ("compact"), flushing imm from inside that loop       *)
(* ("cflush", "cflushlog"), writing the MANIFEST for the compaction          *)
(* ("install") or for a trivial move ("move"), or in its one-second sleep.   *)
InFlush == {"flush", "flushlog"}
InNestedFlush == {"cflush", "cflushlog"}
InCompaction == {"compact", "install", "move"} \cup InNestedFlush
BgStates == {"idle", "queued", "backoff"} \cup InFlush \cup InCompaction

(* Variants named ...Bug are not the code: each is a slip somebody could     *)
(* make in the definition that follows it, kept to show that the properties  *)
(* below notice it.                                                          *)
Level0FullBug == l0 > L0Stop
Level0Full == l0 >= L0Stop

NeedsCompactionBug == upper > 0 \/ seek
NeedsCompaction == l0 >= L0Trigger \/ upper > 0 \/ seek

WorkToDoBug == imm # NULL \/ NeedsCompaction
WorkToDo == imm # NULL \/ manual_compaction # NoCaller \/ NeedsCompaction

-----------------------------------------------------------------------------
(* MaybeScheduleCompaction, called by a client thread at the end of a        *)
(* critical section: it looks at the state that section leaves behind.       *)
MaybeScheduleCompaction ==
  IF ~bg_compaction_scheduled /\ ~shutting_down /\ WorkToDo'
  THEN bg_compaction_scheduled' = TRUE /\ bg' = "queued"
  ELSE UNCHANGED <<bg_compaction_scheduled, bg>>

EndWithoutRescheduleBug ==
  job' = NoJob /\ bg_cv' = {} /\ bg_compaction_scheduled' = FALSE /\ bg' = "idle"

EndWithoutSignalBug ==
  /\ job' = NoJob
  /\ UNCHANGED bg_cv
  /\ IF ~shutting_down /\ WorkToDo'
     THEN bg_compaction_scheduled' = TRUE /\ bg' = "queued"
     ELSE bg_compaction_scheduled' = FALSE /\ bg' = "idle"

(* The end of BackgroundCall: clear the flag, look for more work, SignalAll. *)
EndOfBackgroundCall ==
  /\ job' = NoJob
  /\ bg_cv' = {}
  /\ IF ~shutting_down /\ WorkToDo'
     THEN bg_compaction_scheduled' = TRUE /\ bg' = "queued"
     ELSE bg_compaction_scheduled' = FALSE /\ bg' = "idle"

(* BackgroundCall with the status of BackgroundCompaction.  After an error   *)
(* it wakes the waiters and sleeps before it finishes.                       *)
BackgroundCallReturns(ok) ==
  IF ok \/ shutting_down
  THEN EndOfBackgroundCall
  ELSE /\ job' = NoJob
       /\ bg_cv' = {}
       /\ bg' = "backoff"
       /\ UNCHANGED bg_compaction_scheduled

(* The tail of BackgroundCompaction for a compaction that ended with this    *)
(* status: a manual one advances or gives up, and frees the slot.            *)
CompactionReturns(ok) ==
  /\ bg_error' = (bg_error \/ (~ok /\ ~shutting_down /\ Paranoid))
  /\ IF job.manual
     THEN /\ manual_compaction' = NoCaller
          /\ request' =
               IF ok THEN [request EXCEPT ![manual_compaction].chunks = @ - 1]
                     ELSE [request EXCEPT ![manual_compaction].done = TRUE]
     ELSE UNCHANGED <<manual_compaction, request>>
  /\ BackgroundCallReturns(ok)

(* CompactMemTable returns to BackgroundCompaction, or to the loop of        *)
(* DoCompactionWork, which ignores its status and signals bg_cv_.            *)
CompactMemTableReturns(ok) ==
  IF bg \in InFlush
  THEN BackgroundCallReturns(ok)
  ELSE /\ bg' = "compact"
       /\ bg_cv' = {}
       /\ UNCHANGED <<bg_compaction_scheduled, job>>

Fault == faults < MaxFaults /\ faults' = faults + 1

-----------------------------------------------------------------------------
(* The background thread: BackgroundCall takes the mutex.                    *)

(* The database is being deleted: nothing is started.                        *)
BgSeesShutdown ==
  /\ bg = "queued" /\ shutting_down
  /\ UNCHANGED <<imm, tree, manual, bg_error, closing, faults>>
  /\ EndOfBackgroundCall

BgStartsFlush ==
  /\ bg = "queued" /\ ~shutting_down /\ imm # NULL
  /\ bg' = "flush"
  /\ UNCHANGED <<imm, tree, bg_compaction_scheduled, job, manual, bg_cv,
                 bg_error, closing, faults>>

RangeIsEmptyBug(r) == r.level = 0 /\ l0 = 0

(* VersionSet::CompactRange returns NULL: no file is left in the range.      *)
RangeIsEmpty(r) == r.chunks = 0 \/ (r.level = 0 /\ l0 = 0)

BgFinishesManual ==
  /\ bg = "queued" /\ ~shutting_down /\ imm = NULL
  /\ manual_compaction # NoCaller
  /\ RangeIsEmpty(request[manual_compaction])
  /\ request' = [request EXCEPT ![manual_compaction].done = TRUE]
  /\ manual_compaction' = NoCaller
  /\ UNCHANGED <<imm, tree, caller, bg_error, closing, faults>>
  /\ EndOfBackgroundCall

BgStartsManual ==
  /\ bg = "queued" /\ ~shutting_down /\ imm = NULL
  /\ manual_compaction # NoCaller
  /\ LET r == request[manual_compaction] IN
       /\ ~RangeIsEmpty(r)
       /\ \E k \in (IF r.level = 0 THEN 1..l0 ELSE {0}) :
            job' = [kind |-> "manual", manual |-> TRUE, l0in |-> k]
  /\ bg' = "compact"
  /\ UNCHANGED <<imm, tree, bg_compaction_scheduled, manual, bg_cv,
                 bg_error, closing, faults>>

(* VersionSet::PickCompaction: size before seek.  Level 0 and the deeper     *)
(* levels are chosen between by score, which the model leaves open.  A       *)
(* trivial move has a single input file.                                     *)
PickedJobs ==
  (IF l0 >= L0Trigger
     THEN [kind : {"size"}, manual : {FALSE}, l0in : 1..l0] ELSE {})
  \cup
  (IF upper > 0
     THEN [kind : {"upper"}, manual : {FALSE}, l0in : {0}] ELSE {})
  \cup
  (IF seek /\ l0 < L0Trigger /\ upper = 0
     THEN [kind : {"seek"}, manual : {FALSE}, l0in : 0..l0] ELSE {})

BgStartsCompaction ==
  /\ bg = "queued" /\ ~shutting_down /\ imm = NULL
  /\ manual_compaction = NoCaller
  /\ \E j \in PickedJobs :
       /\ job' = j
       /\ bg' \in (IF j.l0in <= 1 THEN {"compact", "move"} ELSE {"compact"})
  /\ UNCHANGED <<imm, tree, bg_compaction_scheduled, manual, bg_cv,
                 bg_error, closing, faults>>

-----------------------------------------------------------------------------
(* CompactMemTable.  WriteLevel0Table built the table without the mutex.     *)
TableBuilt ==
  /\ bg \in {"flush", "cflush"} /\ ~shutting_down
  /\ bg' = IF bg = "flush" THEN "flushlog" ELSE "cflushlog"
  /\ UNCHANGED <<imm, tree, bg_compaction_scheduled, job, manual, bg_cv,
                 bg_error, closing, faults>>

(* "Deleting DB during memtable compaction".                                 *)
FlushAbandoned ==
  /\ bg \in {"flush", "cflush"} /\ shutting_down
  /\ UNCHANGED <<imm, tree, manual, bg_error, closing, faults>>
  /\ CompactMemTableReturns(FALSE)

FlushFails ==
  /\ bg \in InFlush \cup InNestedFlush
  /\ Fault
  /\ UNCHANGED <<imm, tree, manual, bg_error, closing>>
  /\ CompactMemTableReturns(FALSE)

(* LogAndApply succeeded: the table is in level 0, or deeper if              *)
(* PickLevelForMemTableOutput found no overlap; imm_ is released.  The new   *)
(* version starts with no file_to_compact_.                                  *)
FlushInstalled ==
  /\ bg \in {"flushlog", "cflushlog"}
  /\ imm' = NULL
  /\ l0' \in {l0, l0 + 1}
  /\ upper' \in upper..MaxUpper
  /\ seek' = FALSE
  /\ UNCHANGED <<manual, bg_error, closing, faults>>
  /\ CompactMemTableReturns(TRUE)

-----------------------------------------------------------------------------
(* DoCompactionWork: before each key the loop lets a full memtable go first. *)
CompactionPrioritizesImm ==
  /\ bg = "compact" /\ ~shutting_down /\ imm # NULL
  /\ bg' = "cflush"
  /\ UNCHANGED <<imm, tree, bg_compaction_scheduled, job, manual, bg_cv,
                 bg_error, closing, faults>>

(* The inputs are exhausted; InstallCompactionResults calls LogAndApply.     *)
CompactionLoopEnds ==
  /\ bg = "compact" /\ ~shutting_down
  /\ bg' = "install"
  /\ UNCHANGED <<imm, tree, bg_compaction_scheduled, job, manual, bg_cv,
                 bg_error, closing, faults>>

(* "Deleting DB during compaction".                                          *)
CompactionAbandoned ==
  /\ bg = "compact" /\ shutting_down
  /\ UNCHANGED <<imm, tree, caller, closing, faults>>
  /\ CompactionReturns(FALSE)

CompactionFails ==
  /\ bg \in {"compact", "install", "move"}
  /\ Fault
  /\ UNCHANGED <<imm, tree, caller, closing>>
  /\ CompactionReturns(FALSE)

(* The new version: level 0 loses the inputs it gave; a compaction of a      *)
(* deeper level pays some of the debt off, any other may add to it.          *)
CompactionInstalled ==
  /\ bg \in {"install", "move"}
  /\ l0' = l0 - job.l0in
  /\ upper' \in (IF job.kind = "upper" THEN 0..(upper - 1) ELSE 0..MaxUpper)
  /\ seek' = FALSE
  /\ UNCHANGED <<imm, caller, closing, faults>>
  /\ CompactionReturns(TRUE)

BackoffEnds ==
  /\ bg = "backoff"
  /\ UNCHANGED <<imm, tree, manual, bg_error, closing, faults>>
  /\ EndOfBackgroundCall

BgStep ==
  \/ BgSeesShutdown \/ BgStartsFlush \/ BgFinishesManual \/ BgStartsManual
  \/ BgStartsCompaction \/ TableBuilt \/ FlushAbandoned \/ FlushFails
  \/ FlushInstalled \/ CompactionPrioritizesImm \/ CompactionLoopEnds
  \/ CompactionAbandoned \/ CompactionFails \/ CompactionInstalled
  \/ BackoffEnds

-----------------------------------------------------------------------------
TakeSlotOrWaitBug(c) ==
  /\ bg_cv' = bg_cv \cup {c}
  /\ manual_compaction' = c
  /\ caller' = [caller EXCEPT ![c] = "run"]
  /\ MaybeScheduleCompaction

(* TEST_CompactRange, the body of DB::CompactRange: take the slot or wait    *)
(* for it, then wait until the slot is given back; repeat until done.        *)
TakeSlotOrWait(c) ==
  /\ bg_cv' = bg_cv \cup {c}
  /\ IF manual_compaction = NoCaller
     THEN /\ manual_compaction' = c
          /\ caller' = [caller EXCEPT ![c] = "run"]
          /\ MaybeScheduleCompaction
     ELSE /\ caller' = [caller EXCEPT ![c] = "slot"]
          /\ UNCHANGED <<manual_compaction, bg_compaction_scheduled, bg>>

CallCompactRange(c) ==
  /\ caller[c] = "idle" /\ dtor = "none"
  /\ \E level \in {0, 1}, n \in 0..MaxChunks :
       request' = [request EXCEPT ![c] =
                     [level |-> level, chunks |-> n, done |-> FALSE]]
  /\ UNCHANGED <<imm, tree, job, bg_error, closing, faults>>
  /\ TakeSlotOrWait(c)

(* Return from bg_cv_.Wait() with the mutex held, and test the loops again.  *)
CallerWakes(c) ==
  /\ caller[c] # "idle" /\ c \notin bg_cv
  /\ UNCHANGED <<imm, tree, job, request, bg_error, closing, faults>>
  /\ \/ /\ caller[c] = "run" /\ manual_compaction = c
        /\ bg_cv' = bg_cv \cup {c}
        /\ UNCHANGED <<manual_compaction, caller, bg_compaction_scheduled, bg>>
     \/ /\ caller[c] = "run" /\ manual_compaction # c /\ request[c].done
        /\ caller' = [caller EXCEPT ![c] = "idle"]
        /\ UNCHANGED <<manual_compaction, bg_cv, bg_compaction_scheduled, bg>>
     \/ /\ \/ caller[c] = "slot"
           \/ manual_compaction # c /\ ~request[c].done
        /\ TakeSlotOrWait(c)

(* The last branch of MakeRoomForWrite: memtable m becomes imm_.             *)
SwitchMemTable(m) ==
  /\ imm = NULL /\ ~Level0Full /\ ~bg_error /\ dtor = "none"
  /\ imm' = m
  /\ UNCHANGED <<tree, job, manual, bg_cv, bg_error, closing, faults>>
  /\ MaybeScheduleCompaction

(* The end of Get: UpdateStats has used up a file's allowed seeks.           *)
SeekCompactionDue ==
  /\ ~seek /\ dtor = "none"
  /\ seek' = TRUE
  /\ UNCHANGED <<imm, l0, upper, job, manual, bg_cv, bg_error, closing, faults>>
  /\ MaybeScheduleCompaction

(* pthread_cond_wait may return without a signal.                            *)
SpuriousWakeup(t) ==
  /\ t \in bg_cv
  /\ bg_cv' = bg_cv \ {t}
  /\ UNCHANGED <<imm, tree, thread, manual, bg_error, closing, faults>>

(* ~DBImpl.  The owner deletes the database when no call is in progress.     *)
BeginDelete ==
  /\ dtor = "none" /\ \A c \in Callers : caller[c] = "idle"
  /\ shutting_down' = TRUE
  /\ IF bg_compaction_scheduled
     THEN dtor' = "waiting" /\ bg_cv' = bg_cv \cup {Destructor}
     ELSE dtor' = "deleted" /\ UNCHANGED bg_cv
  /\ UNCHANGED <<imm, tree, thread, manual, bg_error, faults>>

DeleteWakesBug ==
  /\ dtor = "waiting" /\ Destructor \notin bg_cv
  /\ dtor' = "deleted"
  /\ UNCHANGED <<imm, tree, thread, manual, bg_cv, bg_error, shutting_down,
                 faults>>

DeleteWakes ==
  /\ dtor = "waiting" /\ Destructor \notin bg_cv
  /\ IF bg_compaction_scheduled
     THEN bg_cv' = bg_cv \cup {Destructor} /\ UNCHANGED dtor
     ELSE dtor' = "deleted" /\ UNCHANGED bg_cv
  /\ UNCHANGED <<imm, tree, thread, manual, bg_error, shutting_down, faults>>

-----------------------------------------------------------------------------
(* DB::Open has recovered a tree with any number of level-0 files and called *)
(* MaybeScheduleCompaction.                                                  *)
BgInit ==
  /\ imm = NULL
  /\ l0 \in 0..(L0Stop + 1) /\ upper \in 0..MaxUpper /\ seek = FALSE
  /\ bg_compaction_scheduled = NeedsCompaction
  /\ bg = IF NeedsCompaction THEN "queued" ELSE "idle"
  /\ job = NoJob
  /\ manual_compaction = NoCaller
  /\ request = [c \in Callers |-> IdleRequest]
  /\ caller = [c \in Callers |-> "idle"]
  /\ bg_cv = {} /\ bg_error = FALSE
  /\ shutting_down = FALSE /\ dtor = "none"
  /\ faults = 0

ClientStep ==
  \/ \E c \in Callers : CallCompactRange(c) \/ CallerWakes(c)
  \/ \E t \in bg_cv : SpuriousWakeup(t)
  \/ DeleteWakes

(* On its own, the module lets a writer switch memtables and a reader use up *)
(* a file's seeks at any time.                                               *)
BgNext ==
  \/ BgStep \/ ClientStep \/ BeginDelete
  \/ SwitchMemTable(1) \/ SeekCompactionDue
BgSpec == BgInit /\ [][BgNext]_bgVars

-----------------------------------------------------------------------------
(* Fairness.  The background thread runs whenever it can, and a thread that  *)
(* has been woken gets the mutex.  The loop of DoCompactionWork consumes one *)
(* input key per iteration, so it comes to its end even if each iteration    *)
(* stops to flush a memtable: CompactionLoopEnds is strongly fair.           *)
BgFairness ==
  /\ WF_bgVars(BgStep)
  /\ SF_bgVars(CompactionLoopEnds)
  /\ \A c \in Callers : WF_bgVars(CallerWakes(c))
  /\ WF_bgVars(DeleteWakes)

BgFairSpec == BgSpec /\ BgFairness

-----------------------------------------------------------------------------
BgTypeOK ==
  /\ imm \in Nat
  /\ l0 \in Nat /\ upper \in 0..MaxUpper /\ seek \in BOOLEAN
  /\ bg_compaction_scheduled \in BOOLEAN
  /\ bg \in BgStates
  /\ job \in [kind : {"none", "manual", "size", "upper", "seek"},
              manual : BOOLEAN, l0in : Nat]
  /\ manual_compaction \in Callers \cup {NoCaller}
  /\ request \in [Callers -> [level : {0, 1}, chunks : 0..MaxChunks,
                              done : BOOLEAN]]
  /\ caller \in [Callers -> {"idle", "slot", "run"}]
  /\ bg_error \in BOOLEAN
  /\ shutting_down \in BOOLEAN /\ dtor \in {"none", "waiting", "deleted"}
  /\ faults \in 0..MaxFaults

(* Whenever there is background work to do - a full memtable, a manual       *)
(* request, a tree over its limits - a background call is queued or running, *)
(* although it is only client threads and the end of the previous call that  *)
(* ever look (MaybeScheduleCompaction).                                      *)
WorkIsScheduled == WorkToDo /\ ~shutting_down => bg_compaction_scheduled

(* No thread sleeps on bg_cv_ unless a background call is on its way whose   *)
(* end will signal it: no wakeup is lost between testing the condition and   *)
(* waiting, in the writers' loops, in TEST_CompactRange and in ~DBImpl.      *)
WaiterHasWaker == bg_cv # {} => bg_compaction_scheduled

(* ~DBImpl frees the memtables and the version set only after the last       *)
(* background call has returned, and none is queued to run on freed memory.  *)
DeletedIsQuiet == dtor = "deleted" => bg = "idle" /\ bg_cv = {}

(* A manual compaction keeps its slot until the background thread gives it   *)
(* back; when it is given back the range is done or has become shorter, so   *)
(* the loop in TEST_CompactRange advances on every round.                    *)
SlotGivenBackOnProgress ==
  [][manual_compaction # NoCaller =>
       LET c == manual_compaction IN
         /\ manual_compaction' = NoCaller
         /\ \/ request'[c].done
            \/ request'[c].chunks < request[c].chunks]_manual_compaction

(* "Maximum number of level-0 files.  We stop writes at this point"          *)
(* (dbformat.h): no flush takes level 0 past the limit, although the limit   *)
(* is tested when the memtable is switched and the flush comes later.        *)
Level0Limit == [][l0' > l0 => l0' <= L0Stop]_l0

(* A full memtable is eventually written out, however many background        *)
(* operations fail in between, unless the database is being deleted.         *)
FlushHappens ==
  (imm # NULL /\ ~shutting_down) ~> (imm = NULL \/ shutting_down)

(* Deleting the database terminates.                                         *)
DeleteTerminates == (dtor = "waiting") ~> (dtor = "deleted")

(* An accepted manual compaction gets done.  BackgroundCompaction serves imm *)
(* first, so writers that never pause can hold it up: that is the premise.   *)
ManualFinishes ==
  <>[](imm = NULL) =>
     \A c \in Callers :
       (manual_compaction = c) ~> (manual_compaction # c)

(* Writers stopped by a full level 0 are eventually let go.  The same kind   *)
(* of premise: manual requests are served before PickCompaction.             *)
Level0Drains ==
  <>[](manual_compaction = NoCaller) =>
     (Level0Full ~> (~Level0Full \/ shutting_down))
=============================================================================
