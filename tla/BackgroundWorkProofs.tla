------------------------ MODULE BackgroundWorkProofs ------------------------
(***************************************************************************)
(* Proofs about BackgroundWork, for any number of callers and any values   *)
(* of the limits: the invariants of the scheduler, and the two action      *)
(* properties that rest on them.                                           *)
(***************************************************************************)
EXTENDS BackgroundWork, TLAPS

(* What the properties of BackgroundWork need to be inductive.               *)

(* The flag the code keeps says where its one background call is.            *)
FlagFollowsThread == bg_compaction_scheduled <=> bg # "idle"

(* Everybody has left before the database is deleted.                        *)
DeleteIsLast ==
  /\ shutting_down <=> dtor # "none"
  /\ dtor # "none" => \A c \in Callers : caller[c] = "idle"

(* What the background thread holds without the mutex stays what it was when *)
(* it let the mutex go: the memtable it is writing out, the level-0 inputs   *)
(* of the compaction, and the slot and range of the manual request.          *)
FlushHoldsImm == bg \in InFlush \cup InNestedFlush => imm # NULL

JobStaysValid ==
  bg \in InCompaction =>
    /\ job.l0in <= l0
    /\ job.manual => /\ manual_compaction # NoCaller
                     /\ request[manual_compaction].chunks > 0

SlotOwnerWaits == manual_compaction # NoCaller => caller[manual_compaction] = "run"

(* A memtable is switched only under the limit, and only its own flush adds  *)
(* to level 0 before the next switch.                                        *)
ImmLeavesRoom == imm # NULL => l0 < L0Stop

BgInv ==
  /\ BgTypeOK
  /\ FlagFollowsThread
  /\ DeleteIsLast
  /\ FlushHoldsImm
  /\ JobStaysValid
  /\ SlotOwnerWaits
  /\ ImmLeavesRoom
  /\ WorkIsScheduled
  /\ WaiterHasWaker
  /\ DeletedIsQuiet

-----------------------------------------------------------------------------
(* The initial states satisfy the invariant.                                 *)
LEMMA InitEstablishesInv == BgInit => BgInv
<1> SUFFICES ASSUME BgInit PROVE BgInv
  OBVIOUS
<1> USE ThreadsAssumption, BoundsAssumption DEF BgInit, NULL
<1>1. BgTypeOK
  <2>1. bg_compaction_scheduled \in BOOLEAN
    BY DEF NeedsCompaction
  <2>2. imm \in Nat /\ l0 \in Nat /\ upper \in 0..MaxUpper /\ faults \in 0..MaxFaults
    OBVIOUS
  <2>3. bg \in BgStates
    BY DEF BgStates
  <2>4. NoJob \in [kind : {"none", "manual", "size", "upper", "seek"},
                 manual : BOOLEAN, l0in : Nat]
    BY DEF NoJob
  <2>5. IdleRequest \in [level : {0, 1}, chunks : 0..MaxChunks, done : BOOLEAN]
    BY DEF IdleRequest
  <2>6. request \in [Callers -> [level : {0, 1}, chunks : 0..MaxChunks,
                              done : BOOLEAN]]
    BY <2>5
  <2>7. seek \in BOOLEAN /\ bg_error \in BOOLEAN /\ shutting_down \in BOOLEAN
    OBVIOUS
  <2>8. QED
    BY <2>1, <2>2, <2>3, <2>4, <2>6, <2>7 DEF BgTypeOK
<1>2. WorkIsScheduled /\ FlagFollowsThread
  BY DEF WorkIsScheduled, WorkToDo, FlagFollowsThread
<1>3. QED
  BY <1>1, <1>2
     DEF BgInv, DeleteIsLast, FlushHoldsImm, JobStaysValid, SlotOwnerWaits,
         ImmLeavesRoom, WaiterHasWaker, DeletedIsQuiet, InFlush,
         InNestedFlush, InCompaction

(* The end of a background call re-establishes what the invariant says of    *)
(* the thread, whatever work the critical section leaves behind.             *)
LEMMA EndReschedules ==
  ASSUME BgInv, EndOfBackgroundCall, dtor' = dtor, shutting_down' = shutting_down,
         dtor # "deleted"
  PROVE  /\ bg_compaction_scheduled' \in BOOLEAN /\ bg' \in {"idle", "queued"}
         /\ FlagFollowsThread' /\ WorkIsScheduled' /\ WaiterHasWaker'
         /\ DeletedIsQuiet' /\ FlushHoldsImm' /\ JobStaysValid'
BY DEF EndOfBackgroundCall, FlagFollowsThread, WorkIsScheduled, WaiterHasWaker,
       DeletedIsQuiet, FlushHoldsImm, JobStaysValid, InFlush, InNestedFlush,
       InCompaction

(* The same when the call ends with an error and backs off first.            *)
LEMMA ReturnReschedules ==
  ASSUME BgInv, NEW ok \in BOOLEAN, BackgroundCallReturns(ok), bg # "idle",
         dtor' = dtor, shutting_down' = shutting_down, dtor # "deleted"
  PROVE  /\ job' = NoJob
         /\ bg_compaction_scheduled' \in BOOLEAN
         /\ bg' \in {"idle", "queued", "backoff"}
         /\ FlagFollowsThread' /\ WorkIsScheduled' /\ WaiterHasWaker'
         /\ DeletedIsQuiet' /\ FlushHoldsImm' /\ JobStaysValid'
<1>1. CASE ok \/ shutting_down
  BY <1>1, EndReschedules DEF BackgroundCallReturns, EndOfBackgroundCall
<1>2. CASE ~(ok \/ shutting_down)
  BY <1>2
     DEF BackgroundCallReturns, BgInv, BgTypeOK, FlagFollowsThread,
         WorkIsScheduled, WaiterHasWaker, DeletedIsQuiet, FlushHoldsImm,
         JobStaysValid, InFlush, InNestedFlush, InCompaction
<1>3. QED
  BY <1>1, <1>2

(* A memtable flush that is over, in either place it is called from.         *)
LEMMA FlushReturns ==
  ASSUME BgInv, NEW ok \in BOOLEAN, CompactMemTableReturns(ok),
         bg \in InFlush \cup InNestedFlush,
         imm' \in {imm, NULL}, l0' \in Nat, l0' >= l0, imm' # NULL => l0' = l0,
         upper' \in 0..MaxUpper, seek' \in BOOLEAN, faults' \in 0..MaxFaults,
         UNCHANGED <<manual, bg_error, closing>>
  PROVE  BgInv'
<1> USE ThreadsAssumption, BoundsAssumption DEF NULL, manual, closing
<1>1. dtor # "deleted" /\ bg # "idle"
  BY DEF BgInv, DeletedIsQuiet, InFlush, InNestedFlush
<1>2. ImmLeavesRoom' /\ SlotOwnerWaits' /\ DeleteIsLast'
  BY DEF BgInv, BgTypeOK, ImmLeavesRoom, SlotOwnerWaits, DeleteIsLast
<1>3. CASE bg \in InFlush
  <2>1. BackgroundCallReturns(ok)
    BY <1>3 DEF CompactMemTableReturns
  <2>2. /\ job' = NoJob
        /\ bg_compaction_scheduled' \in BOOLEAN
        /\ bg' \in {"idle", "queued", "backoff"}
        /\ FlagFollowsThread' /\ WorkIsScheduled' /\ WaiterHasWaker'
        /\ DeletedIsQuiet' /\ FlushHoldsImm' /\ JobStaysValid'
    BY <1>1, <2>1, ReturnReschedules DEF BgInv
  <2>3. BgTypeOK'
    BY <2>2 DEF BgInv, BgTypeOK, NoJob, BgStates
  <2>4. QED
    BY <1>2, <2>2, <2>3 DEF BgInv
<1>4. CASE bg \in InNestedFlush
  <2>1. /\ bg' = "compact" /\ bg_cv' = {}
        /\ UNCHANGED <<bg_compaction_scheduled, job>>
    BY <1>4 DEF CompactMemTableReturns, InFlush, InNestedFlush
  <2>2. BgTypeOK'
    BY <2>1 DEF BgInv, BgTypeOK, BgStates, InCompaction
  <2>3. JobStaysValid'
    BY <1>4, <2>1
       DEF BgInv, BgTypeOK, JobStaysValid, InCompaction, InNestedFlush
  <2>4. FlagFollowsThread' /\ FlushHoldsImm' /\ WorkIsScheduled'
    BY <1>1, <2>1
       DEF BgInv, FlagFollowsThread, FlushHoldsImm, WorkIsScheduled, InFlush,
           InNestedFlush
  <2>5. WaiterHasWaker' /\ DeletedIsQuiet'
    BY <1>1, <2>1 DEF WaiterHasWaker, DeletedIsQuiet
  <2>6. QED
    BY <1>2, <2>2, <2>3, <2>4, <2>5 DEF BgInv
<1>5. QED
  BY <1>3, <1>4

(* A compaction that is over, automatic or manual.                           *)
LEMMA CompactionOver ==
  ASSUME BgInv, NEW ok \in BOOLEAN, CompactionReturns(ok), bg \in InCompaction,
         l0' \in Nat, l0' <= l0,
         upper' \in 0..MaxUpper, seek' \in BOOLEAN, faults' \in 0..MaxFaults,
         UNCHANGED <<imm, caller, closing>>
  PROVE  BgInv'
<1> USE ThreadsAssumption, BoundsAssumption DEF NULL, closing
<1>1. dtor # "deleted" /\ bg # "idle"
  BY DEF BgInv, DeletedIsQuiet, InCompaction, InNestedFlush
<1>2. BackgroundCallReturns(ok)
  BY DEF CompactionReturns
<1>3. /\ manual_compaction' \in {manual_compaction, NoCaller}
      /\ request' \in [Callers -> [level : {0, 1}, chunks : 0..MaxChunks,
                                  done : BOOLEAN]]
  <2>1. CASE ~job.manual
    BY <2>1 DEF CompactionReturns, BgInv, BgTypeOK
  <2>2. CASE job.manual
    <3>1. /\ manual_compaction \in Callers
          /\ request[manual_compaction].chunks - 1 \in 0..MaxChunks
      BY <2>2 DEF BgInv, BgTypeOK, JobStaysValid
    <3>2. CASE ok
      BY <2>2, <3>1, <3>2 DEF CompactionReturns, BgInv, BgTypeOK
    <3>3. CASE ~ok
      <4>1. request' = [request EXCEPT ![manual_compaction].done = TRUE]
        BY <2>2, <3>3 DEF CompactionReturns
      <4>2. request' \in [Callers -> [level : {0, 1}, chunks : 0..MaxChunks,
                                    done : BOOLEAN]]
        BY <3>1, <4>1 DEF BgInv, BgTypeOK
      <4>3. QED
        BY <2>2, <4>2 DEF CompactionReturns
    <3>4. QED
      BY <3>2, <3>3
  <2>3. QED
    BY <2>1, <2>2
<1>4. /\ job' = NoJob
      /\ bg_compaction_scheduled' \in BOOLEAN
      /\ bg' \in {"idle", "queued", "backoff"}
      /\ FlagFollowsThread' /\ WorkIsScheduled' /\ WaiterHasWaker'
      /\ DeletedIsQuiet' /\ FlushHoldsImm' /\ JobStaysValid'
  BY <1>1, <1>2, ReturnReschedules
<1>5. BgTypeOK'
  <2>1. bg_error' \in BOOLEAN
    BY DEF CompactionReturns, BgInv, BgTypeOK
  <2>2. QED
    BY <1>3, <1>4, <2>1 DEF BgInv, BgTypeOK, NoJob, BgStates
<1>6. ImmLeavesRoom' /\ SlotOwnerWaits' /\ DeleteIsLast'
  BY <1>3 DEF BgInv, BgTypeOK, ImmLeavesRoom, SlotOwnerWaits, DeleteIsLast
<1>7. QED
  BY <1>4, <1>5, <1>6 DEF BgInv

(* Every step of the background thread keeps the invariant.                  *)
LEMMA BgStepKeepsInv == BgInv /\ BgStep => BgInv'
<1> SUFFICES ASSUME BgInv, BgStep PROVE BgInv'
  OBVIOUS
<1>1. CASE FlushAbandoned
  <2>1. imm' = imm /\ l0' = l0 /\ l0 \in Nat /\ upper' \in 0..MaxUpper
        /\ seek' \in BOOLEAN /\ faults' \in 0..MaxFaults
    BY <1>1 DEF FlushAbandoned, BgInv, BgTypeOK, tree
  <2>2. QED
    <3>1. CompactMemTableReturns(FALSE) /\ FALSE \in BOOLEAN
      BY <1>1 DEF FlushAbandoned
    <3>2. bg \in InFlush \cup InNestedFlush /\ UNCHANGED <<manual, bg_error, closing>>
      BY <1>1 DEF FlushAbandoned, InFlush, InNestedFlush
    <3>3. l0' \in Nat /\ l0' >= l0
      BY <2>1
    <3>4. QED
      BY <2>1, <3>1, <3>2, <3>3, FlushReturns
<1>2. CASE FlushFails
  <2>1. imm' = imm /\ l0' = l0 /\ l0 \in Nat /\ upper' \in 0..MaxUpper
        /\ seek' \in BOOLEAN /\ faults' \in 0..MaxFaults
    BY <1>2, BoundsAssumption DEF FlushFails, Fault, BgInv, BgTypeOK, tree
  <2>2. QED
    <3>1. CompactMemTableReturns(FALSE) /\ FALSE \in BOOLEAN
      BY <1>2 DEF FlushFails
    <3>2. bg \in InFlush \cup InNestedFlush /\ UNCHANGED <<manual, bg_error, closing>>
      BY <1>2 DEF FlushFails
    <3>3. l0' \in Nat /\ l0' >= l0
      BY <2>1
    <3>4. QED
      BY <2>1, <3>1, <3>2, <3>3, FlushReturns
<1>3. CASE FlushInstalled
  <2>1. l0 \in Nat /\ l0' \in Nat /\ l0' >= l0 /\ upper' \in 0..MaxUpper
        /\ faults' \in 0..MaxFaults
    BY <1>3, BoundsAssumption DEF FlushInstalled, BgInv, BgTypeOK
  <2>2. QED
    BY <1>3, <2>1, FlushReturns DEF FlushInstalled, InFlush, InNestedFlush, NULL
<1>4. CASE CompactionAbandoned
  <2>1. l0' = l0 /\ l0 \in Nat /\ upper' \in 0..MaxUpper /\ seek' \in BOOLEAN
        /\ faults' \in 0..MaxFaults
    BY <1>4 DEF CompactionAbandoned, BgInv, BgTypeOK, tree
  <2>2. QED
    <3>1. CompactionReturns(FALSE) /\ FALSE \in BOOLEAN
      BY <1>4 DEF CompactionAbandoned
    <3>2. bg \in InCompaction /\ UNCHANGED <<imm, caller, closing>>
      BY <1>4 DEF CompactionAbandoned, InCompaction
    <3>3. l0' \in Nat /\ l0' <= l0
      BY <2>1
    <3>4. QED
      BY <2>1, <3>1, <3>2, <3>3, CompactionOver
<1>5. CASE CompactionFails
  <2>1. l0' = l0 /\ l0 \in Nat /\ upper' \in 0..MaxUpper /\ seek' \in BOOLEAN
        /\ faults' \in 0..MaxFaults
    BY <1>5, BoundsAssumption DEF CompactionFails, Fault, BgInv, BgTypeOK, tree
  <2>2. QED
    <3>1. CompactionReturns(FALSE) /\ FALSE \in BOOLEAN
      BY <1>5 DEF CompactionFails
    <3>2. bg \in InCompaction /\ UNCHANGED <<imm, caller, closing>>
      BY <1>5 DEF CompactionFails, InCompaction
    <3>3. l0' \in Nat /\ l0' <= l0
      BY <2>1
    <3>4. QED
      BY <2>1, <3>1, <3>2, <3>3, CompactionOver
<1>6. CASE CompactionInstalled
  <2>1. job.l0in \in Nat /\ job.l0in <= l0 /\ l0 \in Nat
    BY <1>6 DEF CompactionInstalled, BgInv, BgTypeOK, JobStaysValid, InCompaction
  <2>2. l0' \in Nat /\ l0' <= l0
    BY <1>6, <2>1 DEF CompactionInstalled
  <2>3. upper' \in 0..MaxUpper
    BY <1>6, BoundsAssumption DEF CompactionInstalled, BgInv, BgTypeOK
  <2>4. faults' \in 0..MaxFaults
    BY <1>6 DEF CompactionInstalled, BgInv, BgTypeOK
  <2>5. QED
    BY <1>6, <2>2, <2>3, <2>4, CompactionOver DEF CompactionInstalled, InCompaction
<1> USE ThreadsAssumption, BoundsAssumption
    DEF BgInv, BgTypeOK, FlagFollowsThread, DeleteIsLast, FlushHoldsImm,
        JobStaysValid, SlotOwnerWaits, ImmLeavesRoom, WorkIsScheduled,
        WaiterHasWaker, DeletedIsQuiet, WorkToDo, NeedsCompaction, NULL, NoJob,
        BgStates, InFlush, InNestedFlush, InCompaction, tree, thread, manual,
        closing
<1>7. CASE BgSeesShutdown
  BY <1>7 DEF BgSeesShutdown, EndOfBackgroundCall
<1>8. CASE BgStartsFlush
  BY <1>8 DEF BgStartsFlush
<1>9. CASE BgFinishesManual
  BY <1>9 DEF BgFinishesManual, EndOfBackgroundCall
<1>10. CASE BgStartsManual
  BY <1>10 DEF BgStartsManual, RangeIsEmpty
<1>11. CASE BgStartsCompaction
  <2>1. PICK j \in PickedJobs :
          job' = j /\ bg' \in {"compact", "move"}
    BY <1>11 DEF BgStartsCompaction
  <2>2. j \in [kind : {"size", "upper", "seek"}, manual : {FALSE}, l0in : 0..l0]
    <3>1. l0 \in Nat /\ L0Trigger \in Nat
      OBVIOUS
    <3>2. 1..l0 \subseteq 0..l0 /\ 0 \in 0..l0
      BY <3>1
    <3>3. QED
      BY <3>1, <3>2 DEF PickedJobs
  <2>3. /\ j.l0in \in Nat /\ j.l0in <= l0 /\ ~j.manual
        /\ job' \in [kind : {"none", "manual", "size", "upper", "seek"},
                    manual : BOOLEAN, l0in : Nat]
    <3>1. j.l0in \in 0..l0 /\ l0 \in Nat
      BY <2>2
    <3>2. j.manual = FALSE
      BY <2>2
    <3>3. /\ j.kind \in {"none", "manual", "size", "upper", "seek"}
          /\ j = [kind |-> j.kind, manual |-> j.manual, l0in |-> j.l0in]
      BY <2>2
    <3>4. j.l0in \in Nat /\ j.l0in <= l0
      BY <3>1
    <3>5. QED
      BY <2>1, <3>2, <3>3, <3>4
  <2>4. /\ bg = "queued" /\ imm = NULL /\ manual_compaction = NoCaller
        /\ UNCHANGED <<imm, tree, bg_compaction_scheduled, manual, bg_cv,
                       bg_error, closing, faults>>
    BY <1>11 DEF BgStartsCompaction
  <2>5. BgTypeOK'
    BY <2>1, <2>3, <2>4
  <2>6. QED
    BY <2>1, <2>3, <2>4, <2>5
<1>12. CASE TableBuilt
  BY <1>12 DEF TableBuilt
<1>13. CASE CompactionPrioritizesImm
  BY <1>13 DEF CompactionPrioritizesImm
<1>14. CASE CompactionLoopEnds
  BY <1>14 DEF CompactionLoopEnds
<1>15. CASE BackoffEnds
  BY <1>15 DEF BackoffEnds, EndOfBackgroundCall
<1>16. QED
  BY <1>1, <1>2, <1>3, <1>4, <1>5, <1>6, <1>7, <1>8, <1>9, <1>10, <1>11,
     <1>12, <1>13, <1>14, <1>15 DEF BgStep

(* A thread of TEST_CompactRange that takes the slot, or goes to sleep for   *)
(* it, whatever it has put into its own request before.                      *)
LEMMA TakeSlotKeepsInv ==
  ASSUME BgInv, NEW c \in Callers, TakeSlotOrWait(c), dtor = "none",
         request' \in [Callers -> [level : {0, 1}, chunks : 0..MaxChunks,
                                 done : BOOLEAN]],
         manual_compaction # NoCaller =>
           request'[manual_compaction] = request[manual_compaction],
         caller[c] = "run" => manual_compaction # c,
         UNCHANGED <<imm, tree, job, bg_error, closing, faults>>
  PROVE  BgInv'
<1> USE ThreadsAssumption, BoundsAssumption DEF tree, closing
<1>1. /\ ~shutting_down
      /\ caller' \in [Callers -> {"idle", "slot", "run"}]
      /\ manual_compaction' \in Callers /\ caller'[manual_compaction'] = "run"
      /\ manual_compaction # NoCaller => manual_compaction' = manual_compaction
  BY DEF TakeSlotOrWait, BgInv, BgTypeOK, DeleteIsLast, SlotOwnerWaits
<1>2. /\ bg_compaction_scheduled' = TRUE
      /\ \/ bg' = "queued" /\ bg = "idle"
         \/ bg' = bg /\ bg # "idle"
  <2>1. CASE manual_compaction = NoCaller
    BY <1>1, <2>1
       DEF TakeSlotOrWait, MaybeScheduleCompaction, WorkToDo, BgInv, BgTypeOK,
           FlagFollowsThread
  <2>2. CASE manual_compaction # NoCaller
    BY <1>1, <2>2
       DEF TakeSlotOrWait, WorkToDo, WorkIsScheduled, BgInv, BgTypeOK,
           FlagFollowsThread
  <2>3. QED
    BY <2>1, <2>2
<1>3. BgTypeOK'
  BY <1>1, <1>2 DEF BgInv, BgTypeOK, BgStates
<1>4. FlagFollowsThread' /\ WorkIsScheduled' /\ WaiterHasWaker'
  BY <1>2 DEF FlagFollowsThread, WorkIsScheduled, WaiterHasWaker
<1>5. DeleteIsLast' /\ DeletedIsQuiet' /\ SlotOwnerWaits' /\ ImmLeavesRoom'
  BY <1>1 DEF BgInv, DeleteIsLast, DeletedIsQuiet, SlotOwnerWaits, ImmLeavesRoom
<1>6. FlushHoldsImm' /\ JobStaysValid'
  BY <1>1, <1>2
     DEF BgInv, BgTypeOK, FlushHoldsImm, JobStaysValid, InFlush, InNestedFlush,
         InCompaction
<1>7. QED
  BY <1>3, <1>4, <1>5, <1>6 DEF BgInv

(* Every step of a client thread keeps the invariant.                        *)
LEMMA ClientStepKeepsInv == BgInv /\ ClientStep => BgInv'
<1> SUFFICES ASSUME BgInv, ClientStep PROVE BgInv'
  OBVIOUS
<1>1. ASSUME NEW c \in Callers, CallCompactRange(c) PROVE BgInv'
  <2>1. /\ request' \in [Callers -> [level : {0, 1}, chunks : 0..MaxChunks,
                                    done : BOOLEAN]]
        /\ manual_compaction # NoCaller =>
             request'[manual_compaction] = request[manual_compaction]
        /\ caller[c] = "run" => manual_compaction # c
    BY <1>1 DEF CallCompactRange, BgInv, BgTypeOK, SlotOwnerWaits
  <2>2. QED
    BY <1>1, <2>1, TakeSlotKeepsInv DEF CallCompactRange
<1>2. ASSUME NEW c \in Callers, CallerWakes(c) PROVE BgInv'
  <2>1. dtor = "none"
    BY <1>2 DEF CallerWakes, BgInv, DeleteIsLast
  <2>2. CASE TakeSlotOrWait(c) /\ (caller[c] = "slot" \/ manual_compaction # c)
    <3>1. request' = request /\ UNCHANGED <<imm, tree, job, bg_error, closing, faults>>
      BY <1>2 DEF CallerWakes
    <3>2. request' \in [Callers -> [level : {0, 1}, chunks : 0..MaxChunks,
                                  done : BOOLEAN]]
      BY <3>1 DEF BgInv, BgTypeOK
    <3>3. QED
      BY <2>1, <2>2, <3>1, <3>2, TakeSlotKeepsInv
  <2>3. CASE /\ caller[c] = "run" /\ manual_compaction = c
             /\ bg_cv' = bg_cv \cup {c}
             /\ UNCHANGED <<manual_compaction, caller, bg_compaction_scheduled, bg>>
    BY <1>2, <2>1, <2>3, ThreadsAssumption
       DEF CallerWakes, tree, closing, BgInv, BgTypeOK, FlagFollowsThread,
           DeleteIsLast, FlushHoldsImm, JobStaysValid, SlotOwnerWaits,
           ImmLeavesRoom, WorkIsScheduled, WaiterHasWaker, DeletedIsQuiet,
           WorkToDo, NeedsCompaction
  <2>4. CASE /\ caller[c] = "run" /\ manual_compaction # c /\ request[c].done
             /\ caller' = [caller EXCEPT ![c] = "idle"]
             /\ UNCHANGED <<manual_compaction, bg_cv, bg_compaction_scheduled, bg>>
    BY <1>2, <2>1, <2>4
       DEF CallerWakes, tree, closing, BgInv, BgTypeOK, FlagFollowsThread,
           DeleteIsLast, FlushHoldsImm, JobStaysValid, SlotOwnerWaits,
           ImmLeavesRoom, WorkIsScheduled, WaiterHasWaker, DeletedIsQuiet,
           WorkToDo, NeedsCompaction
  <2>5. QED
    BY <1>2, <2>2, <2>3, <2>4 DEF CallerWakes
<1> USE ThreadsAssumption, BoundsAssumption
    DEF BgInv, BgTypeOK, FlagFollowsThread, DeleteIsLast, FlushHoldsImm,
        JobStaysValid, SlotOwnerWaits, ImmLeavesRoom, WorkIsScheduled,
        WaiterHasWaker, DeletedIsQuiet, WorkToDo, NeedsCompaction, NULL,
        BgStates, InFlush, InNestedFlush, InCompaction, tree, thread, manual,
        closing, MaybeScheduleCompaction
<1>3. ASSUME NEW t \in bg_cv, SpuriousWakeup(t) PROVE BgInv'
  BY <1>3 DEF SpuriousWakeup
<1>4. CASE DeleteWakes
  BY <1>4 DEF DeleteWakes
<1>5. QED
  BY <1>1, <1>2, <1>3, <1>4 DEF ClientStep

(* A seek compaction that falls due keeps the invariant.                     *)
LEMMA SeekKeepsInv == BgInv /\ SeekCompactionDue => BgInv'
<1> SUFFICES ASSUME BgInv, SeekCompactionDue PROVE BgInv'
  OBVIOUS
<1>1. /\ bg_compaction_scheduled' \in BOOLEAN
      /\ \/ UNCHANGED <<bg_compaction_scheduled, bg>>
         \/ bg_compaction_scheduled' = TRUE /\ bg = "idle" /\ bg' = "queued"
      /\ WorkIsScheduled'
  <2>1. bg_compaction_scheduled \in BOOLEAN /\ FlagFollowsThread
    BY DEF BgInv, BgTypeOK
  <2>2. shutting_down' = shutting_down
    BY DEF SeekCompactionDue, closing
  <2>3. QED
    BY <2>1, <2>2
       DEF SeekCompactionDue, MaybeScheduleCompaction, WorkIsScheduled,
           FlagFollowsThread
<1>2. BgTypeOK'
  BY <1>1 DEF SeekCompactionDue, BgInv, BgTypeOK, BgStates, manual, closing
<1>3. FlagFollowsThread' /\ WaiterHasWaker'
  BY <1>1 DEF SeekCompactionDue, BgInv, FlagFollowsThread, WaiterHasWaker
<1>4. DeleteIsLast' /\ DeletedIsQuiet' /\ SlotOwnerWaits' /\ ImmLeavesRoom'
  BY DEF SeekCompactionDue, BgInv, DeleteIsLast, DeletedIsQuiet, SlotOwnerWaits,
         ImmLeavesRoom, manual, closing
<1>5. FlushHoldsImm' /\ JobStaysValid'
  BY <1>1
     DEF SeekCompactionDue, BgInv, BgTypeOK, FlushHoldsImm, JobStaysValid,
         InFlush, InNestedFlush, InCompaction, manual
<1>6. QED
  BY <1>1, <1>2, <1>3, <1>4, <1>5 DEF BgInv

(* The start of ~DBImpl keeps the invariant.                                 *)
LEMMA BeginDeleteKeepsInv == BgInv /\ BeginDelete => BgInv'
BY ThreadsAssumption, BoundsAssumption
   DEF BgInv, BgTypeOK, FlagFollowsThread, DeleteIsLast, FlushHoldsImm,
       JobStaysValid, SlotOwnerWaits, ImmLeavesRoom, WorkIsScheduled,
       WaiterHasWaker, DeletedIsQuiet, WorkToDo, NeedsCompaction, NULL,
       BgStates, InFlush, InNestedFlush, InCompaction, tree, thread, manual,
       BeginDelete

(* A writer that makes memtable m immutable keeps the invariant.             *)
LEMMA SwitchKeepsInv ==
  ASSUME BgInv, NEW m \in Nat, SwitchMemTable(m)
  PROVE  BgInv'
<1>1. /\ bg_compaction_scheduled' \in BOOLEAN
      /\ \/ UNCHANGED <<bg_compaction_scheduled, bg>>
         \/ bg_compaction_scheduled' = TRUE /\ bg = "idle" /\ bg' = "queued"
      /\ WorkIsScheduled'
  <2>1. bg_compaction_scheduled \in BOOLEAN /\ FlagFollowsThread
    BY DEF BgInv, BgTypeOK
  <2>2. shutting_down' = shutting_down
    BY DEF SwitchMemTable, closing
  <2>3. QED
    BY <2>1, <2>2
       DEF SwitchMemTable, MaybeScheduleCompaction, WorkIsScheduled,
           FlagFollowsThread
<1>2. BgTypeOK'
  BY <1>1 DEF SwitchMemTable, BgInv, BgTypeOK, BgStates, tree, manual, closing
<1>3. ImmLeavesRoom'
  BY BoundsAssumption
     DEF SwitchMemTable, BgInv, BgTypeOK, ImmLeavesRoom, Level0Full, tree
<1>4. FlagFollowsThread' /\ WaiterHasWaker'
  BY <1>1 DEF SwitchMemTable, BgInv, FlagFollowsThread, WaiterHasWaker
<1>5. DeleteIsLast' /\ DeletedIsQuiet' /\ SlotOwnerWaits'
  BY DEF SwitchMemTable, BgInv, DeleteIsLast, DeletedIsQuiet, SlotOwnerWaits,
         manual, closing
<1>6. FlushHoldsImm' /\ JobStaysValid'
  BY <1>1
     DEF SwitchMemTable, BgInv, BgTypeOK, FlushHoldsImm, JobStaysValid, InFlush,
         InNestedFlush, InCompaction, tree, manual
<1>7. QED
  BY <1>1, <1>2, <1>3, <1>4, <1>5, <1>6 DEF BgInv

LEMMA StutterKeepsInv == BgInv /\ UNCHANGED bgVars => BgInv'
BY DEF bgVars, tree, thread, manual, closing, BgInv, BgTypeOK, FlagFollowsThread,
       DeleteIsLast, FlushHoldsImm, JobStaysValid, SlotOwnerWaits,
       ImmLeavesRoom, WorkIsScheduled, WaiterHasWaker, DeletedIsQuiet,
       WorkToDo, NeedsCompaction

LEMMA StepKeepsInv == BgInv /\ [BgNext]_bgVars => BgInv'
<1> SUFFICES ASSUME BgInv, [BgNext]_bgVars PROVE BgInv'
  OBVIOUS
<1>1. CASE SwitchMemTable(1)
  <2>1. 1 \in Nat
    OBVIOUS
  <2>2. QED
    BY <1>1, <2>1, SwitchKeepsInv
<1>2. CASE BgStep
  BY <1>2, BgStepKeepsInv
<1>3. CASE ClientStep
  BY <1>3, ClientStepKeepsInv
<1>4. CASE UNCHANGED bgVars
  BY <1>4, StutterKeepsInv
<1>5. CASE BeginDelete
  BY <1>5, BeginDeleteKeepsInv
<1>6. CASE SeekCompactionDue
  BY <1>6, SeekKeepsInv
<1>7. QED
  BY <1>1, <1>2, <1>3, <1>4, <1>5, <1>6 DEF BgNext

-----------------------------------------------------------------------------
(* Type correctness of the scheduler.                                        *)
THEOREM BgTypeCorrect == BgSpec => []BgTypeOK
<1>1. BgInv => BgTypeOK
  BY DEF BgInv
<1>2. QED
  BY <1>1, InitEstablishesInv, StepKeepsInv, PTL DEF BgSpec

(* No background work is forgotten: with any number of callers and any       *)
(* limits, work that can be done has a background call on its way.           *)
THEOREM WorkIsAlwaysScheduled == BgSpec => []WorkIsScheduled
<1>1. BgInv => WorkIsScheduled
  BY DEF BgInv
<1>2. QED
  BY <1>1, InitEstablishesInv, StepKeepsInv, PTL DEF BgSpec

(* No wakeup is lost: a thread asleep on bg_cv_ has a background call on its *)
(* way that ends by signalling it.                                           *)
THEOREM WaitersAreWoken == BgSpec => []WaiterHasWaker
<1>1. BgInv => WaiterHasWaker
  BY DEF BgInv
<1>2. QED
  BY <1>1, InitEstablishesInv, StepKeepsInv, PTL DEF BgSpec

(* When ~DBImpl frees the database, no background call and no waiter is left *)
(* that could touch it.                                                      *)
THEOREM DeletedDatabaseIsQuiet == BgSpec => []DeletedIsQuiet
<1>1. BgInv => DeletedIsQuiet
  BY DEF BgInv
<1>2. QED
  BY <1>1, InitEstablishesInv, StepKeepsInv, PTL DEF BgSpec

(* The slot of a manual compaction is given back only by the background      *)
(* thread and only with progress, for any number of competing callers.       *)
THEOREM SlotProgress == BgSpec => SlotGivenBackOnProgress
<1> DEFINE Progress ==
      manual_compaction # NoCaller =>
        LET c == manual_compaction IN
          /\ manual_compaction' = NoCaller
          /\ \/ request'[c].done
             \/ request'[c].chunks < request[c].chunks
<1>1. BgInv /\ [BgNext]_bgVars => [Progress]_manual_compaction
  <2> SUFFICES ASSUME BgInv, BgNext, manual_compaction # NoCaller,
                      manual_compaction' # manual_compaction
               PROVE  Progress
    BY DEF bgVars, manual
  <2>1. manual_compaction \in Callers
    BY DEF BgInv, BgTypeOK
  <2>2. CASE BgFinishesManual
    BY <2>1, <2>2 DEF BgFinishesManual, BgInv, BgTypeOK
  <2>3. ASSUME NEW ok \in BOOLEAN, CompactionReturns(ok), bg \in InCompaction
        PROVE  Progress
    <3>1. job.manual /\ manual_compaction' = NoCaller
      BY <2>3 DEF CompactionReturns
    <3>2. CASE ok
      <4>1. request'[manual_compaction].chunks = request[manual_compaction].chunks - 1
        BY <2>1, <2>3, <3>1, <3>2 DEF CompactionReturns, BgInv, BgTypeOK
      <4>2. request[manual_compaction].chunks \in Nat
        BY <2>1 DEF BgInv, BgTypeOK
      <4>3. QED
        BY <3>1, <4>1, <4>2
    <3>3. CASE ~ok
      BY <2>1, <2>3, <3>1, <3>3 DEF CompactionReturns, BgInv, BgTypeOK
    <3>4. QED
      BY <3>2, <3>3
  <2>4. ASSUME NEW c \in Callers, CallCompactRange(c) \/ CallerWakes(c)
        PROVE  FALSE
    BY <2>4 DEF CallCompactRange, CallerWakes, TakeSlotOrWait
  <2>5. ~SwitchMemTable(1)
    BY DEF SwitchMemTable, manual
  <2>6. CASE ClientStep
    BY <2>4, <2>6
       DEF ClientStep, SpuriousWakeup, DeleteWakes, manual
  <2>7. CASE BgStep
    <3>1. CASE CompactionAbandoned
      <4>1. CompactionReturns(FALSE) /\ FALSE \in BOOLEAN /\ bg \in InCompaction
        BY <3>1 DEF CompactionAbandoned, InCompaction
      <4>2. QED
        BY <2>3, <4>1
    <3>2. CASE CompactionFails
      <4>1. CompactionReturns(FALSE) /\ FALSE \in BOOLEAN /\ bg \in InCompaction
        BY <3>2 DEF CompactionFails, InCompaction
      <4>2. QED
        BY <2>3, <4>1
    <3>3. CASE CompactionInstalled
      <4>1. CompactionReturns(TRUE) /\ TRUE \in BOOLEAN /\ bg \in InCompaction
        BY <3>3 DEF CompactionInstalled, InCompaction
      <4>2. QED
        BY <2>3, <4>1
    <3>4. QED
      BY <2>2, <2>7, <3>1, <3>2, <3>3
         DEF BgStep, BgSeesShutdown, BgStartsFlush, BgStartsManual,
             BgStartsCompaction, TableBuilt, FlushAbandoned, FlushFails,
             FlushInstalled, CompactionPrioritizesImm, CompactionLoopEnds,
             BackoffEnds, manual
  <2>8. ~BeginDelete /\ ~SeekCompactionDue
    BY DEF BeginDelete, SeekCompactionDue, manual
  <2>9. QED
    BY <2>5, <2>6, <2>7, <2>8 DEF BgNext
<1>2. QED
  BY <1>1, InitEstablishesInv, StepKeepsInv, PTL
     DEF BgSpec, SlotGivenBackOnProgress

(* No flush takes level 0 past kL0_StopWritesTrigger, whatever its value.    *)
THEOREM Level0StaysLimited == BgSpec => Level0Limit
<1>1. BgInv /\ [BgNext]_bgVars => [l0' > l0 => l0' <= L0Stop]_l0
  <2> SUFFICES ASSUME BgInv, BgNext, l0' > l0
               PROVE  l0' <= L0Stop
    BY DEF bgVars, tree
  <2>1. l0 \in Nat /\ L0Stop \in Nat
    BY BoundsAssumption DEF BgInv, BgTypeOK
  <2>2. CASE FlushInstalled
    <3>1. imm # NULL
      BY <2>2
         DEF FlushInstalled, BgInv, FlushHoldsImm, InFlush, InNestedFlush
    <3>2. QED
      BY <2>1, <2>2, <3>1 DEF FlushInstalled, BgInv, ImmLeavesRoom
  <2>3. ~CompactionInstalled
    <3>1. SUFFICES ASSUME CompactionInstalled PROVE FALSE
      OBVIOUS
    <3>2. job.l0in \in Nat /\ l0' = l0 - job.l0in
      BY <3>1 DEF CompactionInstalled, BgInv, BgTypeOK
    <3>3. QED
      BY <2>1, <3>2
  <2>4. l0' # l0
    BY <2>1
  <2>5. QED
    BY <2>2, <2>3, <2>4
       DEF BgNext, BgStep, ClientStep, BgSeesShutdown, BgStartsFlush,
           BgFinishesManual, BgStartsManual, BgStartsCompaction, TableBuilt,
           FlushAbandoned, FlushFails, CompactionPrioritizesImm,
           CompactionLoopEnds, CompactionAbandoned, CompactionFails,
           BackoffEnds, CallCompactRange, CallerWakes, SeekCompactionDue,
           SpuriousWakeup, BeginDelete, DeleteWakes, SwitchMemTable, tree
<1>2. QED
  BY <1>1, InitEstablishesInv, StepKeepsInv, PTL DEF BgSpec, Level0Limit
=============================================================================
