----------------------------- MODULE Compaction -----------------------------
(***************************************************************************)
(* The log-structured merge tree of leveldb-1.9.0/db/version_set.cc: which *)
(* tables a compaction takes (PickCompaction, CompactRange,                *)
(* SetupOtherInputs), which entries it drops (DoCompactionWork in          *)
(* db/db_impl.cc), where a flushed memtable goes                           *)
(* (PickLevelForMemTableOutput), and what Version::Get then finds.         *)
(*                                                                         *)
(* Data abstraction.  User keys are numbers; an entry is an internal key,  *)
(* its sequence number standing for its value; a table is its entries.     *)
(* Values have any size, so what the code decides by bytes is left open:   *)
(* after which entry an output is full, how many tables are enough for one *)
(* manual compaction, whether expanded inputs or grandparents are too big. *)
(* Which table PickCompaction starts from is left open too: the compaction *)
(* pointer, or a seek, may name any.  MANIFEST writes and failures are in  *)
(* CrashRecovery.                                                          *)
(***************************************************************************)
EXTENDS Integers, FiniteSetsExt

CONSTANTS
  MaxKey,              (* user keys are 1..MaxKey                           *)
  MaxSeq,              (* bound: writes                                     *)
  NumLevels,           (* config::kNumLevels                                *)
  MaxMemCompactLevel,  (* config::kMaxMemCompactLevel                       *)
  MaxSnapshots,        (* bound: snapshots held at a time                   *)
  MaxOutputs,          (* bound: output files of a compaction; 1: all the   *)
                       (* data together is smaller than kTargetFileSize     *)
  Manual               (* does anybody call CompactRange?                   *)

ASSUME CompactionAssumption ==
  /\ {MaxKey, MaxSeq, MaxSnapshots, MaxMemCompactLevel} \subseteq Nat
  /\ MaxOutputs \in Nat \ {0} /\ Manual \in BOOLEAN
  /\ NumLevels \in Nat /\ NumLevels > MaxMemCompactLevel /\ NumLevels > 1

VARIABLES
  mem, imm,        (* entries of the memtables; imm = {}: imm_ is NULL      *)
  levels,          (* files_[level] of the current version                  *)
  next_file,       (* the next file number                                  *)
  last_sequence,
  snapshots,       (* sequence numbers of the snapshots held                *)
  comp,            (* the compaction in DoCompactionWork                    *)
  hist             (* history: every entry written                          *)

lsmVars == <<mem, imm, levels, next_file, last_sequence, snapshots, comp, hist>>

UserKeys == 1..MaxKey
Level == 0..(NumLevels - 1)
NoComp == [level |-> -1, inputs |-> {}, outputs |-> {}]

-----------------------------------------------------------------------------
(* Internal keys: by user key, then newest first.                            *)
Before(e, f) == e.key < f.key \/ (e.key = f.key /\ e.seq > f.seq)
Smallest(S) == CHOOSE e \in S : \A f \in S \ {e} : Before(e, f)
Largest(S) == CHOOSE e \in S : \A f \in S \ {e} : Before(f, e)

EntriesOf(F) == UNION {f.data : f \in F}
Lo(F) == Min({e.key : e \in EntriesOf(F)})
Hi(F) == Max({e.key : e \in EntriesOf(F)})

(* BySmallestKey, the order of files_[level].                                *)
FileBefore(f, g) ==
  Before(Smallest(f.data), Smallest(g.data))
    \/ (Smallest(f.data) = Smallest(g.data) /\ f.num < g.num)

OverlappingBug(level, lo, hi) ==
  {f \in levels[level] : Hi({f}) > lo /\ Lo({f}) < hi}

Overlapping(level, lo, hi) == {f \in levels[level] : Hi({f}) >= lo /\ Lo({f}) <= hi}

(* In level 0 a file that sticks out of the range widens it.                 *)
IsClosed(lo, hi) ==
  \A f \in Overlapping(0, lo, hi) : Lo({f}) >= lo /\ Hi({f}) <= hi

ClosedRangeBug(lo, hi) == <<lo, hi>>

ClosedRange(lo, hi) ==
  <<Max({a \in 1..lo : \E b \in hi..MaxKey : IsClosed(a, b)}),
    Min({b \in hi..MaxKey : \E a \in 1..lo : IsClosed(a, b)})>>

GetOverlappingInputs(level, lo, hi) ==
  IF level = 0
  THEN Overlapping(0, ClosedRange(lo, hi)[1], ClosedRange(lo, hi)[2])
  ELSE Overlapping(level, lo, hi)

-----------------------------------------------------------------------------
(* SetupOtherInputs: the inputs of both levels, given those of the first.    *)
(* They may be expanded where that takes no more files of the level below.   *)
SetupOtherInputs(level, in0) ==
  LET in1 == GetOverlappingInputs(level + 1, Lo(in0), Hi(in0))
      all == in0 \cup in1
      expanded0 == GetOverlappingInputs(level, Lo(all), Hi(all))
      expanded1 == GetOverlappingInputs(level + 1, Lo(expanded0), Hi(expanded0))
  IN {<<in0, in1>>} \cup
     (IF /\ in1 # {}
         /\ Cardinality(expanded0) > Cardinality(in0)
         /\ Cardinality(expanded1) = Cardinality(in1)
      THEN {<<expanded0, expanded1>>} ELSE {})

(* PickCompaction, from any file of the level; level 0 takes what overlaps.  *)
PickedInputs(level) ==
  {IF level = 0 THEN GetOverlappingInputs(0, Lo({f}), Hi({f})) ELSE {f} :
     f \in levels[level]}

(* CompactRange "avoids compacting too much in one shot": once tables reach  *)
(* kTargetFileSize, the size at which outputs are cut, it takes only some of *)
(* the files in the range, from the first on.                                *)
RangeInputs(level, lo, hi) ==
  LET inputs == GetOverlappingInputs(level, lo, hi)
      FromTheFirst(S) == \A f \in S, g \in inputs : FileBefore(g, f) => g \in S
  IN IF inputs = {} THEN {}
     ELSE IF MaxOutputs = 1 THEN {inputs}
     ELSE {S \in (SUBSET inputs) \ {{}} : FromTheFirst(S)}

SmallestSnapshot == IF snapshots = {} THEN last_sequence ELSE Min(snapshots)

IsBaseLevelForKey(level, k) ==
  \A l \in Level : l >= level + 2 => Overlapping(l, k, k) = {}

DroppedBug(level, E) ==
  {e \in E :
     \/ \E p \in E : p.key = e.key /\ p.seq > e.seq
     \/ e.del /\ e.seq <= SmallestSnapshot /\ IsBaseLevelForKey(level, e.key)}

(* The entries DoCompactionWork drops: those hidden from every snapshot by a *)
(* newer one, and deletion markers with nothing left to delete.              *)
Dropped(level, E) ==
  {e \in E :
     \/ \E p \in E : p.key = e.key /\ p.seq > e.seq /\ p.seq <= SmallestSnapshot
     \/ e.del /\ e.seq <= SmallestSnapshot /\ IsBaseLevelForKey(level, e.key)}

(* The files the entries go to, when a file ends after each entry of cuts.   *)
Files(E, cuts) ==
  LET FileOf(e) == Cardinality({c \in cuts : Before(c, e)})
  IN {[num |-> next_file + i, data |-> {e \in E : FileOf(e) = i}] :
        i \in {FileOf(e) : e \in E}}

OutputsOf(E) ==
  {Files(E, cuts) : cuts \in {C \in SUBSET E : Cardinality(C) < MaxOutputs}}

-----------------------------------------------------------------------------
(* Writes and snapshots.                                                     *)
Write(k, del) ==
  /\ last_sequence < MaxSeq
  /\ last_sequence' = last_sequence + 1
  /\ LET e == [key |-> k, seq |-> last_sequence + 1, del |-> del]
     IN mem' = mem \cup {e} /\ hist' = hist \cup {e}
  /\ UNCHANGED <<imm, levels, next_file, snapshots, comp>>

GetSnapshot ==
  /\ Cardinality(snapshots) < MaxSnapshots /\ last_sequence > 0
  /\ snapshots' = snapshots \cup {last_sequence}
  /\ UNCHANGED <<mem, imm, levels, next_file, last_sequence, comp, hist>>

ReleaseSnapshot ==
  /\ \E s \in snapshots : snapshots' = snapshots \ {s}
  /\ UNCHANGED <<mem, imm, levels, next_file, last_sequence, comp, hist>>

SwitchMemTable ==
  /\ mem # {} /\ imm = {}
  /\ imm' = mem /\ mem' = {}
  /\ UNCHANGED <<levels, next_file, last_sequence, snapshots, comp, hist>>

-----------------------------------------------------------------------------
(* Levels the table of imm_ may be pushed to: below level 0 if nothing there *)
(* and nothing on the way overlaps it; the bytes two levels down may stop it. *)
MemTableLevelsBug(lo, hi) ==
  {n \in 0..MaxMemCompactLevel : \A l \in 1..n : Overlapping(l, lo, hi) = {}}

MemTableLevels(lo, hi) ==
  LET free == {n \in 0..MaxMemCompactLevel :
                 \A l \in 0..n : n > 0 => Overlapping(l, lo, hi) = {}}
      Grandparents(n) ==
        IF n + 2 \in Level THEN Overlapping(n + 2, lo, hi) ELSE {}
  IN {n \in free : n = Max(free) \/ Grandparents(n) # {}}

(* CompactMemTable, in its own background call or inside a compaction.       *)
CompactMemTable ==
  /\ imm # {}
  /\ LET f == [num |-> next_file, data |-> imm]
     IN \E n \in MemTableLevels(Lo({f}), Hi({f})) :
          levels' = [levels EXCEPT ![n] = @ \cup {f}]
  /\ next_file' = next_file + 1
  /\ imm' = {}
  /\ UNCHANGED <<mem, last_sequence, snapshots, comp, hist>>

(* DoCompactionWork fixes the snapshot and the version it works from at the  *)
(* beginning, so its outputs are determined then.  File numbers are taken    *)
(* one by one in the code; only their order matters.                         *)
Begin(level, inputs) ==
  LET E == EntriesOf(inputs[1] \cup inputs[2])
  IN \E outs \in OutputsOf(E \ Dropped(level, E)) :
       /\ comp' = [level |-> level, inputs |-> inputs[1] \cup inputs[2],
                   outputs |-> outs]
       /\ next_file' = next_file + Cardinality(outs)
       /\ UNCHANGED <<mem, imm, levels, last_sequence, snapshots, hist>>

BeginCompaction ==
  /\ imm = {} /\ comp = NoComp
  /\ \E level \in 0..(NumLevels - 2) : \E in0 \in PickedInputs(level) :
       \E inputs \in SetupOtherInputs(level, in0) : Begin(level, inputs)

(* A single input with nothing below it is moved; the size of what overlaps  *)
(* two levels down may forbid it.                                            *)
TrivialMove ==
  /\ imm = {} /\ comp = NoComp
  /\ \E level \in 0..(NumLevels - 2) : \E in0 \in PickedInputs(level) :
       \E inputs \in SetupOtherInputs(level, in0) :
         /\ Cardinality(inputs[1]) = 1 /\ inputs[2] = {}
         /\ levels' = [levels EXCEPT ![level] = @ \ inputs[1],
                                     ![level + 1] = @ \cup inputs[1]]
  /\ UNCHANGED <<mem, imm, next_file, last_sequence, snapshots, comp, hist>>

BeginManualCompaction ==
  /\ Manual /\ imm = {} /\ comp = NoComp
  /\ \E level \in 0..(NumLevels - 2), lo \in UserKeys : \E hi \in lo..MaxKey :
       \E in0 \in RangeInputs(level, lo, hi) :
         \E inputs \in SetupOtherInputs(level, in0) : Begin(level, inputs)

InstallCompactionResults ==
  /\ comp # NoComp
  /\ levels' = [l \in Level |->
                  IF l = comp.level + 1
                  THEN (levels[l] \ comp.inputs) \cup comp.outputs
                  ELSE levels[l] \ comp.inputs]
  /\ comp' = NoComp
  /\ UNCHANGED <<mem, imm, next_file, last_sequence, snapshots, hist>>

-----------------------------------------------------------------------------
LsmInit ==
  /\ mem = {} /\ imm = {} /\ levels = [l \in Level |-> {}]
  /\ next_file = 1 /\ last_sequence = 0 /\ snapshots = {}
  /\ comp = NoComp /\ hist = {}

LsmNext ==
  \/ \E k \in UserKeys, del \in BOOLEAN : Write(k, del)
  \/ GetSnapshot \/ ReleaseSnapshot \/ SwitchMemTable \/ CompactMemTable
  \/ BeginCompaction \/ TrivialMove \/ BeginManualCompaction
  \/ InstallCompactionResults

LsmSpec == LsmInit /\ [][LsmNext]_lsmVars

-----------------------------------------------------------------------------
(* What the code takes for granted of every compaction in progress, and only *)
(* some compactions give: the theorems of CompactionProofs start from it.    *)

SharesKey(f, g) == \E e \in f.data, h \in g.data : e.key = h.key

(* No user key is in two outputs.                                            *)
KeysStayWhole == \A f, g \in comp.outputs : f # g => ~SharesKey(f, g)

(* The inputs leave no gap that a memtable flushed meanwhile could fall into. *)
InputsLeaveNoGap ==
  comp # NoComp =>
    \A k \in Lo(comp.inputs)..Hi(comp.inputs) :
      \E f \in comp.inputs : Lo({f}) <= k /\ k <= Hi({f})

(* Of the files of level 0 that share a key, the older go first.             *)
NothingOlderStays ==
  comp.level = 0 =>
    \A f \in levels[0] \ comp.inputs, g \in levels[0] \cap comp.inputs :
      f.num < g.num => ~SharesKey(f, g)

InputsAreWhole == InputsLeaveNoGap /\ NothingOlderStays

-----------------------------------------------------------------------------
(* What a read of key k at sequence number s finds.                          *)
Nothing == [key |-> 0, seq |-> 0, del |-> TRUE]
Visible(S, k, s) == {e \in S : e.key = k /\ e.seq <= s}
Newest(S) == IF S = {} THEN Nothing
             ELSE CHOOSE e \in S : \A f \in S : f.seq <= e.seq
Answer(e) == IF e.del THEN 0 ELSE e.seq

(* FindFile: the first file whose largest key is not before the target.      *)
FindFile(level, k, s) ==
  LET C == {f \in levels[level] : ~Before(Largest(f.data), [key |-> k, seq |-> s])}
  IN IF C = {} THEN {} ELSE {CHOOSE f \in C : \A g \in C \ {f} : FileBefore(f, g)}

(* Version::Get looks in the memtables, then in every level: in the newest   *)
(* file of level 0 that has the key, and in one file of each other level.    *)
FilesToSearch(level, k, s) ==
  IF level # 0 THEN FindFile(level, k, s)
  ELSE LET hits == {f \in levels[0] : Visible(f.data, k, s) # {}}
       IN {f \in hits : \A g \in hits : g.num <= f.num}

Place(i, k, s) ==
  CASE i = -2 -> mem [] i = -1 -> imm [] OTHER -> EntriesOf(FilesToSearch(i, k, s))

Get(k, s) ==
  LET hits == {i \in -2..(NumLevels - 1) : Visible(Place(i, k, s), k, s) # {}}
  IN IF hits = {} THEN Nothing ELSE Newest(Visible(Place(Min(hits), k, s), k, s))

-----------------------------------------------------------------------------

(* Every read, at the latest sequence number or at a snapshot that is held,  *)
(* returns what was written last at that point, wherever flushes, moves and  *)
(* compactions have put the entries.                                         *)
GetsAreCorrect ==
  \A k \in UserKeys, s \in snapshots \cup {last_sequence} :
    Answer(Get(k, s)) = Answer(Newest(Visible(hist, k, s)))

(* An iterator merges everything: no compaction has dropped what a snapshot  *)
(* that is held can see, or brought back what was deleted.                   *)
IteratorsAreCorrect ==
  LET all == mem \cup imm \cup UNION {EntriesOf(levels[l]) : l \in Level}
  IN \A k \in UserKeys, s \in snapshots \cup {last_sequence} :
       Answer(Newest(Visible(all, k, s))) = Answer(Newest(Visible(hist, k, s)))

(* "Make sure there is no overlap in levels > 0" (version_set.cc): the       *)
(* files of a level are disjoint, although their ranges were chosen against  *)
(* different versions by flushes and by compactions in progress.             *)
LevelsAreDisjoint ==
  \A l \in Level \ {0} : \A f, g \in levels[l] :
    f # g => Before(Largest(f.data), Smallest(g.data)) \/ Before(Largest(g.data), Smallest(f.data))

(* "We can search level-by-level since entries never hop across levels"      *)
(* (Version::Get): of two entries of a user key, the one in the smaller      *)
(* level is the newer.                                                       *)
LevelsAreOrdered ==
  \A l \in Level, n \in Level : l < n =>
    \A e \in EntriesOf(levels[l]), f \in EntriesOf(levels[n]) :
      e.key = f.key => e.seq > f.seq
=============================================================================
