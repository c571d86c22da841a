------------------------ MODULE CrashRecoveryProofs ------------------------
(***************************************************************************)
(* No crash takes what DB promised to keep, for any number of writes,      *)
(* crashes, files and faults, as long as no fault leaves a record whose    *)
(* fate the code misjudges (SafeFaults): README, Known limits, has what    *)
(* the others do.                                                          *)
(*                                                                         *)
(* CrInv has one part for each time of a process's life: RunInv and        *)
(* DataInv for an open database, OpenInv for DB::Open, and ManifestInv and *)
(* HistoryInv for what must be true of the files at every instant because  *)
(* a crash may come then.                                                  *)
(***************************************************************************)
EXTENDS CrashRecovery, FiniteSetTheorems, SequenceTheorems, WellFoundedInduction, TLAPS

SafeFaults == Faults \subseteq {"open", "table", "log sync", "manifest"}

EntryRec == [seq : Nat, id : Nat \ {0}]
EditRec == [add : SUBSET Nat, del : SUBSET Nat, log : Nat, next : Nat \ {0}, seq : Nat]
TableRec == [data : SUBSET EntryRec, whole : BOOLEAN]
FileOf(R) == {f \in [recs : Seq(R), synced : Nat] : f.synced <= Len(f.recs)}
Files(fs, S) == fs \in [DOMAIN fs -> S] /\ DOMAIN fs \subseteq Nat

DiskType(L, M, T) ==
  /\ Files(L, FileOf(EntryRec)) /\ Files(M, FileOf(EditRec)) /\ Files(T, TableRec)

WriteRec == [pc : {"idle", "sync", "insert", "failed"}, id : Nat, seq : Nat, sync : BOOLEAN]
FlushRec == [pc : {"idle", "build", "logged"}, number : Nat]
CompRec == [pc : {"idle", "build", "logged"}, inputs : SUBSET Nat, outputs : SUBSET Nat,
            open : Nat, left : SUBSET EntryRec]
OpenRec == [todo : SUBSET Nat, add : SUBSET Nat, max : Nat, ok : BOOLEAN]

MemoryType ==
  /\ pc \in PcStates /\ current \in Nat
  /\ version \in SUBSET Nat /\ pin \in SUBSET Nat /\ pending_outputs \in SUBSET Nat
  /\ log_number \in Nat /\ manifest_file_number \in Nat /\ next_file_number \in Nat
  /\ last_sequence \in Nat /\ logfile_number \in Nat
  /\ mem \in SUBSET EntryRec /\ immut \in SUBSET EntryRec
  /\ rec \in OpenRec /\ wr \in WriteRec /\ flush \in FlushRec /\ comp \in CompRec
  /\ writes \in Nat /\ acked \in SUBSET Nat /\ durable \in SUBSET Nat /\ lost \in SUBSET Nat

-----------------------------------------------------------------------------
(* The tables that the first k records of a MANIFEST name.                   *)
Names(f, k) == TablesOf(SubSeq(f.recs, 1, k))

(* What DB::Open needs of a MANIFEST that ends with the edit e and names the *)
(* tables N: they are there, and the numbers it hands out are new.           *)
EndsWell(e, N, T, cur, n) ==
  /\ cur < e.next /\ e.log < e.next /\ e.seq <= n
  /\ \A t \in N : /\ t \in DOMAIN T /\ T[t].whole /\ t < e.next
                  /\ \A x \in T[t].data : x.seq <= e.seq

(* A crash leaves any part of the MANIFEST from what is synced on.           *)
ManifestInv(f, T, cur, n) ==
  /\ Len(f.recs) <= f.synced + 1
  /\ \A k \in f.synced..Len(f.recs) : k # 0 =>
       /\ EndsWell(f.recs[k], Names(f, k), T, cur, n)
       /\ f.recs[k].next <= f.recs[Len(f.recs)].next

CurrentInv ==
  /\ current # 0 => /\ current \in DOMAIN manifests
                    /\ ManifestInv(manifests[current], tables, current, writes)
  /\ writes # 0 => current # 0 /\ manifests[current].synced # 0
  /\ current = 0 => current \notin DOMAIN manifests /\ pc = "down"

(* Every entry that is on disk anywhere, in use or not.                      *)
InTable(x, T) == \E n \in DOMAIN T : x \in T[n].data
InLog(x, L) == \E n \in DOMAIN L : \E i \in 1..Len(L[n].recs) : x = L[n].recs[i]
OnFile(x, L, T) == InTable(x, T) \/ InLog(x, L)

EntriesInv(L, T, n) ==
  /\ \A x \in EntryRec : OnFile(x, L, T) => x.id <= n /\ x.seq <= x.id
  /\ \A x, y \in EntryRec :
       OnFile(x, L, T) /\ OnFile(y, L, T) /\ x.id < y.id => x.seq < y.seq

-----------------------------------------------------------------------------
(* An open database.                                                         *)
Running == pc \in {"cleanup", "up"}

Logged == LET f == manifests[current] IN f.recs[f.synced]
Pending == LET f == manifests[current] IN f.recs[Len(f.recs)]

(* Memory knows what is synced of the MANIFEST; one more edit may be on its  *)
(* way.                                                                      *)
VersionInv ==
  LET f == manifests[current]
  IN /\ current # 0 /\ current = manifest_file_number /\ f.synced # 0
     /\ version = Names(f, f.synced) /\ Logged.log = log_number
     /\ Pending.next <= next_file_number
     /\ IF flush.pc = "logged" \/ comp.pc = "logged"
        THEN pc = "up" /\ Len(f.recs) = f.synced + 1
        ELSE Len(f.recs) = f.synced
     /\ flush.pc = "logged" =>
          Pending.add = {flush.number} /\ Pending.del = {} /\ Pending.log = logfile_number
     /\ comp.pc = "logged" =>
          Pending.add = comp.outputs /\ Pending.del = comp.inputs /\ Pending.log = log_number

(* The file of a flush or an output of a compaction is nobody else's.        *)
IsNew(n) == n # 0 /\ n \in DOMAIN tables /\ n < next_file_number /\ n \notin version \cup pin

FlushInv ==
  /\ flush.pc # "idle" =>
       pc = "up" /\ comp.pc # "logged" /\ immut # {}
       /\ IsNew(flush.number) /\ flush.number \notin comp.outputs
  /\ flush.pc = "build" => flush.number \in pending_outputs
  /\ flush.pc = "logged" => tables[flush.number] = [data |-> immut, whole |-> TRUE]

CompInv ==
  /\ comp.pc = "idle" => comp = NoComp
  /\ comp.pc = "logged" => comp.open = 0 /\ comp.left = {}
  /\ comp.inputs \subseteq version /\ comp.outputs \subseteq pending_outputs
  /\ comp.open # 0 => comp.open \in comp.outputs
  /\ \A n \in comp.outputs : IsNew(n) /\ (n # comp.open => tables[n].whole)
  /\ DataOf(tables, comp.inputs) = comp.left \cup DataOf(tables, comp.outputs \ {comp.open})

PinInv == \A n \in pin : n \in DOMAIN tables /\ tables[n].whole /\ n < next_file_number

LogsInv ==
  /\ log_number \in DOMAIN logs /\ logfile_number \in DOMAIN logs
  /\ log_number <= logfile_number /\ logfile_number < next_file_number
  /\ \A n \in DOMAIN logs : n <= logfile_number
  /\ immut = {} => log_number = logfile_number

RunInv == VersionInv /\ FlushInv /\ CompInv /\ PinInv /\ LogsInv

(* Sequence numbers; old files may hold some that a crash has set free, until *)
(* DeleteObsoleteFiles has run.                                              *)
Writing(x) == wr.pc # "idle" /\ x = [seq |-> wr.seq, id |-> wr.id]
SequenceInv ==
  /\ last_sequence <= writes
  /\ wr.pc # "idle" => /\ wr.seq = last_sequence + 1 /\ wr.seq <= wr.id
                      /\ wr.id <= writes /\ wr.id \notin lost
  /\ \A x \in mem \cup immut : x.seq <= last_sequence
  /\ \A n \in DOMAIN tables : pc = "up" \/ n \in Live =>
       \A x \in tables[n].data : x.seq <= last_sequence
  /\ \A n \in DOMAIN logs : pc = "up" \/ n >= log_number =>
       \A i \in 1..Len(logs[n].recs) :
         logs[n].recs[i].seq <= last_sequence \/ Writing(logs[n].recs[i])

(* The memtables are in their logs, and what was acknowledged is in them or  *)
(* in the version.                                                           *)
LogHas(x, n) == \E i \in 1..Len(logs[n].recs) : x = logs[n].recs[i]
LogKeeps(x, n) == \E i \in 1..logs[n].synced : x = logs[n].recs[i]

MemTablesAreLogged ==
  (\A x \in mem : LogHas(x, logfile_number)) /\ (\A x \in immut : LogHas(x, log_number))

NothingIsMissing == acked \ lost \subseteq Ids(mem \cup immut \cup DataOf(tables, version))

IsFirm(x) ==
  \/ x \in DataOf(tables, version)
  \/ x \in mem /\ LogKeeps(x, logfile_number)
  \/ x \in immut /\ LogKeeps(x, log_number)
DurableIsFirm == \A i \in durable : \E x : x.id = i /\ IsFirm(x)

WriteIsLogged ==
  /\ wr.pc \in {"sync", "insert"} => LogHas([seq |-> wr.seq, id |-> wr.id], logfile_number)
  /\ wr.pc = "insert" /\ wr.sync => LogKeeps([seq |-> wr.seq, id |-> wr.id], logfile_number)

DataInv == MemTablesAreLogged /\ NothingIsMissing /\ DurableIsFirm /\ WriteIsLogged

-----------------------------------------------------------------------------
(* A database that is not open has nothing in memory.                        *)
ClosedInv ==
  /\ mem = {} /\ immut = {} /\ pending_outputs = {} /\ wr = NoWrite
  /\ flush = NoFlush /\ comp = NoComp /\ pin = {}
  /\ pc = "down" => version = {}

(* DB::Open: what was read from the MANIFEST, replayed and still to be       *)
(* replayed is all there is.                                                 *)
Opening == pc \in {"replay", "manifest", "install"}

ReplayInv ==
  LET f == manifests[current]
      e == Pending
  IN /\ f.recs # <<>>
     /\ version = Names(f, Len(f.recs)) /\ log_number = e.log
     /\ manifest_file_number = e.next /\ e.next < next_file_number
     /\ e.seq <= last_sequence /\ last_sequence <= writes /\ rec.max <= writes /\ rec.ok
     /\ rec.todo \subseteq DOMAIN logs
     /\ \A n \in DOMAIN logs : n \in rec.todo \/ n < next_file_number
     /\ \A n \in rec.add :
          /\ n \in DOMAIN tables /\ tables[n].whole
          /\ e.next < n /\ n < next_file_number
          /\ \A x \in tables[n].data : x.seq <= rec.max
     /\ \A i \in acked \ lost :
          \/ i \in Ids(DataOf(tables, version \cup rec.add))
          \/ \E n \in rec.todo : \E x \in EntryRec : x.id = i /\ LogHas(x, n)

OpenInv ==
  /\ ReplayInv
  /\ pc \in {"manifest", "install"} =>
       /\ rec.todo = {} /\ rec.max <= last_sequence
       /\ logfile_number \in DOMAIN logs /\ logs[logfile_number] = EmptyLog
       /\ logfile_number < next_file_number /\ \A n \in DOMAIN logs : n <= logfile_number
  /\ pc = "install" =>
       /\ manifest_file_number \in DOMAIN manifests
       /\ manifests[manifest_file_number] =
            [recs |-> <<[add |-> version \cup rec.add, del |-> {}, log |-> logfile_number,
                         next |-> next_file_number, seq |-> last_sequence]>>,
             synced |-> 0]

-----------------------------------------------------------------------------
HistoryInv ==
  /\ durable \subseteq acked /\ lost \subseteq acked /\ durable \cap lost = {}
  /\ \A i \in acked : i # 0 /\ i <= writes
  /\ SyncedWritesSurvive /\ AckedWritesAreOnDisk

CrInv ==
  /\ DiskType(logs, manifests, tables) /\ MemoryType
  /\ CurrentInv /\ EntriesInv(logs, tables, writes) /\ HistoryInv
  /\ ~Running => ClosedInv
  /\ Running => RunInv /\ SequenceInv /\ DataInv
  /\ Opening => OpenInv

-----------------------------------------------------------------------------
(* Numbers: bounded sets of them have a least and a greatest element, by the *)
(* well-foundedness of <.                                                    *)
LEMMA LeastNat ==
  ASSUME NEW T \in SUBSET Nat, T # {}
  PROVE  \E x \in T : \A y \in T : x <= y
<1> PICK R : R = {ss \in Nat \X Nat : ss[1] < ss[2]}
  OBVIOUS
<1>1. IsWellFoundedOn(R, Nat)
  BY NatLessThanWellFounded, Zenon DEF OpToRel
<1>2. PICK x \in T : \A y \in T : ~(<<y, x>> \in R)
  BY <1>1, WFMin, Zenon
<1>3. \A y \in T : y < x => <<y, x>> \in R
  OBVIOUS
<1>4. ASSUME NEW y \in T
      PROVE  x <= y
  <2>1. ~(y < x)
    BY <1>2, <1>3
  <2> QED
    BY <2>1
<1> QED
  BY <1>4

LEMMA MinIsLeast ==
  ASSUME NEW T \in SUBSET Nat, T # {}
  PROVE  Min(T) \in T /\ \A y \in T : Min(T) <= y
<1>1. \E x \in T : \A y \in T : x <= y
  BY LeastNat
<1> QED
  BY <1>1 DEF Min

LEMMA MaxIsGreatest ==
  ASSUME NEW T \in SUBSET Nat, T # {}, NEW n \in Nat, \A x \in T : x <= n
  PROVE  Max(T) \in T /\ \A y \in T : y <= Max(T)
<1> DEFINE D == {d \in Nat : \E x \in T : d = n - x}
<1>1. D \in SUBSET Nat /\ D # {} /\ \A x \in T : n - x \in D
  <2>1. \A x \in T : n - x \in D
    OBVIOUS
  <2> QED
    BY <2>1
<1>2. PICK d \in D : \A e \in D : d <= e
  <2> HIDE DEF D
  <2> QED
    BY <1>1, LeastNat
<1>3. PICK x \in T : d = n - x
  OBVIOUS
<1>4. ASSUME NEW y \in T
      PROVE  x >= y
  <2>1. d <= n - y
    BY <1>1, <1>2
  <2>2. x \in Nat /\ y \in Nat
    OBVIOUS
  <2> HIDE DEF D
  <2> QED
    BY <1>3, <2>1, <2>2
<1>5. Max(T) \in T /\ \A y \in T : Max(T) >= y
  BY <1>4, Zenon DEF Max
<1>6. \A y \in T : Max(T) \in Nat /\ y \in Nat /\ Max(T) >= y
  BY <1>5
<1> QED
  BY <1>5, <1>6

-----------------------------------------------------------------------------
(* What the readers of the files make of them.                               *)
LEMMA NamesAre ==
  ASSUME NEW f, f.recs \in Seq(EditRec), NEW k \in 0..Len(f.recs), NEW t
  PROVE  t \in Names(f, k) <=>
           \E i \in 1..k : t \in f.recs[i].add /\ \A j \in (i + 1)..k : t \notin f.recs[j].del
<1> DEFINE s == SubSeq(f.recs, 1, k)
<1>1. Len(s) = k /\ \A i \in 1..k : s[i] = f.recs[i]
  OBVIOUS
<1> HIDE DEF s
<1>2. t \in TablesOf(s) <=>
        \E i \in 1..k : t \in s[i].add /\ \A j \in (i + 1)..k : t \notin s[j].del
  BY <1>1 DEF TablesOf
<1>3. \A i \in 1..k : \A j \in (i + 1)..k : j \in 1..k
  OBVIOUS
<1> QED
  BY <1>1, <1>2, <1>3 DEF Names, s

LEMMA NamesAgree ==
  ASSUME NEW f, NEW g, f.recs \in Seq(EditRec), g.recs \in Seq(EditRec),
         NEW k \in 0..Len(f.recs), k <= Len(g.recs),
         \A i \in 1..k : f.recs[i] = g.recs[i]
  PROVE  Names(f, k) = Names(g, k)
<1>1. SubSeq(f.recs, 1, k) = SubSeq(g.recs, 1, k)
  OBVIOUS
<1> QED
  BY <1>1 DEF Names

LEMMA NamesNext ==
  ASSUME NEW f, f.recs \in Seq(EditRec), NEW k \in Nat, k + 1 <= Len(f.recs)
  PROVE  Names(f, k + 1) = (Names(f, k) \ f.recs[k + 1].del) \cup f.recs[k + 1].add
<1> SUFFICES ASSUME NEW t
             PROVE  t \in Names(f, k + 1) <=>
                      (t \in Names(f, k) /\ t \notin f.recs[k + 1].del) \/ t \in f.recs[k + 1].add
  OBVIOUS
<1>0. Len(f.recs) \in Nat
  OBVIOUS
<1>1. t \in Names(f, k) <=>
        \E i \in 1..k : t \in f.recs[i].add /\ \A j \in (i + 1)..k : t \notin f.recs[j].del
  BY <1>0, NamesAre
<1>2. t \in Names(f, k + 1) <=>
        \E i \in 1..(k + 1) :
          t \in f.recs[i].add /\ \A j \in (i + 1)..(k + 1) : t \notin f.recs[j].del
  BY <1>0, NamesAre
<1>3. \A i \in 1..(k + 1) : i \in 1..k \/ i = k + 1
  OBVIOUS
<1>4. \A i \in 1..k : i \in 1..(k + 1) /\ k + 1 \in (i + 1)..(k + 1)
                     /\ \A j : j \in (i + 1)..(k + 1) <=> j \in (i + 1)..k \/ j = k + 1
  OBVIOUS
<1>5. k + 1 \in 1..(k + 1) /\ \A j \in (k + 1 + 1)..(k + 1) : FALSE
  OBVIOUS
<1>6. ASSUME t \in Names(f, k + 1)
      PROVE  (t \in Names(f, k) /\ t \notin f.recs[k + 1].del) \/ t \in f.recs[k + 1].add
  <2>1. PICK i \in 1..(k + 1) :
          t \in f.recs[i].add /\ \A j \in (i + 1)..(k + 1) : t \notin f.recs[j].del
    BY <1>2, <1>6
  <2>2. CASE i \in 1..k
    BY <2>1, <2>2, <1>1, <1>4
  <2> QED
    BY <2>1, <2>2, <1>3
<1>7. ASSUME t \in Names(f, k), t \notin f.recs[k + 1].del
      PROVE  t \in Names(f, k + 1)
  <2>1. PICK i \in 1..k : t \in f.recs[i].add /\ \A j \in (i + 1)..k : t \notin f.recs[j].del
    BY <1>1, <1>7
  <2> QED
    BY <2>1, <1>2, <1>4, <1>7
<1>8. ASSUME t \in f.recs[k + 1].add
      PROVE  t \in Names(f, k + 1)
  BY <1>2, <1>5, <1>8
<1> QED
  BY <1>6, <1>7, <1>8

LEMMA NamesOfOne ==
  ASSUME NEW f, NEW e \in EditRec, f.recs = <<e>>
  PROVE  Names(f, 1) = e.add
<1>1. f.recs \in Seq(EditRec) /\ Len(f.recs) = 1 /\ f.recs[1] = e
  OBVIOUS
<1>2. ASSUME NEW t
      PROVE  t \in Names(f, 1) <=> t \in e.add
  <2>1. 1 \in 0..Len(f.recs)
    BY <1>1
  <2>2. t \in Names(f, 1) <=>
          \E i \in 1..1 : t \in f.recs[i].add /\ \A j \in (i + 1)..1 : t \notin f.recs[j].del
    BY <1>1, <2>1, NamesAre
  <2> QED
    BY <1>1, <2>2
<1> QED
  BY <1>2

LEMMA ReadLogIs ==
  ASSUME NEW f \in FileOf(EntryRec), NEW n \in 0..Len(f.recs), NEW x
  PROVE  x \in ReadLog(f, n) <=> \E i \in 1..n : x = f.recs[i]
<1>1. f.recs \in Seq(EntryRec) /\ Len(f.recs) \in Nat
  BY DEF FileOf
<1>2. \A k \in 1..n : f.recs[k] \in EntryRec
  BY <1>1
<1>3. \A k \in 1..n : f.recs[k] # TornEntry
  BY <1>2 DEF EntryRec, TornEntry
<1>4. \A j \in 1..n : \A k \in 1..j : k \in 1..n
  OBVIOUS
<1> QED
  BY <1>3, <1>4 DEF ReadLog

LEMMA PrefixesAreReadable ==
  ASSUME NEW f \in FileOf(EditRec), NEW k \in 1..Len(f.recs)
  PROVE  /\ SubSeq(f.recs, 1, k) \in Seq(EditRec) /\ Len(SubSeq(f.recs, 1, k)) = k
         /\ \A i \in 1..k : SubSeq(f.recs, 1, k)[i] = f.recs[i]
         /\ Readable(SubSeq(f.recs, 1, k))
<1> DEFINE s == SubSeq(f.recs, 1, k)
<1>1. f.recs \in Seq(EditRec) /\ Len(f.recs) \in Nat
  BY DEF FileOf
<1>2. s \in Seq(EditRec) /\ Len(s) = k /\ \A i \in 1..k : s[i] = f.recs[i]
  BY <1>1
<1>3. \A i \in 1..k : f.recs[i] \in EditRec
  BY <1>1
<1>4. \A i \in 1..k : f.recs[i] # TornEdit
  BY <1>3 DEF EditRec, TornEdit
<1>5. s # <<>>
  BY <1>2
<1> HIDE DEF s
<1>6. Readable(s)
  BY <1>2, <1>4, <1>5 DEF Readable
<1> QED
  BY <1>2, <1>6 DEF s

(* x is found by DB::Open if the MANIFEST is the first k records of f and of *)
(* each log n there are kept[n].                                             *)
Finds(x, f, k, L, T, kept) ==
  \/ \E n \in Names(f, k) : n \in DOMAIN T /\ T[n].whole /\ x \in T[n].data
  \/ \E n \in DOMAIN L : n >= f.recs[k].log /\ \E i \in 1..kept[n] : x = L[n].recs[i]

LEMMA RecoverableIs ==
  ASSUME NEW f \in FileOf(EditRec), NEW k \in 1..Len(f.recs),
         NEW L, Files(L, FileOf(EntryRec)), NEW T,
         NEW kept, \A n \in DOMAIN L : kept[n] \in 0..Len(L[n].recs),
         NEW x
  PROVE  x \in Recoverable(SubSeq(f.recs, 1, k), L, T, kept) <=> Finds(x, f, k, L, T, kept)
<1> DEFINE s == SubSeq(f.recs, 1, k)
<1>1. Len(s) = k /\ s[k] = f.recs[k] /\ Readable(s)
  BY PrefixesAreReadable
<1>2. s[Len(s)].log = f.recs[k].log
  BY <1>1
<1>3. \A n \in DOMAIN L :
        x \in ReadLog(L[n], kept[n]) <=> \E i \in 1..kept[n] : x = L[n].recs[i]
  BY ReadLogIs DEF Files
<1>4. Names(f, k) = TablesOf(s)
  BY DEF Names
<1> HIDE DEF s
<1>5. x \in Recoverable(s, L, T, kept) <=>
        \/ \E n \in TablesOf(s) \cap DOMAIN T : T[n].whole /\ x \in T[n].data
        \/ \E n \in DOMAIN L : n >= s[Len(s)].log /\ x \in ReadLog(L[n], kept[n])
  BY <1>1 DEF Recoverable, DataOf
<1> QED
  BY <1>2, <1>3, <1>4, <1>5 DEF Finds, s

LEMMA NothingIsRecoverable ==
  ASSUME NEW f, NEW L, NEW T, NEW kept
  PROVE  Recoverable(SubSeq(f.recs, 1, 0), L, T, kept) = {}
<1>1. SubSeq(f.recs, 1, 0) = <<>>
  OBVIOUS
<1> QED
  BY <1>1 DEF Recoverable, Readable

-----------------------------------------------------------------------------
(* Files.                                                                    *)
IsPut(gs, fs, n, f) ==
  /\ DOMAIN gs = DOMAIN fs \cup {n} /\ gs[n] = f
  /\ \A m \in DOMAIN fs : m # n => gs[m] = fs[m]

LEMMA PutIs ==
  ASSUME NEW fs, NEW S, Files(fs, S), NEW n \in Nat, NEW f \in S
  PROVE  Files(Put(fs, n, f), S) /\ IsPut(Put(fs, n, f), fs, n, f)
BY DEF Put, Files, IsPut

IsCut(gs, fs, D) == DOMAIN gs = DOMAIN fs \ D /\ \A m \in DOMAIN gs : gs[m] = fs[m]

LEMMA WithoutIs ==
  ASSUME NEW fs, NEW S, Files(fs, S), NEW D
  PROVE  Files(Without(fs, D), S) /\ IsCut(Without(fs, D), fs, D)
BY DEF Without, Restrict, Files, IsCut

LEMMA AppendIs ==
  ASSUME NEW R, NEW f \in FileOf(R), NEW r \in R
  PROVE  /\ AppendTo(f, r) \in FileOf(R) /\ AppendTo(f, r).synced = f.synced
         /\ Len(AppendTo(f, r).recs) = Len(f.recs) + 1
         /\ \A i \in 1..Len(f.recs) : AppendTo(f, r).recs[i] = f.recs[i]
         /\ AppendTo(f, r).recs[Len(f.recs) + 1] = r
         /\ Len(f.recs) \in Nat /\ f.synced \in Nat
<1> DEFINE g == AppendTo(f, r)
           q == f.recs
<1>1. q \in Seq(R) /\ Len(q) \in Nat /\ f.synced \in Nat /\ f.synced <= Len(q)
  BY DEF FileOf
<1>2. f \in [recs : Seq(R), synced : Nat]
  BY DEF FileOf
<1>3. /\ g.recs = Append(q, r) /\ g.synced = f.synced
      /\ g = [recs |-> Append(q, r), synced |-> f.synced]
  <2>1. f = [recs |-> f.recs, synced |-> f.synced]
    BY <1>2
  <2> DEFINE p == Append(f.recs, r)
  <2>2. g = [f EXCEPT !.recs = p]
    BY DEF AppendTo
  <2> HIDE DEF p, g
  <2>3. g = [recs |-> p, synced |-> f.synced]
    BY <2>1, <2>2
  <2> QED
    BY <2>3 DEF p
<1>4. /\ Append(q, r) \in Seq(R) /\ Len(Append(q, r)) = Len(q) + 1
      /\ \A i \in 1..Len(q) : Append(q, r)[i] = q[i]
      /\ Append(q, r)[Len(q) + 1] = r
  BY <1>1
<1>5. g \in FileOf(R)
  <2> DEFINE p == Append(q, r)
  <2> HIDE DEF p, q
  <2>1. p \in Seq(R) /\ Len(p) \in Nat /\ f.synced <= Len(p)
    BY <1>1, <1>4 DEF p
  <2>2. g = [recs |-> p, synced |-> f.synced]
    BY <1>3 DEF p
  <2> HIDE DEF g
  <2> QED
    BY <1>1, <2>1, <2>2 DEF FileOf
<1> QED
  BY <1>1, <1>3, <1>4, <1>5

LEMMA SyncIs ==
  ASSUME NEW R, NEW f \in FileOf(R)
  PROVE  /\ Sync(f) \in FileOf(R) /\ Sync(f).recs = f.recs /\ Sync(f).synced = Len(f.recs)
         /\ Len(f.recs) \in Nat /\ f.synced \in Nat /\ f.synced <= Len(f.recs)
<1>1. f \in [recs : Seq(R), synced : Nat] /\ f.synced <= Len(f.recs) /\ Len(f.recs) \in Nat
  BY DEF FileOf
<1>2. Sync(f) = [recs |-> f.recs, synced |-> Len(f.recs)]
  BY <1>1 DEF Sync
<1> QED
  BY <1>1, <1>2 DEF FileOf

LEMMA FileIs ==
  ASSUME NEW R, NEW f \in FileOf(R)
  PROVE  /\ f.recs \in Seq(R) /\ Len(f.recs) \in Nat /\ f.synced \in Nat
         /\ f.synced <= Len(f.recs) /\ \A i \in 1..Len(f.recs) : f.recs[i] \in R
BY DEF FileOf

LEMMA EditIs ==
  ASSUME NEW f \in FileOf(EditRec), NEW k \in 1..Len(f.recs)
  PROVE  /\ f.recs[k] \in EditRec /\ f.recs[k].next \in Nat /\ f.recs[k].log \in Nat
         /\ f.recs[k].seq \in Nat
<1>1. f.recs[k] \in EditRec
  BY FileIs
<1> QED
  BY <1>1 DEF EditRec

(* The part of a file that a crash of the machine leaves.                    *)
LEMMA CutIs ==
  ASSUME NEW R, NEW f \in FileOf(R), NEW k \in f.synced..Len(f.recs), NEW g,
         g = [recs |-> SubSeq(f.recs, 1, k), synced |-> k]
  PROVE  /\ g \in FileOf(R) /\ g.synced = k /\ Len(g.recs) = k
         /\ \A i \in 1..k : g.recs[i] = f.recs[i]
<1>1. f.recs \in Seq(R) /\ Len(f.recs) \in Nat /\ k \in 0..Len(f.recs)
  BY FileIs
<1>2. /\ SubSeq(f.recs, 1, k) \in Seq(R) /\ Len(SubSeq(f.recs, 1, k)) = k
      /\ \A i \in 1..k : SubSeq(f.recs, 1, k)[i] = f.recs[i]
  BY <1>1
<1> DEFINE p == SubSeq(f.recs, 1, k)
<1> HIDE DEF p
<1>3. g = [recs |-> p, synced |-> k] /\ p \in Seq(R) /\ Len(p) = k
  BY <1>2 DEF p
<1> QED
  BY <1>1, <1>2, <1>3 DEF FileOf, p

-----------------------------------------------------------------------------
(* What the promises say.                                                    *)
Survives(D, f, L, T) ==
  \A k \in f.synced..Len(f.recs) : \A i \in D :
    k # 0 /\ \E x : x.id = i /\ Finds(x, f, k, L, T, [n \in DOMAIN L |-> L[n].synced])

Kept(A, f, L, T) ==
  \A i \in A :
    Len(f.recs) # 0 /\
    \E x : x.id = i /\ Finds(x, f, Len(f.recs), L, T, [n \in DOMAIN L |-> Len(L[n].recs)])

LEMMA SurvivesIs ==
  DiskType(logs, manifests, tables) /\ current \in DOMAIN manifests =>
    (SyncedWritesSurvive <=> Survives(durable, manifests[current], logs, tables))
<1> SUFFICES ASSUME DiskType(logs, manifests, tables), current \in DOMAIN manifests
             PROVE  SyncedWritesSurvive <=> Survives(durable, manifests[current], logs, tables)
  OBVIOUS
<1> DEFINE f == manifests[current]
           kept == [n \in DOMAIN logs |-> logs[n].synced]
           R(k) == Recoverable(SubSeq(f.recs, 1, k), logs, tables, kept)
<1>1. f \in FileOf(EditRec) /\ Files(logs, FileOf(EntryRec))
  BY DEF DiskType, Files
<1>2. \A n \in DOMAIN logs : kept[n] \in 0..Len(logs[n].recs)
  BY FileIs, <1>1 DEF Files
<1>3. Len(f.recs) \in Nat /\ f.synced \in Nat
  BY <1>1, FileIs
<1>4. ASSUME NEW k \in f.synced..Len(f.recs)
      PROVE  durable \subseteq Ids(R(k)) <=>
               \A i \in durable : k # 0 /\ \E x : x.id = i /\ Finds(x, f, k, logs, tables, kept)
  <2>1. durable \subseteq Ids(R(k)) <=> \A i \in durable : \E x : x \in R(k) /\ x.id = i
    BY DEF Ids
  <2>2. CASE k = 0
    <3>1. R(k) = {}
      BY <2>2, NothingIsRecoverable
    <3> QED
      BY <2>1, <2>2, <3>1
  <2>3. CASE k # 0
    <3>1. k \in 1..Len(f.recs)
      BY <2>3, <1>3
    <3> HIDE DEF f, kept
    <3>2. \A x : x \in R(k) <=> Finds(x, f, k, logs, tables, kept)
      BY <3>1, <1>1, <1>2, RecoverableIs
    <3> HIDE DEF R
    <3> QED
      BY <2>1, <2>3, <3>2
  <2> QED
    BY <2>2, <2>3
<1> HIDE DEF R
<1>5. SyncedWritesSurvive <=> \A k \in f.synced..Len(f.recs) : durable \subseteq Ids(R(k))
  BY DEF SyncedWritesSurvive, R
<1> QED
  BY <1>4, <1>5 DEF Survives

LEMMA KeptIs ==
  ASSUME DiskType(logs, manifests, tables), current \in DOMAIN manifests, NEW A
  PROVE  A \subseteq Ids(OnDisk(logs, manifests, tables)) <=>
           Kept(A, manifests[current], logs, tables)
<1> DEFINE f == manifests[current]
           kept == [n \in DOMAIN logs |-> Len(logs[n].recs)]
           k == Len(f.recs)
           R == Recoverable(SubSeq(f.recs, 1, k), logs, tables, kept)
<1>1. f \in FileOf(EditRec) /\ Files(logs, FileOf(EntryRec))
  BY DEF DiskType, Files
<1>2. \A n \in DOMAIN logs : kept[n] \in 0..Len(logs[n].recs)
  BY FileIs, <1>1 DEF Files
<1>3. k \in Nat /\ f.recs \in Seq(EditRec)
  BY <1>1, FileIs
<1>4. SubSeq(f.recs, 1, k) = f.recs
  BY <1>3
<1>5. OnDisk(logs, manifests, tables) = R
  BY <1>4 DEF OnDisk
<1>6. A \subseteq Ids(OnDisk(logs, manifests, tables)) <=>
        \A i \in A : \E x : x \in R /\ x.id = i
  BY <1>5 DEF Ids
<1>7. CASE k = 0
  <2>1. R = {}
    BY <1>7, NothingIsRecoverable
  <2> QED
    BY <1>6, <1>7, <2>1 DEF Kept
<1>8. CASE k # 0
  <2>1. k \in 1..Len(f.recs)
    BY <1>8, <1>3
  <2> HIDE DEF f, kept, k
  <2>2. \A x : x \in R <=> Finds(x, f, k, logs, tables, kept)
    BY <2>1, <1>1, <1>2, RecoverableIs
  <2> HIDE DEF R
  <2> QED
    BY <1>6, <1>8, <2>2 DEF Kept, f, kept, k
<1> QED
  BY <1>7, <1>8

LEMMA AckedIs ==
  DiskType(logs, manifests, tables) /\ current \in DOMAIN manifests =>
    (AckedWritesAreOnDisk <=> Kept(acked \ lost, manifests[current], logs, tables))
BY KeptIs DEF AckedWritesAreOnDisk

LEMMA DurableIs ==
  DiskType(logs, manifests, tables) /\ current \in DOMAIN manifests =>
    (durable \subseteq Ids(OnDisk(logs, manifests, tables)) <=>
       Kept(durable, manifests[current], logs, tables))
BY KeptIs

-----------------------------------------------------------------------------
(* An open database keeps its promises: whichever of its edits the MANIFEST  *)
(* ends with, what was acknowledged is in a table it names or in a log that  *)
(* will be replayed.                                                         *)
LEMMA VersionsAre ==
  ASSUME DiskType(logs, manifests, tables), CurrentInv, VersionInv, NEW f, f = manifests[current],
         NEW k \in f.synced..Len(f.recs)
  PROVE  /\ f \in FileOf(EditRec) /\ current \in DOMAIN manifests /\ k \in 1..Len(f.recs)
         /\ \/ k = f.synced /\ Names(f, k) = version /\ f.recs[k].log = log_number
            \/ /\ k = Len(f.recs) /\ flush.pc = "logged" /\ pc = "up"
               /\ Names(f, k) = version \cup {flush.number} /\ f.recs[k].log = logfile_number
            \/ /\ k = Len(f.recs) /\ comp.pc = "logged" /\ pc = "up"
               /\ Names(f, k) = (version \ comp.inputs) \cup comp.outputs
               /\ f.recs[k].log = log_number
<1>1. f \in FileOf(EditRec) /\ current \in DOMAIN manifests
  BY DEF CurrentInv, VersionInv, DiskType, Files
<1>2. f.recs \in Seq(EditRec) /\ Len(f.recs) \in Nat /\ f.synced \in Nat \ {0}
  BY <1>1, FileIs DEF VersionInv
<1>3. k \in 1..Len(f.recs)
  BY <1>2
<1>4. version = Names(f, f.synced) /\ f.recs[f.synced].log = log_number
  BY DEF VersionInv, Logged
<1>5. CASE k = f.synced
  BY <1>1, <1>3, <1>4, <1>5
<1>6. CASE k # f.synced
  <2>1. /\ k = f.synced + 1 /\ k = Len(f.recs) /\ pc = "up"
        /\ flush.pc = "logged" \/ comp.pc = "logged"
    BY <1>2, <1>6 DEF VersionInv
  <2>2. Names(f, k) = (version \ f.recs[k].del) \cup f.recs[k].add
    <3>1. f.synced \in Nat /\ f.synced + 1 <= Len(f.recs)
      BY <1>2, <2>1
    <3>2. Names(f, f.synced + 1) =
            (Names(f, f.synced) \ f.recs[f.synced + 1].del) \cup f.recs[f.synced + 1].add
      BY <1>2, <3>1, NamesNext
    <3> QED
      BY <1>4, <2>1, <3>2
  <2>3. CASE flush.pc = "logged"
    BY <1>1, <1>3, <2>1, <2>2, <2>3 DEF VersionInv, Pending
  <2>4. CASE comp.pc = "logged"
    BY <1>1, <1>3, <2>1, <2>2, <2>4 DEF VersionInv, Pending
  <2> QED
    BY <2>1, <2>3, <2>4
<1> QED
  BY <1>5, <1>6

(* x is in the version, or in a memtable and in the part kept of its log.    *)
Has(x, kept) ==
  \/ x \in DataOf(tables, version)
  \/ x \in mem /\ \E i \in 1..kept[logfile_number] : x = logs[logfile_number].recs[i]
  \/ x \in immut /\ \E i \in 1..kept[log_number] : x = logs[log_number].recs[i]

LEMMA WhatItHasIsFound ==
  ASSUME DiskType(logs, manifests, tables), MemoryType, CurrentInv, RunInv,
         NEW f, f = manifests[current], NEW k \in f.synced..Len(f.recs),
         NEW kept, NEW x, Has(x, kept)
  PROVE  Finds(x, f, k, logs, tables, kept)
<1>1. VersionInv /\ FlushInv /\ CompInv /\ LogsInv
  BY DEF RunInv
<1>2. f \in FileOf(EditRec) /\ k \in 1..Len(f.recs) /\ current \in DOMAIN manifests
  BY <1>1, VersionsAre
<1>3. \A n \in Names(f, k) : n \in DOMAIN tables /\ tables[n].whole
  BY <1>1, <1>2 DEF CurrentInv, VersionInv, ManifestInv, EndsWell
<1>4. log_number \in Nat /\ logfile_number \in Nat /\ log_number <= logfile_number
  BY <1>1 DEF LogsInv, MemoryType
<1>5. CASE k = f.synced /\ Names(f, k) = version /\ f.recs[k].log = log_number
  BY <1>1, <1>3, <1>4, <1>5 DEF Has, Finds, DataOf, LogsInv
<1>6. CASE /\ flush.pc = "logged"
           /\ Names(f, k) = version \cup {flush.number} /\ f.recs[k].log = logfile_number
  <2>1. tables[flush.number] = [data |-> immut, whole |-> TRUE]
    BY <1>1, <1>6 DEF FlushInv
  <2>2. tables[flush.number].data = immut
    BY <2>1
  <2> QED
    BY <1>1, <1>3, <1>4, <1>6, <2>2 DEF Has, Finds, DataOf, LogsInv
<1>7. CASE /\ comp.pc = "logged"
           /\ Names(f, k) = (version \ comp.inputs) \cup comp.outputs
           /\ f.recs[k].log = log_number
  <2>1. CASE x \in DataOf(tables, version)
    <3>1. PICK n \in version : x \in tables[n].data
      BY <2>1 DEF DataOf
    <3>2. CASE n \in comp.inputs
      <4>1. x \in DataOf(tables, comp.inputs)
        BY <3>1, <3>2 DEF DataOf
      <4>2. x \in DataOf(tables, comp.outputs \ {comp.open})
        BY <1>1, <1>7, <4>1 DEF CompInv
      <4>3. \E m \in comp.outputs : x \in tables[m].data
        BY <4>2 DEF DataOf
      <4> QED
        BY <1>3, <1>7, <4>3 DEF Finds
    <3>3. CASE n \notin comp.inputs
      BY <1>3, <1>7, <3>1, <3>3 DEF Finds
    <3> QED
      BY <3>2, <3>3
  <2>2. CASE x \notin DataOf(tables, version)
    BY <1>1, <1>4, <1>7, <2>2 DEF Has, Finds, LogsInv
  <2> QED
    BY <2>1, <2>2
<1> QED
  BY <1>1, <1>5, <1>6, <1>7, VersionsAre

LEMMA RunningIsSafe ==
  DiskType(logs, manifests, tables) /\ MemoryType /\ CurrentInv /\ RunInv /\ DataInv =>
    SyncedWritesSurvive /\ AckedWritesAreOnDisk
<1> SUFFICES ASSUME DiskType(logs, manifests, tables), MemoryType, CurrentInv, RunInv, DataInv
             PROVE  SyncedWritesSurvive /\ AckedWritesAreOnDisk
  OBVIOUS
<1> DEFINE f == manifests[current]
           kept == [n \in DOMAIN logs |-> logs[n].synced]
           all == [n \in DOMAIN logs |-> Len(logs[n].recs)]
<1>1. VersionInv /\ LogsInv
  BY DEF RunInv
<1>2. /\ f \in FileOf(EditRec) /\ current \in DOMAIN manifests
      /\ Len(f.recs) \in f.synced..Len(f.recs) /\ Len(f.recs) # 0
  <2>1. current \in DOMAIN manifests /\ f.synced # 0
    BY <1>1 DEF CurrentInv, VersionInv
  <2>2. f \in FileOf(EditRec)
    BY <2>1 DEF DiskType, Files
  <2> HIDE DEF f
  <2> QED
    BY <2>1, <2>2, FileIs
<1>3. log_number \in DOMAIN logs /\ logfile_number \in DOMAIN logs
  BY <1>1 DEF LogsInv
<1>4. Survives(durable, f, logs, tables)
  <2> SUFFICES ASSUME NEW k \in f.synced..Len(f.recs), NEW i \in durable
               PROVE  k # 0 /\ \E x : x.id = i /\ Finds(x, f, k, logs, tables, kept)
    BY DEF Survives
  <2>1. k # 0
    BY <1>1, VersionsAre
  <2>2. PICK x : x.id = i /\ IsFirm(x)
    BY DEF DataInv, DurableIsFirm
  <2>3. Has(x, kept)
    BY <1>3, <2>2 DEF IsFirm, Has, LogKeeps
  <2> HIDE DEF f, kept
  <2>4. Finds(x, f, k, logs, tables, kept)
    BY <2>3, WhatItHasIsFound DEF f
  <2> QED
    BY <2>1, <2>2, <2>4
<1>5. Kept(acked \ lost, f, logs, tables)
  <2> SUFFICES ASSUME NEW i \in acked \ lost
               PROVE  \E x : x.id = i /\ Finds(x, f, Len(f.recs), logs, tables, all)
    BY <1>2 DEF Kept
  <2>1. PICK x \in mem \cup immut \cup DataOf(tables, version) : x.id = i
    BY DEF DataInv, NothingIsMissing, Ids
  <2>2. Has(x, all)
    BY <1>3, <2>1 DEF Has, DataInv, MemTablesAreLogged, LogHas
  <2> HIDE DEF f, all
  <2>3. Finds(x, f, Len(f.recs), logs, tables, all)
    BY <1>2, <2>2, WhatItHasIsFound DEF f
  <2> QED
    BY <2>1, <2>3
<1> HIDE DEF f
<1> QED
  BY <1>2, <1>4, <1>5, SurvivesIs, AckedIs DEF f

LEMMA RunningIsSafeNext ==
  (DiskType(logs, manifests, tables) /\ MemoryType /\ CurrentInv /\ RunInv /\ DataInv)' =>
    (SyncedWritesSurvive /\ AckedWritesAreOnDisk)'
BY RunningIsSafe, PTL

LEMMA RunningNext ==
  ASSUME Running', DiskType(logs, manifests, tables)', MemoryType', CurrentInv',
         EntriesInv(logs, tables, writes)', RunInv', SequenceInv', DataInv',
         durable' \subseteq acked', lost' \subseteq acked', durable' \cap lost' = {},
         \A i \in acked' : i # 0 /\ i <= writes'
  PROVE  CrInv'
<1>1. (SyncedWritesSurvive /\ AckedWritesAreOnDisk)'
  BY RunningIsSafeNext
<1>2. HistoryInv'
  BY <1>1 DEF HistoryInv
<1>3. ~Opening'
  BY DEF Running, Opening
<1> QED
  BY <1>2, <1>3 DEF CrInv

-----------------------------------------------------------------------------
(* What most steps leave as it was.                                          *)
LEMMA CurrentStays ==
  ASSUME CurrentInv, current # 0, current' = current, current \in DOMAIN manifests',
         manifests'[current] = manifests[current],
         writes \in Nat, writes' \in Nat, writes <= writes',
         writes' # 0 => manifests[current].synced # 0,
         DiskType(logs, manifests, tables),
         NEW f, f = manifests[current],
         \A k \in f.synced..Len(f.recs) : k # 0 =>
           \A t \in Names(f, k) : t \in DOMAIN tables' /\ tables'[t] = tables[t]
  PROVE  CurrentInv'
<1>1. current \in DOMAIN manifests /\ ManifestInv(f, tables, current, writes)
  BY DEF CurrentInv
<1>2. f \in FileOf(EditRec)
  BY <1>1 DEF DiskType, Files
<1>3. ASSUME NEW k \in f.synced..Len(f.recs), k # 0
      PROVE  EndsWell(f.recs[k], Names(f, k), tables', current, writes')
  <2>1. Len(f.recs) \in Nat /\ f.synced \in Nat
    BY <1>2, FileIs
  <2>2. k \in 1..Len(f.recs)
    BY <1>3, <2>1
  <2>3. f.recs[k].seq \in Nat
    BY <1>2, <2>2, EditIs
  <2>4. EndsWell(f.recs[k], Names(f, k), tables, current, writes)
    BY <1>1, <1>3 DEF ManifestInv
  <2> QED
    BY <1>3, <2>3, <2>4 DEF EndsWell
<1>4. ManifestInv(f, tables', current, writes')
  BY <1>1, <1>3 DEF ManifestInv
<1> QED
  BY <1>1, <1>4 DEF CurrentInv

(* The tables that the MANIFEST of an open database names, with the edit     *)
(* that is on its way.                                                       *)
LEMMA NamedInRun ==
  ASSUME DiskType(logs, manifests, tables), MemoryType, CurrentInv, VersionInv,
         NEW f, f = manifests[current], NEW k \in f.synced..Len(f.recs),
         NEW t \in Names(f, k)
  PROVE  /\ t \in Nat /\ t < next_file_number /\ t \in DOMAIN tables /\ tables[t].whole
         /\ \/ t \in version
            \/ flush.pc = "logged" /\ t = flush.number
            \/ comp.pc = "logged" /\ t \in comp.outputs
<1>1. /\ f \in FileOf(EditRec) /\ current \in DOMAIN manifests /\ k \in 1..Len(f.recs)
      /\ \/ t \in version
         \/ flush.pc = "logged" /\ t = flush.number
         \/ comp.pc = "logged" /\ t \in comp.outputs
  BY VersionsAre
<1>2. /\ EndsWell(f.recs[k], Names(f, k), tables, current, writes)
      /\ f.recs[k].next <= f.recs[Len(f.recs)].next
  BY <1>1 DEF CurrentInv, VersionInv, ManifestInv
<1>3. Len(f.recs) \in 1..Len(f.recs)
  BY <1>1, FileIs
<1>4. f.recs[k].next \in Nat /\ f.recs[Len(f.recs)].next \in Nat
  BY <1>1, <1>3, EditIs
<1>5. f.recs[Len(f.recs)].next <= next_file_number
  BY DEF VersionInv, Pending
<1>6. t \in DOMAIN tables /\ t < f.recs[k].next /\ tables[t].whole
  BY <1>2 DEF EndsWell
<1>7. t \in Nat
  BY <1>6 DEF DiskType, Files
<1> QED
  BY <1>1, <1>2, <1>4, <1>5, <1>6, <1>7 DEF MemoryType

LEMMA VersionTables ==
  ASSUME DiskType(logs, manifests, tables), MemoryType, CurrentInv, VersionInv, NEW t \in version
  PROVE  t \in Nat /\ t < next_file_number /\ t \in DOMAIN tables /\ tables[t].whole
<1> DEFINE f == manifests[current]
<1>1. current \in DOMAIN manifests
  BY DEF CurrentInv, VersionInv
<1>2. f \in FileOf(EditRec)
  BY <1>1 DEF DiskType, Files
<1>3. f.synced \in f.synced..Len(f.recs) /\ t \in Names(f, f.synced)
  BY <1>2, FileIs DEF VersionInv
<1> HIDE DEF f
<1> QED
  BY <1>3, NamedInRun DEF f

(* The open database, when the MANIFEST and CURRENT stay.                    *)
LEMMA CurrentStaysInRun ==
  ASSUME DiskType(logs, manifests, tables), MemoryType, CurrentInv, VersionInv,
         UNCHANGED <<manifests, current>>, writes' \in Nat, writes <= writes',
         \A t \in version : t \in DOMAIN tables' /\ tables'[t] = tables[t],
         flush.pc = "logged" =>
           flush.number \in DOMAIN tables' /\ tables'[flush.number] = tables[flush.number],
         comp.pc = "logged" =>
           \A t \in comp.outputs : t \in DOMAIN tables' /\ tables'[t] = tables[t]
  PROVE  CurrentInv'
<1> DEFINE f == manifests[current]
<1>1. current # 0 /\ f.synced # 0 /\ writes \in Nat
  BY DEF VersionInv, MemoryType
<1>2. ASSUME NEW k \in f.synced..Len(f.recs), NEW t \in Names(f, k)
      PROVE  t \in DOMAIN tables' /\ tables'[t] = tables[t]
  <2> HIDE DEF f
  <2> QED
    BY <1>2, NamedInRun DEF f
<1>3. current \in DOMAIN manifests'
  BY <1>1 DEF CurrentInv
<1> HIDE DEF f
<1> QED
  BY <1>1, <1>2, <1>3, CurrentStays DEF f

LEMMA DataStays ==
  ASSUME DataInv,
         UNCHANGED <<log_number, logfile_number, mem, immut, wr, acked, durable, lost>>,
         logs'[log_number] = logs[log_number], logs'[logfile_number] = logs[logfile_number],
         DataOf(tables', version') = DataOf(tables, version)
  PROVE  DataInv'
<1> DEFINE V == DataOf(tables, version)
           V1 == DataOf(tables', version')
<1>1. \A x : /\ LogHas(x, logfile_number)' <=> LogHas(x, logfile_number)
             /\ LogHas(x, log_number)' <=> LogHas(x, log_number)
             /\ LogKeeps(x, logfile_number)' <=> LogKeeps(x, logfile_number)
             /\ LogKeeps(x, log_number)' <=> LogKeeps(x, log_number)
  BY DEF LogHas, LogKeeps
<1> HIDE DEF V, V1
<1>2. V1 = V /\ V = DataOf(tables, version) /\ V1 = DataOf(tables', version')
  BY DEF V, V1
<1>3. MemTablesAreLogged'
  BY <1>1 DEF DataInv, MemTablesAreLogged
<1>4. NothingIsMissing'
  BY <1>2 DEF DataInv, NothingIsMissing
<1>5. \A x : IsFirm(x)' <=> IsFirm(x)
  BY <1>1, <1>2 DEF IsFirm
<1>6. DurableIsFirm' /\ WriteIsLogged'
  BY <1>1, <1>5 DEF DataInv, DurableIsFirm, WriteIsLogged
<1> QED
  BY <1>3, <1>4, <1>6 DEF DataInv

LEMMA CurrentUnchanged ==
  ASSUME CurrentInv, current # 0, UNCHANGED <<manifests, current, tables>>,
         writes \in Nat, writes' \in Nat, writes <= writes',
         writes' # 0 => manifests[current].synced # 0,
         DiskType(logs, manifests, tables)
  PROVE  CurrentInv'
<1> DEFINE f == manifests[current]
<1>1. ASSUME NEW k \in f.synced..Len(f.recs), k # 0, NEW t \in Names(f, k)
      PROVE  t \in DOMAIN tables' /\ tables'[t] = tables[t]
  BY <1>1 DEF CurrentInv, ManifestInv, EndsWell
<1>2. current \in DOMAIN manifests'
  BY DEF CurrentInv
<1> HIDE DEF f
<1> QED
  BY <1>1, <1>2, CurrentStays DEF f

LEMMA EntriesShrink ==
  ASSUME NEW L, NEW T, NEW n \in Nat, EntriesInv(L, T, n),
         NEW L1, NEW T1, \A x \in EntryRec : OnFile(x, L1, T1) => OnFile(x, L, T)
  PROVE  EntriesInv(L1, T1, n)
BY DEF EntriesInv

-----------------------------------------------------------------------------
(* Steps that only readers and the background thread notice.                 *)
LEMMA PinsPreserve ==
  ASSUME CrInv, PinVersion \/ UnpinVersion
  PROVE  CrInv'
<1>1. /\ Running /\ pc = "up" /\ pin' \in {version, {}}
      /\ UNCHANGED <<logs, tables, manifests, current, pc, version, log_number,
                     manifest_file_number, next_file_number, last_sequence, logfile_number,
                     mem, immut, pending_outputs, rec, wr, flush, comp, acked, durable, lost,
                     writes, crashes, faults>>
  BY DEF PinVersion, UnpinVersion, Running, disk, vset, memory, background, history, counts
<1>2. /\ DiskType(logs, manifests, tables) /\ MemoryType /\ CurrentInv
      /\ EntriesInv(logs, tables, writes) /\ HistoryInv
      /\ VersionInv /\ FlushInv /\ CompInv /\ PinInv /\ LogsInv /\ SequenceInv /\ DataInv
  BY <1>1 DEF CrInv, RunInv
<1>3. DiskType(logs, manifests, tables)' /\ MemoryType' /\ EntriesInv(logs, tables, writes)'
  BY <1>1, <1>2 DEF MemoryType
<1>4. CurrentInv'
  BY <1>1, <1>2 DEF CurrentInv
<1>5. VersionInv' /\ LogsInv'
  BY <1>1, <1>2 DEF VersionInv, Logged, Pending, LogsInv
<1>6. FlushInv' /\ CompInv'
  BY <1>1, <1>2 DEF FlushInv, CompInv, IsNew
<1>7. PinInv'
  BY <1>1, <1>2, VersionTables DEF PinInv
<1>8. SequenceInv'
  BY <1>1, <1>2 DEF SequenceInv, Writing, Live
<1>9. DataInv'
  BY <1>1, <1>2, DataStays
<1>10. Running' /\ RunInv'
  BY <1>1, <1>5, <1>6, <1>7 DEF RunInv, Running
<1> QED
  BY <1>1, <1>2, <1>3, <1>4, <1>8, <1>9, <1>10, RunningNext DEF HistoryInv

LEMMA BeginCompactionPreserves ==
  ASSUME CrInv, BeginCompaction
  PROVE  CrInv'
<1>1. /\ Running /\ pc = "up" /\ immut = {} /\ flush.pc = "idle" /\ comp.pc = "idle"
      /\ UNCHANGED <<logs, tables, manifests, current, pc, version, log_number,
                     manifest_file_number, next_file_number, last_sequence, logfile_number,
                     mem, immut, pending_outputs, rec, wr, flush, pin, acked, durable, lost,
                     writes, crashes, faults>>
  BY DEF BeginCompaction, Running, disk, vset, memory, history, counts
<1>2. PICK S \in SUBSET version :
        comp' = [pc |-> "build", inputs |-> S, outputs |-> {}, open |-> 0,
                 left |-> DataOf(tables, S)]
  BY DEF BeginCompaction
<1>3. /\ DiskType(logs, manifests, tables) /\ MemoryType /\ CurrentInv
      /\ EntriesInv(logs, tables, writes) /\ HistoryInv
      /\ VersionInv /\ FlushInv /\ CompInv /\ PinInv /\ LogsInv /\ SequenceInv /\ DataInv
  BY <1>1 DEF CrInv, RunInv
<1>4. DataOf(tables, S) \in SUBSET EntryRec
  <2>1. \A t \in S : t \in DOMAIN tables
    BY <1>3, VersionTables
  <2>2. \A t \in DOMAIN tables : tables[t].data \in SUBSET EntryRec
    BY <1>3 DEF DiskType, Files, TableRec
  <2> QED
    BY <2>1, <2>2 DEF DataOf
<1>5. /\ comp' \in CompRec /\ comp'.pc = "build" /\ comp'.inputs = S /\ comp'.outputs = {}
      /\ comp'.open = 0 /\ comp'.left = DataOf(tables, S)
  <2> DEFINE D == DataOf(tables, S)
  <2>1. D \in SUBSET EntryRec /\ S \in SUBSET Nat
    BY <1>3, <1>4 DEF MemoryType
  <2>2. comp' = [pc |-> "build", inputs |-> S, outputs |-> {}, open |-> 0, left |-> D]
    BY <1>2
  <2> HIDE DEF D
  <2>3. comp' \in CompRec
    BY <2>1, <2>2 DEF CompRec
  <2>4. /\ comp'.pc = "build" /\ comp'.inputs = S /\ comp'.outputs = {}
        /\ comp'.open = 0 /\ comp'.left = D
    BY <2>2
  <2> QED
    BY <2>3, <2>4 DEF D
<1>6. DiskType(logs, manifests, tables)' /\ MemoryType' /\ EntriesInv(logs, tables, writes)'
  BY <1>1, <1>3, <1>5 DEF MemoryType
<1>7. CurrentInv'
  BY <1>1, <1>3 DEF CurrentInv
<1>8. VersionInv' /\ LogsInv'
  BY <1>1, <1>3, <1>5 DEF VersionInv, Logged, Pending, LogsInv
<1>9. FlushInv'
  BY <1>1, <1>3 DEF FlushInv
<1>10. CompInv'
  <2>1. DataOf(tables', comp'.inputs) = DataOf(tables, S)
    BY <1>1, <1>5
  <2>2. DataOf(tables', comp'.outputs \ {comp'.open}) = {}
    BY <1>5 DEF DataOf
  <2> QED
    BY <1>1, <1>5, <2>1, <2>2 DEF CompInv
<1>11. PinInv'
  BY <1>1, <1>3 DEF PinInv
<1>12. SequenceInv'
  BY <1>1, <1>3 DEF SequenceInv, Writing, Live
<1>13. DataInv'
  BY <1>1, <1>3, DataStays
<1>14. Running' /\ RunInv'
  BY <1>1, <1>8, <1>9, <1>10, <1>11 DEF RunInv, Running
<1> QED
  BY <1>1, <1>3, <1>6, <1>7, <1>12, <1>13, <1>14, RunningNext DEF HistoryInv

-----------------------------------------------------------------------------
(* Write.                                                                    *)
(* The open database's MANIFEST and tables are left alone.                   *)
LEMMA RunStays ==
  ASSUME RunInv,
         UNCHANGED <<tables, manifests, current, pc, version, log_number,
                     manifest_file_number, next_file_number, logfile_number, immut,
                     pending_outputs, flush, comp, pin>>,
         DOMAIN logs' = DOMAIN logs
  PROVE  RunInv'
<1>1. VersionInv'
  BY DEF RunInv, VersionInv, Logged, Pending
<1>2. FlushInv' /\ PinInv' /\ LogsInv'
  BY DEF RunInv, FlushInv, IsNew, PinInv, LogsInv
<1>3. CompInv'
  BY DEF RunInv, CompInv, IsNew
<1> QED
  BY <1>1, <1>2, <1>3 DEF RunInv

(* Logs keep what they have.                                                 *)
LogsGrow ==
  \A n \in DOMAIN logs :
    /\ n \in DOMAIN logs' /\ Len(logs[n].recs) <= Len(logs'[n].recs)
    /\ logs[n].synced <= logs'[n].synced
    /\ \A i \in 1..Len(logs[n].recs) : logs'[n].recs[i] = logs[n].recs[i]

LEMMA LogsStillHave ==
  ASSUME DiskType(logs, manifests, tables), DiskType(logs, manifests, tables)', LogsGrow,
         NEW n \in DOMAIN logs, NEW x
  PROVE  (LogHas(x, n) => LogHas(x, n)') /\ (LogKeeps(x, n) => LogKeeps(x, n)')
<1>1. logs[n] \in FileOf(EntryRec) /\ logs'[n] \in FileOf(EntryRec)
  BY DEF DiskType, Files, LogsGrow
<1>2. /\ Len(logs[n].recs) \in Nat /\ logs[n].synced \in Nat
      /\ Len(logs'[n].recs) \in Nat /\ logs'[n].synced \in Nat
      /\ logs[n].synced <= Len(logs[n].recs)
  BY <1>1, FileIs
<1>3. /\ Len(logs[n].recs) <= Len(logs'[n].recs) /\ logs[n].synced <= logs'[n].synced
      /\ \A i \in 1..Len(logs[n].recs) : logs'[n].recs[i] = logs[n].recs[i]
  BY DEF LogsGrow
<1>4. ASSUME NEW i \in 1..Len(logs[n].recs), x = logs[n].recs[i]
      PROVE  i \in 1..Len(logs'[n].recs) /\ x = logs'[n].recs[i]
  BY <1>2, <1>3, <1>4
<1>5. ASSUME NEW i \in 1..logs[n].synced, x = logs[n].recs[i]
      PROVE  i \in 1..logs'[n].synced /\ x = logs'[n].recs[i]
  BY <1>2, <1>3, <1>5
<1> QED
  BY <1>4, <1>5 DEF LogHas, LogKeeps

(* ... and so do the memtables, while records go to the logs.                *)
LEMMA DataGrows ==
  ASSUME DataInv, LogsInv,
         UNCHANGED <<log_number, logfile_number, mem, immut, acked, durable, lost, tables,
                     version>>,
         \A x : \A n \in DOMAIN logs :
           (LogHas(x, n) => LogHas(x, n)') /\ (LogKeeps(x, n) => LogKeeps(x, n)'),
         WriteIsLogged'
  PROVE  DataInv'
<1>1. log_number \in DOMAIN logs /\ logfile_number \in DOMAIN logs
  BY DEF LogsInv
<1>2. MemTablesAreLogged'
  BY <1>1 DEF DataInv, MemTablesAreLogged
<1>3. NothingIsMissing'
  BY DEF DataInv, NothingIsMissing
<1>4. ASSUME NEW x, IsFirm(x)
      PROVE  IsFirm(x)'
  <2>1. CASE x \in DataOf(tables, version)
    BY <2>1 DEF IsFirm
  <2>2. CASE x \in mem /\ LogKeeps(x, logfile_number)
    BY <1>1, <2>2 DEF IsFirm
  <2>3. CASE x \in immut /\ LogKeeps(x, log_number)
    BY <1>1, <2>3 DEF IsFirm
  <2> QED
    BY <1>4, <2>1, <2>2, <2>3 DEF IsFirm
<1>5. DurableIsFirm'
  BY <1>4 DEF DataInv, DurableIsFirm
<1> QED
  BY <1>2, <1>3, <1>5 DEF DataInv

LEMMA AddRecordPreserves ==
  ASSUME CrInv, SafeFaults, NEW sync \in BOOLEAN, AddRecord(sync)
  PROVE  CrInv'
<1> PICK e : e = [seq |-> last_sequence + 1, id |-> writes + 1]
  OBVIOUS
<1>1. /\ Running /\ pc = "up" /\ wr.pc = "idle" /\ writes' = writes + 1
      /\ UNCHANGED <<tables, manifests, current, pc, version, log_number,
                     manifest_file_number, next_file_number, last_sequence, logfile_number,
                     mem, immut, pending_outputs, rec, flush, comp, pin, acked, durable, lost>>
  BY DEF AddRecord, Running, vset, memory, background, history
<1>2. /\ DiskType(logs, manifests, tables) /\ MemoryType /\ CurrentInv
      /\ EntriesInv(logs, tables, writes) /\ HistoryInv /\ RunInv
      /\ VersionInv /\ LogsInv /\ SequenceInv /\ DataInv
  BY <1>1 DEF CrInv, RunInv
<1>3. /\ logs' = [logs EXCEPT ![logfile_number] = AppendTo(@, e)]
      /\ wr' = [pc |-> IF sync THEN "sync" ELSE "insert",
                id |-> e.id, seq |-> e.seq, sync |-> sync]
  BY DEF AddRecord, Fault, SafeFaults
<1>4. /\ wr'.id = writes + 1 /\ wr'.seq = last_sequence + 1 /\ wr'.sync = sync
      /\ wr'.pc = (IF sync THEN "sync" ELSE "insert") /\ wr' \in WriteRec
      /\ e \in EntryRec /\ e = [seq |-> wr'.seq, id |-> wr'.id]
      /\ e.id = writes + 1 /\ e.seq = last_sequence + 1
      /\ writes \in Nat /\ last_sequence \in Nat /\ last_sequence <= writes
  BY <1>2, <1>3 DEF MemoryType, WriteRec, EntryRec, SequenceInv
<1> DEFINE g == logs[logfile_number]
<1>5. g \in FileOf(EntryRec) /\ logfile_number \in DOMAIN logs /\ Len(g.recs) \in Nat
  BY <1>2, FileIs DEF LogsInv, DiskType, Files
<1>6. /\ DOMAIN logs' = DOMAIN logs /\ logs' \in [DOMAIN logs -> FileOf(EntryRec)]
      /\ \A n \in DOMAIN logs : n # logfile_number => logs'[n] = logs[n]
      /\ logs'[logfile_number] = AppendTo(g, e)
  <2>1. AppendTo(g, e) \in FileOf(EntryRec)
    BY <1>4, <1>5, AppendIs
  <2> QED
    BY <1>2, <1>3, <1>5, <2>1 DEF DiskType, Files
<1>7. /\ Len(logs'[logfile_number].recs) = Len(g.recs) + 1
      /\ logs'[logfile_number].synced = g.synced
      /\ \A i \in 1..Len(g.recs) : logs'[logfile_number].recs[i] = g.recs[i]
      /\ logs'[logfile_number].recs[Len(g.recs) + 1] = e
      /\ g.synced \in Nat
  BY <1>4, <1>5, <1>6, AppendIs
<1>8. DiskType(logs, manifests, tables)'
  BY <1>1, <1>2, <1>6 DEF DiskType, Files
<1>9. MemoryType'
  BY <1>1, <1>2, <1>4 DEF MemoryType
<1>10. CurrentInv'
  <2>1. current # 0 /\ manifests[current].synced # 0
    BY <1>2 DEF VersionInv
  <2>2. writes' \in Nat /\ writes <= writes'
    BY <1>1, <1>4
  <2> QED
    BY <1>1, <1>2, <1>4, <2>1, <2>2, CurrentUnchanged
<1>11. ASSUME NEW n \in DOMAIN logs, NEW i \in 1..Len(logs'[n].recs)
       PROVE  \/ i \in 1..Len(logs[n].recs) /\ logs'[n].recs[i] = logs[n].recs[i]
              \/ logs'[n].recs[i] = e
  <2>1. CASE n = logfile_number
    <3>1. i \in 1..Len(g.recs) \/ i = Len(g.recs) + 1
      BY <1>5, <1>7, <2>1
    <3> QED
      BY <1>7, <2>1, <3>1
  <2>2. CASE n # logfile_number
    BY <1>6, <2>2
  <2> QED
    BY <2>1, <2>2
<1>12. EntriesInv(logs, tables, writes)'
  <2>1. \A x : OnFile(x, logs', tables') => OnFile(x, logs, tables) \/ x = e
    BY <1>1, <1>6, <1>11 DEF OnFile, InTable, InLog
  <2>2. \A x \in EntryRec : OnFile(x, logs, tables) =>
          x.id <= writes /\ x.seq <= x.id /\ x.seq <= last_sequence
    BY <1>1, <1>2 DEF EntriesInv, SequenceInv, OnFile, InTable, InLog, Writing
  <2>3. \A x \in EntryRec : x.id \in Nat /\ x.seq \in Nat
    BY DEF EntryRec
  <2>4. \A x \in EntryRec : OnFile(x, logs', tables') => x.id <= writes + 1 /\ x.seq <= x.id
    BY <1>4, <2>1, <2>2, <2>3
  <2>5. ASSUME NEW x \in EntryRec, NEW y \in EntryRec,
               OnFile(x, logs', tables'), OnFile(y, logs', tables'), x.id < y.id
        PROVE  x.seq < y.seq
    <3>1. CASE OnFile(x, logs, tables) /\ OnFile(y, logs, tables)
      BY <1>2, <2>5, <3>1 DEF EntriesInv
    <3>2. CASE OnFile(x, logs, tables) /\ y = e
      BY <1>4, <2>2, <2>3, <3>2
    <3>3. CASE x = e
      BY <1>4, <2>1, <2>2, <2>3, <2>5, <3>3
    <3> QED
      BY <2>1, <2>5, <3>1, <3>2, <3>3
  <2> QED
    BY <1>1, <2>4, <2>5 DEF EntriesInv
<1>13. RunInv'
  BY <1>1, <1>2, <1>6, RunStays
<1>14. SequenceInv'
  <2>1. \A x : Writing(x)' <=> x = e
    BY <1>4 DEF Writing
  <2>2. \A n \in DOMAIN logs : \A i \in 1..Len(logs[n].recs) :
          logs[n].recs[i].seq <= last_sequence
    BY <1>1, <1>2 DEF SequenceInv, Writing
  <2>3. (\A n \in DOMAIN logs : \A i \in 1..Len(logs[n].recs) :
           logs[n].recs[i].seq <= last_sequence \/ Writing(logs[n].recs[i]))'
    BY <1>1, <1>6, <1>11, <2>1, <2>2
  <2>4. (\A n \in DOMAIN tables : \A x \in tables[n].data : x.seq <= last_sequence)'
    BY <1>1, <1>2 DEF SequenceInv
  <2>5. /\ last_sequence' <= writes'
        /\ wr'.seq = last_sequence' + 1 /\ wr'.id <= writes' /\ wr'.seq <= wr'.id
        /\ wr'.id \notin lost'
    <3>1. \A i \in lost : i <= writes
      BY <1>2 DEF HistoryInv
    <3>2. writes + 1 \notin lost
      BY <1>4, <3>1
    <3> QED
      BY <1>1, <1>4, <3>2
  <2> QED
    BY <1>1, <1>2, <2>3, <2>4, <2>5 DEF SequenceInv
<1>15. DataInv'
  <2>1. LogsGrow
    <3>1. ASSUME NEW n \in DOMAIN logs
          PROVE  Len(logs[n].recs) \in Nat /\ logs[n].synced \in Nat
      BY <1>2, FileIs DEF DiskType, Files
    <3> QED
      BY <1>5, <1>6, <1>7, <3>1 DEF LogsGrow
  <2>2. \A x : \A n \in DOMAIN logs :
          (LogHas(x, n) => LogHas(x, n)') /\ (LogKeeps(x, n) => LogKeeps(x, n)')
    BY <1>2, <1>8, <2>1, LogsStillHave
  <2>3. LogHas(e, logfile_number)'
    <3>1. Len(g.recs) + 1 \in 1..Len(logs'[logfile_number].recs)
      BY <1>5, <1>7
    <3> QED
      BY <1>1, <1>7, <3>1 DEF LogHas
  <2>4. WriteIsLogged'
    BY <1>4, <2>3 DEF WriteIsLogged
  <2> QED
    BY <1>1, <1>2, <2>2, <2>4, DataGrows
<1> QED
  BY <1>1, <1>2, <1>4, <1>8, <1>9, <1>10, <1>12, <1>13, <1>14, <1>15, RunningNext
     DEF HistoryInv, Running, MemoryType

LEMMA SyncLogPreserves ==
  ASSUME CrInv, SafeFaults, SyncLog
  PROVE  CrInv'
<1>1. /\ Running /\ wr.pc = "sync"
      /\ UNCHANGED <<tables, manifests, current, pc, version, log_number,
                     manifest_file_number, next_file_number, last_sequence, logfile_number,
                     mem, immut, pending_outputs, rec, flush, comp, pin, acked, durable, lost,
                     writes>>
  <2>1. wr.pc = "sync"
    BY DEF SyncLog
  <2>2. Running
    BY <2>1 DEF CrInv, ClosedInv, NoWrite
  <2> QED
    BY <2>1, <2>2, Zenon DEF SyncLog, vset, memory, background, history
<1>2. /\ DiskType(logs, manifests, tables) /\ MemoryType /\ CurrentInv
      /\ EntriesInv(logs, tables, writes) /\ HistoryInv /\ RunInv
      /\ VersionInv /\ LogsInv /\ SequenceInv /\ DataInv
  BY <1>1 DEF CrInv, RunInv
<1>3. /\ wr'.pc \in {"insert", "failed"} /\ wr'.seq = wr.seq /\ wr'.id = wr.id
      /\ wr'.sync = wr.sync /\ wr' \in WriteRec
      /\ wr'.pc = "insert" => logs' = [logs EXCEPT ![logfile_number] = Sync(@)]
      /\ wr'.pc = "failed" => logs' = logs
  BY <1>2 DEF SyncLog, MemoryType, WriteRec
<1> DEFINE g == logs[logfile_number]
<1>4. g \in FileOf(EntryRec) /\ logfile_number \in DOMAIN logs
  BY <1>2 DEF LogsInv, DiskType, Files
<1>5. /\ DOMAIN logs' = DOMAIN logs /\ logs' \in [DOMAIN logs -> FileOf(EntryRec)]
      /\ \A n \in DOMAIN logs : n # logfile_number => logs'[n] = logs[n]
      /\ wr'.pc = "insert" => logs'[logfile_number] = Sync(g)
      /\ wr'.pc = "failed" => logs'[logfile_number] = g
  <2>1. Sync(g) \in FileOf(EntryRec)
    BY <1>4, SyncIs
  <2> QED
    BY <1>2, <1>3, <1>4, <2>1 DEF DiskType, Files
<1>6. /\ logs'[logfile_number].recs = g.recs
      /\ g.synced <= logs'[logfile_number].synced
      /\ wr'.pc = "insert" => logs'[logfile_number].synced = Len(g.recs)
  <2> HIDE DEF g
  <2>1. /\ Sync(g).recs = g.recs /\ Sync(g).synced = Len(g.recs)
        /\ g.synced <= Len(g.recs) /\ g.synced \in Nat
    BY <1>4, SyncIs
  <2> QED
    BY <1>3, <1>5, <2>1
<1>7. \A n \in DOMAIN logs : logs'[n].recs = logs[n].recs
  BY <1>5, <1>6
<1>8. DiskType(logs, manifests, tables)'
  BY <1>1, <1>2, <1>5 DEF DiskType, Files
<1>9. MemoryType'
  BY <1>1, <1>2, <1>3 DEF MemoryType
<1>10. CurrentInv' /\ RunInv'
  BY <1>1, <1>2, <1>5, RunStays DEF CurrentInv
<1>11. EntriesInv(logs, tables, writes)'
  BY <1>1, <1>2, <1>5, <1>7 DEF EntriesInv, OnFile, InTable, InLog
<1>12. SequenceInv'
  <2>1. \A x : Writing(x)' <=> Writing(x)
    BY <1>1, <1>3 DEF Writing
  <2>2. (\A n \in DOMAIN logs : pc = "up" \/ n >= log_number =>
           \A i \in 1..Len(logs[n].recs) :
             logs[n].recs[i].seq <= last_sequence \/ Writing(logs[n].recs[i]))'
    BY <1>1, <1>2, <1>5, <1>7, <2>1 DEF SequenceInv
  <2>3. (\A n \in DOMAIN tables : pc = "up" \/ n \in Live =>
           \A x \in tables[n].data : x.seq <= last_sequence)'
    BY <1>1, <1>2 DEF SequenceInv, Live
  <2> QED
    BY <1>1, <1>2, <1>3, <2>2, <2>3 DEF SequenceInv
<1>13. DataInv'
  <2>1. LogsGrow
    <3>1. ASSUME NEW n \in DOMAIN logs
          PROVE  Len(logs[n].recs) \in Nat /\ logs[n].synced \in Nat
      BY <1>2, FileIs DEF DiskType, Files
    <3> QED
      BY <1>5, <1>6, <1>7, <3>1 DEF LogsGrow
  <2>2. \A x : \A n \in DOMAIN logs :
          (LogHas(x, n) => LogHas(x, n)') /\ (LogKeeps(x, n) => LogKeeps(x, n)')
    BY <1>2, <1>8, <2>1, LogsStillHave
  <2>3. WriteIsLogged'
    <3>1. LogHas([seq |-> wr.seq, id |-> wr.id], logfile_number)
      BY <1>1, <1>2 DEF DataInv, WriteIsLogged
    <3>2. PICK w : w = [seq |-> wr.seq, id |-> wr.id]
      OBVIOUS
    <3>3. PICK i \in 1..Len(g.recs) : w = g.recs[i]
      BY <3>1, <3>2 DEF LogHas
    <3>4. wr'.pc = "insert" => LogHas(w, logfile_number)' /\ LogKeeps(w, logfile_number)'
      BY <1>1, <1>6, <3>3 DEF LogHas, LogKeeps
    <3> QED
      BY <1>3, <3>2, <3>4 DEF WriteIsLogged
  <2> QED
    BY <1>1, <1>2, <2>2, <2>3, DataGrows
<1> QED
  BY <1>1, <1>2, <1>8, <1>9, <1>10, <1>11, <1>12, <1>13, RunningNext DEF HistoryInv, Running

LEMMA EndWritePreserves ==
  ASSUME CrInv, EndWrite
  PROVE  CrInv'
<1> PICK e : e = [seq |-> wr.seq, id |-> wr.id]
  OBVIOUS
<1>1. /\ Running /\ pc = "up" /\ wr.pc \in {"insert", "failed"}
      /\ last_sequence' = wr.seq /\ wr' = NoWrite
      /\ UNCHANGED <<logs, tables, manifests, current, pc, version, log_number,
                     manifest_file_number, next_file_number, logfile_number, immut,
                     pending_outputs, rec, flush, comp, pin, lost, writes>>
  BY DEF EndWrite, Running, disk, vset, background, counts
<1>2. /\ wr.pc = "insert" => /\ mem' = mem \cup {e} /\ acked' = acked \cup {wr.id}
                             /\ durable' = IF wr.sync THEN durable \cup {wr.id} ELSE durable
      /\ wr.pc = "failed" => mem' = mem /\ acked' = acked /\ durable' = durable
  BY DEF EndWrite
<1>3. /\ DiskType(logs, manifests, tables) /\ MemoryType /\ CurrentInv
      /\ EntriesInv(logs, tables, writes) /\ HistoryInv /\ RunInv
      /\ VersionInv /\ LogsInv /\ SequenceInv /\ DataInv
  BY <1>1 DEF CrInv, RunInv
<1>4. /\ wr.seq \in Nat /\ wr.id \in Nat /\ wr.seq = last_sequence + 1 /\ wr.seq <= wr.id
      /\ wr.id <= writes /\ wr.id \notin lost /\ last_sequence \in Nat /\ writes \in Nat
      /\ e.seq = wr.seq /\ e.id = wr.id /\ e \in EntryRec
  BY <1>1, <1>3 DEF SequenceInv, MemoryType, WriteRec, EntryRec
<1>5. DiskType(logs, manifests, tables)' /\ EntriesInv(logs, tables, writes)'
  BY <1>1, <1>3
<1>6. MemoryType'
  <2>1. NoWrite \in WriteRec
    BY DEF NoWrite, WriteRec
  <2>2. mem' \in SUBSET EntryRec /\ acked' \in SUBSET Nat /\ durable' \in SUBSET Nat
    BY <1>1, <1>2, <1>3, <1>4 DEF MemoryType
  <2> QED
    BY <1>1, <1>3, <1>4, <2>1, <2>2 DEF MemoryType
<1>7. CurrentInv' /\ RunInv'
  BY <1>1, <1>3, RunStays DEF CurrentInv
<1>8. SequenceInv'
  <2>1. wr'.pc = "idle"
    BY <1>1 DEF NoWrite
  <2>2. \A x \in EntryRec : x.seq \in Nat
    BY DEF EntryRec
  <2>3. \A x \in mem' \cup immut' : x.seq <= wr.seq
    BY <1>1, <1>2, <1>3, <1>4, <2>2 DEF SequenceInv, MemoryType
  <2>4. \A n \in DOMAIN tables : \A x \in tables[n].data : x.seq <= wr.seq
    <3>1. \A n \in DOMAIN tables : tables[n].data \in SUBSET EntryRec
      BY <1>3 DEF DiskType, Files, TableRec
    <3>2. \A n \in DOMAIN tables : \A x \in tables[n].data : x.seq <= last_sequence
      BY <1>1, <1>3 DEF SequenceInv
    <3> QED
      BY <1>4, <2>2, <3>1, <3>2
  <2>5. \A n \in DOMAIN logs : \A i \in 1..Len(logs[n].recs) : logs[n].recs[i].seq <= wr.seq
    <3>1. ASSUME NEW n \in DOMAIN logs, NEW i \in 1..Len(logs[n].recs)
          PROVE  logs[n].recs[i].seq \in Nat
      BY <1>3, <2>2, FileIs DEF DiskType, Files
    <3>2. \A n \in DOMAIN logs : \A i \in 1..Len(logs[n].recs) :
            logs[n].recs[i].seq <= last_sequence \/ logs[n].recs[i].seq = wr.seq
      BY <1>1, <1>3, <1>4 DEF SequenceInv, Writing
    <3> QED
      BY <1>4, <3>1, <3>2
  <2> QED
    BY <1>1, <1>4, <2>1, <2>3, <2>4, <2>5 DEF SequenceInv
<1>9. DataInv'
  <2> DEFINE V == DataOf(tables, version)
  <2>1. \A x, n : (LogHas(x, n)' <=> LogHas(x, n)) /\ (LogKeeps(x, n)' <=> LogKeeps(x, n))
    BY <1>1 DEF LogHas, LogKeeps
  <2>2. /\ wr.pc = "insert" => LogHas(e, logfile_number)
        /\ wr.pc = "insert" /\ wr.sync => LogKeeps(e, logfile_number)
    BY <1>3 DEF DataInv, WriteIsLogged
  <2>3. MemTablesAreLogged'
    BY <1>1, <1>2, <1>3, <2>1, <2>2 DEF DataInv, MemTablesAreLogged
  <2>4. DataOf(tables', version') = V
    BY <1>1
  <2> HIDE DEF V
  <2>5. NothingIsMissing'
    BY <1>1, <1>2, <1>3, <1>4, <2>4 DEF DataInv, NothingIsMissing, Ids, V
  <2>6. ASSUME NEW x, IsFirm(x)
        PROVE  IsFirm(x)'
    BY <1>1, <1>2, <2>1, <2>4, <2>6 DEF IsFirm, V
  <2>7. wr.pc = "insert" /\ wr.sync => IsFirm(e)'
    BY <1>1, <1>2, <2>1, <2>2 DEF IsFirm
  <2>8. DurableIsFirm'
    BY <1>1, <1>2, <1>3, <1>4, <2>6, <2>7 DEF DataInv, DurableIsFirm
  <2>9. WriteIsLogged'
    BY <1>1 DEF WriteIsLogged, NoWrite
  <2> QED
    BY <2>3, <2>5, <2>8, <2>9 DEF DataInv
<1>10. /\ durable' \subseteq acked' /\ lost' \subseteq acked' /\ durable' \cap lost' = {}
       /\ \A i \in acked' : i # 0 /\ i <= writes'
  BY <1>1, <1>2, <1>3, <1>4 DEF HistoryInv
<1> QED
  BY <1>1, <1>5, <1>6, <1>7, <1>8, <1>9, <1>10, RunningNext DEF Running

LEMMA SwitchMemTablePreserves ==
  ASSUME CrInv, SwitchMemTable
  PROVE  CrInv'
<1> PICK n : n = next_file_number
  OBVIOUS
<1>1. /\ Running /\ pc = "up" /\ wr.pc = "idle" /\ immut = {} /\ immut' = mem /\ mem' = {}
      /\ mem # {} /\ next_file_number' = n + 1 /\ logfile_number' = n
      /\ logs' = Put(logs, n, EmptyLog)
      /\ UNCHANGED <<tables, manifests, current, pc, version, log_number,
                     manifest_file_number, last_sequence, pending_outputs, rec, wr, flush,
                     comp, pin, acked, durable, lost, writes>>
  BY Zenon DEF SwitchMemTable, NewFileNumber, Running, background, history, counts
<1>2. /\ DiskType(logs, manifests, tables) /\ MemoryType /\ CurrentInv
      /\ EntriesInv(logs, tables, writes) /\ HistoryInv
      /\ VersionInv /\ FlushInv /\ CompInv /\ PinInv /\ LogsInv /\ SequenceInv /\ DataInv
  BY <1>1 DEF CrInv, RunInv
<1>3. n \in Nat /\ logfile_number \in Nat /\ log_number \in Nat /\ writes \in Nat
  BY <1>2 DEF MemoryType
<1>4. EmptyLog \in FileOf(EntryRec) /\ Len(EmptyLog.recs) = 0
  BY DEF EmptyLog, FileOf
<1>5. /\ Files(logs', FileOf(EntryRec)) /\ DOMAIN logs' = DOMAIN logs \cup {n}
      /\ logs'[n] = EmptyLog /\ \A m \in DOMAIN logs : m # n => logs'[m] = logs[m]
  <2>1. n \in Nat /\ EmptyLog \in FileOf(EntryRec) /\ Files(logs, FileOf(EntryRec))
    BY <1>2, <1>3, <1>4 DEF DiskType
  <2>2. logs' = Put(logs, n, EmptyLog)
    BY <1>1
  <2>3. Files(logs', FileOf(EntryRec)) /\ IsPut(logs', logs, n, EmptyLog)
    BY <2>1, <2>2, PutIs, Zenon
  <2> QED
    BY <2>3 DEF IsPut
<1>6. \A m \in DOMAIN logs : m \in Nat /\ m # n /\ m <= logfile_number
  BY <1>2, <1>3 DEF LogsInv, DiskType, Files
<1>7. log_number = logfile_number /\ logfile_number \in DOMAIN logs /\ logfile_number < n
  BY <1>1, <1>2 DEF LogsInv
<1>8. flush.pc = "idle"
  BY <1>1, <1>2 DEF FlushInv, MemoryType, FlushRec
<1>9. DiskType(logs, manifests, tables)' /\ MemoryType'
  BY <1>1, <1>2, <1>3, <1>5 DEF DiskType, MemoryType
<1>10. CurrentInv'
  BY <1>1, <1>2 DEF CurrentInv
<1>11. EntriesInv(logs, tables, writes)'
  <2>1. \A x : OnFile(x, logs', tables') => OnFile(x, logs, tables)
    BY <1>1, <1>4, <1>5, <1>6 DEF OnFile, InTable, InLog
  <2> QED
    BY <1>1, <1>2, <1>3, <2>1, EntriesShrink
<1>12. VersionInv'
  <2>1. Logged' = Logged /\ Pending' = Pending
    BY <1>1 DEF Logged, Pending
  <2>2. Pending.next <= n => Pending.next <= n + 1
    <3>1. Pending.next \in Nat
      <4> DEFINE f == manifests[current]
      <4>1. f \in FileOf(EditRec) /\ f.synced # 0
        BY <1>2 DEF CurrentInv, VersionInv, DiskType, Files
      <4> HIDE DEF f
      <4>2. Len(f.recs) \in 1..Len(f.recs)
        BY <4>1, FileIs
      <4> QED
        BY <4>1, <4>2, EditIs DEF Pending, f
    <3> QED
      BY <1>3, <3>1
  <2> QED
    BY <1>1, <1>2, <1>8, <2>1, <2>2 DEF VersionInv
<1>13. FlushInv'
  BY <1>1, <1>8 DEF FlushInv
<1>14. CompInv'
  <2>1. \A m : IsNew(m) => IsNew(m)'
    <3>1. \A m \in DOMAIN tables : m \in Nat
      BY <1>2 DEF DiskType, Files
    <3> QED
      BY <1>1, <1>3, <3>1 DEF IsNew
  <2> QED
    BY <1>1, <1>2, <2>1 DEF CompInv
<1>15. PinInv'
  <2>1. \A m \in DOMAIN tables : m \in Nat
    BY <1>2 DEF DiskType, Files
  <2> QED
    BY <1>1, <1>2, <1>3, <2>1 DEF PinInv
<1>16. LogsInv'
  BY <1>1, <1>3, <1>5, <1>6, <1>7 DEF LogsInv
<1>17. SequenceInv'
  <2>1. (\A m \in DOMAIN logs : \A i \in 1..Len(logs[m].recs) :
           logs[m].recs[i].seq <= last_sequence)'
    BY <1>1, <1>2, <1>4, <1>5, <1>6 DEF SequenceInv, Writing
  <2> QED
    BY <1>1, <1>2, <2>1 DEF SequenceInv, Live
<1>18. DataInv'
  <2> DEFINE V == DataOf(tables, version)
  <2>1. logs'[log_number] = logs[log_number]
    BY <1>5, <1>6, <1>7
  <2>2. \A x : (LogHas(x, log_number)' <=> LogHas(x, log_number))
               /\ (LogKeeps(x, log_number)' <=> LogKeeps(x, log_number))
    BY <1>1, <2>1 DEF LogHas, LogKeeps
  <2>3. MemTablesAreLogged'
    BY <1>1, <1>2, <1>7, <2>2 DEF DataInv, MemTablesAreLogged
  <2>4. DataOf(tables', version') = V
    BY <1>1
  <2> HIDE DEF V
  <2>5. NothingIsMissing'
    BY <1>1, <1>2, <2>4 DEF DataInv, NothingIsMissing, Ids, V
  <2>6. \A x : IsFirm(x) => IsFirm(x)'
    BY <1>1, <1>7, <2>2, <2>4 DEF IsFirm, V
  <2>7. DurableIsFirm' /\ WriteIsLogged'
    BY <1>1, <1>2, <2>6 DEF DataInv, DurableIsFirm, WriteIsLogged
  <2> QED
    BY <2>3, <2>5, <2>7 DEF DataInv
<1>19. Running' /\ RunInv'
  BY <1>1, <1>12, <1>13, <1>14, <1>15, <1>16 DEF RunInv, Running
<1> QED
  BY <1>1, <1>2, <1>9, <1>10, <1>11, <1>17, <1>18, <1>19, RunningNext DEF HistoryInv

-----------------------------------------------------------------------------
(* The background thread.  It works on files that nothing names yet, and a   *)
(* step that installs nothing is safe if it leaves the others alone.         *)
LEMMA BackgroundNext ==
  ASSUME CrInv, pc = "up", pc' \in {"up", "cleanup"},
         UNCHANGED <<logs, current, version, log_number, manifest_file_number, last_sequence,
                     logfile_number, mem, immut, rec, wr, pin, acked, durable, lost, writes>>,
         next_file_number' \in Nat, next_file_number <= next_file_number',
         Files(manifests', FileOf(EditRec)), Files(tables', TableRec),
         pending_outputs' \in SUBSET Nat, flush' \in FlushRec, comp' \in CompRec,
         \A t \in version \cup pin : t \in DOMAIN tables' /\ tables'[t] = tables[t],
         \A t \in DOMAIN tables' : \A x \in tables'[t].data :
           x.seq <= last_sequence /\ OnFile(x, logs, tables),
         CurrentInv', VersionInv', FlushInv', CompInv'
  PROVE  CrInv'
<1>1. /\ DiskType(logs, manifests, tables) /\ MemoryType /\ CurrentInv
      /\ EntriesInv(logs, tables, writes) /\ HistoryInv
      /\ VersionInv /\ PinInv /\ LogsInv /\ SequenceInv /\ DataInv
  BY DEF CrInv, RunInv, Running
<1>2. DiskType(logs, manifests, tables)'
  BY <1>1 DEF DiskType
<1>3. MemoryType'
  BY <1>1 DEF MemoryType, PcStates
<1>4. EntriesInv(logs, tables, writes)'
  <2>1. \A x : OnFile(x, logs', tables') => OnFile(x, logs, tables)
    BY DEF OnFile, InTable
  <2>2. writes \in Nat /\ writes' = writes
    BY <1>1 DEF MemoryType
  <2> QED
    BY <1>1, <2>1, <2>2, EntriesShrink
<1>5. PinInv' /\ LogsInv'
  <2>1. pin \in SUBSET Nat /\ next_file_number \in Nat /\ logfile_number \in Nat
    BY <1>1 DEF MemoryType
  <2>2. PinInv'
    BY <1>1, <2>1 DEF PinInv
  <2>3. LogsInv'
    BY <1>1, <2>1 DEF LogsInv
  <2> QED
    BY <2>2, <2>3
<1>6. SequenceInv'
  BY <1>1 DEF SequenceInv, Writing
<1>7. DataInv'
  <2>1. DataOf(tables', version') = DataOf(tables, version)
    BY DEF DataOf
  <2> QED
    BY <1>1, <2>1, DataStays
<1>8. Running' /\ RunInv'
  BY <1>5 DEF RunInv, Running
<1> QED
  BY <1>1, <1>2, <1>3, <1>4, <1>6, <1>7, <1>8, RunningNext DEF HistoryInv

LEMMA OldEntries ==
  ASSUME SequenceInv, pc = "up", NEW t \in DOMAIN tables, NEW x \in tables[t].data
  PROVE  x.seq <= last_sequence /\ OnFile(x, logs, tables)
BY DEF SequenceInv, OnFile, InTable

(* The numbers in use are old.                                               *)
LEMMA UsedNumbers ==
  ASSUME DiskType(logs, manifests, tables), MemoryType, CurrentInv, RunInv
  PROVE  /\ next_file_number \in Nat \ {0}
         /\ \A t \in version \cup pin \cup comp.outputs :
              t \in Nat /\ t \in DOMAIN tables /\ t < next_file_number /\ t # next_file_number
<1>1. VersionInv /\ CompInv /\ PinInv /\ LogsInv
  BY DEF RunInv
<1>2. next_file_number \in Nat /\ logfile_number \in Nat /\ logfile_number < next_file_number
  BY <1>1 DEF MemoryType, LogsInv
<1>3. \A t \in DOMAIN tables : t \in Nat
  BY DEF DiskType, Files
<1>4. \A t \in version \cup pin \cup comp.outputs : t \in DOMAIN tables /\ t < next_file_number
  BY <1>1, VersionTables DEF PinInv, CompInv, IsNew
<1> QED
  BY <1>2, <1>3, <1>4

LEMMA VersionStays ==
  ASSUME DiskType(logs, manifests, tables), MemoryType, CurrentInv, VersionInv,
         UNCHANGED <<manifests, current, version, log_number, manifest_file_number>>,
         ~(flush.pc = "logged" \/ comp.pc = "logged"),
         ~(flush.pc = "logged" \/ comp.pc = "logged")',
         next_file_number' \in Nat, next_file_number <= next_file_number'
  PROVE  VersionInv'
<1>1. Logged' = Logged /\ Pending' = Pending
  BY DEF Logged, Pending
<1>2. Pending.next \in Nat /\ Pending.next <= next_file_number /\ next_file_number \in Nat
  <2> DEFINE f == manifests[current]
  <2>1. f \in FileOf(EditRec) /\ f.synced # 0
    BY DEF CurrentInv, VersionInv, DiskType, Files
  <2> HIDE DEF f
  <2>2. Len(f.recs) \in 1..Len(f.recs)
    BY <2>1, FileIs
  <2> QED
    BY <2>1, <2>2, EditIs DEF Pending, f, VersionInv, MemoryType
<1>3. Pending'.next <= next_file_number'
  BY <1>1, <1>2
<1> QED
  BY <1>1, <1>3 DEF VersionInv

(* A compaction goes on while the flush works.                               *)
LEMMA CompStays ==
  ASSUME CompInv, UNCHANGED <<comp, pin>>, version \subseteq version',
         DiskType(logs, manifests, tables), MemoryType,
         next_file_number' \in Nat, next_file_number <= next_file_number',
         comp.outputs \subseteq pending_outputs', \A t \in comp.outputs : t \notin version',
         \A t \in version \cup comp.outputs : t \in DOMAIN tables' /\ tables'[t] = tables[t]
  PROVE  CompInv'
<1>1. comp.inputs \subseteq version /\ next_file_number \in Nat
  BY DEF CompInv, MemoryType
<1>2. \A t \in DOMAIN tables : t \in Nat
  BY DEF DiskType, Files
<1>3. \A t \in comp.outputs : IsNew(t)' /\ (t # comp.open => tables'[t].whole)
  BY <1>1, <1>2 DEF CompInv, IsNew
<1>4. /\ DataOf(tables', comp'.inputs) = DataOf(tables, comp.inputs)
      /\ DataOf(tables', comp'.outputs \ {comp'.open})
           = DataOf(tables, comp.outputs \ {comp.open})
  BY <1>1 DEF DataOf
<1> QED
  BY <1>1, <1>3, <1>4 DEF CompInv

LEMMA BeginFlushPreserves ==
  ASSUME CrInv, BeginFlush
  PROVE  CrInv'
<1> PICK n : n = next_file_number
  OBVIOUS
<1>1. /\ Running /\ pc = "up" /\ immut # {} /\ flush.pc = "idle"
      /\ comp.pc \in {"idle", "build"}
      /\ next_file_number' = n + 1 /\ flush' = [pc |-> "build", number |-> n]
      /\ tables' = Put(tables, n, PartialTable)
      /\ pending_outputs' = pending_outputs \cup {n}
      /\ UNCHANGED <<logs, manifests, current, pc, version, log_number,
                     manifest_file_number, last_sequence, logfile_number, mem, immut, rec, wr,
                     comp, pin, acked, durable, lost, writes>>
  BY Zenon DEF BeginFlush, NewFileNumber, Running, memory, history, counts
<1>2. /\ DiskType(logs, manifests, tables) /\ MemoryType /\ CurrentInv /\ RunInv
      /\ VersionInv /\ FlushInv /\ CompInv /\ SequenceInv
  BY <1>1 DEF CrInv, RunInv
<1>3. /\ n \in Nat /\ n # 0
      /\ \A t \in version \cup pin \cup comp.outputs : t \in DOMAIN tables /\ t # n
  BY <1>2, UsedNumbers
<1>4. Files(tables', TableRec) /\ IsPut(tables', tables, n, PartialTable)
  <2>1. PartialTable \in TableRec
    BY DEF PartialTable, TableRec
  <2>2. Files(tables, TableRec)
    BY <1>2 DEF DiskType
  <2>3. tables' = Put(tables, n, PartialTable) /\ n \in Nat
    BY <1>1, <1>3
  <2> QED
    BY <2>1, <2>2, <2>3, PutIs, Zenon
<1>5. \A t \in version \cup pin \cup comp.outputs :
        t \in DOMAIN tables' /\ tables'[t] = tables[t]
  BY <1>3, <1>4 DEF IsPut
<1>6. \A t \in DOMAIN tables' : \A x \in tables'[t].data :
        x.seq <= last_sequence /\ OnFile(x, logs, tables)
  <2>1. tables'[n].data = {}
    BY <1>4 DEF IsPut, PartialTable
  <2>2. ASSUME NEW t \in DOMAIN tables', t # n
        PROVE  t \in DOMAIN tables /\ tables'[t] = tables[t]
    BY <1>4, <2>2 DEF IsPut
  <2> QED
    BY <1>1, <1>2, <2>1, <2>2, OldEntries
<1>7. next_file_number' \in Nat /\ next_file_number <= next_file_number'
  BY <1>1, <1>3
<1>8. flush' \in FlushRec /\ flush'.pc = "build" /\ flush'.number = n
  BY <1>1, <1>3 DEF FlushRec
<1>9. /\ pending_outputs' \in SUBSET Nat /\ comp' \in CompRec /\ writes' \in Nat
      /\ writes <= writes'
      /\ Files(manifests', FileOf(EditRec))
  BY <1>1, <1>2, <1>3 DEF MemoryType, DiskType
<1>10. CurrentInv'
  BY <1>1, <1>2, <1>5, <1>9, CurrentStaysInRun
<1>11. VersionInv'
  <2>1. /\ ~(flush.pc = "logged" \/ comp.pc = "logged")
        /\ ~(flush.pc = "logged" \/ comp.pc = "logged")'
    BY <1>1, <1>8
  <2> QED
    BY <1>1, <1>2, <1>7, <2>1, VersionStays
<1>12. FlushInv'
  <2>1. IsNew(n)'
    BY <1>1, <1>3, <1>4 DEF IsNew, IsPut
  <2> QED
    BY <1>1, <1>3, <1>8, <2>1 DEF FlushInv
<1>13. CompInv'
  <2>1. \A t \in comp.outputs : t \in pending_outputs' /\ t \notin version'
    BY <1>1, <1>2 DEF CompInv, IsNew
  <2> QED
    BY <1>1, <1>2, <1>5, <1>7, <2>1, CompStays
<1> QED
  BY <1>1, <1>4, <1>5, <1>6, <1>7, <1>8, <1>9, <1>10, <1>11, <1>12, <1>13, BackgroundNext

LEMMA FlushFailsPreserves ==
  ASSUME CrInv, FlushFails
  PROVE  CrInv'
<1> PICK n : n = flush.number
  OBVIOUS
<1>1. /\ Running /\ pc = "up" /\ flush.pc = "build" /\ flush' = NoFlush
      /\ tables' = Without(tables, {n}) /\ pending_outputs' = pending_outputs \ {n}
      /\ UNCHANGED <<logs, manifests, current, pc, version, log_number, next_file_number,
                     manifest_file_number, last_sequence, logfile_number, mem, immut, rec, wr,
                     comp, pin, acked, durable, lost, writes>>
  BY DEF FlushFails, Running, vset, memory, history
<1>2. /\ DiskType(logs, manifests, tables) /\ MemoryType /\ CurrentInv /\ RunInv
      /\ VersionInv /\ FlushInv /\ CompInv /\ SequenceInv
  BY <1>1 DEF CrInv, RunInv
<1>3. /\ comp.pc # "logged" /\ n \notin version \cup pin \cup comp.outputs
      /\ \A t \in version \cup pin \cup comp.outputs : t \in DOMAIN tables
  BY <1>1, <1>2, UsedNumbers DEF FlushInv, IsNew
<1>4. Files(tables', TableRec) /\ IsCut(tables', tables, {n})
  <2>1. Files(tables, TableRec)
    BY <1>2 DEF DiskType
  <2>2. tables' = Without(tables, {n})
    BY <1>1
  <2> QED
    BY <2>1, <2>2, WithoutIs, Zenon
<1>5. \A t \in version \cup pin \cup comp.outputs :
        t \in DOMAIN tables' /\ tables'[t] = tables[t]
  BY <1>3, <1>4 DEF IsCut
<1>6. \A t \in DOMAIN tables' : \A x \in tables'[t].data :
        x.seq <= last_sequence /\ OnFile(x, logs, tables)
  BY <1>1, <1>2, <1>4, OldEntries DEF IsCut
<1>7. next_file_number' \in Nat /\ next_file_number <= next_file_number'
  BY <1>1, <1>2 DEF MemoryType
<1>8. flush' \in FlushRec /\ flush'.pc = "idle"
  BY <1>1 DEF FlushRec, NoFlush
<1>9. /\ pending_outputs' \in SUBSET Nat /\ comp' \in CompRec /\ writes' \in Nat
      /\ writes <= writes'
      /\ Files(manifests', FileOf(EditRec))
  <2>1. pending_outputs \in SUBSET Nat /\ comp \in CompRec /\ writes \in Nat
    BY <1>2 DEF MemoryType
  <2>2. Files(manifests, FileOf(EditRec))
    BY <1>2 DEF DiskType
  <2>3. pending_outputs' \in SUBSET Nat
    BY <1>1, <2>1
  <2>4. writes' \in Nat /\ writes <= writes'
    BY <1>1, <2>1
  <2> QED
    BY <1>1, <2>1, <2>2, <2>3, <2>4
<1>10. CurrentInv'
  BY <1>1, <1>2, <1>3, <1>5, <1>9, CurrentStaysInRun
<1>11. VersionInv'
  <2>1. /\ ~(flush.pc = "logged" \/ comp.pc = "logged")
        /\ ~(flush.pc = "logged" \/ comp.pc = "logged")'
    BY <1>1, <1>3, <1>8
  <2> QED
    BY <1>1, <1>2, <1>7, <2>1, VersionStays
<1>12. FlushInv'
  BY <1>8 DEF FlushInv
<1>13. CompInv'
  <2>1. \A t \in comp.outputs : t \in pending_outputs' /\ t \notin version'
    BY <1>1, <1>2, <1>3 DEF CompInv, IsNew
  <2> QED
    BY <1>1, <1>2, <1>5, <1>7, <2>1, CompStays
<1> QED
  BY <1>1, <1>4, <1>5, <1>6, <1>7, <1>8, <1>9, <1>10, <1>11, <1>12, <1>13, BackgroundNext

LEMMA OpenOutputPreserves ==
  ASSUME CrInv, OpenCompactionOutputFile
  PROVE  CrInv'
<1> PICK n : n = next_file_number
  OBVIOUS
<1>1. /\ Running /\ pc = "up" /\ flush.pc = "idle" /\ comp.pc = "build" /\ comp.open = 0
      /\ next_file_number' = n + 1
      /\ comp' = [comp EXCEPT !.outputs = @ \cup {n}, !.open = n]
      /\ tables' = Put(tables, n, PartialTable)
      /\ pending_outputs' = pending_outputs \cup {n}
      /\ UNCHANGED <<logs, manifests, current, pc, version, log_number, flush,
                     manifest_file_number, last_sequence, logfile_number, mem, immut, rec, wr,
                     pin, acked, durable, lost, writes>>
  BY Zenon DEF OpenCompactionOutputFile, NewFileNumber, Running, memory, history, counts
<1>2. /\ DiskType(logs, manifests, tables) /\ MemoryType /\ CurrentInv /\ RunInv
      /\ VersionInv /\ FlushInv /\ CompInv /\ SequenceInv
  BY <1>1 DEF CrInv, RunInv
<1>3. /\ n \in Nat /\ n # 0
      /\ \A t \in version \cup pin \cup comp.outputs : t \in DOMAIN tables /\ t # n
  BY <1>2, UsedNumbers
<1>4. Files(tables', TableRec) /\ IsPut(tables', tables, n, PartialTable)
  <2>1. PartialTable \in TableRec
    BY DEF PartialTable, TableRec
  <2>2. Files(tables, TableRec)
    BY <1>2 DEF DiskType
  <2>3. tables' = Put(tables, n, PartialTable) /\ n \in Nat
    BY <1>1, <1>3
  <2> QED
    BY <2>1, <2>2, <2>3, PutIs, Zenon
<1>5. \A t \in version \cup pin \cup comp.outputs :
        t \in DOMAIN tables' /\ tables'[t] = tables[t]
  BY <1>3, <1>4 DEF IsPut
<1>6. \A t \in DOMAIN tables' : \A x \in tables'[t].data :
        x.seq <= last_sequence /\ OnFile(x, logs, tables)
  <2>1. tables'[n].data = {}
    BY <1>4 DEF IsPut, PartialTable
  <2>2. ASSUME NEW t \in DOMAIN tables', t # n
        PROVE  t \in DOMAIN tables /\ tables'[t] = tables[t]
    BY <1>4, <2>2 DEF IsPut
  <2> QED
    BY <1>1, <1>2, <2>1, <2>2, OldEntries
<1>7. next_file_number' \in Nat /\ next_file_number <= next_file_number'
  BY <1>1, <1>3
<1>8. /\ comp' \in CompRec /\ comp'.pc = "build" /\ comp'.inputs = comp.inputs
      /\ comp'.outputs = comp.outputs \cup {n} /\ comp'.open = n /\ comp'.left = comp.left
  <2>1. /\ comp = [pc |-> comp.pc, inputs |-> comp.inputs, outputs |-> comp.outputs,
                   open |-> comp.open, left |-> comp.left]
        /\ comp.inputs \in SUBSET Nat /\ comp.outputs \in SUBSET Nat
        /\ comp.left \in SUBSET EntryRec
    BY <1>2 DEF MemoryType, CompRec
  <2> DEFINE O == comp.outputs \cup {n}
  <2>2. comp' = [comp EXCEPT !.outputs = O, !.open = n] /\ O \in SUBSET Nat
    BY <1>1, <1>3, <2>1
  <2> HIDE DEF O
  <2>3. comp' = [pc |-> comp.pc, inputs |-> comp.inputs, outputs |-> O,
                 open |-> n, left |-> comp.left]
    BY <2>1, <2>2
  <2>4. /\ comp'.pc = comp.pc /\ comp'.inputs = comp.inputs
        /\ comp'.outputs = O /\ comp'.open = n /\ comp'.left = comp.left
    BY <2>3
  <2>5. comp' \in CompRec
    BY <1>1, <1>3, <2>1, <2>2, <2>3 DEF CompRec
  <2> QED
    BY <1>1, <2>4, <2>5 DEF O
<1>9. /\ pending_outputs' \in SUBSET Nat /\ flush' \in FlushRec /\ writes' \in Nat
      /\ writes <= writes'
      /\ Files(manifests', FileOf(EditRec))
  BY <1>1, <1>2, <1>3 DEF MemoryType, DiskType
<1>10. CurrentInv'
  BY <1>1, <1>2, <1>5, <1>9, CurrentStaysInRun
<1>11. VersionInv'
  <2>1. /\ ~(flush.pc = "logged" \/ comp.pc = "logged")
        /\ ~(flush.pc = "logged" \/ comp.pc = "logged")'
    BY <1>1, <1>8
  <2> QED
    BY <1>1, <1>2, <1>7, <2>1, VersionStays
<1>12. FlushInv'
  BY <1>1 DEF FlushInv
<1>13. CompInv'
  <2>1. comp.inputs \subseteq version /\ comp.outputs \subseteq pending_outputs
    BY <1>2 DEF CompInv
  <2>2. \A t \in DOMAIN tables : t \in Nat
    BY <1>2 DEF DiskType, Files
  <2>3. \A t \in comp.outputs : t # 0 /\ t # n /\ IsNew(t)' /\ tables'[t].whole
    BY <1>1, <1>2, <1>3, <1>5, <2>2 DEF CompInv, IsNew
  <2>4. IsNew(n)'
    BY <1>1, <1>3, <1>4 DEF IsNew, IsPut
  <2>5. DataOf(tables', comp'.inputs) = DataOf(tables, comp.inputs)
    BY <1>5, <1>8, <2>1 DEF DataOf
  <2>6. comp'.outputs \ {comp'.open} = comp.outputs /\ comp.outputs \ {comp.open} = comp.outputs
    BY <1>1, <1>8, <2>3
  <2>7. DataOf(tables', comp.outputs) = DataOf(tables, comp.outputs)
    BY <1>5 DEF DataOf
  <2>8. DataOf(tables, comp.inputs) = comp.left \cup DataOf(tables, comp.outputs \ {comp.open})
    BY <1>2 DEF CompInv
  <2>9. DataOf(tables', comp'.inputs)
          = comp'.left \cup DataOf(tables', comp'.outputs \ {comp'.open})
    BY <1>8, <2>5, <2>6, <2>7, <2>8
  <2> QED
    BY <1>1, <1>8, <2>1, <2>3, <2>4, <2>9 DEF CompInv
<1> QED
  BY <1>1, <1>4, <1>5, <1>6, <1>7, <1>8, <1>9, <1>10, <1>11, <1>12, <1>13, BackgroundNext

LEMMA FinishOutputPreserves ==
  ASSUME CrInv, FinishCompactionOutputFile
  PROVE  CrInv'
<1> PICK n : n = comp.open
  OBVIOUS
<1>1. PICK S \in SUBSET comp.left : /\ tables' = Put(tables, n, [data |-> S, whole |-> TRUE])
                                   /\ comp' = [comp EXCEPT !.open = 0, !.left = @ \ S]
  BY DEF FinishCompactionOutputFile
<1>2. /\ Running /\ pc = "up" /\ flush.pc = "idle" /\ n # 0
      /\ UNCHANGED <<logs, manifests, current, pc, version, log_number, flush,
                     manifest_file_number, next_file_number, last_sequence, logfile_number, mem,
                     immut, rec, wr, pin, pending_outputs, acked, durable, lost, writes>>
  BY Zenon DEF FinishCompactionOutputFile, Running, vset, memory, history, counts
<1>3. /\ DiskType(logs, manifests, tables) /\ MemoryType /\ CurrentInv /\ RunInv
      /\ VersionInv /\ FlushInv /\ CompInv /\ SequenceInv
  BY <1>2 DEF CrInv, RunInv
<1>4. /\ n \in comp.outputs /\ n \in Nat /\ n \notin version \cup pin
      /\ comp.pc = "build" /\ n \in DOMAIN tables
  <2>1. n \in comp.outputs /\ comp.pc # "logged" /\ IsNew(n)
    BY <1>2, <1>3 DEF CompInv
  <2>2. comp.pc # "idle"
    BY <1>2, <1>3 DEF CompInv, NoComp
  <2> QED
    BY <1>3, <2>1, <2>2 DEF IsNew, MemoryType, CompRec
<1>5. /\ \A t \in version \cup pin \cup comp.outputs : t \in DOMAIN tables
      /\ comp.inputs \subseteq version
  BY <1>3, UsedNumbers DEF CompInv
<1> DEFINE d == [data |-> S, whole |-> TRUE]
<1>6. /\ Files(tables', TableRec) /\ DOMAIN tables' = DOMAIN tables
      /\ tables'[n].data = S /\ tables'[n].whole
      /\ \A t \in DOMAIN tables : t # n => tables'[t] = tables[t]
  <2>1. S \in SUBSET EntryRec
    BY <1>3 DEF MemoryType, CompRec
  <2>2. d \in TableRec /\ d.data = S /\ d.whole
    BY <2>1 DEF TableRec
  <2> HIDE DEF d
  <2>3. Files(tables, TableRec)
    BY <1>3 DEF DiskType
  <2>4. tables' = Put(tables, n, d) /\ n \in Nat
    BY <1>1, <1>4 DEF d
  <2>5. Files(tables', TableRec) /\ IsPut(tables', tables, n, d)
    BY <2>2, <2>3, <2>4, PutIs, Zenon
  <2> QED
    BY <1>4, <2>2, <2>5 DEF IsPut
<1> HIDE DEF d
<1>7. \A t \in version \cup pin : t \in DOMAIN tables' /\ tables'[t] = tables[t]
  BY <1>4, <1>5, <1>6
<1>8. \A t \in DOMAIN tables' : \A x \in tables'[t].data :
        x.seq <= last_sequence /\ OnFile(x, logs, tables)
  <2>1. ASSUME NEW x \in S
        PROVE  x.seq <= last_sequence /\ OnFile(x, logs, tables)
    <3>1. x \in DataOf(tables, comp.inputs)
      BY <1>3 DEF CompInv
    <3>2. PICK t \in comp.inputs : x \in tables[t].data
      BY <3>1 DEF DataOf
    <3> QED
      BY <1>2, <1>3, <1>5, <3>2, OldEntries
  <2>2. ASSUME NEW t \in DOMAIN tables', NEW x \in tables'[t].data, t # n
        PROVE  x.seq <= last_sequence /\ OnFile(x, logs, tables)
    <3>1. t \in DOMAIN tables /\ x \in tables[t].data
      BY <1>6, <2>2
    <3> QED
      BY <1>2, <1>3, <3>1, OldEntries
  <2> QED
    BY <1>6, <2>1, <2>2
<1>9. next_file_number' \in Nat /\ next_file_number <= next_file_number'
  BY <1>2, <1>3 DEF MemoryType
<1>10. /\ comp' \in CompRec /\ comp'.pc = "build" /\ comp'.inputs = comp.inputs
       /\ comp'.outputs = comp.outputs /\ comp'.open = 0 /\ comp'.left = comp.left \ S
  <2>1. /\ comp = [pc |-> comp.pc, inputs |-> comp.inputs, outputs |-> comp.outputs,
                   open |-> comp.open, left |-> comp.left]
        /\ comp.inputs \in SUBSET Nat /\ comp.outputs \in SUBSET Nat
        /\ comp.left \in SUBSET EntryRec
    BY <1>3 DEF MemoryType, CompRec
  <2> DEFINE O == comp.left \ S
  <2>2. comp' = [comp EXCEPT !.open = 0, !.left = O] /\ O \in SUBSET EntryRec
    BY <1>1, <2>1
  <2> HIDE DEF O
  <2>3. comp' = [pc |-> comp.pc, inputs |-> comp.inputs, outputs |-> comp.outputs,
                 open |-> 0, left |-> O]
    BY <2>1, <2>2
  <2>4. /\ comp'.pc = comp.pc /\ comp'.inputs = comp.inputs
        /\ comp'.outputs = comp.outputs /\ comp'.open = 0 /\ comp'.left = O
    BY <2>3
  <2>5. comp' \in CompRec
    BY <1>4, <2>1, <2>2, <2>3 DEF CompRec
  <2> QED
    BY <1>4, <2>4, <2>5 DEF O
<1>11. /\ pending_outputs' \in SUBSET Nat /\ flush' \in FlushRec /\ writes' \in Nat
       /\ writes <= writes'
       /\ Files(manifests', FileOf(EditRec))
  BY <1>2, <1>3 DEF MemoryType, DiskType
<1>12. CurrentInv'
  BY <1>2, <1>3, <1>4, <1>7, <1>11, CurrentStaysInRun
<1>13. VersionInv'
  <2>1. /\ ~(flush.pc = "logged" \/ comp.pc = "logged")
        /\ ~(flush.pc = "logged" \/ comp.pc = "logged")'
    BY <1>2, <1>4, <1>10
  <2> QED
    BY <1>2, <1>3, <1>9, <2>1, VersionStays
<1>14. FlushInv'
  BY <1>2 DEF FlushInv
<1>15. CompInv'
  <2>1. \A t \in comp.outputs : t # 0 /\ IsNew(t)' /\ tables'[t].whole
    BY <1>2, <1>3, <1>6 DEF CompInv, IsNew
  <2>2. DataOf(tables', comp'.inputs) = DataOf(tables, comp.inputs)
    BY <1>5, <1>7, <1>10 DEF DataOf
  <2>3. comp'.outputs \ {comp'.open} = comp.outputs
    BY <1>10, <2>1
  <2>4. DataOf(tables', comp.outputs) = S \cup DataOf(tables, comp.outputs \ {n})
    <3>1. \A t \in comp.outputs \ {n} : tables'[t] = tables[t]
      BY <1>5, <1>6
    <3> QED
      BY <1>4, <1>6, <3>1 DEF DataOf
  <2>5. DataOf(tables, comp.inputs) = comp.left \cup DataOf(tables, comp.outputs \ {n})
    BY <1>3 DEF CompInv
  <2>6. DataOf(tables', comp'.inputs)
          = comp'.left \cup DataOf(tables', comp'.outputs \ {comp'.open})
    BY <1>10, <2>2, <2>3, <2>4, <2>5
  <2>7. comp.outputs \subseteq pending_outputs
    BY <1>3 DEF CompInv
  <2> QED
    BY <1>2, <1>5, <1>10, <2>1, <2>6, <2>7 DEF CompInv
<1> QED
  BY <1>2, <1>6, <1>7, <1>8, <1>9, <1>10, <1>11, <1>12, <1>13, <1>14, <1>15, BackgroundNext

(* An edit is appended to the MANIFEST.  Whether or not it survives, what    *)
(* the MANIFEST names is there.                                              *)
Appended(e) ==
  /\ manifests'[current].synced = manifests[current].synced
  /\ Len(manifests'[current].recs) = manifests[current].synced + 1
  /\ Logged' = Logged /\ Pending' = e
  /\ Names(manifests'[current], manifests'[current].synced) = version

LEMMA LogEditIs ==
  ASSUME DiskType(logs, manifests, tables), MemoryType, CurrentInv, RunInv, SequenceInv,
         ~(flush.pc = "logged" \/ comp.pc = "logged"), UNCHANGED <<current, writes>>,
         NEW e, e \in EditRec, e.next = next_file_number, e.seq = last_sequence,
         e.log < next_file_number,
         manifests' = [manifests EXCEPT ![manifest_file_number] = AppendTo(@, e)],
         \A t \in version : t \in DOMAIN tables' /\ tables'[t] = tables[t],
         \A t \in e.add : t \in DOMAIN tables' /\ tables'[t].whole /\ t < next_file_number,
         \A t \in DOMAIN tables' : \A x \in tables'[t].data : x.seq <= last_sequence
  PROVE  Files(manifests', FileOf(EditRec)) /\ CurrentInv' /\ Appended(e)
<1> DEFINE f == manifests[current]
           g == manifests'[current]
<1>1. VersionInv /\ LogsInv
  BY DEF RunInv
<1>2. /\ current # 0 /\ current \in DOMAIN manifests /\ current = manifest_file_number
      /\ f \in FileOf(EditRec) /\ f.synced # 0 /\ Len(f.recs) = f.synced
      /\ version = Names(f, f.synced) /\ f.recs[f.synced].next <= next_file_number
      /\ ManifestInv(f, tables, current, writes)
  BY <1>1 DEF CurrentInv, VersionInv, DiskType, Files, Pending
<1>3. /\ g = AppendTo(f, e) /\ Files(manifests', FileOf(EditRec))
      /\ DOMAIN manifests' = DOMAIN manifests
  <2>1. AppendTo(f, e) \in FileOf(EditRec)
    BY <1>2, AppendIs
  <2> QED
    BY <1>2, <2>1 DEF DiskType, Files
<1> DEFINE s == f.synced
<1>4. /\ g \in FileOf(EditRec) /\ g.synced = s /\ Len(g.recs) = s + 1
      /\ \A i \in 1..s : g.recs[i] = f.recs[i]
      /\ g.recs[s + 1] = e /\ s \in Nat /\ s # 0
  <2> HIDE DEF f
  <2> QED
    BY <1>2, <1>3, AppendIs
<1>5. f.recs \in Seq(EditRec) /\ g.recs \in Seq(EditRec)
  <2> HIDE DEF f, g
  <2> QED
    BY <1>2, <1>4, FileIs
<1>6. Names(g, s) = version
  <2> HIDE DEF f, g
  <2>1. s \in 0..Len(f.recs) /\ s <= Len(g.recs)
    BY <1>2, <1>4
  <2> QED
    BY <1>2, <1>4, <1>5, <2>1, NamesAgree
<1>7. Names(g, s + 1) = (version \ e.del) \cup e.add
  <2> HIDE DEF f, g
  <2> QED
    BY <1>4, <1>5, <1>6, NamesNext
<1>8. g.recs[s] = f.recs[s] /\ EndsWell(f.recs[s], version, tables, current, writes)
  <2>1. s \in s..Len(f.recs) /\ s \in 1..s
    BY <1>2, <1>4
  <2> QED
    BY <1>2, <1>4, <2>1 DEF ManifestInv
<1>9. EndsWell(g.recs[s], version, tables', current, writes)
  <2> HIDE DEF f, g
  <2> QED
    BY <1>8 DEF EndsWell
<1>10. EndsWell(e, (version \ e.del) \cup e.add, tables', current, writes)
  <2>1. f.recs[s].next \in Nat /\ next_file_number \in Nat /\ current \in Nat
    <3>1. s \in 1..Len(f.recs)
      BY <1>2, <1>4
    <3> HIDE DEF f
    <3> QED
      BY <1>2, <3>1, EditIs DEF MemoryType
  <2>2. current < next_file_number
    <3>1. current < f.recs[s].next
      BY <1>8 DEF EndsWell
    <3> QED
      BY <1>2, <2>1, <3>1
  <2>3. \A t \in version : t < next_file_number /\ tables[t].whole
    BY <1>1, VersionTables
  <2>4. last_sequence <= writes
    BY DEF SequenceInv
  <2> QED
    BY <2>2, <2>3, <2>4 DEF EndsWell
<1>11. ManifestInv(g, tables', current, writes)
  <2>1. f.recs[s].next <= e.next
    BY <1>2
  <2>2. e.next <= e.next
    BY DEF MemoryType
  <2> HIDE DEF f, g
  <2>3. ASSUME NEW k \in g.synced..Len(g.recs)
        PROVE  /\ EndsWell(g.recs[k], Names(g, k), tables', current, writes)
               /\ g.recs[k].next <= g.recs[Len(g.recs)].next
    <3>1. k = s \/ k = s + 1
      BY <1>4
    <3>2. CASE k = s
      BY <1>4, <1>6, <1>8, <1>9, <2>1, <3>2
    <3>3. CASE k = s + 1
      BY <1>4, <1>7, <1>10, <2>2, <3>3
    <3> QED
      BY <3>1, <3>2, <3>3
  <2> QED
    BY <1>4, <2>3 DEF ManifestInv
<1>12. CurrentInv'
  BY <1>2, <1>3, <1>4, <1>11 DEF CurrentInv
<1>13. Appended(e)
  BY <1>2, <1>4, <1>6, <1>8 DEF Appended, Logged, Pending
<1> QED
  BY <1>3, <1>12, <1>13

LEMMA LogFlushPreserves ==
  ASSUME CrInv, SafeFaults, LogFlush
  PROVE  CrInv'
<1> PICK n : n = flush.number
  OBVIOUS
<1> PICK e : e = [add |-> {n}, del |-> {}, log |-> logfile_number, next |-> next_file_number,
                  seq |-> last_sequence]
  OBVIOUS
<1>1. /\ Running /\ pc = "up" /\ flush.pc = "build"
      /\ tables' = Put(tables, n, [data |-> immut, whole |-> TRUE])
      /\ pending_outputs' = pending_outputs \ {n}
      /\ UNCHANGED <<logs, current, pc, version, log_number, next_file_number,
                     manifest_file_number, last_sequence, logfile_number, mem, immut, rec, wr,
                     comp, pin, acked, durable, lost, writes>>
  BY Zenon DEF LogFlush, Running, vset, memory, history
<1>2. /\ DiskType(logs, manifests, tables) /\ MemoryType /\ CurrentInv /\ RunInv
      /\ VersionInv /\ FlushInv /\ CompInv /\ LogsInv /\ SequenceInv /\ DataInv
  BY <1>1 DEF CrInv, RunInv
<1>3. \/ /\ manifests' = [manifests EXCEPT ![manifest_file_number] = AppendTo(@, e)]
         /\ flush' = [flush EXCEPT !.pc = "logged"]
      \/ UNCHANGED manifests /\ flush' = NoFlush
  BY DEF LogFlush, LogEdit, FlushLogNumber, LogEditFails, Fault, SafeFaults
<1>4. /\ comp.pc # "logged" /\ immut # {} /\ n # 0 /\ n \in Nat /\ n < next_file_number
      /\ n \notin version \cup pin \cup comp.outputs /\ n \in DOMAIN tables
      /\ \A t \in version \cup pin \cup comp.outputs : t \in DOMAIN tables
  BY <1>1, <1>2, UsedNumbers DEF FlushInv, IsNew, DiskType, Files
<1>5. /\ Files(tables', TableRec) /\ DOMAIN tables' = DOMAIN tables
      /\ tables'[n] = [data |-> immut, whole |-> TRUE]
      /\ \A t \in DOMAIN tables : t # n => tables'[t] = tables[t]
  <2> PICK d : d = [data |-> immut, whole |-> TRUE]
    OBVIOUS
  <2>1. d \in TableRec
    BY <1>2 DEF MemoryType, TableRec
  <2>2. Files(tables, TableRec)
    BY <1>2 DEF DiskType
  <2>3. tables' = Put(tables, n, d) /\ n \in Nat
    BY <1>1, <1>4
  <2>4. Files(tables', TableRec) /\ IsPut(tables', tables, n, d)
    BY <2>1, <2>2, <2>3, PutIs, Zenon
  <2> QED
    BY <1>4, <2>4 DEF IsPut
<1>6. \A t \in version \cup pin \cup comp.outputs :
        t \in DOMAIN tables' /\ tables'[t] = tables[t]
  BY <1>4, <1>5
<1>7. \A t \in DOMAIN tables' : \A x \in tables'[t].data :
        x.seq <= last_sequence /\ OnFile(x, logs, tables)
  <2>1. ASSUME NEW x \in immut
        PROVE  x.seq <= last_sequence /\ OnFile(x, logs, tables)
    <3>1. LogHas(x, log_number) /\ log_number \in DOMAIN logs
      BY <1>2 DEF DataInv, MemTablesAreLogged, LogsInv
    <3> QED
      BY <1>2, <3>1 DEF SequenceInv, OnFile, InLog, LogHas
  <2>2. ASSUME NEW t \in DOMAIN tables', NEW x \in tables'[t].data, t # n
        PROVE  x.seq <= last_sequence /\ OnFile(x, logs, tables)
    <3>1. t \in DOMAIN tables /\ x \in tables[t].data
      BY <1>5, <2>2
    <3> QED
      BY <1>1, <1>2, <3>1, OldEntries
  <2>3. tables'[n].data = immut
    BY <1>5
  <2> QED
    BY <2>1, <2>2, <2>3
<1>8. next_file_number' \in Nat /\ next_file_number <= next_file_number'
  BY <1>1, <1>2 DEF MemoryType
<1>9. /\ pending_outputs' \in SUBSET Nat /\ comp' \in CompRec /\ writes' \in Nat
      /\ writes <= writes'
  <2>1. pending_outputs \in SUBSET Nat /\ comp \in CompRec /\ writes \in Nat
    BY <1>2 DEF MemoryType
  <2>2. pending_outputs' \in SUBSET Nat
    BY <1>1, <2>1
  <2>3. writes' \in Nat /\ writes <= writes'
    BY <1>1, <2>1
  <2> QED
    BY <1>1, <2>1, <2>2, <2>3
<1>10. CompInv'
  <2>1. \A t \in comp.outputs : t \in pending_outputs' /\ t \notin version'
    BY <1>1, <1>2, <1>4 DEF CompInv, IsNew
  <2> QED
    BY <1>1, <1>2, <1>6, <1>8, <2>1, CompStays
<1>11. CASE UNCHANGED manifests /\ flush' = NoFlush
  <2>1. flush' \in FlushRec /\ flush'.pc = "idle"
    BY <1>11 DEF FlushRec, NoFlush
  <2>2. Files(manifests', FileOf(EditRec))
    BY <1>2, <1>11 DEF DiskType
  <2>3. CurrentInv'
    BY <1>1, <1>2, <1>4, <1>6, <1>9, <1>11, CurrentStaysInRun
  <2>4. VersionInv'
    <3>1. /\ ~(flush.pc = "logged" \/ comp.pc = "logged")
          /\ ~(flush.pc = "logged" \/ comp.pc = "logged")'
      BY <1>1, <1>4, <2>1
    <3> QED
      BY <1>1, <1>2, <1>8, <1>11, <3>1, VersionStays
  <2>5. FlushInv'
    BY <2>1 DEF FlushInv
  <2> QED
    BY <1>1, <1>5, <1>6, <1>7, <1>8, <1>9, <1>10, <2>1, <2>2, <2>3, <2>4, <2>5, BackgroundNext
<1>12. CASE /\ manifests' = [manifests EXCEPT ![manifest_file_number] = AppendTo(@, e)]
            /\ flush' = [flush EXCEPT !.pc = "logged"]
  <2>1. flush' \in FlushRec /\ flush'.pc = "logged" /\ flush'.number = n
    BY <1>2, <1>12 DEF MemoryType, FlushRec
  <2>2. /\ e \in EditRec /\ e.add = {n} /\ e.del = {} /\ e.log = logfile_number
        /\ e.next = next_file_number /\ e.seq = last_sequence /\ e.log < next_file_number
    <3>1. /\ next_file_number \in Nat \ {0} /\ logfile_number \in Nat /\ last_sequence \in Nat
          /\ logfile_number < next_file_number
      BY <1>2, UsedNumbers DEF MemoryType, LogsInv
    <3> QED
      BY <1>4, <3>1 DEF EditRec
  <2>3. Files(manifests', FileOf(EditRec)) /\ CurrentInv' /\ Appended(e)
    <3>1. ~(flush.pc = "logged" \/ comp.pc = "logged")
      BY <1>1, <1>4
    <3>2. \A t \in e.add : t \in DOMAIN tables' /\ tables'[t].whole /\ t < next_file_number
      BY <1>4, <1>5, <2>2
    <3> QED
      BY <1>1, <1>2, <1>6, <1>7, <1>12, <2>2, <3>1, <3>2, LogEditIs
  <2>4. VersionInv'
    BY <1>1, <1>2, <1>4, <1>8, <2>1, <2>2, <2>3 DEF VersionInv, Appended
  <2>5. FlushInv'
    BY <1>1, <1>4, <1>5, <2>1 DEF FlushInv, IsNew
  <2> QED
    BY <1>1, <1>5, <1>6, <1>7, <1>8, <1>9, <1>10, <2>1, <2>3, <2>4, <2>5, BackgroundNext
<1> QED
  BY <1>3, <1>11, <1>12

LEMMA LogCompactionPreserves ==
  ASSUME CrInv, LogCompaction
  PROVE  CrInv'
<1> PICK e : e = [add |-> comp.outputs, del |-> comp.inputs, log |-> log_number,
                  next |-> next_file_number, seq |-> last_sequence]
  OBVIOUS
<1>1. /\ Running /\ pc = "up" /\ flush.pc = "idle"
      /\ comp.pc = "build" /\ comp.open = 0 /\ comp.left = {}
      /\ UNCHANGED <<logs, tables, current, pc, version, log_number, next_file_number, flush,
                     manifest_file_number, last_sequence, logfile_number, mem, immut, rec, wr,
                     pin, pending_outputs, acked, durable, lost, writes>>
  BY Zenon DEF LogCompaction, Running, vset, memory, history, counts
<1>2. /\ manifests' = [manifests EXCEPT ![manifest_file_number] = AppendTo(@, e)]
      /\ comp' = [comp EXCEPT !.pc = "logged"]
  BY DEF LogCompaction, LogEdit, CompactionLogNumber
<1>3. /\ DiskType(logs, manifests, tables) /\ MemoryType /\ CurrentInv /\ RunInv
      /\ VersionInv /\ FlushInv /\ CompInv /\ LogsInv /\ SequenceInv
  BY <1>1 DEF CrInv, RunInv
<1>4. \A t \in version \cup pin \cup comp.outputs : t \in DOMAIN tables
  BY <1>3, UsedNumbers
<1>5. \A t \in version \cup pin : t \in DOMAIN tables' /\ tables'[t] = tables[t]
  BY <1>1, <1>4
<1>6. \A t \in DOMAIN tables' : \A x \in tables'[t].data :
        x.seq <= last_sequence /\ OnFile(x, logs, tables)
  BY <1>1, <1>3, OldEntries
<1>7. /\ comp' \in CompRec /\ comp'.pc = "logged" /\ comp'.inputs = comp.inputs
      /\ comp'.outputs = comp.outputs /\ comp'.open = 0 /\ comp'.left = {}
  BY <1>1, <1>2, <1>3 DEF MemoryType, CompRec
<1>8. \A t \in comp.outputs : t # 0 /\ IsNew(t) /\ tables[t].whole
  BY <1>1, <1>3 DEF CompInv, IsNew
<1>9. /\ e \in EditRec /\ e.add = comp.outputs /\ e.del = comp.inputs /\ e.log = log_number
      /\ e.next = next_file_number /\ e.seq = last_sequence /\ e.log < next_file_number
  <2>1. /\ next_file_number \in Nat \ {0} /\ log_number \in Nat /\ last_sequence \in Nat
        /\ log_number < next_file_number
    BY <1>3, UsedNumbers DEF MemoryType, LogsInv
  <2>2. comp.inputs \in SUBSET Nat /\ comp.outputs \in SUBSET Nat
    BY <1>3 DEF MemoryType, CompRec
  <2> QED
    BY <2>1, <2>2 DEF EditRec
<1>10. Files(manifests', FileOf(EditRec)) /\ CurrentInv' /\ Appended(e)
  <2>1. ~(flush.pc = "logged" \/ comp.pc = "logged")
    BY <1>1
  <2>2. \A t \in e.add : t \in DOMAIN tables' /\ tables'[t].whole /\ t < next_file_number
    BY <1>1, <1>4, <1>8, <1>9 DEF IsNew
  <2> QED
    BY <1>1, <1>2, <1>3, <1>5, <1>6, <1>9, <2>1, <2>2, LogEditIs
<1>11. next_file_number' \in Nat /\ next_file_number <= next_file_number'
       /\ flush' \in FlushRec /\ pending_outputs' \in SUBSET Nat /\ Files(tables', TableRec)
  BY <1>1, <1>3 DEF MemoryType, DiskType
<1>12. VersionInv'
  BY <1>1, <1>3, <1>7, <1>9, <1>10, <1>11 DEF VersionInv, Appended
<1>13. FlushInv'
  BY <1>1 DEF FlushInv
<1>14. CompInv'
  <2>1. \A t \in comp.outputs : IsNew(t)'
    BY <1>1, <1>8 DEF IsNew
  <2>2. /\ DataOf(tables', comp'.inputs) = DataOf(tables, comp.inputs)
        /\ DataOf(tables', comp'.outputs \ {comp'.open})
             = DataOf(tables, comp.outputs \ {comp.open})
    BY <1>1, <1>7
  <2> QED
    BY <1>1, <1>3, <1>7, <1>8, <2>1, <2>2 DEF CompInv
<1> QED
  BY <1>1, <1>5, <1>6, <1>7, <1>10, <1>11, <1>12, <1>13, <1>14, BackgroundNext

LEMMA CompactionFailsPreserves ==
  ASSUME CrInv, SafeFaults, CompactionFails
  PROVE  CrInv'
<1>1. /\ Running /\ pc = "up" /\ flush.pc = "idle" /\ comp.pc = "build"
      /\ pc' = "cleanup" /\ comp' = NoComp /\ pending_outputs' = pending_outputs \ comp.outputs
      /\ UNCHANGED <<logs, tables, current, version, log_number, next_file_number, flush,
                     manifest_file_number, last_sequence, logfile_number, mem, immut, rec, wr,
                     pin, acked, durable, lost, writes>>
  BY Zenon DEF CompactionFails, Running, vset, memory, history
<1>2. UNCHANGED manifests
  BY DEF CompactionFails, LogEditFails, Fault, SafeFaults
<1>3. /\ DiskType(logs, manifests, tables) /\ MemoryType /\ CurrentInv /\ RunInv
      /\ VersionInv /\ FlushInv /\ CompInv /\ SequenceInv
  BY <1>1 DEF CrInv, RunInv
<1>4. \A t \in version \cup pin \cup comp.outputs : t \in DOMAIN tables
  BY <1>3, UsedNumbers
<1>5. \A t \in version \cup pin : t \in DOMAIN tables' /\ tables'[t] = tables[t]
  BY <1>1, <1>4
<1>6. \A t \in DOMAIN tables' : \A x \in tables'[t].data :
        x.seq <= last_sequence /\ OnFile(x, logs, tables)
  BY <1>1, <1>3, OldEntries
<1>7. /\ comp' \in CompRec /\ comp'.pc = "idle" /\ comp'.inputs = {} /\ comp'.outputs = {}
      /\ comp'.open = 0 /\ comp'.left = {}
  BY <1>1 DEF NoComp, CompRec
<1>8. /\ next_file_number' \in Nat /\ next_file_number <= next_file_number'
      /\ flush' \in FlushRec /\ Files(tables', TableRec) /\ Files(manifests', FileOf(EditRec))
      /\ writes' \in Nat /\ writes <= writes'
  BY <1>1, <1>2, <1>3 DEF MemoryType, DiskType
<1>9. pending_outputs' \in SUBSET Nat
  <2>1. pending_outputs \in SUBSET Nat
    BY <1>3 DEF MemoryType
  <2> QED
    BY <1>1, <2>1
<1>10. CurrentInv'
  BY <1>1, <1>2, <1>3, <1>5, <1>8, CurrentStaysInRun
<1>11. VersionInv'
  <2>1. /\ ~(flush.pc = "logged" \/ comp.pc = "logged")
        /\ ~(flush.pc = "logged" \/ comp.pc = "logged")'
    BY <1>1, <1>7
  <2> QED
    BY <1>1, <1>2, <1>3, <1>8, <2>1, VersionStays
<1>12. FlushInv'
  BY <1>1 DEF FlushInv
<1>13. CompInv'
  <2>1. DataOf(tables', {}) = {}
    BY DEF DataOf
  <2>2. comp'.outputs \ {comp'.open} = {}
    BY <1>7
  <2> QED
    BY <1>1, <1>7, <2>1, <2>2 DEF CompInv
<1> QED
  BY <1>1, <1>5, <1>6, <1>7, <1>8, <1>9, <1>10, <1>11, <1>12, <1>13, BackgroundNext

(* The edit is synced, and becomes the version.                              *)
Synced ==
  /\ manifests'[current].synced = Len(manifests'[current].recs)
  /\ manifests'[current].synced = Len(manifests[current].recs)
  /\ Logged' = Pending /\ Pending' = Pending
  /\ Names(manifests'[current], manifests'[current].synced)
       = Names(manifests[current], Len(manifests[current].recs))

LEMMA SyncManifestIs ==
  ASSUME DiskType(logs, manifests, tables), MemoryType, CurrentInv, VersionInv,
         flush.pc = "logged" \/ comp.pc = "logged", UNCHANGED <<current, writes, tables>>,
         manifests' = [manifests EXCEPT ![manifest_file_number] = Sync(@)]
  PROVE  Files(manifests', FileOf(EditRec)) /\ CurrentInv' /\ Synced
<1> DEFINE f == manifests[current]
           g == manifests'[current]
<1>1. /\ current # 0 /\ current \in DOMAIN manifests /\ current = manifest_file_number
      /\ f \in FileOf(EditRec) /\ f.synced # 0 /\ Len(f.recs) = f.synced + 1
      /\ ManifestInv(f, tables, current, writes)
  BY DEF CurrentInv, VersionInv, DiskType, Files
<1>2. g = Sync(f) /\ Files(manifests', FileOf(EditRec)) /\ DOMAIN manifests' = DOMAIN manifests
  <2>1. Sync(f) \in FileOf(EditRec)
    BY <1>1, SyncIs
  <2> QED
    BY <1>1, <2>1 DEF DiskType, Files
<1>3. g.recs = f.recs /\ g.synced = Len(f.recs) /\ f.synced \in Nat /\ Len(f.recs) \in Nat
  <2> HIDE DEF f
  <2> QED
    BY <1>1, <1>2, SyncIs
<1>4. \A k : Names(g, k) = Names(f, k)
  BY <1>3 DEF Names
<1>5. ManifestInv(g, tables', current, writes)
  <2> HIDE DEF f, g
  <2>1. Len(f.recs) \in f.synced..Len(f.recs) /\ Len(f.recs) # 0
    BY <1>1, <1>3
  <2>2. \A k \in Len(f.recs)..Len(f.recs) : k = Len(f.recs)
    BY <1>3
  <2>3. Len(f.recs) <= Len(f.recs) + 1
    BY <1>3
  <2> QED
    BY <1>1, <1>3, <1>4, <2>1, <2>2, <2>3 DEF ManifestInv
<1>6. CurrentInv'
  <2>1. Len(f.recs) # 0
    BY <1>1, <1>3
  <2> QED
    BY <1>1, <1>2, <1>3, <1>5, <2>1 DEF CurrentInv
<1>7. Synced
  BY <1>3, <1>4 DEF Synced, Logged, Pending
<1> QED
  BY <1>2, <1>6, <1>7

LEMMA InstallFlushPreserves ==
  ASSUME CrInv, SafeFaults, InstallFlush
  PROVE  CrInv'
<1> PICK n : n = flush.number
  OBVIOUS
<1>1. /\ Running /\ pc = "up" /\ flush.pc = "logged" /\ pc' = "cleanup"
      /\ version' = version \cup Pending.add /\ log_number' = Pending.log
      /\ immut' = {} /\ flush' = NoFlush
      /\ UNCHANGED <<logs, tables, current, manifest_file_number, next_file_number,
                     last_sequence, logfile_number, mem, pending_outputs, rec, wr, comp, pin,
                     acked, durable, lost, writes>>
  <2>1. pc = "up" /\ current = manifest_file_number
    BY DEF InstallFlush, CrInv, Running, RunInv, VersionInv
  <2> QED
    BY <2>1, Zenon DEF InstallFlush, Running, Pending, history
<1>2. manifests' = [manifests EXCEPT ![manifest_file_number] = Sync(@)]
  BY DEF InstallFlush, SyncManifest, Fault, SafeFaults
<1>3. /\ DiskType(logs, manifests, tables) /\ MemoryType /\ CurrentInv /\ RunInv /\ HistoryInv
      /\ EntriesInv(logs, tables, writes)
      /\ VersionInv /\ FlushInv /\ CompInv /\ PinInv /\ LogsInv /\ SequenceInv /\ DataInv
  BY <1>1 DEF CrInv, RunInv
<1>4. /\ comp.pc # "logged" /\ n \in Nat /\ n \in DOMAIN tables /\ n \notin comp.outputs
      /\ tables[n].data = immut
      /\ Pending.add = {n} /\ Pending.log = logfile_number
  BY <1>1, <1>3 DEF FlushInv, VersionInv, IsNew, DiskType, Files
<1>5. version' = version \cup {n} /\ log_number' = logfile_number
  BY <1>1, <1>4
<1>6. Files(manifests', FileOf(EditRec)) /\ CurrentInv' /\ Synced
  BY <1>1, <1>2, <1>3, SyncManifestIs
<1>7. DiskType(logs, manifests, tables)' /\ EntriesInv(logs, tables, writes)'
  BY <1>1, <1>3, <1>6 DEF DiskType
<1>8. MemoryType'
  <2>1. NoFlush \in FlushRec
    BY DEF NoFlush, FlushRec
  <2> QED
    BY <1>1, <1>3, <1>4, <1>5, <2>1 DEF MemoryType, PcStates
<1>9. flush'.pc = "idle" /\ comp'.pc # "logged"
  BY <1>1, <1>4 DEF NoFlush
<1>10. VersionInv'
  <2> DEFINE f == manifests[current]
  <2>1. f \in FileOf(EditRec) /\ Len(f.recs) = f.synced + 1 /\ f.synced # 0
    BY <1>1, <1>3 DEF CurrentInv, VersionInv, DiskType, Files
  <2>2. Len(f.recs) \in f.synced..Len(f.recs) /\ Len(f.recs) # f.synced /\ Len(f.recs) # 0
    <3> HIDE DEF f
    <3> QED
      BY <2>1, FileIs
  <2>3. Names(f, Len(f.recs)) = version \cup {n}
    <3> HIDE DEF f
    <3> QED
      BY <1>3, <1>4, <2>2, VersionsAre DEF f
  <2>4. Pending.next <= next_file_number
    BY <1>3 DEF VersionInv
  <2>5. manifests'[current].synced # 0
    BY <1>6, <2>2 DEF Synced
  <2> QED
    BY <1>1, <1>3, <1>4, <1>5, <1>6, <1>9, <2>3, <2>4, <2>5 DEF VersionInv, Synced
<1>11. FlushInv'
  BY <1>9 DEF FlushInv
<1>12. CompInv'
  <2>1. /\ comp.outputs \subseteq pending_outputs' /\ \A t \in comp.outputs : t \notin version'
        /\ \A t \in version \cup comp.outputs : t \in DOMAIN tables'
    BY <1>1, <1>3, <1>4, <1>5, UsedNumbers DEF CompInv, IsNew
  <2>2. next_file_number' \in Nat /\ next_file_number <= next_file_number'
    BY <1>1, <1>3 DEF MemoryType
  <2> QED
    BY <1>1, <1>3, <1>5, <2>1, <2>2, CompStays
<1>13. PinInv'
  BY <1>1, <1>3 DEF PinInv
<1>14. LogsInv'
  BY <1>1, <1>3, <1>5 DEF LogsInv, MemoryType
<1>15. SequenceInv'
  BY <1>1, <1>3 DEF SequenceInv, Writing
<1>16. DataInv'
  <2> DEFINE V == DataOf(tables, version)
  <2>1. \A x, m : (LogHas(x, m)' <=> LogHas(x, m)) /\ (LogKeeps(x, m)' <=> LogKeeps(x, m))
    BY <1>1 DEF LogHas, LogKeeps
  <2>2. DataOf(tables', version') = V \cup immut
    <3>1. DataOf(tables, version \cup {n}) = V \cup immut
      BY <1>4 DEF DataOf
    <3> QED
      BY <1>1, <1>5, <3>1
  <2> HIDE DEF V
  <2>3. MemTablesAreLogged'
    BY <1>1, <1>3, <2>1 DEF DataInv, MemTablesAreLogged
  <2>4. NothingIsMissing'
    BY <1>1, <1>3, <2>2 DEF DataInv, NothingIsMissing, Ids, V
  <2>5. \A x : IsFirm(x) => IsFirm(x)'
    BY <1>1, <2>1, <2>2 DEF IsFirm, V
  <2>6. DurableIsFirm' /\ WriteIsLogged'
    BY <1>1, <1>3, <2>1, <2>5 DEF DataInv, DurableIsFirm, WriteIsLogged
  <2> QED
    BY <2>3, <2>4, <2>6 DEF DataInv
<1>17. Running' /\ RunInv'
  BY <1>1, <1>10, <1>11, <1>12, <1>13, <1>14 DEF RunInv, Running
<1> QED
  BY <1>1, <1>3, <1>6, <1>7, <1>8, <1>15, <1>16, <1>17, RunningNext DEF HistoryInv

LEMMA InstallCompactionPreserves ==
  ASSUME CrInv, SafeFaults, InstallCompactionResults
  PROVE  CrInv'
<1>1. /\ Running /\ pc = "up" /\ comp.pc = "logged" /\ pc' = "cleanup" /\ comp' = NoComp
      /\ version' = (version \ comp.inputs) \cup comp.outputs
      /\ pending_outputs' = pending_outputs \ comp.outputs
      /\ UNCHANGED <<logs, tables, current, manifest_file_number, next_file_number, log_number,
                     last_sequence, logfile_number, mem, immut, rec, wr, flush, pin,
                     acked, durable, lost, writes>>
  BY Zenon DEF InstallCompactionResults, Running, memory, history
<1>2. manifests' = [manifests EXCEPT ![manifest_file_number] = Sync(@)]
  BY DEF InstallCompactionResults, SyncManifest, Fault, SafeFaults
<1>3. /\ DiskType(logs, manifests, tables) /\ MemoryType /\ CurrentInv /\ RunInv /\ HistoryInv
      /\ EntriesInv(logs, tables, writes)
      /\ VersionInv /\ FlushInv /\ CompInv /\ PinInv /\ LogsInv /\ SequenceInv /\ DataInv
  BY <1>1 DEF CrInv, RunInv
<1>4. flush.pc = "idle" /\ Pending.log = log_number /\ comp.open = 0 /\ comp.left = {}
  BY <1>1, <1>3 DEF FlushInv, VersionInv, CompInv, MemoryType, FlushRec
<1>5. comp'.pc = "idle" /\ comp' \in CompRec
  BY <1>1 DEF NoComp, CompRec
<1>6. Files(manifests', FileOf(EditRec)) /\ CurrentInv' /\ Synced
  BY <1>1, <1>2, <1>3, SyncManifestIs
<1>7. DiskType(logs, manifests, tables)' /\ EntriesInv(logs, tables, writes)'
  BY <1>1, <1>3, <1>6 DEF DiskType
<1>8. MemoryType'
  <2>1. pending_outputs' \in SUBSET Nat /\ version' \in SUBSET Nat
    <3>1. /\ pending_outputs \in SUBSET Nat /\ version \in SUBSET Nat
          /\ comp.outputs \in SUBSET Nat
      BY <1>3 DEF MemoryType, CompRec
    <3> QED
      BY <1>1, <3>1
  <2> QED
    BY <1>1, <1>3, <1>5, <2>1 DEF MemoryType, PcStates
<1>9. VersionInv'
  <2> DEFINE f == manifests[current]
  <2>1. f \in FileOf(EditRec) /\ Len(f.recs) = f.synced + 1 /\ f.synced # 0
    BY <1>1, <1>3 DEF CurrentInv, VersionInv, DiskType, Files
  <2>2. Len(f.recs) \in f.synced..Len(f.recs) /\ Len(f.recs) # f.synced /\ Len(f.recs) # 0
    <3> HIDE DEF f
    <3> QED
      BY <2>1, FileIs
  <2>3. Names(f, Len(f.recs)) = (version \ comp.inputs) \cup comp.outputs
    <3> HIDE DEF f
    <3> QED
      BY <1>3, <1>4, <2>2, VersionsAre DEF f
  <2>4. Pending.next <= next_file_number
    BY <1>3 DEF VersionInv
  <2>5. manifests'[current].synced # 0
    BY <1>6, <2>2 DEF Synced
  <2> QED
    BY <1>1, <1>3, <1>4, <1>5, <1>6, <2>3, <2>4, <2>5 DEF VersionInv, Synced
<1>10. FlushInv'
  BY <1>1, <1>4 DEF FlushInv
<1>11. DataOf(tables', {}) = {}
  BY DEF DataOf
<1>12. CompInv'
  BY <1>1, <1>11 DEF CompInv, NoComp
<1>13. PinInv' /\ LogsInv'
  BY <1>1, <1>3 DEF PinInv, LogsInv
<1>14. SequenceInv'
  BY <1>1, <1>3 DEF SequenceInv, Writing
<1>15. DataInv'
  <2>1. DataOf(tables, comp.inputs) = DataOf(tables, comp.outputs)
    <3>1. \A t \in comp.outputs : t # 0
      BY <1>3 DEF CompInv, IsNew
    <3>2. comp.outputs \ {comp.open} = comp.outputs
      BY <1>4, <3>1
    <3> QED
      BY <1>3, <1>4, <3>2 DEF CompInv
  <2>2. comp.inputs \subseteq version
    BY <1>3 DEF CompInv
  <2>3. \A S, U : DataOf(tables, S \cup U) = DataOf(tables, S) \cup DataOf(tables, U)
    BY DEF DataOf
  <2>4. version = (version \ comp.inputs) \cup comp.inputs
    BY <2>2
  <2>5. /\ DataOf(tables, version') =
             DataOf(tables, version \ comp.inputs) \cup DataOf(tables, comp.outputs)
        /\ DataOf(tables, version) =
             DataOf(tables, version \ comp.inputs) \cup DataOf(tables, comp.inputs)
    BY <1>1, <2>3, <2>4, Zenon
  <2>6. DataOf(tables', version') = DataOf(tables, version)
    BY <1>1, <2>1, <2>5
  <2> QED
    BY <1>1, <1>3, <2>6, DataStays
<1>16. Running' /\ RunInv'
  BY <1>1, <1>9, <1>10, <1>12, <1>13 DEF RunInv, Running
<1> QED
  BY <1>1, <1>3, <1>6, <1>7, <1>8, <1>14, <1>15, <1>16, RunningNext DEF HistoryInv

-----------------------------------------------------------------------------
(* DeleteObsoleteFiles: what it lets go is in no version, in no pending      *)
(* output and behind the log number.                                         *)
LEMMA CleanupIs ==
  ASSUME RunInv, MemoryType, pc = "cleanup"
  PROVE  /\ flush.pc = "idle" /\ comp.pc # "logged"
         /\ current = manifest_file_number /\ current # 0
         /\ manifests[current].synced # 0
         /\ Len(manifests[current].recs) = manifests[current].synced
         /\ version \cup pin \cup comp.outputs \subseteq Live
<1>1. flush.pc = "idle"
  BY DEF RunInv, FlushInv, MemoryType, FlushRec
<1>2. comp.pc # "logged"
  BY DEF RunInv, VersionInv
<1> QED
  BY <1>1, <1>2 DEF RunInv, VersionInv, CompInv, Live

LEMMA DeletePreserves ==
  ASSUME CrInv, DeleteObsoleteFiles
  PROVE  CrInv'
<1>1. /\ Running /\ pc = "cleanup" /\ pc' = "up"
      /\ logs' = Without(logs, ObsoleteLogs) /\ tables' = Without(tables, ObsoleteTables)
      /\ manifests' = Without(manifests, ObsoleteManifests)
      /\ UNCHANGED <<current, version, log_number, manifest_file_number, next_file_number,
                     last_sequence, logfile_number, mem, immut, pending_outputs, rec, wr,
                     flush, comp, pin, acked, durable, lost, writes>>
  BY Zenon DEF DeleteObsoleteFiles, Running, vset, memory, background, history, counts
<1>2. /\ DiskType(logs, manifests, tables) /\ MemoryType /\ CurrentInv /\ RunInv /\ HistoryInv
      /\ EntriesInv(logs, tables, writes)
      /\ VersionInv /\ FlushInv /\ CompInv /\ PinInv /\ LogsInv /\ SequenceInv /\ DataInv
  BY <1>1 DEF CrInv, RunInv
<1>3. /\ flush.pc = "idle" /\ comp.pc # "logged"
      /\ current = manifest_file_number /\ current # 0 /\ current \in DOMAIN manifests
      /\ manifests[current].synced # 0
      /\ version \cup pin \cup comp.outputs \subseteq Live
  BY <1>1, <1>2, CleanupIs DEF CurrentInv
<1>4. /\ Files(logs', FileOf(EntryRec)) /\ IsCut(logs', logs, ObsoleteLogs)
      /\ Files(tables', TableRec) /\ IsCut(tables', tables, ObsoleteTables)
      /\ Files(manifests', FileOf(EditRec)) /\ IsCut(manifests', manifests, ObsoleteManifests)
  <2>1. /\ Files(logs, FileOf(EntryRec)) /\ Files(tables, TableRec)
        /\ Files(manifests, FileOf(EditRec))
    BY <1>2 DEF DiskType
  <2>2. Files(logs', FileOf(EntryRec)) /\ IsCut(logs', logs, ObsoleteLogs)
    BY <1>1, <2>1, WithoutIs, Zenon
  <2>3. Files(tables', TableRec) /\ IsCut(tables', tables, ObsoleteTables)
    BY <1>1, <2>1, WithoutIs, Zenon
  <2>4. Files(manifests', FileOf(EditRec)) /\ IsCut(manifests', manifests, ObsoleteManifests)
    BY <1>1, <2>1, WithoutIs, Zenon
  <2> QED
    BY <2>2, <2>3, <2>4
<1>5. /\ DOMAIN tables' = DOMAIN tables \cap Live
      /\ \A t \in DOMAIN tables' : tables'[t] = tables[t]
      /\ DOMAIN logs' \subseteq DOMAIN logs /\ \A m \in DOMAIN logs' : logs'[m] = logs[m]
      /\ \A m \in DOMAIN logs' : m >= log_number
      /\ log_number \in DOMAIN logs' /\ logfile_number \in DOMAIN logs'
      /\ current \in DOMAIN manifests' /\ manifests'[current] = manifests[current]
  <2>1. /\ DOMAIN tables' = DOMAIN tables \cap Live
        /\ \A t \in DOMAIN tables' : tables'[t] = tables[t]
    BY <1>4 DEF IsCut, ObsoleteTables
  <2>2. log_number \in Nat /\ logfile_number \in Nat /\ current \in Nat
    BY <1>2 DEF MemoryType
  <2>3. \A m \in DOMAIN logs : m \in Nat
    BY <1>2 DEF DiskType, Files
  <2>4. /\ DOMAIN logs' \subseteq DOMAIN logs /\ \A m \in DOMAIN logs' : logs'[m] = logs[m]
        /\ \A m \in DOMAIN logs' : m >= log_number
        /\ log_number \in DOMAIN logs' /\ logfile_number \in DOMAIN logs'
    BY <1>2, <1>4, <2>2, <2>3 DEF IsCut, ObsoleteLogs, LogsInv
  <2>5. current \in DOMAIN manifests' /\ manifests'[current] = manifests[current]
    BY <1>3, <1>4, <2>2 DEF IsCut, ObsoleteManifests
  <2> QED
    BY <2>1, <2>4, <2>5
<1>6. \A t \in version \cup pin \cup comp.outputs :
        t \in DOMAIN tables' /\ tables'[t] = tables[t]
  BY <1>2, <1>3, <1>5, UsedNumbers
<1>7. DiskType(logs, manifests, tables)' /\ MemoryType'
  BY <1>1, <1>2, <1>4 DEF DiskType, MemoryType, PcStates
<1>8. CurrentInv'
  <2> DEFINE f == manifests[current]
  <2>1. \A k \in f.synced..Len(f.recs) : k # 0 =>
          \A t \in Names(f, k) : t \in DOMAIN tables' /\ tables'[t] = tables[t]
    <3> HIDE DEF f
    <3> QED
      BY <1>2, <1>3, <1>6, NamedInRun DEF f
  <2>2. writes \in Nat /\ writes' \in Nat /\ writes <= writes'
    BY <1>1, <1>2 DEF MemoryType
  <2> HIDE DEF f
  <2> QED
    BY <1>1, <1>2, <1>3, <1>5, <2>1, <2>2, CurrentStays DEF f
<1>9. EntriesInv(logs, tables, writes)'
  <2>1. \A x : OnFile(x, logs', tables') => OnFile(x, logs, tables)
    BY <1>5 DEF OnFile, InTable, InLog
  <2>2. writes \in Nat
    BY <1>2 DEF MemoryType
  <2> QED
    BY <1>1, <1>2, <2>1, <2>2, EntriesShrink
<1>10. VersionInv'
  BY <1>1, <1>2, <1>3, <1>5 DEF VersionInv, Logged, Pending
<1>11. FlushInv'
  BY <1>1, <1>3 DEF FlushInv
<1>12. CompInv'
  <2>1. next_file_number' \in Nat /\ next_file_number <= next_file_number'
    BY <1>1, <1>2 DEF MemoryType
  <2>2. /\ comp.outputs \subseteq pending_outputs' /\ \A t \in comp.outputs : t \notin version'
        /\ version \subseteq version'
    BY <1>1, <1>2 DEF CompInv, IsNew
  <2> QED
    BY <1>1, <1>2, <1>6, <2>1, <2>2, CompStays
<1>13. PinInv' /\ LogsInv'
  BY <1>1, <1>2, <1>5, <1>6 DEF PinInv, LogsInv
<1>14. SequenceInv'
  <2>1. \A t \in DOMAIN tables' : \A x \in tables'[t].data : x.seq <= last_sequence
    BY <1>2, <1>5 DEF SequenceInv
  <2>2. \A x : Writing(x)' <=> Writing(x)
    BY <1>1 DEF Writing
  <2>3. \A m \in DOMAIN logs' : \A i \in 1..Len(logs'[m].recs) :
          logs'[m].recs[i].seq <= last_sequence \/ Writing(logs'[m].recs[i])
    BY <1>2, <1>5 DEF SequenceInv
  <2>4. (\A m \in DOMAIN logs : \A i \in 1..Len(logs[m].recs) :
           logs[m].recs[i].seq <= last_sequence \/ Writing(logs[m].recs[i]))'
    BY <1>1, <2>2, <2>3
  <2> QED
    BY <1>1, <1>2, <2>1, <2>4 DEF SequenceInv
<1>15. DataInv'
  <2>1. DataOf(tables', version') = DataOf(tables, version)
    BY <1>1, <1>6 DEF DataOf
  <2> QED
    BY <1>1, <1>2, <1>5, <2>1, DataStays
<1>16. Running' /\ RunInv'
  BY <1>1, <1>10, <1>11, <1>12, <1>13 DEF RunInv, Running
<1> QED
  BY <1>1, <1>2, <1>7, <1>8, <1>9, <1>14, <1>15, <1>16, RunningNext DEF HistoryInv

-----------------------------------------------------------------------------
(* A database that is not open keeps its promises as long as the files that  *)
(* the MANIFEST makes it read are there.                                     *)
LEMMA SurvivesIsNext ==
  (DiskType(logs, manifests, tables) /\ current \in DOMAIN manifests)' =>
    (SyncedWritesSurvive <=> Survives(durable, manifests[current], logs, tables))'
BY SurvivesIs, PTL

LEMMA AckedIsNext ==
  (DiskType(logs, manifests, tables) /\ current \in DOMAIN manifests)' =>
    (AckedWritesAreOnDisk <=> Kept(acked \ lost, manifests[current], logs, tables))'
BY AckedIs, PTL

LEMMA DurableIsNext ==
  (DiskType(logs, manifests, tables) /\ current \in DOMAIN manifests)' =>
    (durable \subseteq Ids(OnDisk(logs, manifests, tables)) <=>
       Kept(durable, manifests[current], logs, tables))'
BY DurableIs, PTL

LEMMA StillFinds ==
  ASSUME NEW f, NEW g, NEW k, NEW L, NEW L1, NEW T, NEW T1, NEW kept, NEW kept1, NEW x,
         Finds(x, f, k, L, T, kept), Names(f, k) = Names(g, k), f.recs[k].log = g.recs[k].log,
         \A t \in Names(f, k) : t \in DOMAIN T => t \in DOMAIN T1 /\ T1[t] = T[t],
         \A n \in DOMAIN L : n >= f.recs[k].log =>
           /\ n \in DOMAIN L1
           /\ \A i \in 1..kept[n] : i \in 1..kept1[n] /\ L1[n].recs[i] = L[n].recs[i]
  PROVE  Finds(x, g, k, L1, T1, kept1)
<1>1. CASE \E t \in Names(f, k) : t \in DOMAIN T /\ T[t].whole /\ x \in T[t].data
  BY <1>1 DEF Finds
<1>2. CASE \E n \in DOMAIN L : n >= f.recs[k].log /\ \E i \in 1..kept[n] : x = L[n].recs[i]
  <2>1. PICK n \in DOMAIN L : n >= f.recs[k].log /\ \E i \in 1..kept[n] : x = L[n].recs[i]
    BY <1>2
  <2>2. PICK i \in 1..kept[n] : x = L[n].recs[i]
    BY <2>1
  <2>3. n \in DOMAIN L1 /\ n >= g.recs[k].log /\ i \in 1..kept1[n] /\ x = L1[n].recs[i]
    BY <2>1, <2>2
  <2> QED
    BY <2>3 DEF Finds
<1> QED
  BY <1>1, <1>2 DEF Finds

LEMMA PromisesStay ==
  ASSUME DiskType(logs, manifests, tables), DiskType(logs, manifests, tables)', CurrentInv,
         SyncedWritesSurvive, AckedWritesAreOnDisk,
         current # 0, current' = current, current \in DOMAIN manifests',
         manifests'[current] = manifests[current], UNCHANGED <<acked, durable, lost>>,
         NEW f, f = manifests[current],
         \A k \in f.synced..Len(f.recs) : k # 0 =>
           \A t \in Names(f, k) : t \in DOMAIN tables' /\ tables'[t] = tables[t],
         \A n \in DOMAIN logs : n \in DOMAIN logs' /\ logs'[n] = logs[n]
  PROVE  SyncedWritesSurvive' /\ AckedWritesAreOnDisk'
<1> DEFINE s == [n \in DOMAIN logs |-> logs[n].synced]
           s1 == [n \in DOMAIN logs' |-> logs'[n].synced]
           a == [n \in DOMAIN logs |-> Len(logs[n].recs)]
           a1 == [n \in DOMAIN logs' |-> Len(logs'[n].recs)]
<1>1. f \in FileOf(EditRec) /\ current \in DOMAIN manifests
  BY DEF CurrentInv, DiskType, Files
<1>2. Len(f.recs) \in f.synced..Len(f.recs)
  BY <1>1, FileIs
<1>3. \A n \in DOMAIN logs : s1[n] = s[n] /\ a1[n] = a[n]
  OBVIOUS
<1>4. Survives(durable, f, logs, tables) /\ Kept(acked \ lost, f, logs, tables)
  BY <1>1, SurvivesIs, AckedIs
<1>5. ASSUME NEW k \in f.synced..Len(f.recs), k # 0, NEW x, Finds(x, f, k, logs, tables, s)
      PROVE  Finds(x, f, k, logs', tables', s1)
  <2> HIDE DEF s, s1, a, a1
  <2> QED
    BY <1>3, <1>5, StillFinds
<1>6. ASSUME NEW k \in f.synced..Len(f.recs), k # 0, NEW x, Finds(x, f, k, logs, tables, a)
      PROVE  Finds(x, f, k, logs', tables', a1)
  <2> HIDE DEF s, s1, a, a1
  <2> QED
    BY <1>3, <1>6, StillFinds
<1>7. Survives(durable', f, logs', tables')
  <2> HIDE DEF a, a1
  <2> SUFFICES ASSUME NEW k \in f.synced..Len(f.recs), NEW i \in durable
               PROVE  k # 0 /\ \E x : x.id = i /\ Finds(x, f, k, logs', tables', s1)
    BY DEF Survives
  <2>1. k # 0 /\ \E x : x.id = i /\ Finds(x, f, k, logs, tables, s)
    BY <1>4 DEF Survives
  <2> HIDE DEF s, s1
  <2> QED
    BY <1>5, <2>1
<1>8. Kept(acked' \ lost', f, logs', tables')
  <2> HIDE DEF s, s1
  <2> SUFFICES ASSUME NEW i \in acked \ lost
               PROVE  /\ Len(f.recs) # 0
                      /\ \E x : x.id = i /\ Finds(x, f, Len(f.recs), logs', tables', a1)
    BY DEF Kept
  <2>1. Len(f.recs) # 0 /\ \E x : x.id = i /\ Finds(x, f, Len(f.recs), logs, tables, a)
    BY <1>4 DEF Kept
  <2> HIDE DEF a, a1
  <2> QED
    BY <1>2, <1>6, <2>1
<1> QED
  BY <1>7, <1>8, SurvivesIsNext, AckedIsNext

(* What is left to show of a step that leaves the database closed.           *)
LEMMA ClosedNext ==
  ASSUME ~Running', DiskType(logs, manifests, tables)', MemoryType', CurrentInv',
         EntriesInv(logs, tables, writes)', HistoryInv', ClosedInv', Opening' => OpenInv'
  PROVE  CrInv'
BY DEF CrInv

LEMMA FileOfOne ==
  ASSUME NEW e \in EditRec, NEW g, g = [recs |-> <<e>>, synced |-> 0]
  PROVE  /\ g \in FileOf(EditRec) /\ g.synced = 0 /\ g.recs = <<e>> /\ Len(g.recs) = 1
         /\ g.recs[1] = e
<1> PICK q : q = <<e>>
  OBVIOUS
<1>1. q \in Seq(EditRec) /\ Len(q) = 1 /\ q[1] = e
  OBVIOUS
<1>2. g = [recs |-> q, synced |-> 0]
  OBVIOUS
<1> QED
  BY <1>1, <1>2 DEF FileOf

LEMMA NewDBPreserves ==
  ASSUME CrInv, NewDB
  PROVE  CrInv'
<1> PICK e : e = [add |-> {}, del |-> {}, log |-> 0, next |-> 2, seq |-> 0]
  OBVIOUS
<1> PICK g : g = [recs |-> <<e>>, synced |-> 0]
  OBVIOUS
<1>1. /\ pc = "down" /\ current = 0 /\ current' = 1 /\ manifests' = Put(manifests, 1, g)
      /\ UNCHANGED <<logs, tables, pc, version, log_number, manifest_file_number,
                     next_file_number, last_sequence, logfile_number, mem, immut,
                     pending_outputs, rec, wr, flush, comp, pin, acked, durable, lost, writes>>
  BY Zenon DEF NewDB, vset, memory, background, history, counts
<1>2. /\ DiskType(logs, manifests, tables) /\ MemoryType /\ CurrentInv /\ HistoryInv
      /\ ClosedInv
      /\ EntriesInv(logs, tables, writes) /\ ~Running
  BY <1>1 DEF CrInv, Running
<1>3. e \in EditRec /\ e.add = {} /\ e.log = 0 /\ e.next = 2 /\ e.seq = 0
  BY DEF EditRec
<1>4. /\ g \in FileOf(EditRec) /\ g.synced = 0 /\ g.recs = <<e>> /\ Len(g.recs) = 1
      /\ g.recs[1] = e
  BY <1>3, FileOfOne
<1>5. Files(manifests', FileOf(EditRec)) /\ 1 \in DOMAIN manifests' /\ manifests'[1] = g
  <2>1. Files(manifests, FileOf(EditRec)) /\ 1 \in Nat /\ manifests' = Put(manifests, 1, g)
    BY <1>1, <1>2 DEF DiskType
  <2>2. Files(manifests', FileOf(EditRec)) /\ IsPut(manifests', manifests, 1, g)
    BY <1>4, <2>1, PutIs, Zenon
  <2> QED
    BY <2>2 DEF IsPut
<1>6. writes = 0 /\ acked = {} /\ durable = {} /\ lost = {}
  <2>1. writes = 0
    BY <1>1, <1>2 DEF CurrentInv
  <2>2. \A i \in acked : FALSE
    BY <1>2, <2>1 DEF HistoryInv, MemoryType
  <2>3. acked = {}
    BY <2>2
  <2> QED
    BY <1>2, <2>1, <2>3 DEF HistoryInv
<1>7. DiskType(logs, manifests, tables)' /\ MemoryType' /\ EntriesInv(logs, tables, writes)'
  BY <1>1, <1>2, <1>5 DEF DiskType, MemoryType
<1>8. Names(g, 1) = {}
  BY <1>3, <1>4, NamesOfOne
<1>9. CurrentInv'
  <2>1. EndsWell(e, Names(g, 1), tables, 1, writes)
    BY <1>3, <1>6, <1>8 DEF EndsWell
  <2>2. ManifestInv(g, tables, 1, writes)
    BY <1>3, <1>4, <2>1 DEF ManifestInv
  <2> QED
    BY <1>1, <1>5, <1>6, <2>2 DEF CurrentInv
<1>10. HistoryInv'
  <2>1. Survives(durable', g, logs', tables') /\ Kept(acked' \ lost', g, logs', tables')
    BY <1>1, <1>6 DEF Survives, Kept
  <2>2. SyncedWritesSurvive' /\ AckedWritesAreOnDisk'
    BY <1>1, <1>5, <1>7, <2>1, SurvivesIsNext, AckedIsNext
  <2> QED
    BY <1>1, <1>6, <2>2 DEF HistoryInv
<1>11. ~Running' /\ ~Opening' /\ ClosedInv'
  BY <1>1, <1>2 DEF Running, Opening, ClosedInv
<1> QED
  BY <1>7, <1>9, <1>10, <1>11, ClosedNext

(* DB::Open.                                                                 *)
LEMMA ReadManifestPreserves ==
  ASSUME CrInv, ReadManifest
  PROVE  CrInv'
<1> DEFINE f == manifests[current]
           n == Len(f.recs)
<1>1. /\ pc = "down" /\ pc' = "replay" /\ current \in DOMAIN manifests
      /\ UNCHANGED <<logs, tables, manifests, current, logfile_number, mem, immut,
                     pending_outputs, wr, flush, comp, pin, acked, durable, lost, writes>>
  BY Zenon DEF ReadManifest, disk, memory, background, history, counts
<1>2. /\ Readable(f.recs) /\ version' = TablesOf(f.recs) /\ log_number' = f.recs[n].log
      /\ manifest_file_number' = f.recs[n].next /\ next_file_number' = f.recs[n].next + 1
      /\ last_sequence' = f.recs[n].seq
      /\ rec' = [NoRec EXCEPT !.todo = {m \in DOMAIN logs : m >= f.recs[n].log}]
  BY DEF ReadManifest
<1>3. /\ DiskType(logs, manifests, tables) /\ MemoryType /\ CurrentInv /\ HistoryInv
      /\ ClosedInv
      /\ EntriesInv(logs, tables, writes) /\ ~Running
  BY <1>1 DEF CrInv, Running
<1>4. /\ f \in FileOf(EditRec) /\ current # 0 /\ n \in 1..n /\ n \in f.synced..n /\ n # 0
  <2>1. f \in FileOf(EditRec) /\ current # 0
    BY <1>1, <1>3 DEF DiskType, Files, CurrentInv
  <2>2. f.recs # <<>>
    BY <1>2 DEF Readable
  <2> HIDE DEF f
  <2>3. f.recs \in Seq(EditRec) /\ n \in Nat /\ f.synced \in Nat /\ f.synced <= n
    BY <2>1, FileIs
  <2>4. n # 0
    BY <2>2, <2>3
  <2> QED
    BY <2>1, <2>3, <2>4
<1>5. EndsWell(f.recs[n], Names(f, n), tables, current, writes)
  BY <1>1, <1>3, <1>4 DEF CurrentInv, ManifestInv
<1>6. /\ f.recs[n].log \in Nat /\ f.recs[n].next \in Nat /\ f.recs[n].seq \in Nat
      /\ f.recs[n] \in EditRec
  <2> HIDE DEF f, n
  <2> QED
    BY <1>4, EditIs DEF n
<1>7. TablesOf(f.recs) = Names(f, n)
  <2>1. f.recs \in Seq(EditRec)
    BY <1>4 DEF FileOf
  <2>2. SubSeq(f.recs, 1, n) = f.recs
    BY <2>1
  <2> QED
    BY <2>2 DEF Names
<1>8. \A t \in Names(f, n) : t \in DOMAIN tables /\ t \in Nat
  BY <1>3, <1>5 DEF EndsWell, DiskType, Files
<1>9. /\ rec' \in OpenRec /\ rec'.add = {} /\ rec'.max = 0 /\ rec'.ok
      /\ rec'.todo = {m \in DOMAIN logs : m >= f.recs[n].log}
  <2> DEFINE D == {m \in DOMAIN logs : m >= f.recs[n].log}
  <2>1. D \in SUBSET Nat
    BY <1>3 DEF DiskType, Files
  <2>2. rec' = [NoRec EXCEPT !.todo = D]
    BY <1>2
  <2> HIDE DEF D
  <2>3. rec' = [todo |-> D, add |-> {}, max |-> 0, ok |-> TRUE]
    BY <2>2 DEF NoRec
  <2>4. rec'.todo = D /\ rec'.add = {} /\ rec'.max = 0 /\ rec'.ok
    BY <2>3
  <2>5. rec' \in OpenRec
    BY <2>1, <2>3 DEF OpenRec
  <2> QED
    BY <2>4, <2>5 DEF D
<1>10. DiskType(logs, manifests, tables)' /\ EntriesInv(logs, tables, writes)'
       /\ CurrentInv' /\ ClosedInv'
  BY <1>1, <1>3, <1>4 DEF CurrentInv, ClosedInv
<1>11. HistoryInv'
  BY <1>1, <1>3 DEF HistoryInv, SyncedWritesSurvive, AckedWritesAreOnDisk, OnDisk
<1>12. MemoryType'
  <2>1. /\ version' \in SUBSET Nat /\ log_number' \in Nat /\ manifest_file_number' \in Nat
        /\ next_file_number' \in Nat /\ last_sequence' \in Nat /\ pc' \in PcStates
    <3> HIDE DEF f, n
    <3> QED
      BY <1>1, <1>2, <1>6, <1>7, <1>8 DEF PcStates
  <2> HIDE DEF f, n
  <2> QED
    BY <1>1, <1>3, <1>9, <2>1 DEF MemoryType
<1>13. ReplayInv'
  <2>1. ASSUME NEW i \in acked \ lost
        PROVE  \/ i \in Ids(DataOf(tables, Names(f, n)))
               \/ \E m \in DOMAIN logs : m >= f.recs[n].log
                    /\ \E x \in EntryRec :
                         x.id = i /\ \E j \in 1..Len(logs[m].recs) : x = logs[m].recs[j]
    <3> DEFINE kept == [m \in DOMAIN logs |-> Len(logs[m].recs)]
    <3>1. PICK x : x.id = i /\ Finds(x, f, n, logs, tables, kept)
      <4>1. Kept(acked \ lost, f, logs, tables)
        BY <1>1, <1>3, AckedIs DEF HistoryInv
      <4> QED
        BY <4>1 DEF Kept
    <3>2. CASE \E t \in Names(f, n) :
                 t \in DOMAIN tables /\ tables[t].whole /\ x \in tables[t].data
      BY <3>1, <3>2 DEF Ids, DataOf
    <3>3. CASE \E m \in DOMAIN logs :
                 m >= f.recs[n].log /\ \E j \in 1..kept[m] : x = logs[m].recs[j]
      <4>1. PICK m \in DOMAIN logs :
              m >= f.recs[n].log /\ \E j \in 1..Len(logs[m].recs) : x = logs[m].recs[j]
        BY <3>3
      <4>2. x \in EntryRec
        BY <1>3, <4>1, FileIs DEF DiskType, Files
      <4> QED
        BY <3>1, <4>1, <4>2
    <3> QED
      BY <3>1, <3>2, <3>3 DEF Finds
  <2>2. \A m \in DOMAIN logs : m \in Nat
    BY <1>3 DEF DiskType, Files
  <2>3. (\A m \in DOMAIN logs : m \in rec.todo \/ m < next_file_number)'
    <3>1. f.recs[n].log < f.recs[n].next
      BY <1>5 DEF EndsWell
    <3> QED
      BY <1>1, <1>2, <1>6, <1>9, <2>2, <3>1
  <2>4. (\A i \in acked \ lost :
           \/ i \in Ids(DataOf(tables, version \cup rec.add))
           \/ \E m \in rec.todo : \E x \in EntryRec : x.id = i /\ LogHas(x, m))'
    <3>1. version' \cup rec'.add = Names(f, n)
      BY <1>2, <1>7, <1>9
    <3>2. \A x, m : LogHas(x, m)' <=> \E j \in 1..Len(logs[m].recs) : x = logs[m].recs[j]
      BY <1>1 DEF LogHas
    <3> QED
      BY <1>1, <1>9, <2>1, <3>1, <3>2
  <2>5. /\ manifests'[current'].recs # <<>> /\ Pending' = f.recs[n]
        /\ version' = Names(f, Len(f.recs)) /\ f = manifests'[current']
    BY <1>1, <1>2, <1>7 DEF Pending, Readable
  <2>6. /\ (Pending.next < next_file_number)' /\ (Pending.seq <= last_sequence)'
        /\ last_sequence' <= writes' /\ rec'.max <= writes'
    <3>1. f.recs[n].seq <= writes /\ writes \in Nat
      BY <1>3, <1>5 DEF EndsWell, MemoryType
    <3> QED
      BY <1>1, <1>2, <1>6, <1>9, <2>5, <3>1
  <2>7. rec'.todo \subseteq DOMAIN logs'
    BY <1>1, <1>9
  <2> QED
    BY <1>2, <1>9, <2>3, <2>4, <2>5, <2>6, <2>7 DEF ReplayInv
<1>14. OpenInv' /\ ~Running'
  BY <1>1, <1>13 DEF OpenInv, Running
<1> QED
  BY <1>10, <1>11, <1>12, <1>14, ClosedNext

(* A step of DB::Open that leaves the MANIFEST, its tables and the logs      *)
(* alone.                                                                    *)
LEMMA OpenStays ==
  ASSUME CrInv, Opening, UNCHANGED <<current, acked, durable, lost, writes>>,
         DiskType(logs, manifests, tables)',
         current \in DOMAIN manifests => /\ current \in DOMAIN manifests'
                                         /\ manifests'[current] = manifests[current],
         NEW e, e = Pending,
         \A t \in DOMAIN tables : t < e.next => t \in DOMAIN tables' /\ tables'[t] = tables[t],
         \A n \in DOMAIN logs : n \in DOMAIN logs' /\ logs'[n] = logs[n]
  PROVE  CurrentInv' /\ HistoryInv'
<1> DEFINE f == manifests[current]
<1>1. /\ DiskType(logs, manifests, tables) /\ MemoryType /\ CurrentInv /\ HistoryInv
      /\ current # 0 /\ current \in DOMAIN manifests /\ f \in FileOf(EditRec)
  BY DEF CrInv, CurrentInv, Opening, DiskType, Files
<1>2. ASSUME NEW k \in f.synced..Len(f.recs), k # 0, NEW t \in Names(f, k)
      PROVE  t \in DOMAIN tables' /\ tables'[t] = tables[t]
  <2>1. /\ t \in DOMAIN tables /\ t < f.recs[k].next
        /\ f.recs[k].next <= f.recs[Len(f.recs)].next
    BY <1>1, <1>2 DEF CurrentInv, ManifestInv, EndsWell
  <2>2. t \in Nat
    BY <1>1, <2>1 DEF DiskType, Files
  <2>3. k \in 1..Len(f.recs) /\ Len(f.recs) \in 1..Len(f.recs)
    <3> HIDE DEF f
    <3> QED
      BY <1>1, <1>2, FileIs
  <2>4. f.recs[k].next \in Nat /\ f.recs[Len(f.recs)].next \in Nat
    <3> HIDE DEF f
    <3> QED
      BY <1>1, <2>3, EditIs
  <2>5. t < e.next
    BY <2>1, <2>2, <2>4 DEF Pending
  <2> QED
    BY <2>1, <2>5
<1>3. writes \in Nat
  BY <1>1 DEF MemoryType
<1>4. CurrentInv'
  <2>1. writes' # 0 => f.synced # 0
    BY <1>1 DEF CurrentInv
  <2> HIDE DEF f
  <2> QED
    BY <1>1, <1>2, <1>3, <2>1, CurrentStays DEF f
<1>5. SyncedWritesSurvive' /\ AckedWritesAreOnDisk'
  <2> HIDE DEF f
  <2> QED
    BY <1>1, <1>2, PromisesStay DEF f, HistoryInv
<1> QED
  BY <1>1, <1>4, <1>5 DEF HistoryInv

LEMMA ReplayStep ==
  ASSUME CrInv, pc = "replay",
         UNCHANGED <<logs, manifests, current, pc, version, log_number, manifest_file_number,
                     last_sequence, logfile_number, mem, immut, pending_outputs, wr, flush,
                     comp, pin, acked, durable, lost, writes>>,
         NEW n \in rec.todo, next_file_number' \in Nat, next_file_number <= next_file_number',
         n < next_file_number', rec' \in OpenRec, rec'.todo = rec.todo \ {n}, rec'.ok,
         rec.add \subseteq rec'.add, rec.max <= rec'.max, rec'.max <= writes,
         Files(tables', TableRec),
         \A t \in DOMAIN tables : t < next_file_number =>
           t \in DOMAIN tables' /\ tables'[t] = tables[t],
         \A t \in rec'.add \ rec.add :
           /\ t \in DOMAIN tables' /\ tables'[t].whole
           /\ next_file_number <= t /\ t < next_file_number'
           /\ \A x \in tables'[t].data : x.seq <= rec'.max,
         \A x \in EntryRec : LogHas(x, n) => x \in DataOf(tables', rec'.add),
         \A t \in DOMAIN tables' : \A x \in tables'[t].data : OnFile(x, logs, tables)
  PROVE  CrInv'
<1>1. /\ DiskType(logs, manifests, tables) /\ MemoryType /\ CurrentInv /\ HistoryInv
      /\ ClosedInv
      /\ EntriesInv(logs, tables, writes) /\ ~Running /\ Opening /\ ReplayInv
  BY DEF CrInv, Running, Opening, OpenInv
<1> PICK e : e = Pending
  OBVIOUS
<1>2. DiskType(logs, manifests, tables)'
  BY <1>1 DEF DiskType
<1>3. MemoryType' /\ ClosedInv' /\ ~Running'
  BY <1>1 DEF MemoryType, ClosedInv, Running
<1>4. EntriesInv(logs, tables, writes)'
  <2>1. \A x : OnFile(x, logs', tables') => OnFile(x, logs, tables)
    BY DEF OnFile, InTable
  <2>2. writes \in Nat
    BY <1>1 DEF MemoryType
  <2> QED
    BY <1>1, <2>1, <2>2, EntriesShrink
<1>5. e.next < next_file_number /\ e.next \in Nat /\ next_file_number \in Nat
  <2> DEFINE f == manifests[current]
  <2>1. f \in FileOf(EditRec) /\ f.recs # <<>>
    BY <1>1 DEF CurrentInv, Opening, DiskType, Files, ReplayInv
  <2> HIDE DEF f
  <2>2. Len(f.recs) \in 1..Len(f.recs)
    BY <2>1, FileIs
  <2>3. f.recs[Len(f.recs)].next \in Nat
    BY <2>1, <2>2, EditIs
  <2> QED
    BY <1>1, <2>3 DEF ReplayInv, MemoryType, Pending, f
<1>6. \A t \in DOMAIN tables : t < e.next => t \in DOMAIN tables' /\ tables'[t] = tables[t]
  <2>1. \A t \in DOMAIN tables : t \in Nat
    BY <1>1 DEF DiskType, Files
  <2> QED
    BY <1>5, <2>1
<1>7. CurrentInv' /\ HistoryInv'
  <2>1. /\ current \in DOMAIN manifests => /\ current \in DOMAIN manifests'
                                           /\ manifests'[current] = manifests[current]
        /\ \A m \in DOMAIN logs : m \in DOMAIN logs' /\ logs'[m] = logs[m]
    OBVIOUS
  <2> QED
    BY <1>1, <1>2, <1>6, <2>1, OpenStays
<1>8. \A t \in version \cup rec.add : t \in DOMAIN tables' /\ tables'[t] = tables[t]
  <2>1. \A t \in version : t \in DOMAIN tables /\ t < e.next
    <3> DEFINE f == manifests[current]
    <3>1. f \in FileOf(EditRec) /\ f.recs # <<>> /\ current # 0
      BY <1>1 DEF CurrentInv, Opening, DiskType, Files, ReplayInv
    <3>2. Len(f.recs) \in f.synced..Len(f.recs) /\ Len(f.recs) # 0
      <4> HIDE DEF f
      <4> QED
        BY <3>1, FileIs
    <3>3. EndsWell(f.recs[Len(f.recs)], Names(f, Len(f.recs)), tables, current, writes)
      BY <1>1, <3>1, <3>2 DEF CurrentInv, ManifestInv
    <3> QED
      BY <1>1, <3>3 DEF ReplayInv, EndsWell, Pending
  <2> QED
    BY <1>1, <1>6, <2>1 DEF ReplayInv
<1>9. ReplayInv'
  <2>1. Pending' = e
    BY DEF Pending
  <2>2. \A m \in DOMAIN logs : m \in rec'.todo \/ m < next_file_number'
    <3>1. \A m \in DOMAIN logs : m \in Nat
      BY <1>1 DEF DiskType, Files
    <3> QED
      BY <1>1, <1>5, <3>1 DEF ReplayInv
  <2>3. \A t \in rec'.add :
          /\ t \in DOMAIN tables' /\ tables'[t].whole
          /\ e.next < t /\ t < next_file_number'
          /\ \A x \in tables'[t].data : x.seq <= rec'.max
    <3>1. ASSUME NEW t \in rec'.add, t \notin rec.add
          PROVE  /\ t \in DOMAIN tables' /\ tables'[t].whole
                 /\ e.next < t /\ t < next_file_number'
                 /\ \A x \in tables'[t].data : x.seq <= rec'.max
      <4>1. t \in Nat
        BY DEF OpenRec
      <4> QED
        BY <1>5, <3>1, <4>1
    <3>2. ASSUME NEW t \in rec.add
          PROVE  /\ t \in DOMAIN tables' /\ tables'[t].whole
                 /\ e.next < t /\ t < next_file_number'
                 /\ \A x \in tables'[t].data : x.seq <= rec'.max
      <4>1. /\ t \in Nat /\ t \in DOMAIN tables /\ tables'[t] = tables[t]
            /\ t \in DOMAIN tables'
            /\ tables[t].whole /\ e.next < t /\ t < next_file_number
            /\ \A x \in tables[t].data : x.seq <= rec.max
        BY <1>1, <1>8 DEF ReplayInv, DiskType, Files
      <4>2. rec.max \in Nat /\ rec'.max \in Nat
        BY <1>1 DEF MemoryType, OpenRec
      <4>3. \A x \in tables[t].data : x.seq \in Nat
        BY <1>1, <4>1 DEF DiskType, Files, TableRec, EntryRec
      <4>4. \A x \in tables[t].data : x.seq <= rec'.max
        BY <4>1, <4>2, <4>3
      <4> QED
        BY <1>5, <4>1, <4>4
    <3> QED
      BY <3>1, <3>2
  <2>4. ASSUME NEW i \in acked \ lost
        PROVE  \/ i \in Ids(DataOf(tables', version \cup rec'.add))
               \/ \E m \in rec'.todo : \E x \in EntryRec : x.id = i /\ LogHas(x, m)
    <3>1. CASE i \in Ids(DataOf(tables, version \cup rec.add))
      <4>1. PICK t \in version \cup rec.add : \E x \in tables[t].data : x.id = i
        BY <3>1 DEF Ids, DataOf
      <4>2. t \in version \cup rec'.add /\ tables'[t] = tables[t]
        BY <1>8
      <4> QED
        BY <4>1, <4>2 DEF Ids, DataOf
    <3>2. CASE \E m \in rec.todo : \E x \in EntryRec : x.id = i /\ LogHas(x, m)
      <4>1. PICK m \in rec.todo : \E x \in EntryRec : x.id = i /\ LogHas(x, m)
        BY <3>2
      <4>2. CASE m = n
        <5>1. PICK x : x.id = i /\ x \in DataOf(tables', rec'.add)
          BY <4>1, <4>2
        <5>2. x \in DataOf(tables', version \cup rec'.add)
          BY <5>1 DEF DataOf
        <5> QED
          BY <5>1, <5>2 DEF Ids
      <4>3. CASE m # n
        BY <4>1, <4>3
      <4> QED
        BY <4>2, <4>3
    <3> QED
      BY <1>1, <3>1, <3>2 DEF ReplayInv
  <2>5. \A x, m : LogHas(x, m)' <=> LogHas(x, m)
    BY DEF LogHas
  <2>6. (\A i \in acked \ lost :
           \/ i \in Ids(DataOf(tables, version \cup rec.add))
           \/ \E m \in rec.todo : \E x \in EntryRec : x.id = i /\ LogHas(x, m))'
    BY <2>4, <2>5
  <2>7. e.next < next_file_number'
    BY <1>5
  <2>8. rec'.todo \subseteq DOMAIN logs'
    BY <1>1 DEF ReplayInv
  <2> QED
    BY <1>1, <2>1, <2>2, <2>3, <2>6, <2>7, <2>8 DEF ReplayInv
<1>10. OpenInv'
  BY <1>9 DEF OpenInv
<1> QED
  BY <1>2, <1>3, <1>4, <1>7, <1>10, ClosedNext

LEMMA RecoverLogFilePreserves ==
  ASSUME CrInv, SafeFaults, RecoverLogFile
  PROVE  CrInv'
<1> PICK n : n = Min(rec.todo)
  OBVIOUS
<1> PICK E : E = ReadLog(logs[n], Len(logs[n].recs))
  OBVIOUS
<1> PICK m : m = Max({rec.max} \cup {x.seq : x \in E})
  OBVIOUS
<1> PICK t : t = next_file_number
  OBVIOUS
<1>1. /\ pc = "replay" /\ rec.todo # {}
      /\ UNCHANGED <<logs, manifests, current, pc, version, log_number, manifest_file_number,
                     last_sequence, logfile_number, mem, immut, pending_outputs, wr, flush,
                     comp, pin, acked, durable, lost, writes>>
  BY Zenon DEF RecoverLogFile, memory, background, history
<1>2. \/ /\ E = {} /\ tables' = tables /\ next_file_number' = MarkFileNumberUsed(t, n)
         /\ rec' = [rec EXCEPT !.todo = @ \ {n}, !.ok = TRUE]
      \/ /\ E # {} /\ next_file_number' = MarkFileNumberUsed(t + 1, n)
         /\ tables' = Put(tables, t, [data |-> E, whole |-> TRUE])
         /\ rec' = [todo |-> rec.todo \ {n}, max |-> m, ok |-> TRUE, add |-> rec.add \cup {t}]
  BY DEF RecoverLogFile, Fault, SafeFaults
<1>3. /\ DiskType(logs, manifests, tables) /\ EntriesInv(logs, tables, writes) /\ ReplayInv
      /\ rec \in OpenRec /\ t \in Nat /\ writes \in Nat
  BY <1>1 DEF CrInv, Opening, OpenInv, MemoryType
<1>4. /\ rec.todo \in SUBSET Nat /\ rec.add \in SUBSET Nat /\ rec.max \in Nat
      /\ n \in rec.todo /\ n \in Nat /\ n \in DOMAIN logs /\ logs[n] \in FileOf(EntryRec)
  <2>1. rec.todo \in SUBSET Nat /\ rec.add \in SUBSET Nat /\ rec.max \in Nat
    BY <1>3 DEF OpenRec
  <2>2. n \in rec.todo
    BY <1>1, <2>1, MinIsLeast
  <2> QED
    BY <1>3, <2>1, <2>2 DEF ReplayInv, DiskType, Files
<1>5. \A x : x \in E <=> LogHas(x, n)
  <2>1. Len(logs[n].recs) \in 0..Len(logs[n].recs)
    BY <1>4, FileIs
  <2> QED
    BY <1>4, <2>1, ReadLogIs DEF LogHas
<1>6. \A x \in E : /\ x \in EntryRec /\ x.seq \in Nat /\ x.seq <= writes
                   /\ OnFile(x, logs, tables)
  <2> SUFFICES ASSUME NEW x \in E
               PROVE  /\ x \in EntryRec /\ x.seq \in Nat /\ x.seq <= writes
                      /\ OnFile(x, logs, tables)
    OBVIOUS
  <2>1. LogHas(x, n)
    BY <1>5
  <2>2. x \in EntryRec
    BY <1>4, <2>1, FileIs DEF LogHas
  <2>3. OnFile(x, logs, tables)
    BY <1>4, <2>1 DEF LogHas, OnFile, InLog
  <2>4. x.id <= writes /\ x.seq <= x.id /\ x.id \in Nat /\ x.seq \in Nat
    BY <1>3, <2>2, <2>3 DEF EntriesInv, EntryRec
  <2> QED
    BY <1>3, <2>2, <2>3, <2>4
<1>7. m \in Nat /\ rec.max <= m /\ m <= writes /\ \A x \in E : x.seq <= m
  <2> DEFINE S == {rec.max} \cup {x.seq : x \in E}
  <2>1. S \in SUBSET Nat /\ S # {} /\ \A y \in S : y <= writes
    BY <1>3, <1>4, <1>6 DEF ReplayInv
  <2>2. rec.max \in S /\ \A x \in E : x.seq \in S
    OBVIOUS
  <2> HIDE DEF S
  <2>3. Max(S) \in S /\ \A y \in S : y <= Max(S)
    BY <1>3, <2>1, MaxIsGreatest
  <2>4. m = Max(S)
    BY DEF S
  <2> QED
    BY <2>1, <2>2, <2>3, <2>4
<1>8. CASE E = {}
  <2>1. /\ tables' = tables /\ next_file_number' = MarkFileNumberUsed(t, n)
        /\ rec' = [rec EXCEPT !.todo = @ \ {n}, !.ok = TRUE]
    BY <1>2, <1>8
  <2>2. /\ rec' \in OpenRec /\ rec'.todo = rec.todo \ {n} /\ rec'.ok
        /\ rec'.add = rec.add /\ rec'.max = rec.max
    BY <1>3, <1>4, <2>1 DEF OpenRec
  <2>3. /\ next_file_number' \in Nat /\ next_file_number <= next_file_number'
        /\ n < next_file_number'
    BY <1>3, <1>4, <2>1 DEF MarkFileNumberUsed
  <2>4. Files(tables', TableRec) /\ rec'.max <= writes /\ rec.max <= rec'.max
    BY <1>3, <1>4, <2>1, <2>2 DEF DiskType, ReplayInv
  <2>5. \A x \in EntryRec : LogHas(x, n) => x \in DataOf(tables', rec'.add)
    BY <1>5, <1>8
  <2>6. \A a \in DOMAIN tables' : \A x \in tables'[a].data : OnFile(x, logs, tables)
    BY <2>1 DEF OnFile, InTable
  <2>7. /\ rec.add \subseteq rec'.add /\ rec'.add \ rec.add = {}
        /\ \A a \in DOMAIN tables : a \in DOMAIN tables' /\ tables'[a] = tables[a]
    BY <2>1, <2>2
  <2> QED
    BY <1>1, <1>4, <2>2, <2>3, <2>4, <2>5, <2>6, <2>7, ReplayStep
<1>9. CASE E # {}
  <2> PICK d : d = [data |-> E, whole |-> TRUE]
    OBVIOUS
  <2>1. /\ next_file_number' = MarkFileNumberUsed(t + 1, n) /\ tables' = Put(tables, t, d)
        /\ rec' = [todo |-> rec.todo \ {n}, max |-> m, ok |-> TRUE, add |-> rec.add \cup {t}]
    BY <1>2, <1>9
  <2>2. d \in TableRec /\ d.data = E /\ d.whole
    BY <1>6 DEF TableRec
  <2>3. Files(tables', TableRec) /\ IsPut(tables', tables, t, d)
    <3>1. Files(tables, TableRec) /\ t \in Nat /\ tables' = Put(tables, t, d)
      BY <1>3, <2>1 DEF DiskType
    <3> QED
      BY <2>2, <3>1, PutIs, Zenon
  <2>4. /\ t \in DOMAIN tables' /\ tables'[t] = d
        /\ \A a \in DOMAIN tables : a # t => a \in DOMAIN tables' /\ tables'[a] = tables[a]
        /\ \A a \in DOMAIN tables' : a = t \/ (a \in DOMAIN tables /\ tables'[a] = tables[a])
    BY <2>3 DEF IsPut
  <2>5. /\ rec' \in OpenRec /\ rec'.todo = rec.todo \ {n} /\ rec'.ok
        /\ rec'.add = rec.add \cup {t} /\ rec'.max = m
    BY <1>3, <1>4, <1>7, <2>1 DEF OpenRec
  <2>6. /\ next_file_number' \in Nat /\ next_file_number <= next_file_number'
        /\ n < next_file_number' /\ t < next_file_number'
    BY <1>3, <1>4, <2>1 DEF MarkFileNumberUsed
  <2>7. \A x \in EntryRec : LogHas(x, n) => x \in DataOf(tables', rec'.add)
    BY <1>5, <2>2, <2>4, <2>5 DEF DataOf
  <2>8. \A a \in DOMAIN tables' : \A x \in tables'[a].data : OnFile(x, logs, tables)
    BY <1>6, <2>2, <2>4 DEF OnFile, InTable
  <2>9. \A a \in DOMAIN tables : a < next_file_number =>
          a \in DOMAIN tables' /\ tables'[a] = tables[a]
    BY <1>3, <2>4
  <2>10. \A a \in rec'.add \ rec.add :
           /\ a \in DOMAIN tables' /\ tables'[a].whole
           /\ next_file_number <= a /\ a < next_file_number'
           /\ \A x \in tables'[a].data : x.seq <= rec'.max
    <3>1. \A a \in rec'.add \ rec.add : a = t
      BY <2>5
    <3>2. next_file_number <= t
      BY <1>3
    <3> QED
      BY <1>7, <2>2, <2>4, <2>5, <2>6, <3>1, <3>2
  <2>11. rec.add \subseteq rec'.add /\ rec.max <= rec'.max /\ rec'.max <= writes
    BY <1>7, <2>5
  <2> QED
    BY <1>1, <1>4, <2>3, <2>5, <2>6, <2>7, <2>8, <2>9, <2>10, <2>11, ReplayStep
<1> QED
  BY <1>8, <1>9

LEMMA OpeningIs ==
  ASSUME CrInv, Opening, NEW e, e = Pending
  PROVE  /\ DiskType(logs, manifests, tables) /\ MemoryType /\ CurrentInv /\ HistoryInv
         /\ ClosedInv
         /\ EntriesInv(logs, tables, writes) /\ ~Running /\ OpenInv /\ ReplayInv
         /\ current # 0 /\ current \in DOMAIN manifests
         /\ e \in EditRec /\ e.next \in Nat /\ e.next < next_file_number
         /\ manifest_file_number = e.next /\ current < e.next
         /\ EndsWell(e, version, tables, current, writes)
<1> DEFINE f == manifests[current]
<1>1. /\ DiskType(logs, manifests, tables) /\ MemoryType /\ CurrentInv /\ HistoryInv
      /\ ClosedInv
      /\ EntriesInv(logs, tables, writes) /\ ~Running /\ OpenInv /\ ReplayInv
  BY DEF CrInv, Running, Opening, OpenInv
<1>2. f \in FileOf(EditRec) /\ f.recs # <<>> /\ current # 0 /\ current \in DOMAIN manifests
  BY <1>1 DEF CurrentInv, Opening, DiskType, Files, ReplayInv
<1>3. /\ Len(f.recs) \in f.synced..Len(f.recs) /\ Len(f.recs) # 0
      /\ Len(f.recs) \in 1..Len(f.recs)
  <2> HIDE DEF f
  <2> QED
    BY <1>2, FileIs
<1>4. EndsWell(f.recs[Len(f.recs)], Names(f, Len(f.recs)), tables, current, writes)
  BY <1>1, <1>2, <1>3 DEF CurrentInv, ManifestInv
<1>5. f.recs[Len(f.recs)] \in EditRec /\ f.recs[Len(f.recs)].next \in Nat
  <2> HIDE DEF f
  <2> QED
    BY <1>2, <1>3, EditIs
<1>6. /\ e = f.recs[Len(f.recs)] /\ version = Names(f, Len(f.recs))
      /\ manifest_file_number = e.next /\ e.next < next_file_number
  BY <1>1 DEF Pending, ReplayInv
<1>7. EndsWell(e, version, tables, current, writes)
  BY <1>4, <1>6
<1> QED
  BY <1>1, <1>2, <1>5, <1>6, <1>7 DEF EndsWell

LEMMA ExitIs ==
  ASSUME MemoryType, Exit, UNCHANGED <<current, acked, durable, writes>>, lost' \in SUBSET Nat
  PROVE  MemoryType' /\ ClosedInv' /\ ~Running' /\ ~Opening'
<1>1. ClosedInv' /\ ~Running' /\ ~Opening'
  BY DEF Exit, ClosedInv, Running, Opening
<1>2. /\ pc' \in PcStates /\ version' \in SUBSET Nat /\ pin' \in SUBSET Nat
      /\ pending_outputs' \in SUBSET Nat /\ log_number' \in Nat /\ manifest_file_number' \in Nat
      /\ next_file_number' \in Nat /\ last_sequence' \in Nat /\ logfile_number' \in Nat
      /\ mem' \in SUBSET EntryRec /\ immut' \in SUBSET EntryRec
  BY DEF Exit, PcStates
<1>3. rec' \in OpenRec /\ wr' \in WriteRec /\ flush' \in FlushRec /\ comp' \in CompRec
  BY DEF Exit, NoRec, NoWrite, NoFlush, NoComp, OpenRec, WriteRec, FlushRec, CompRec
<1> QED
  BY <1>1, <1>2, <1>3 DEF MemoryType

LEMMA OpenFailsPreserves ==
  ASSUME CrInv, OpenFails
  PROVE  CrInv'
<1> PICK e : e = Pending
  OBVIOUS
<1>1. /\ pc \in {"replay", "manifest", "install"} /\ Exit
      /\ manifests' = IF pc = "install" THEN Without(manifests, {manifest_file_number})
                                        ELSE manifests
      /\ UNCHANGED <<logs, tables, current, acked, durable, lost, writes>>
  BY Zenon DEF OpenFails, history
<1>2. Opening
  BY <1>1 DEF Opening
<1>3. /\ DiskType(logs, manifests, tables) /\ MemoryType /\ EntriesInv(logs, tables, writes)
      /\ e.next \in Nat /\ manifest_file_number = e.next /\ current < e.next
  BY <1>2, OpeningIs
<1>4. /\ Files(manifests', FileOf(EditRec))
      /\ current \in DOMAIN manifests => /\ current \in DOMAIN manifests'
                                         /\ manifests'[current] = manifests[current]
  <2>1. Files(manifests, FileOf(EditRec))
    BY <1>3 DEF DiskType
  <2>2. CASE pc # "install"
    BY <1>1, <2>1, <2>2
  <2>3. CASE pc = "install"
    <3>1. manifests' = Without(manifests, {manifest_file_number})
      BY <1>1, <2>3
    <3>2. /\ Files(manifests', FileOf(EditRec))
          /\ IsCut(manifests', manifests, {manifest_file_number})
      BY <2>1, <3>1, WithoutIs, Zenon
    <3>3. current # manifest_file_number
      BY <1>3 DEF MemoryType
    <3> QED
      BY <3>2, <3>3 DEF IsCut
  <2> QED
    BY <2>2, <2>3
<1>5. DiskType(logs, manifests, tables)' /\ EntriesInv(logs, tables, writes)'
  BY <1>1, <1>3, <1>4 DEF DiskType
<1>6. CurrentInv' /\ HistoryInv'
  BY <1>1, <1>2, <1>4, <1>5, OpenStays
<1>7. MemoryType' /\ ClosedInv' /\ ~Running' /\ ~Opening'
  BY <1>1, <1>3, ExitIs DEF MemoryType
<1> QED
  BY <1>5, <1>6, <1>7, ClosedNext

LEMMA EmptyLogIs == EmptyLog \in FileOf(EntryRec) /\ Len(EmptyLog.recs) = 0
BY DEF EmptyLog, FileOf

LEMMA OpenNewLogPreserves ==
  ASSUME CrInv, OpenNewLog
  PROVE  CrInv'
<1> PICK e : e = Pending
  OBVIOUS
<1> PICK n : n = next_file_number
  OBVIOUS
<1>1. /\ pc = "replay" /\ rec.todo = {} /\ pc' = "manifest"
      /\ last_sequence' = Max({last_sequence, rec.max})
      /\ next_file_number' = n + 1 /\ logfile_number' = n /\ logs' = Put(logs, n, EmptyLog)
      /\ UNCHANGED <<tables, manifests, current, version, log_number, manifest_file_number,
                     mem, immut, pending_outputs, rec, wr, flush, comp, pin, acked, durable,
                     lost, writes>>
  BY Zenon DEF OpenNewLog, NewFileNumber, RecoveredSequence, background, history, counts
<1>2. Opening
  BY <1>1 DEF Opening
<1>3. /\ DiskType(logs, manifests, tables) /\ MemoryType /\ EntriesInv(logs, tables, writes)
      /\ ClosedInv /\ ReplayInv /\ e \in EditRec /\ e.next \in Nat
      /\ e.next < next_file_number
  BY <1>2, OpeningIs
<1>4. /\ n \in Nat /\ writes \in Nat /\ last_sequence \in Nat /\ rec.max \in Nat
      /\ last_sequence <= writes /\ rec.max <= writes
      /\ \A m \in DOMAIN logs : m \in Nat /\ m < n
  BY <1>1, <1>3 DEF MemoryType, OpenRec, ReplayInv, DiskType, Files
<1>5. /\ last_sequence' \in Nat /\ last_sequence <= last_sequence'
      /\ rec.max <= last_sequence' /\ last_sequence' <= writes
  <2> DEFINE S == {last_sequence, rec.max}
  <2>1. S \in SUBSET Nat /\ S # {} /\ \A y \in S : y <= writes
    BY <1>4
  <2>2. last_sequence \in S /\ rec.max \in S
    OBVIOUS
  <2> HIDE DEF S
  <2>3. Max(S) \in S /\ \A y \in S : y <= Max(S)
    BY <1>4, <2>1, MaxIsGreatest
  <2>4. last_sequence' = Max(S)
    BY <1>1 DEF S
  <2> QED
    BY <2>1, <2>2, <2>3, <2>4
<1>6. Files(logs', FileOf(EntryRec)) /\ IsPut(logs', logs, n, EmptyLog)
  <2>1. Files(logs, FileOf(EntryRec)) /\ n \in Nat /\ EmptyLog \in FileOf(EntryRec)
    BY <1>3, <1>4, EmptyLogIs DEF DiskType
  <2> QED
    BY <1>1, <2>1, PutIs, Zenon
<1>7. /\ DOMAIN logs' = DOMAIN logs \cup {n} /\ logs'[n] = EmptyLog
      /\ \A m \in DOMAIN logs : logs'[m] = logs[m]
  BY <1>4, <1>6 DEF IsPut
<1>8. DiskType(logs, manifests, tables)'
  BY <1>1, <1>3, <1>6 DEF DiskType
<1>9. EntriesInv(logs, tables, writes)'
  <2>1. \A x : InLog(x, logs') => InLog(x, logs)
    <3>1. \A i \in 1..Len(logs'[n].recs) : FALSE
      BY <1>7, EmptyLogIs
    <3> QED
      BY <1>7, <3>1 DEF InLog
  <2>2. \A x \in EntryRec : OnFile(x, logs', tables') => OnFile(x, logs, tables)
    BY <1>1, <2>1 DEF OnFile
  <2> QED
    BY <1>1, <1>3, <1>4, <2>2, EntriesShrink
<1>10. CurrentInv' /\ HistoryInv'
  BY <1>1, <1>2, <1>7, <1>8, OpenStays
<1>11. MemoryType' /\ ClosedInv' /\ ~Running'
  BY <1>1, <1>3, <1>4, <1>5 DEF MemoryType, ClosedInv, Running, PcStates
<1>12. ReplayInv'
  <2>1. Pending' = Pending
    BY <1>1 DEF Pending
  <2>2. \A m \in DOMAIN logs' : m < next_file_number'
    BY <1>1, <1>4, <1>7
  <2>3. \A t \in rec.add : t < next_file_number' /\ t \in DOMAIN tables
    BY <1>1, <1>3, <1>4 DEF ReplayInv, MemoryType, OpenRec
  <2>4. Pending.next < next_file_number' /\ Pending.seq <= last_sequence'
    BY <1>1, <1>3, <1>4, <1>5 DEF ReplayInv, EditRec
  <2>5. (\A i \in acked \ lost :
           \/ i \in Ids(DataOf(tables, version \cup rec.add))
           \/ \E m \in rec.todo : \E x \in EntryRec : x.id = i /\ LogHas(x, m))'
    BY <1>1, <1>3 DEF ReplayInv
  <2> QED
    BY <1>1, <1>3, <1>4, <1>5, <2>1, <2>2, <2>3, <2>4, <2>5 DEF ReplayInv
<1>13. OpenInv'
  <2>1. logfile_number' \in DOMAIN logs' /\ logs'[logfile_number'] = EmptyLog
    BY <1>1, <1>7
  <2>2. logfile_number' < next_file_number' /\ \A m \in DOMAIN logs' : m <= logfile_number'
    BY <1>1, <1>4, <1>7
  <2> QED
    BY <1>1, <1>5, <1>12, <2>1, <2>2 DEF OpenInv
<1> QED
  BY <1>8, <1>9, <1>10, <1>11, <1>13, ClosedNext

LEMMA NewManifestPreserves ==
  ASSUME CrInv, NewManifest
  PROVE  CrInv'
<1> PICK e : e = Pending
  OBVIOUS
<1> PICK a : a = [add |-> version \cup rec.add, del |-> {}, log |-> logfile_number,
                  next |-> next_file_number, seq |-> last_sequence]
  OBVIOUS
<1> PICK g : g = [recs |-> <<a>>, synced |-> 0]
  OBVIOUS
<1>1. /\ pc = "manifest" /\ pc' = "install"
      /\ manifests' = Put(manifests, manifest_file_number, g)
      /\ UNCHANGED <<logs, tables, current, version, log_number, manifest_file_number,
                     next_file_number, last_sequence, logfile_number, mem, immut,
                     pending_outputs, rec, wr, flush, comp, pin, acked, durable, lost, writes>>
  BY Zenon DEF NewManifest, vset, memory, background, history, counts
<1>2. Opening
  BY <1>1 DEF Opening
<1>3. /\ DiskType(logs, manifests, tables) /\ MemoryType /\ EntriesInv(logs, tables, writes)
      /\ ClosedInv /\ OpenInv /\ ReplayInv /\ e.next \in Nat /\ e.next < next_file_number
      /\ manifest_file_number = e.next /\ current < e.next
  BY <1>2, OpeningIs
<1>4. a \in EditRec
  <2>1. version \cup rec.add \in SUBSET Nat
    BY <1>3 DEF MemoryType, OpenRec
  <2>2. next_file_number \in Nat \ {0} /\ logfile_number \in Nat /\ last_sequence \in Nat
    BY <1>3 DEF MemoryType
  <2> QED
    BY <2>1, <2>2 DEF EditRec
<1>5. /\ Files(manifests', FileOf(EditRec))
      /\ IsPut(manifests', manifests, manifest_file_number, g)
  <2>1. Files(manifests, FileOf(EditRec)) /\ manifest_file_number \in Nat
    BY <1>3 DEF DiskType
  <2>2. g \in FileOf(EditRec)
    BY <1>4, FileOfOne
  <2> QED
    BY <1>1, <2>1, <2>2, PutIs, Zenon
<1>6. /\ manifest_file_number \in DOMAIN manifests' /\ manifests'[manifest_file_number] = g
      /\ current \in DOMAIN manifests => /\ current \in DOMAIN manifests'
                                         /\ manifests'[current] = manifests[current]
  BY <1>3, <1>5 DEF IsPut, MemoryType
<1>7. DiskType(logs, manifests, tables)' /\ EntriesInv(logs, tables, writes)'
  BY <1>1, <1>3, <1>5 DEF DiskType
<1>8. CurrentInv' /\ HistoryInv'
  BY <1>1, <1>2, <1>6, <1>7, OpenStays
<1>9. MemoryType' /\ ClosedInv' /\ ~Running'
  BY <1>1, <1>3 DEF MemoryType, ClosedInv, Running, PcStates
<1>10. ReplayInv'
  <2>1. manifests'[current'] = manifests[current]
    BY <1>1, <1>2, <1>6, OpeningIs
  <2>2. Pending' = Pending
    BY <2>1 DEF Pending
  <2>3. \A x, m : LogHas(x, m)' <=> LogHas(x, m)
    BY <1>1 DEF LogHas
  <2>4. (\A i \in acked \ lost :
           \/ i \in Ids(DataOf(tables, version \cup rec.add))
           \/ \E m \in rec.todo : \E x \in EntryRec : x.id = i /\ LogHas(x, m))'
    BY <1>1, <1>3, <2>3 DEF ReplayInv
  <2> QED
    BY <1>1, <1>3, <2>1, <2>2, <2>4 DEF ReplayInv
<1>11. OpenInv'
  BY <1>1, <1>3, <1>6, <1>10 DEF OpenInv
<1> QED
  BY <1>7, <1>8, <1>9, <1>11, ClosedNext

LEMMA SetCurrentFilePreserves ==
  ASSUME CrInv, SafeFaults, SetCurrentFile
  PROVE  CrInv'
<1> PICK e : e = Pending
  OBVIOUS
<1> PICK n : n = manifest_file_number
  OBVIOUS
<1> PICK a : a = [add |-> version \cup rec.add, del |-> {}, log |-> logfile_number,
                  next |-> next_file_number, seq |-> last_sequence]
  OBVIOUS
<1> PICK g : g = manifests[n]
  OBVIOUS
<1> PICK h : h = Sync(g)
  OBVIOUS
<1>1. /\ pc = "install" /\ pc' = "cleanup" /\ current' = n /\ rec' = NoRec
      /\ manifests' = [manifests EXCEPT ![n] = Sync(@)]
      /\ version' = version \cup rec.add /\ log_number' = logfile_number
      /\ UNCHANGED <<logs, tables, manifest_file_number, next_file_number, last_sequence,
                     logfile_number, mem, immut, pending_outputs, wr, flush, comp, pin, acked,
                     durable, lost, writes>>
  <2>1. manifests' = [manifests EXCEPT ![n] = Sync(@)]
    BY DEF SetCurrentFile, SyncManifest, Fault, SafeFaults
  <2> QED
    BY <2>1, Zenon DEF SetCurrentFile, memory, background, history
<1>2. Opening
  BY <1>1 DEF Opening
<1>3. /\ DiskType(logs, manifests, tables) /\ MemoryType /\ EntriesInv(logs, tables, writes)
      /\ ClosedInv /\ OpenInv /\ ReplayInv /\ e \in EditRec /\ e.next \in Nat
      /\ e.next < next_file_number /\ n = e.next /\ current < e.next /\ HistoryInv
      /\ EndsWell(e, version, tables, current, writes)
  BY <1>2, OpeningIs
<1>4. /\ n \in DOMAIN manifests /\ g = [recs |-> <<a>>, synced |-> 0] /\ rec.todo = {}
      /\ rec.max <= last_sequence /\ logfile_number \in DOMAIN logs
      /\ logs[logfile_number] = EmptyLog /\ logfile_number < next_file_number
      /\ \A m \in DOMAIN logs : m <= logfile_number
  BY <1>1, <1>3 DEF OpenInv
<1>5. /\ a \in EditRec /\ a.add = version \cup rec.add /\ a.log = logfile_number
      /\ a.next = next_file_number /\ a.seq = last_sequence
  <2>1. version \cup rec.add \in SUBSET Nat
    BY <1>3 DEF MemoryType, OpenRec
  <2>2. next_file_number \in Nat \ {0} /\ logfile_number \in Nat /\ last_sequence \in Nat
    BY <1>3 DEF MemoryType
  <2> QED
    BY <2>1, <2>2 DEF EditRec
<1>6. /\ h \in FileOf(EditRec) /\ h.recs = <<a>> /\ h.synced = 1 /\ Len(h.recs) = 1
      /\ h.recs[1] = a /\ Names(h, 1) = a.add
  <2>1. g \in FileOf(EditRec) /\ g.recs = <<a>> /\ Len(g.recs) = 1 /\ g.recs[1] = a
    BY <1>4, <1>5, FileOfOne
  <2>2. h \in FileOf(EditRec) /\ h.recs = g.recs /\ h.synced = Len(g.recs)
    BY <2>1, SyncIs
  <2>3. h.recs = <<a>>
    BY <2>1, <2>2
  <2>4. Names(h, 1) = a.add
    BY <1>5, <2>3, NamesOfOne
  <2> QED
    BY <2>1, <2>2, <2>3, <2>4
<1>7. Files(manifests', FileOf(EditRec)) /\ n \in DOMAIN manifests' /\ manifests'[n] = h
  <2>1. manifests' = [manifests EXCEPT ![n] = h]
    BY <1>1
  <2> QED
    BY <1>3, <1>4, <1>6, <2>1 DEF DiskType, Files
<1>8. DiskType(logs, manifests, tables)' /\ EntriesInv(logs, tables, writes)'
  BY <1>1, <1>3, <1>7 DEF DiskType
<1>9. MemoryType' /\ Running'
  <2>1. rec' \in OpenRec
    BY <1>1 DEF NoRec, OpenRec
  <2>2. version' \in SUBSET Nat /\ log_number' \in Nat /\ current' \in Nat /\ pc' \in PcStates
    BY <1>1, <1>3 DEF MemoryType, OpenRec, PcStates
  <2> QED
    BY <1>1, <1>3, <2>1, <2>2 DEF MemoryType, Running
<1>10. /\ n \in Nat /\ n # 0 /\ writes \in Nat /\ last_sequence \in Nat /\ rec.max \in Nat
       /\ e.seq \in Nat /\ e.seq <= last_sequence /\ last_sequence <= writes
       /\ next_file_number \in Nat /\ current \in Nat /\ logfile_number \in Nat
  BY <1>3 DEF MemoryType, OpenRec, ReplayInv, EditRec
<1>11. \A t \in version \cup rec.add :
         /\ t \in DOMAIN tables /\ tables[t].whole /\ t < next_file_number
         /\ \A x \in tables[t].data : x.seq <= last_sequence
  <2>1. \A t \in DOMAIN tables : t \in Nat /\ \A x \in tables[t].data : x.seq \in Nat
    BY <1>3 DEF DiskType, Files, TableRec, EntryRec
  <2>2. ASSUME NEW t \in version
        PROVE  /\ t \in DOMAIN tables /\ tables[t].whole /\ t < next_file_number
               /\ \A x \in tables[t].data : x.seq <= last_sequence
    <3>1. /\ t \in DOMAIN tables /\ tables[t].whole /\ t < e.next
          /\ \A x \in tables[t].data : x.seq <= e.seq
      BY <1>3 DEF EndsWell
    <3> QED
      BY <1>3, <1>10, <2>1, <3>1
  <2>3. ASSUME NEW t \in rec.add
        PROVE  /\ t \in DOMAIN tables /\ tables[t].whole /\ t < next_file_number
               /\ \A x \in tables[t].data : x.seq <= last_sequence
    <3>1. /\ t \in DOMAIN tables /\ tables[t].whole /\ t < next_file_number
          /\ \A x \in tables[t].data : x.seq <= rec.max
      BY <1>3 DEF ReplayInv
    <3> QED
      BY <1>4, <1>10, <2>1, <3>1
  <2> QED
    BY <2>2, <2>3
<1>12. CurrentInv'
  <2>1. EndsWell(a, a.add, tables, n, writes)
    BY <1>3, <1>4, <1>5, <1>10, <1>11 DEF EndsWell
  <2>2. \A k \in 1..1 : k = 1
    OBVIOUS
  <2>3. ManifestInv(h, tables, n, writes)
    BY <1>5, <1>6, <1>10, <2>1, <2>2 DEF ManifestInv
  <2> QED
    BY <1>1, <1>6, <1>7, <1>10, <2>3 DEF CurrentInv
<1>13. /\ mem = {} /\ immut = {} /\ pending_outputs = {} /\ wr.pc = "idle"
       /\ flush.pc = "idle" /\ comp = NoComp /\ pin = {}
  BY <1>3 DEF ClosedInv, NoWrite, NoFlush
<1>14. RunInv'
  <2>1. /\ comp.pc = "idle" /\ comp.inputs = {} /\ comp.outputs = {} /\ comp.open = 0
        /\ comp.left = {}
    BY <1>13 DEF NoComp
  <2>2. Logged' = a /\ Pending' = a
    BY <1>1, <1>6, <1>7 DEF Logged, Pending
  <2>3. VersionInv'
    <3>1. manifests'[current'] = h /\ current' # 0 /\ current' = manifest_file_number'
      BY <1>1, <1>7, <1>10
    <3>2. version' = Names(h, h.synced) /\ h.synced # 0 /\ Len(h.recs) = h.synced
      BY <1>1, <1>5, <1>6
    <3>3. Logged'.log = log_number' /\ Pending'.next <= next_file_number'
      BY <1>1, <1>5, <1>10, <2>2
    <3>4. flush'.pc = "idle" /\ comp'.pc = "idle"
      BY <1>1, <1>13, <2>1
    <3> QED
      BY <3>1, <3>2, <3>3, <3>4 DEF VersionInv
  <2>4. FlushInv' /\ PinInv'
    BY <1>1, <1>13 DEF FlushInv, PinInv
  <2>5. CompInv'
    <3>1. DataOf(tables', {}) = {} /\ comp'.outputs \ {comp'.open} = {}
      BY <1>1, <2>1 DEF DataOf
    <3> QED
      BY <1>1, <1>13, <2>1, <3>1 DEF CompInv
  <2>6. LogsInv'
    BY <1>1, <1>4, <1>10 DEF LogsInv
  <2> QED
    BY <2>3, <2>4, <2>5, <2>6 DEF RunInv
<1>15. SequenceInv'
  <2>1. Live' = version \cup rec.add
    BY <1>1, <1>13 DEF Live, NoComp
  <2>2. \A t \in DOMAIN tables' : pc' = "up" \/ t \in Live' =>
          \A x \in tables'[t].data : x.seq <= last_sequence'
    BY <1>1, <1>11, <2>1
  <2>3. \A m \in DOMAIN logs' : pc' = "up" \/ m >= log_number' =>
          \A i \in 1..Len(logs'[m].recs) : FALSE
    <3>1. ASSUME NEW m \in DOMAIN logs, m >= logfile_number
          PROVE  \A i \in 1..Len(logs[m].recs) : FALSE
      <4>1. m \in Nat
        BY <1>3 DEF DiskType, Files
      <4>2. m = logfile_number
        BY <1>4, <1>10, <3>1, <4>1
      <4> QED
        BY <1>4, <4>2, EmptyLogIs
    <3> QED
      BY <1>1, <3>1
  <2> QED
    BY <1>1, <1>10, <1>13, <2>2, <2>3 DEF SequenceInv
<1>16. DataInv'
  <2>1. \A i \in acked \ lost : i \in Ids(DataOf(tables, version \cup rec.add))
    BY <1>3, <1>4 DEF ReplayInv
  <2>2. NothingIsMissing'
    <3>1. \A i \in acked \ lost :
            i \in Ids(mem' \cup immut' \cup DataOf(tables', version'))
      BY <1>1, <2>1 DEF Ids
    <3> QED
      BY <1>1, <3>1 DEF NothingIsMissing
  <2>3. DurableIsFirm'
    <3>1. ASSUME NEW i \in durable
          PROVE  \E x : x.id = i /\ x \in DataOf(tables, version \cup rec.add)
      <4>1. i \in acked \ lost
        BY <1>3 DEF HistoryInv
      <4> QED
        BY <2>1, <4>1 DEF Ids
    <3>2. \A x : x \in DataOf(tables, version \cup rec.add) => IsFirm(x)'
      BY <1>1 DEF IsFirm
    <3> QED
      BY <1>1, <3>1, <3>2 DEF DurableIsFirm
  <2>4. MemTablesAreLogged' /\ WriteIsLogged'
    BY <1>1, <1>13 DEF MemTablesAreLogged, WriteIsLogged
  <2> QED
    BY <2>2, <2>3, <2>4 DEF DataInv
<1>17. /\ durable' \subseteq acked' /\ lost' \subseteq acked' /\ durable' \cap lost' = {}
       /\ \A i \in acked' : i # 0 /\ i <= writes'
  BY <1>1, <1>3 DEF HistoryInv
<1> QED
  BY <1>8, <1>9, <1>12, <1>14, <1>15, <1>16, <1>17, RunningNext

-----------------------------------------------------------------------------
(* Crashes.  What is left of a file is a part of it that has what was synced. *)
ShorterBy(g, f) ==
  /\ f.synced <= g.synced /\ Len(g.recs) <= Len(f.recs)
  /\ \A i \in 1..Len(g.recs) : g.recs[i] = f.recs[i]

(* Only DeleteObsoleteFiles was removing files.                              *)
CrashLeaves ==
  /\ DiskType(logs, manifests, tables)'
  /\ \A n \in DOMAIN logs' : n \in DOMAIN logs /\ ShorterBy(logs'[n], logs[n])
  /\ \A n \in DOMAIN manifests' :
       n \in DOMAIN manifests /\ ShorterBy(manifests'[n], manifests[n])
  /\ \A n \in DOMAIN tables' : n \in DOMAIN tables /\ tables'[n] = tables[n]
  /\ \A n \in DOMAIN logs : pc # "cleanup" \/ n >= log_number => n \in DOMAIN logs'
  /\ \A n \in DOMAIN manifests :
       pc # "cleanup" \/ n >= manifest_file_number => n \in DOMAIN manifests'
  /\ \A n \in DOMAIN tables : pc # "cleanup" \/ n \in Live => n \in DOMAIN tables'

LEMMA SurvivorsAre ==
  ASSUME NEW R, NEW fs, Files(fs, FileOf(R)), NEW L \in Survivors(fs)
  PROVE  /\ Files(L, FileOf(R)) /\ DOMAIN L = DOMAIN fs
         /\ \A n \in DOMAIN L : ShorterBy(L[n], fs[n])
<1>1. PICK k :
        /\ L = [n \in DOMAIN fs |-> [recs |-> SubSeq(fs[n].recs, 1, k[n]), synced |-> k[n]]]
        /\ \A n \in DOMAIN fs : k[n] \in fs[n].synced..Len(fs[n].recs)
  BY DEF Survivors
<1>2. ASSUME NEW n \in DOMAIN fs
      PROVE  L[n] \in FileOf(R) /\ ShorterBy(L[n], fs[n])
  <2>1. fs[n] \in FileOf(R) /\ k[n] \in fs[n].synced..Len(fs[n].recs)
    BY <1>1 DEF Files
  <2>2. L[n] = [recs |-> SubSeq(fs[n].recs, 1, k[n]), synced |-> k[n]]
    BY <1>1
  <2>3. /\ L[n] \in FileOf(R) /\ L[n].synced = k[n] /\ Len(L[n].recs) = k[n]
        /\ \A i \in 1..k[n] : L[n].recs[i] = fs[n].recs[i]
    BY <2>1, <2>2, CutIs
  <2>4. fs[n].synced \in Nat /\ Len(fs[n].recs) \in Nat
    BY <2>1, FileIs
  <2> QED
    BY <2>1, <2>3, <2>4 DEF ShorterBy
<1>3. DOMAIN L = DOMAIN fs /\ L = [n \in DOMAIN L |-> L[n]]
  BY <1>1
<1> QED
  BY <1>2, <1>3 DEF Files

(* gs is what is left of fs when DeleteObsoleteFiles may have removed S.     *)
IsRest(gs, fs, S) ==
  /\ \A n \in DOMAIN gs : n \in DOMAIN fs /\ gs[n] = fs[n]
  /\ \A n \in DOMAIN fs : pc # "cleanup" \/ n \notin S => n \in DOMAIN gs

LEMMA WithoutSome ==
  ASSUME NEW R, NEW fs, Files(fs, R), NEW S, NEW D \in SomeOf(S)
  PROVE  Files(Without(fs, D), R) /\ IsRest(Without(fs, D), fs, S)
<1>1. Files(Without(fs, D), R) /\ IsCut(Without(fs, D), fs, D)
  BY WithoutIs
<1>2. pc # "cleanup" => D = {}
  BY DEF SomeOf
<1>3. D \subseteq S \/ D = {}
  BY DEF SomeOf
<1> QED
  BY <1>1, <1>2, <1>3 DEF IsCut, IsRest

LEMMA CrashLeavesFiles ==
  ASSUME DiskType(logs, manifests, tables), MemoryType,
         NEW l \in SomeOf(ObsoleteLogs), NEW m \in SomeOf(ObsoleteManifests),
         NEW t \in SomeOf(ObsoleteTables),
         tables' = Without(tables, t),
         \/ logs' = Without(logs, l) /\ manifests' = Without(manifests, m)
         \/ /\ logs' \in Survivors(Without(logs, l))
            /\ manifests' \in Survivors(Without(manifests, m))
  PROVE  CrashLeaves
<1> PICK L : L = Without(logs, l)
  OBVIOUS
<1> PICK M : M = Without(manifests, m)
  OBVIOUS
<1>0. /\ Files(logs, FileOf(EntryRec)) /\ Files(manifests, FileOf(EditRec))
      /\ Files(tables, TableRec)
  BY DEF DiskType
<1>1. Files(L, FileOf(EntryRec)) /\ IsRest(L, logs, ObsoleteLogs)
  BY <1>0, WithoutSome, Zenon
<1>2. Files(M, FileOf(EditRec)) /\ IsRest(M, manifests, ObsoleteManifests)
  BY <1>0, WithoutSome, Zenon
<1>3. Files(tables', TableRec) /\ IsRest(tables', tables, ObsoleteTables)
  BY <1>0, WithoutSome, Zenon
<1>4. \A R, f : f \in FileOf(R) => ShorterBy(f, f)
  <2> SUFFICES ASSUME NEW R, NEW f \in FileOf(R)
               PROVE  ShorterBy(f, f)
    OBVIOUS
  <2>1. f.synced \in Nat /\ Len(f.recs) \in Nat
    BY FileIs
  <2> QED
    BY <2>1 DEF ShorterBy
<1>5. /\ Files(logs', FileOf(EntryRec)) /\ DOMAIN logs' = DOMAIN L
      /\ \A n \in DOMAIN logs' : ShorterBy(logs'[n], L[n])
  <2>1. CASE logs' = L
    BY <1>1, <1>4, <2>1 DEF Files
  <2>2. CASE logs' \in Survivors(L)
    BY <1>1, <2>2, SurvivorsAre
  <2> QED
    BY <2>1, <2>2
<1>6. /\ Files(manifests', FileOf(EditRec)) /\ DOMAIN manifests' = DOMAIN M
      /\ \A n \in DOMAIN manifests' : ShorterBy(manifests'[n], M[n])
  <2>1. CASE manifests' = M
    BY <1>2, <1>4, <2>1 DEF Files
  <2>2. CASE manifests' \in Survivors(M)
    BY <1>2, <2>2, SurvivorsAre
  <2> QED
    BY <2>1, <2>2
<1>7. /\ \A n \in DOMAIN logs : n >= log_number => n \notin ObsoleteLogs
      /\ \A n \in DOMAIN manifests : n >= manifest_file_number => n \notin ObsoleteManifests
      /\ \A n \in Live : n \notin ObsoleteTables
  <2>1. /\ log_number \in Nat /\ manifest_file_number \in Nat
        /\ \A n \in DOMAIN logs : n \in Nat
        /\ \A n \in DOMAIN manifests : n \in Nat
    BY DEF MemoryType, DiskType, Files
  <2> QED
    BY <2>1 DEF ObsoleteLogs, ObsoleteManifests, ObsoleteTables
<1>8. DiskType(logs, manifests, tables)'
  BY <1>3, <1>5, <1>6 DEF DiskType
<1>9. /\ \A n \in DOMAIN logs' : n \in DOMAIN logs /\ ShorterBy(logs'[n], logs[n])
      /\ \A n \in DOMAIN logs : pc # "cleanup" \/ n >= log_number => n \in DOMAIN logs'
  BY <1>1, <1>5, <1>7 DEF IsRest
<1>10. /\ \A n \in DOMAIN manifests' :
            n \in DOMAIN manifests /\ ShorterBy(manifests'[n], manifests[n])
       /\ \A n \in DOMAIN manifests :
            pc # "cleanup" \/ n >= manifest_file_number => n \in DOMAIN manifests'
  BY <1>2, <1>6, <1>7 DEF IsRest
<1>11. /\ \A n \in DOMAIN tables' : n \in DOMAIN tables /\ tables'[n] = tables[n]
       /\ \A n \in DOMAIN tables : pc # "cleanup" \/ n \in Live => n \in DOMAIN tables'
  BY <1>3, <1>7 DEF IsRest
<1> QED
  BY <1>8, <1>9, <1>10, <1>11 DEF CrashLeaves

(* Whatever is left of the MANIFEST ends with an edit that was there, and the *)
(* tables and the logs that this edit makes DB::Open read are there.         *)
LEMMA CrashLeavesReadable ==
  ASSUME CrInv, CrashLeaves, current # 0,
         NEW f, f = manifests[current], NEW g, g = manifests'[current]
  PROVE  /\ f \in FileOf(EditRec) /\ current \in DOMAIN manifests
         /\ current \in DOMAIN manifests' /\ g \in FileOf(EditRec) /\ ShorterBy(g, f)
         /\ \A k \in g.synced..Len(g.recs) :
              /\ k \in f.synced..Len(f.recs) /\ k \in 0..Len(g.recs)
              /\ k # 0 =>
                   /\ Names(f, k) = Names(g, k) /\ f.recs[k] = g.recs[k]
                   /\ \A t \in Names(f, k) : t \in DOMAIN tables' /\ tables'[t] = tables[t]
                   /\ \A n \in DOMAIN logs : n >= f.recs[k].log => n \in DOMAIN logs'
<1>1. /\ DiskType(logs, manifests, tables) /\ MemoryType /\ CurrentInv
      /\ DiskType(logs, manifests, tables)' /\ current \in Nat
  BY DEF CrInv, CrashLeaves, MemoryType
<1>2. /\ f \in FileOf(EditRec) /\ current \in DOMAIN manifests
      /\ ManifestInv(f, tables, current, writes)
  BY <1>1 DEF CurrentInv, DiskType, Files
<1>3. pc = "cleanup" => /\ RunInv /\ current = manifest_file_number /\ Len(f.recs) = f.synced
                        /\ version \subseteq Live
  <2>1. pc = "cleanup" => RunInv
    BY DEF CrInv, Running
  <2> QED
    BY <1>1, <2>1, CleanupIs
<1>4. current \in DOMAIN manifests'
  BY <1>1, <1>2, <1>3 DEF CrashLeaves
<1>5. g \in FileOf(EditRec) /\ ShorterBy(g, f)
  BY <1>1, <1>4 DEF CrashLeaves, DiskType, Files
<1>6. /\ f.recs \in Seq(EditRec) /\ Len(f.recs) \in Nat /\ f.synced \in Nat
      /\ g.recs \in Seq(EditRec) /\ Len(g.recs) \in Nat /\ g.synced \in Nat
      /\ g.synced <= Len(g.recs)
  BY <1>2, <1>5, FileIs
<1>7. ASSUME NEW k \in g.synced..Len(g.recs)
      PROVE  k \in f.synced..Len(f.recs) /\ k \in 0..Len(g.recs)
  BY <1>5, <1>6 DEF ShorterBy
<1>8. ASSUME NEW k \in g.synced..Len(g.recs), k # 0
      PROVE  /\ Names(f, k) = Names(g, k) /\ f.recs[k] = g.recs[k]
             /\ \A t \in Names(f, k) : t \in DOMAIN tables' /\ tables'[t] = tables[t]
             /\ \A n \in DOMAIN logs : n >= f.recs[k].log => n \in DOMAIN logs'
  <2>1. k \in f.synced..Len(f.recs) /\ k \in 1..Len(g.recs) /\ k \in 1..Len(f.recs)
    BY <1>5, <1>6, <1>8 DEF ShorterBy
  <2>2. \A i \in 1..k : f.recs[i] = g.recs[i]
    BY <1>5, <1>6, <2>1 DEF ShorterBy
  <2>3. f.recs[k] = g.recs[k]
    BY <1>6, <2>1, <2>2
  <2>4. Names(f, k) = Names(g, k)
    <3>1. k \in 0..Len(f.recs) /\ k <= Len(g.recs)
      BY <1>6, <2>1
    <3> QED
      BY <1>6, <2>2, <3>1, NamesAgree
  <2>5. CASE pc # "cleanup"
    <3>1. \A t \in Names(f, k) : t \in DOMAIN tables
      BY <1>2, <1>8, <2>1 DEF ManifestInv, EndsWell
    <3> QED
      BY <2>3, <2>4, <2>5, <3>1 DEF CrashLeaves
  <2>6. CASE pc = "cleanup"
    <3>1. RunInv /\ VersionInv
      BY <1>3, <2>6 DEF RunInv
    <3>2. k = f.synced /\ k = Len(f.recs)
      BY <1>3, <1>6, <2>1, <2>6
    <3>3. Names(f, k) = version /\ f.recs[k].log = log_number
      BY <3>1, <3>2 DEF VersionInv, Logged
    <3>4. \A t \in version : t \in DOMAIN tables
      BY <1>1, <3>1, VersionTables
    <3>5. \A t \in version : t \in DOMAIN tables' /\ tables'[t] = tables[t]
      BY <1>3, <2>6, <3>4 DEF CrashLeaves
    <3> QED
      BY <2>3, <2>4, <3>3, <3>5 DEF CrashLeaves
  <2> QED
    BY <2>5, <2>6
<1> QED
  BY <1>2, <1>4, <1>5, <1>7, <1>8

LEMMA CrashLeavesManifest ==
  ASSUME CrInv, CrashLeaves, UNCHANGED <<current, writes>>, pc' = "down"
  PROVE  CurrentInv'
<1>1. CurrentInv
  BY DEF CrInv
<1>2. CASE current = 0
  <2>1. writes' = 0 /\ current' = 0 /\ current' \notin DOMAIN manifests'
    BY <1>1, <1>2 DEF CurrentInv, CrashLeaves
  <2> QED
    BY <2>1 DEF CurrentInv
<1>3. CASE current # 0
  <2> DEFINE f == manifests[current]
  <2> PICK g : g = manifests'[current]
    OBVIOUS
  <2>1. /\ f \in FileOf(EditRec) /\ g \in FileOf(EditRec) /\ ShorterBy(g, f)
        /\ current \in DOMAIN manifests'
        /\ \A k \in g.synced..Len(g.recs) :
             /\ k \in f.synced..Len(f.recs)
             /\ k # 0 =>
                  /\ Names(f, k) = Names(g, k) /\ f.recs[k] = g.recs[k]
                  /\ \A t \in Names(f, k) : t \in DOMAIN tables' /\ tables'[t] = tables[t]
    <3> HIDE DEF f
    <3> QED
      BY <1>3, CrashLeavesReadable DEF f
  <2>2. ManifestInv(f, tables, current, writes) /\ (writes # 0 => f.synced # 0)
    BY <1>1, <1>3 DEF CurrentInv
  <2> HIDE DEF f
  <2>3. /\ Len(f.recs) \in Nat /\ f.synced \in Nat /\ Len(g.recs) \in Nat /\ g.synced \in Nat
        /\ g.synced <= Len(g.recs)
    BY <2>1, FileIs
  <2>4. Len(g.recs) <= g.synced + 1 /\ (writes # 0 => g.synced # 0)
    BY <2>1, <2>2, <2>3 DEF ManifestInv, ShorterBy
  <2>5. ASSUME NEW k \in g.synced..Len(g.recs), k # 0
        PROVE  /\ EndsWell(g.recs[k], Names(g, k), tables', current, writes)
               /\ g.recs[k].next <= g.recs[Len(g.recs)].next
    <3>1. /\ k \in f.synced..Len(f.recs) /\ Names(f, k) = Names(g, k) /\ f.recs[k] = g.recs[k]
          /\ \A t \in Names(f, k) : t \in DOMAIN tables' /\ tables'[t] = tables[t]
      BY <2>1, <2>5
    <3>2. /\ EndsWell(f.recs[k], Names(f, k), tables, current, writes)
          /\ f.recs[k].next <= f.recs[Len(f.recs)].next
      BY <2>2, <2>5, <3>1 DEF ManifestInv
    <3>3. EndsWell(g.recs[k], Names(g, k), tables', current, writes)
      BY <3>1, <3>2 DEF EndsWell
    <3>4. g.recs[k].next \in Nat
      <4>1. k \in 1..Len(g.recs)
        BY <2>3, <2>5
      <4> QED
        BY <2>1, <4>1, EditIs
    <3>5. k = Len(g.recs) \/ Len(g.recs) = Len(f.recs)
      BY <2>1, <2>2, <2>3, <2>5 DEF ManifestInv, ShorterBy
    <3>6. Len(g.recs) # 0 /\ Len(g.recs) \in g.synced..Len(g.recs)
      BY <2>3, <2>5
    <3>7. f.recs[Len(g.recs)] = g.recs[Len(g.recs)]
      BY <2>1, <3>6
    <3>8. g.recs[k].next <= g.recs[Len(g.recs)].next
      BY <3>1, <3>2, <3>4, <3>5, <3>7
    <3> QED
      BY <3>3, <3>8
  <2>6. ManifestInv(g, tables', current, writes)
    BY <2>4, <2>5 DEF ManifestInv
  <2> QED
    BY <1>3, <2>1, <2>4, <2>6 DEF CurrentInv
<1> QED
  BY <1>2, <1>3

LEMMA CrashLeavesEntries ==
  ASSUME CrInv, CrashLeaves, UNCHANGED writes
  PROVE  EntriesInv(logs, tables, writes)'
<1>1. /\ DiskType(logs, manifests, tables) /\ DiskType(logs, manifests, tables)'
      /\ EntriesInv(logs, tables, writes) /\ writes \in Nat
  BY DEF CrInv, CrashLeaves, MemoryType
<1>2. ASSUME NEW x, InLog(x, logs')
      PROVE  InLog(x, logs)
  <2>1. PICK n \in DOMAIN logs' : \E i \in 1..Len(logs'[n].recs) : x = logs'[n].recs[i]
    BY <1>2 DEF InLog
  <2>2. PICK i \in 1..Len(logs'[n].recs) : x = logs'[n].recs[i]
    BY <2>1
  <2>3. n \in DOMAIN logs /\ ShorterBy(logs'[n], logs[n])
    BY DEF CrashLeaves
  <2>4. Len(logs'[n].recs) \in Nat /\ Len(logs[n].recs) \in Nat
    BY <1>1, <2>3, FileIs DEF DiskType, Files
  <2>5. i \in 1..Len(logs[n].recs) /\ x = logs[n].recs[i]
    BY <2>2, <2>3, <2>4 DEF ShorterBy
  <2> QED
    BY <2>3, <2>5 DEF InLog
<1>3. \A x : InTable(x, tables') => InTable(x, tables)
  BY DEF InTable, CrashLeaves
<1>4. \A x \in EntryRec : OnFile(x, logs', tables') => OnFile(x, logs, tables)
  BY <1>2, <1>3 DEF OnFile
<1> QED
  BY <1>1, <1>4, EntriesShrink

(* What was synced is found again, whatever the crash leaves.                *)
LEMMA CrashKeepsSynced ==
  ASSUME CrInv, CrashLeaves, current # 0, NEW g, g = manifests'[current]
  PROVE  Survives(durable, g, logs', tables') /\ Kept(durable, g, logs', tables')
<1> DEFINE f == manifests[current]
           s == [n \in DOMAIN logs |-> logs[n].synced]
           s1 == [n \in DOMAIN logs' |-> logs'[n].synced]
           a1 == [n \in DOMAIN logs' |-> Len(logs'[n].recs)]
<1>1. /\ f \in FileOf(EditRec) /\ g \in FileOf(EditRec) /\ current \in DOMAIN manifests
      /\ \A k \in g.synced..Len(g.recs) :
           /\ k \in f.synced..Len(f.recs)
           /\ k # 0 =>
                /\ Names(f, k) = Names(g, k) /\ f.recs[k] = g.recs[k]
                /\ \A t \in Names(f, k) : t \in DOMAIN tables' /\ tables'[t] = tables[t]
                /\ \A n \in DOMAIN logs : n >= f.recs[k].log => n \in DOMAIN logs'
  <2> HIDE DEF f
  <2> QED
    BY CrashLeavesReadable DEF f
<1>2. /\ DiskType(logs, manifests, tables) /\ DiskType(logs, manifests, tables)'
      /\ SyncedWritesSurvive
  BY DEF CrInv, CrashLeaves, HistoryInv
<1>3. Survives(durable, f, logs, tables)
  BY <1>1, <1>2, SurvivesIs
<1>4. ASSUME NEW n \in DOMAIN logs, n \in DOMAIN logs', NEW i \in 1..s[n]
      PROVE  i \in 1..s1[n] /\ i \in 1..a1[n] /\ logs'[n].recs[i] = logs[n].recs[i]
  <2>1. ShorterBy(logs'[n], logs[n])
    BY <1>4 DEF CrashLeaves
  <2>2. /\ logs[n].synced \in Nat /\ logs'[n].synced \in Nat /\ Len(logs'[n].recs) \in Nat
        /\ logs'[n].synced <= Len(logs'[n].recs)
    BY <1>2, <1>4, FileIs DEF DiskType, Files
  <2>3. i \in 1..logs[n].synced
    BY <1>4
  <2>4. i \in 1..logs'[n].synced /\ i \in 1..Len(logs'[n].recs)
    BY <2>1, <2>2, <2>3 DEF ShorterBy
  <2> QED
    BY <1>4, <2>1, <2>4 DEF ShorterBy
<1>5. ASSUME NEW k \in g.synced..Len(g.recs), NEW i \in durable
      PROVE  /\ k # 0 /\ \E x : x.id = i /\ Finds(x, g, k, logs', tables', s1)
             /\ \E x : x.id = i /\ Finds(x, g, k, logs', tables', a1)
  <2>1. k \in f.synced..Len(f.recs)
    BY <1>1
  <2>2. PICK x : k # 0 /\ x.id = i /\ Finds(x, f, k, logs, tables, s)
    BY <1>3, <2>1 DEF Survives
  <2>3. /\ Names(f, k) = Names(g, k) /\ f.recs[k].log = g.recs[k].log
        /\ \A t \in Names(f, k) :
             t \in DOMAIN tables => t \in DOMAIN tables' /\ tables'[t] = tables[t]
    BY <1>1, <2>2
  <2> HIDE DEF f, s, s1, a1
  <2>4. \A n \in DOMAIN logs : n >= f.recs[k].log =>
          /\ n \in DOMAIN logs'
          /\ \A j \in 1..s[n] : j \in 1..s1[n] /\ j \in 1..a1[n]
                                /\ logs'[n].recs[j] = logs[n].recs[j]
    BY <1>1, <1>4, <2>2
  <2>5. Finds(x, g, k, logs', tables', s1)
    BY <2>2, <2>3, <2>4, StillFinds
  <2>6. Finds(x, g, k, logs', tables', a1)
    BY <2>2, <2>3, <2>4, StillFinds
  <2> QED
    BY <2>2, <2>5, <2>6
<1>6. Survives(durable, g, logs', tables')
  <2> HIDE DEF f, s, a1
  <2> QED
    BY <1>5 DEF Survives
<1>7. Kept(durable, g, logs', tables')
  <2>1. Len(g.recs) \in g.synced..Len(g.recs)
    BY <1>1, FileIs
  <2> HIDE DEF f, s, s1
  <2> QED
    BY <1>5, <2>1 DEF Kept
<1> QED
  BY <1>6, <1>7

LEMMA CrashPreserves ==
  ASSUME CrInv, CrashLeaves, Exit, UNCHANGED <<current, acked, durable, writes>>,
         lost' \subseteq acked, durable \cap lost' = {}, AckedWritesAreOnDisk'
  PROVE  CrInv'
<1>1. MemoryType /\ HistoryInv /\ DiskType(logs, manifests, tables)'
  BY DEF CrInv, CrashLeaves
<1>2. lost' \in SUBSET Nat
  BY <1>1 DEF MemoryType
<1>3. MemoryType' /\ ClosedInv' /\ ~Running' /\ ~Opening'
  BY <1>1, <1>2, ExitIs
<1>4. CurrentInv' /\ EntriesInv(logs, tables, writes)'
  BY CrashLeavesManifest, CrashLeavesEntries DEF Exit
<1>5. SyncedWritesSurvive'
  <2>1. CASE current = 0
    <3>1. current' \notin DOMAIN manifests'
      BY <1>4, <2>1 DEF CurrentInv
    <3> QED
      BY <3>1 DEF SyncedWritesSurvive
  <2>2. CASE current # 0
    <3>1. current' \in DOMAIN manifests'
      BY <1>4, <2>2 DEF CurrentInv
    <3>2. Survives(durable', manifests'[current'], logs', tables')
      BY <2>2, CrashKeepsSynced
    <3> QED
      BY <1>1, <3>1, <3>2, SurvivesIsNext
  <2> QED
    BY <2>1, <2>2
<1>6. HistoryInv'
  BY <1>1, <1>5 DEF HistoryInv
<1> QED
  BY <1>1, <1>3, <1>4, <1>6, ClosedNext

LEMMA ProcessCrashPreserves ==
  ASSUME CrInv, ProcessCrash
  PROVE  CrInv'
<1>1. /\ pc # "down" /\ Exit /\ UNCHANGED <<current, acked, durable, lost, writes>>
      /\ \E l \in SomeOf(ObsoleteLogs), m \in SomeOf(ObsoleteManifests),
            t \in SomeOf(ObsoleteTables) :
           /\ logs' = Without(logs, l) /\ manifests' = Without(manifests, m)
           /\ tables' = Without(tables, t)
  BY DEF ProcessCrash, CrashWith
<1>2. /\ DiskType(logs, manifests, tables) /\ MemoryType /\ CurrentInv /\ HistoryInv
  BY DEF CrInv
<1>3. CrashLeaves
  BY <1>1, <1>2, CrashLeavesFiles
<1>4. /\ \A n \in DOMAIN logs' : logs'[n] = logs[n]
      /\ \A n \in DOMAIN manifests' : manifests'[n] = manifests[n]
  <2>1. PICK l \in SomeOf(ObsoleteLogs), m \in SomeOf(ObsoleteManifests) :
          logs' = Without(logs, l) /\ manifests' = Without(manifests, m)
    BY <1>1
  <2>2. Files(logs, FileOf(EntryRec)) /\ Files(manifests, FileOf(EditRec))
    BY <1>2 DEF DiskType
  <2>3. IsCut(logs', logs, l)
    BY <2>1, <2>2, WithoutIs, Zenon
  <2>4. IsCut(manifests', manifests, m)
    BY <2>1, <2>2, WithoutIs, Zenon
  <2> QED
    BY <2>3, <2>4 DEF IsCut
<1>5. AckedWritesAreOnDisk'
  <2> DEFINE f == manifests[current]
             a == [n \in DOMAIN logs |-> Len(logs[n].recs)]
             a1 == [n \in DOMAIN logs' |-> Len(logs'[n].recs)]
  <2> PICK g : g = manifests'[current]
    OBVIOUS
  <2>1. current # 0
    BY <1>1, <1>2 DEF CurrentInv
  <2>2. /\ f \in FileOf(EditRec) /\ current \in DOMAIN manifests
        /\ current \in DOMAIN manifests'
        /\ \A k \in g.synced..Len(g.recs) : k # 0 =>
             /\ \A t \in Names(f, k) : t \in DOMAIN tables' /\ tables'[t] = tables[t]
             /\ \A n \in DOMAIN logs : n >= f.recs[k].log => n \in DOMAIN logs'
    <3> HIDE DEF f
    <3> QED
      BY <1>3, <2>1, CrashLeavesReadable DEF f
  <2>3. g = f /\ Kept(acked \ lost, f, logs, tables)
    BY <1>2, <1>4, <2>2, AckedIs DEF HistoryInv
  <2>4. Kept(acked' \ lost', g, logs', tables')
    <3> SUFFICES ASSUME NEW i \in acked \ lost
                 PROVE  Len(f.recs) # 0 /\
                        \E x : x.id = i /\ Finds(x, f, Len(f.recs), logs', tables', a1)
      BY <1>1, <2>3 DEF Kept
    <3>1. PICK x : Len(f.recs) # 0 /\ x.id = i /\ Finds(x, f, Len(f.recs), logs, tables, a)
      BY <2>3 DEF Kept
    <3>2. \A n \in DOMAIN logs' :
            n \in DOMAIN logs => a1[n] = a[n] /\ logs'[n].recs = logs[n].recs
      BY <1>4
    <3> HIDE DEF f, a, a1
    <3>3. Len(f.recs) \in g.synced..Len(g.recs)
      BY <2>2, <2>3, FileIs
    <3>4. \A n \in DOMAIN logs : n >= f.recs[Len(f.recs)].log =>
            /\ n \in DOMAIN logs'
            /\ \A j \in 1..a[n] : j \in 1..a1[n] /\ logs'[n].recs[j] = logs[n].recs[j]
      BY <2>2, <3>1, <3>2, <3>3
    <3>5. \A t \in Names(f, Len(f.recs)) :
            t \in DOMAIN tables => t \in DOMAIN tables' /\ tables'[t] = tables[t]
      BY <2>2, <3>1, <3>3
    <3>6. Finds(x, f, Len(f.recs), logs', tables', a1)
      BY <3>1, <3>4, <3>5, StillFinds
    <3> QED
      BY <3>1, <3>6
  <2>5. /\ DiskType(logs, manifests, tables)' /\ current' \in DOMAIN manifests'
        /\ g = manifests'[current']
    BY <1>1, <1>3, <2>2 DEF CrashLeaves
  <2> QED
    BY <2>4, <2>5, AckedIsNext
<1>6. lost' \subseteq acked /\ durable \cap lost' = {}
  BY <1>1, <1>2 DEF HistoryInv
<1> QED
  BY <1>1, <1>3, <1>5, <1>6, CrashPreserves

(* Nothing was acknowledged before the first MANIFEST.                       *)
LEMMA NothingWithoutManifest ==
  ASSUME CrInv, current = 0
  PROVE  acked = {} /\ durable = {}
<1>1. writes = 0
  BY DEF CrInv, CurrentInv
<1>2. \A i \in acked : FALSE
  BY <1>1 DEF CrInv, HistoryInv, MemoryType
<1> QED
  BY <1>2 DEF CrInv, HistoryInv

LEMMA MachineCrashPreserves ==
  ASSUME CrInv, MachineCrash
  PROVE  CrInv'
<1> PICK S : S = Ids(OnDisk(logs', manifests', tables'))
  OBVIOUS
<1>1. /\ Exit /\ UNCHANGED <<current, acked, durable, writes>> /\ lost' = lost \cup (acked \ S)
      /\ \E l \in SomeOf(ObsoleteLogs), m \in SomeOf(ObsoleteManifests),
            t \in SomeOf(ObsoleteTables) :
           /\ logs' \in Survivors(Without(logs, l))
           /\ manifests' \in Survivors(Without(manifests, m))
           /\ tables' = Without(tables, t)
  BY DEF MachineCrash, CrashWith
<1>2. /\ DiskType(logs, manifests, tables) /\ MemoryType /\ CurrentInv /\ HistoryInv
  BY DEF CrInv
<1>3. CrashLeaves
  BY <1>1, <1>2, CrashLeavesFiles
<1>4. S = Ids(OnDisk(logs, manifests, tables))'
  BY <1>1 DEF OnDisk
<1>5. AckedWritesAreOnDisk'
  BY <1>1, <1>4 DEF AckedWritesAreOnDisk
<1>6. durable \subseteq S
  <2>1. CASE current = 0
    BY <2>1, NothingWithoutManifest
  <2>2. CASE current # 0
    <3> PICK g : g = manifests'[current]
      OBVIOUS
    <3>1. Kept(durable, g, logs', tables')
      BY <1>3, <2>2, CrashKeepsSynced
    <3>2. DiskType(logs, manifests, tables)' /\ current' \in DOMAIN manifests'
      BY <1>1, <1>3, <2>2, CrashLeavesReadable DEF CrashLeaves
    <3>3. (durable \subseteq Ids(OnDisk(logs, manifests, tables)))'
      BY <1>1, <3>1, <3>2, DurableIsNext
    <3> QED
      BY <1>1, <1>4, <3>3
  <2> QED
    BY <2>1, <2>2
<1>7. lost' \subseteq acked /\ durable \cap lost' = {}
  BY <1>1, <1>2, <1>6 DEF HistoryInv
<1> QED
  BY <1>1, <1>3, <1>5, <1>7, CrashPreserves

-----------------------------------------------------------------------------
LEMMA InitCrInv == CrInit => CrInv
<1> SUFFICES ASSUME CrInit
             PROVE  CrInv
  OBVIOUS
<1>1. /\ DOMAIN logs = {} /\ DOMAIN tables = {} /\ DOMAIN manifests = {}
      /\ logs = <<>> /\ tables = <<>> /\ manifests = <<>>
  BY DEF CrInit
<1>2. DiskType(logs, manifests, tables)
  <2>1. \A S : Files(<<>>, S)
    BY DEF Files
  <2> QED
    BY <1>1, <2>1 DEF DiskType
<1>3. MemoryType
  <2>1. NoRec \in OpenRec /\ NoWrite \in WriteRec /\ NoFlush \in FlushRec /\ NoComp \in CompRec
    BY DEF NoRec, NoWrite, NoFlush, NoComp, OpenRec, WriteRec, FlushRec, CompRec
  <2> QED
    BY <2>1 DEF CrInit, MemoryType, PcStates
<1>4. CurrentInv /\ ClosedInv /\ ~Running /\ ~Opening
  BY <1>1 DEF CrInit, CurrentInv, ClosedInv, Running, Opening
<1>5. EntriesInv(logs, tables, writes)
  BY <1>1 DEF EntriesInv, OnFile, InTable, InLog
<1>6. HistoryInv
  BY <1>1 DEF CrInit, HistoryInv, SyncedWritesSurvive, AckedWritesAreOnDisk
<1> QED
  BY <1>2, <1>3, <1>4, <1>5, <1>6 DEF CrInv

LEMMA IdleCrInv ==
  ASSUME CrInv, UNCHANGED crVars
  PROVE  CrInv'
<1>1. UNCHANGED <<logs, tables, manifests, current, pc, version, log_number,
                  manifest_file_number, next_file_number, last_sequence, logfile_number, mem,
                  immut, pending_outputs, rec, wr, flush, comp, pin, acked, durable, lost,
                  writes>>
  BY Zenon DEF crVars, disk, vset, memory, background, history, counts
<1>2. /\ DiskType(logs, manifests, tables)' /\ EntriesInv(logs, tables, writes)'
      /\ Running' = Running /\ Opening' = Opening /\ Pending' = Pending /\ Logged' = Logged
  BY <1>1 DEF CrInv, Running, Opening, Pending, Logged
<1>3. MemoryType' /\ CurrentInv'
  BY <1>1 DEF CrInv, MemoryType, CurrentInv
<1>4. HistoryInv'
  BY <1>1 DEF CrInv, HistoryInv, SyncedWritesSurvive, AckedWritesAreOnDisk, OnDisk
<1>5. ClosedInv' = ClosedInv
  BY <1>1 DEF ClosedInv
<1>6. ASSUME Running
      PROVE  (RunInv /\ SequenceInv /\ DataInv)'
  <2>1. RunInv /\ SequenceInv /\ DataInv
    BY <1>6 DEF CrInv
  <2>2. RunInv'
    BY <1>1, <2>1, RunStays
  <2>3. SequenceInv'
    BY <1>1, <2>1 DEF SequenceInv, Writing, Live
  <2>4. DataInv'
    BY <1>1, <2>1, DataStays
  <2> QED
    BY <2>2, <2>3, <2>4
<1>7. ASSUME Opening
      PROVE  OpenInv'
  <2>1. OpenInv
    BY <1>7 DEF CrInv
  <2>2. (\A i \in acked \ lost :
           \/ i \in Ids(DataOf(tables, version \cup rec.add))
           \/ \E n \in rec.todo : \E x \in EntryRec : x.id = i /\ LogHas(x, n))'
    <3>1. \A x, n : LogHas(x, n)' <=> LogHas(x, n)
      BY <1>1 DEF LogHas
    <3> QED
      BY <1>1, <2>1, <3>1 DEF OpenInv, ReplayInv
  <2>3. ReplayInv'
    BY <1>1, <1>2, <2>1, <2>2 DEF OpenInv, ReplayInv
  <2> QED
    BY <1>1, <2>1, <2>3 DEF OpenInv
<1> QED
  BY <1>2, <1>3, <1>4, <1>5, <1>6, <1>7 DEF CrInv

LEMMA NextCrInv ==
  ASSUME CrInv, SafeFaults, CrNext
  PROVE  CrInv'
<1>1. CASE Open
  BY <1>1, NewDBPreserves, ReadManifestPreserves, RecoverLogFilePreserves, OpenFailsPreserves,
     OpenNewLogPreserves, NewManifestPreserves, SetCurrentFilePreserves DEF Open
<1>2. CASE Background
  BY <1>2, BeginFlushPreserves, LogFlushPreserves, FlushFailsPreserves, InstallFlushPreserves,
     BeginCompactionPreserves, OpenOutputPreserves, FinishOutputPreserves,
     LogCompactionPreserves, CompactionFailsPreserves, InstallCompactionPreserves DEF Background
<1>3. CASE DeleteObsoleteFiles \/ SwitchMemTable \/ PinVersion \/ UnpinVersion
  BY <1>3, DeletePreserves, SwitchMemTablePreserves, PinsPreserve
<1>4. CASE (\E sync \in BOOLEAN : AddRecord(sync)) \/ SyncLog \/ EndWrite
  BY <1>4, AddRecordPreserves, SyncLogPreserves, EndWritePreserves
<1>5. CASE ProcessCrash \/ MachineCrash
  BY <1>5, ProcessCrashPreserves, MachineCrashPreserves
<1> QED
  BY <1>1, <1>2, <1>3, <1>4, <1>5 DEF CrNext

LEMMA OnDiskIsOnFile ==
  ASSUME DiskType(logs, manifests, tables), NEW x \in OnDisk(logs, manifests, tables)
  PROVE  x \in EntryRec /\ OnFile(x, logs, tables)
<1> DEFINE f == manifests[current]
           kept == [n \in DOMAIN logs |-> Len(logs[n].recs)]
           k == Len(f.recs)
<1>1. current \in DOMAIN manifests
  BY DEF OnDisk
<1>2. f \in FileOf(EditRec) /\ Files(logs, FileOf(EntryRec)) /\ Files(tables, TableRec)
  BY <1>1 DEF DiskType, Files
<1>3. k \in Nat /\ f.recs \in Seq(EditRec)
  BY <1>2, FileIs
<1>4. x \in Recoverable(SubSeq(f.recs, 1, k), logs, tables, kept)
  <2>1. SubSeq(f.recs, 1, k) = f.recs
    BY <1>3
  <2> QED
    BY <1>1, <2>1 DEF OnDisk
<1>5. k # 0
  BY <1>4, NothingIsRecoverable
<1>6. \A n \in DOMAIN logs : kept[n] \in 0..Len(logs[n].recs)
  BY <1>2, FileIs DEF Files
<1>7. Finds(x, f, k, logs, tables, kept)
  <2>1. k \in 1..Len(f.recs)
    BY <1>3, <1>5
  <2> HIDE DEF f, kept, k
  <2> QED
    BY <1>2, <1>4, <1>6, <2>1, RecoverableIs
<1>8. CASE \E n \in Names(f, k) : n \in DOMAIN tables /\ tables[n].whole /\ x \in tables[n].data
  BY <1>2, <1>8 DEF Files, TableRec, OnFile, InTable
<1>9. CASE \E n \in DOMAIN logs :
             n >= f.recs[k].log /\ \E i \in 1..kept[n] : x = logs[n].recs[i]
  <2>1. PICK n \in DOMAIN logs : \E i \in 1..Len(logs[n].recs) : x = logs[n].recs[i]
    BY <1>9
  <2>2. logs[n] \in FileOf(EntryRec)
    BY <1>2 DEF Files
  <2> QED
    BY <2>1, <2>2, FileIs DEF OnFile, InLog
<1> QED
  BY <1>7, <1>8, <1>9 DEF Finds

LEMMA SequencesAreRight == CrInv => SequencesIncrease
<1> SUFFICES ASSUME CrInv,
                    NEW x \in OnDisk(logs, manifests, tables) \cup mem,
                    NEW y \in OnDisk(logs, manifests, tables) \cup mem, x.id < y.id
             PROVE  x.seq < y.seq
  BY DEF SequencesIncrease
<1>1. DiskType(logs, manifests, tables) /\ MemoryType /\ EntriesInv(logs, tables, writes)
  BY DEF CrInv
<1>2. ASSUME NEW z \in mem
      PROVE  z \in EntryRec /\ OnFile(z, logs, tables)
  <2>1. Running
    BY DEF CrInv, ClosedInv
  <2>2. LogHas(z, logfile_number) /\ logfile_number \in DOMAIN logs
    BY <2>1 DEF CrInv, RunInv, LogsInv, DataInv, MemTablesAreLogged
  <2> QED
    BY <1>1, <2>2 DEF MemoryType, LogHas, OnFile, InLog
<1>3. /\ x \in EntryRec /\ OnFile(x, logs, tables)
      /\ y \in EntryRec /\ OnFile(y, logs, tables)
  BY <1>1, <1>2, OnDiskIsOnFile
<1> QED
  BY <1>1, <1>3 DEF EntriesInv

LEMMA NothingIsNamed ==
  ASSUME NEW f \in FileOf(EditRec)
  PROVE  Names(f, 0) = {}
<1>1. f.recs \in Seq(EditRec) /\ 0 \in 0..Len(f.recs)
  BY FileIs
<1>2. \A t : t \in Names(f, 0) <=>
        \E i \in 1..0 : t \in f.recs[i].add /\ \A j \in (i + 1)..0 : t \notin f.recs[j].del
  BY <1>1, NamesAre
<1> QED
  BY <1>2

LEMMA TablesAreRight == CrInv => TablesInUseAreWhole
<1> SUFFICES ASSUME CrInv
             PROVE  TablesInUseAreWhole
  OBVIOUS
<1> DEFINE f == manifests[current]
<1>1. DiskType(logs, manifests, tables) /\ MemoryType /\ CurrentInv
  BY DEF CrInv
<1>2. \A n \in version \cup pin \cup comp.inputs : n \in DOMAIN tables /\ tables[n].whole
  <2>1. CASE Running
    <3>1. VersionInv /\ CompInv /\ PinInv
      BY <2>1 DEF CrInv, RunInv
    <3>2. \A n \in version : n \in DOMAIN tables /\ tables[n].whole
      BY <1>1, <3>1, VersionTables
    <3> QED
      BY <3>1, <3>2 DEF CompInv, PinInv
  <2>2. CASE Opening
    <3>1. EndsWell(Pending, version, tables, current, writes) /\ pin = {} /\ comp = NoComp
      BY <2>2, OpeningIs DEF ClosedInv
    <3> QED
      BY <3>1 DEF EndsWell, NoComp
  <2>3. CASE pc = "down"
    BY <2>3 DEF CrInv, ClosedInv, Running, NoComp
  <2> QED
    BY <1>1, <2>1, <2>2, <2>3 DEF MemoryType, PcStates, Running, Opening
<1>3. ASSUME current \in DOMAIN manifests, NEW k \in f.synced..Len(f.recs), NEW n \in Names(f, k)
      PROVE  n \in DOMAIN tables /\ tables[n].whole
  <2>1. f \in FileOf(EditRec) /\ ManifestInv(f, tables, current, writes)
    BY <1>1, <1>3 DEF CurrentInv, DiskType, Files
  <2>2. k # 0
    <3> HIDE DEF f
    <3> QED
      BY <1>3, <2>1, NothingIsNamed
  <2> QED
    BY <1>3, <2>1, <2>2 DEF ManifestInv, EndsWell
<1> HIDE DEF f
<1>4. current \in DOMAIN manifests =>
        \A k \in f.synced..Len(f.recs) : \A n \in TablesOf(SubSeq(f.recs, 1, k)) :
          n \in DOMAIN tables /\ tables[n].whole
  BY <1>3 DEF Names
<1> QED
  BY <1>2, <1>4 DEF TablesInUseAreWhole, f

LEMMA OpensAreRight == CrInv => DatabaseOpens
<1> SUFFICES ASSUME CrInv, acked # {}
             PROVE  DatabaseOpens
  BY DEF DatabaseOpens
<1> DEFINE f == manifests[current]
<1>1. DiskType(logs, manifests, tables) /\ MemoryType /\ CurrentInv /\ HistoryInv
  BY DEF CrInv
<1>2. writes # 0
  <2>1. PICK i \in acked : TRUE
    OBVIOUS
  <2>2. i \in Nat /\ i # 0 /\ i <= writes
    BY <1>1 DEF HistoryInv, MemoryType
  <2> QED
    BY <2>2
<1>3. /\ f \in FileOf(EditRec) /\ current \in DOMAIN manifests /\ f.synced # 0
      /\ ManifestInv(f, tables, current, writes)
  BY <1>1, <1>2 DEF CurrentInv, DiskType, Files
<1> HIDE DEF f
<1>4. ASSUME NEW k \in f.synced..Len(f.recs)
      PROVE  /\ Readable(SubSeq(f.recs, 1, k))
             /\ \A n \in TablesOf(SubSeq(f.recs, 1, k)) : n < SubSeq(f.recs, 1, k)[k].next
  <2>1. f.synced \in Nat /\ Len(f.recs) \in Nat
    BY <1>3, FileIs
  <2>2. k \in 1..Len(f.recs) /\ k # 0 /\ k \in 1..k
    BY <1>3, <2>1
  <2>3. Readable(SubSeq(f.recs, 1, k)) /\ SubSeq(f.recs, 1, k)[k] = f.recs[k]
    BY <1>3, <2>2, PrefixesAreReadable
  <2>4. \A n \in Names(f, k) : n < f.recs[k].next
    BY <1>3, <2>2 DEF ManifestInv, EndsWell
  <2> QED
    BY <2>3, <2>4 DEF Names
<1> QED
  BY <1>3, <1>4 DEF DatabaseOpens, f

-----------------------------------------------------------------------------
(* CrInv holds of every reachable state of db_impl.cc and version_set.cc as  *)
(* long as no fault tears a record of a log or a MANIFEST, fails the Sync of *)
(* a MANIFEST or makes the replay of a log fail: for any number of writes,   *)
(* crashes of the process and of the machine, flushes and compactions.       *)
THEOREM CrInvariant ==
  ASSUME SafeFaults
  PROVE  CrSpec => []CrInv
<1>1. CrInit => CrInv
  BY InitCrInv
<1>2. CrInv /\ [CrNext]_crVars => CrInv'
  BY NextCrInv, IdleCrInv
<1> QED
  BY <1>1, <1>2, PTL DEF CrSpec

(* An acknowledged Write with sync is found by DB::Open after any crash of   *)
(* the machine: Write syncs the log before it inserts, and LogAndApply names *)
(* a log's table, or the log, in every MANIFEST that a crash can leave.      *)
THEOREM SyncedWritesAlwaysSurvive ==
  ASSUME SafeFaults
  PROVE  CrSpec => []SyncedWritesSurvive
<1>1. CrInv => SyncedWritesSurvive
  BY DEF CrInv, HistoryInv
<1> QED
  BY <1>1, CrInvariant, PTL

(* What was acknowledged, with sync or not, is on file until a machine crash *)
(* takes it: no flush, compaction, DeleteObsoleteFiles or DB::Open, whether  *)
(* it ends or fails or a process crash cuts it short, drops an entry.        *)
THEOREM AckedWritesStayOnDisk ==
  ASSUME SafeFaults
  PROVE  CrSpec => []AckedWritesAreOnDisk
<1>1. CrInv => AckedWritesAreOnDisk
  BY DEF CrInv, HistoryInv
<1> QED
  BY <1>1, CrInvariant, PTL

(* A database that is open has in its memtables and its version all that was *)
(* acknowledged and is not lost: DB::Open fails sooner than it leaves out a  *)
(* log that must be replayed.                                                *)
THEOREM OpenLosesNothing ==
  ASSUME SafeFaults
  PROVE  CrSpec => []OpenIsComplete
<1>1. CrInv => OpenIsComplete
  BY DEF CrInv, Running, DataInv, NothingIsMissing, OpenIsComplete
<1> QED
  BY <1>1, CrInvariant, PTL

(* Later writes have larger sequence numbers, across crashes: DB::Open       *)
(* starts from the larger of the MANIFEST's and the replayed logs' numbers,  *)
(* and no file that holds a larger one survives DeleteObsoleteFiles.         *)
THEOREM SequencesAlwaysIncrease ==
  ASSUME SafeFaults
  PROVE  CrSpec => []SequencesIncrease
BY SequencesAreRight, CrInvariant, PTL

(* DeleteObsoleteFiles removes no table that a version, a reader, a          *)
(* compaction or a MANIFEST a crash may leave names, and no unfinished one   *)
(* gets such a name.                                                         *)
THEOREM TablesInUseStayWhole ==
  ASSUME SafeFaults
  PROVE  CrSpec => []TablesInUseAreWhole
BY TablesAreRight, CrInvariant, PTL

(* VersionSet::Recover accepts the MANIFEST of every moment at which a crash *)
(* may come, once a write was acknowledged.                                  *)
THEOREM DatabaseAlwaysOpens ==
  ASSUME SafeFaults
  PROVE  CrSpec => []DatabaseOpens
BY OpensAreRight, CrInvariant, PTL
=============================================================================
