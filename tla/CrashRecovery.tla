---------------------------- MODULE CrashRecovery ----------------------------
(***************************************************************************)
(* Files and recovery in leveldb-1.9.0: what DBImpl and VersionSet write   *)
(* to logs, tables and MANIFESTs (db/db_impl.cc, db/version_set.cc), what  *)
(* they delete, what a crash leaves, and what DB::Open makes of it.        *)
(*                                                                         *)
(* Data abstraction.  A write is one entry, an id and a sequence number;   *)
(* WriteQueue has shown that groups of batches reach the log and the       *)
(* memtable one at a time, so one write is in progress here.  Keys do not  *)
(* matter: a compaction keeps every entry it reads.  A log is a sequence   *)
(* of entries, a MANIFEST a sequence of edits, of which the first "synced" *)
(* ones cannot be lost; a table is its entries, and is whole once synced.  *)
(*                                                                         *)
(* Assumptions on the environment.  A crash of the process loses nothing   *)
(* that was appended.  A crash of the machine keeps some prefix of every   *)
(* log and MANIFEST that holds what was synced.  Creating, renaming and    *)
(* removing a file survive crashes (leveldb syncs no directory).           *)
(***************************************************************************)
EXTENDS Naturals, Sequences, Functions, FiniteSetsExt

CONSTANTS
  MaxWrites,        (* bound: calls of Write                                *)
  MaxCrashes,       (* bound: crashes                                       *)
  MaxFile,          (* bound: file numbers                                  *)
  MaxFaults,        (* bound: failed I/O operations                         *)
  Faults,           (* the kinds of operations that may fail, see FaultKinds *)
  MachineCrashes,   (* do machines crash, or processes only?                *)
  Compactions,      (* does the tree ask for compactions?                   *)
  Readers           (* is there a reader that pins versions?                *)

FaultKinds == {"open", "table", "log sync", "torn log", "manifest",
               "manifest sync", "torn manifest", "replay", "unread log"}

ASSUME CrashAssumption ==
  /\ MaxWrites \in Nat /\ MaxCrashes \in Nat /\ MaxFile \in Nat
  /\ MaxFaults \in Nat /\ Faults \subseteq FaultKinds
  /\ {MachineCrashes, Compactions, Readers} \subseteq BOOLEAN

VARIABLES
  logs, tables, manifests,   (* the files of each type, by number           *)
  current,                   (* the MANIFEST that CURRENT names; 0: no file *)
  pc,                        (* where the process is, see PcStates          *)
  version,                   (* table numbers of the current Version        *)
  log_number, manifest_file_number, next_file_number, last_sequence,
  logfile_number,            (* the log of mem_                             *)
  mem, immut,                (* mem_ and imm_; {}: imm_ is NULL             *)
  pending_outputs,
  rec,                       (* DB::Open: logs to replay, edit, status      *)
  wr,                        (* the write in progress                       *)
  flush, comp,               (* CompactMemTable; DoCompactionWork           *)
  pin,                       (* tables of the Version a reader holds        *)
  acked, durable, lost,      (* history: ids acknowledged, those with sync, *)
                             (* those a machine crash has lost              *)
  writes, crashes, faults    (* counts                                      *)

disk == <<logs, tables, manifests, current>>
vset == <<version, log_number, manifest_file_number, next_file_number>>
memory == <<logfile_number, mem, immut>>
background == <<flush, comp>>
history == <<acked, durable, lost>>
counts == <<writes, crashes, faults>>
crVars == <<disk, pc, vset, last_sequence, memory, pending_outputs, rec, wr,
            background, pin, history, counts>>

(* "down": not running.  DB::Open: "replay" has read the MANIFEST, "manifest" *)
(* has a new log, "install" a new MANIFEST.  "cleanup": in                    *)
(* DeleteObsoleteFiles, with the mutex.  "up": open.                          *)
PcStates == {"down", "replay", "manifest", "install", "cleanup", "up"}

NoRec == [todo |-> {}, add |-> {}, max |-> 0, ok |-> TRUE]
NoWrite == [pc |-> "idle", id |-> 0, seq |-> 0, sync |-> FALSE]
NoFlush == [pc |-> "idle", number |-> 0]
NoComp == [pc |-> "idle", inputs |-> {}, outputs |-> {}, open |-> 0, left |-> {}]

EmptyLog == [recs |-> <<>>, synced |-> 0]
PartialTable == [data |-> {}, whole |-> FALSE]
TornEntry == [seq |-> 0, id |-> 0]
TornEdit == [add |-> {}, del |-> {}, log |-> 0, next |-> 0, seq |-> 0]

AppendTo(f, r) == [f EXCEPT !.recs = Append(@, r)]
Sync(f) == [f EXCEPT !.synced = Len(f.recs)]
Put(fs, n, f) == [x \in DOMAIN fs \cup {n} |-> IF x = n THEN f ELSE fs[x]]
Without(fs, S) == Restrict(fs, DOMAIN fs \ S)
DataOf(T, S) == UNION {T[n].data : n \in S}
Ids(S) == {e.id : e \in S}

-----------------------------------------------------------------------------
(* What the readers of the files make of them.                               *)

(* log::Reader: a record whose checksum fails takes the rest of its block    *)
(* with it; here a log fits in one block.                                    *)
ReadLog(f, n) ==
  {f.recs[i] : i \in {j \in 1..n : \A k \in 1..j : f.recs[k] # TornEntry}}

(* VersionSet::Recover applies the edits in order.                           *)
TablesOf(edits) ==
  UNION {{t \in edits[i].add : \A j \in (i + 1)..Len(edits) : t \notin edits[j].del} :
           i \in 1..Len(edits)}

(* ... and gives up on an empty MANIFEST and on a corrupted record.          *)
Readable(edits) ==
  edits # <<>> /\ \A i \in 1..Len(edits) : edits[i] # TornEdit

(* The entries DB::Open finds if the MANIFEST holds these edits, and of the  *)
(* log n there are the first kept[n] records.                                *)
Recoverable(edits, L, T, kept) ==
  IF ~Readable(edits) THEN {}
  ELSE DataOf(T, {n \in TablesOf(edits) \cap DOMAIN T : T[n].whole})
         \cup UNION {ReadLog(L[n], kept[n]) :
                       n \in {m \in DOMAIN L : m >= edits[Len(edits)].log}}

OnDisk(L, M, T) ==
  IF current \notin DOMAIN M THEN {}
  ELSE Recoverable(M[current].recs, L, T, [n \in DOMAIN L |-> Len(L[n].recs)])

-----------------------------------------------------------------------------
Fault(kind) ==
  kind \in Faults /\ faults < MaxFaults /\ faults' = faults + 1

NewFileNumber(n) ==
  n = next_file_number /\ n <= MaxFile /\ next_file_number' = n + 1

(* The process is gone, and what it had in memory.                           *)
Exit ==
  /\ pc' = "down"
  /\ version' = {} /\ log_number' = 0 /\ manifest_file_number' = 0
  /\ next_file_number' = 0 /\ last_sequence' = 0
  /\ logfile_number' = 0 /\ mem' = {} /\ immut' = {}
  /\ pending_outputs' = {} /\ rec' = NoRec /\ wr' = NoWrite
  /\ flush' = NoFlush /\ comp' = NoComp /\ pin' = {}

-----------------------------------------------------------------------------
(* DB::Open.                                                                 *)
NewDB ==
  /\ pc = "down" /\ current = 0
  /\ manifests' = Put(manifests, 1,
       [recs |-> <<[add |-> {}, del |-> {}, log |-> 0, next |-> 2, seq |-> 0]>>,
        synced |-> 0])
  /\ current' = 1
  /\ UNCHANGED <<logs, tables, pc, vset, last_sequence, memory,
                 pending_outputs, rec, wr, background, pin, history, counts>>

(* VersionSet::Recover, and the choice of the logs to replay.                *)
ReadManifest ==
  /\ pc = "down" /\ current \in DOMAIN manifests
  /\ LET edits == manifests[current].recs
         last == edits[Len(edits)]
     IN /\ Readable(edits)
        /\ last.next < MaxFile
        /\ version' = TablesOf(edits)
        /\ log_number' = last.log
        /\ manifest_file_number' = last.next
        /\ next_file_number' = last.next + 1
        /\ last_sequence' = last.seq
        /\ rec' = [NoRec EXCEPT !.todo = {n \in DOMAIN logs : n >= last.log}]
  /\ pc' = "replay"
  /\ UNCHANGED <<disk, memory, pending_outputs, wr, background, pin, history,
                 counts>>

MarkFileNumberUsed(next, n) == IF next <= n THEN n + 1 ELSE next

(* RecoverLogFile: the oldest log becomes a table of level 0.  (The code may *)
(* make several tables of a long log.)  Without paranoid_checks a log that   *)
(* cannot be opened is passed over like one without records.                 *)
RecoverLogFile ==
  /\ pc = "replay" /\ rec.todo # {}
  /\ LET n == Min(rec.todo)
         entries == ReadLog(logs[n], Len(logs[n].recs))
         max == Max({rec.max} \cup {e.seq : e \in entries})
     IN \/ /\ \/ entries = {} /\ UNCHANGED faults
              \/ entries # {} /\ Fault("unread log")
           /\ next_file_number' = MarkFileNumberUsed(next_file_number, n)
           /\ rec' = [rec EXCEPT !.todo = @ \ {n}, !.ok = TRUE]
           /\ UNCHANGED tables
        \/ /\ entries # {} /\ next_file_number <= MaxFile
           /\ next_file_number' = MarkFileNumberUsed(next_file_number + 1, n)
           /\ \/ /\ tables' = Put(tables, next_file_number,
                                  [data |-> entries, whole |-> TRUE])
                 /\ rec' = [todo |-> rec.todo \ {n}, max |-> max, ok |-> TRUE,
                            add |-> rec.add \cup {next_file_number}]
                 /\ UNCHANGED faults
              \/ /\ Fault("replay")
                 /\ rec' = [rec EXCEPT !.todo = @ \ {n}, !.max = max, !.ok = FALSE]
                 /\ UNCHANGED tables
  /\ UNCHANGED <<logs, manifests, current, pc, version, log_number,
                 manifest_file_number, last_sequence, memory, pending_outputs,
                 wr, background, pin, history, writes, crashes>>

(* DB::Open fails: the status of the replay that counts is that of the last  *)
(* log; the new log, the new MANIFEST or CURRENT may not be written, and     *)
(* then LogAndApply removes the new MANIFEST.                                *)
OpenFails ==
  /\ \/ pc = "replay" /\ rec.todo = {} /\ ~rec.ok /\ UNCHANGED faults
     \/ pc = "replay" /\ rec.todo = {} /\ rec.ok /\ Fault("open")
     \/ pc \in {"manifest", "install"} /\ Fault("open")
  /\ manifests' = IF pc = "install" THEN Without(manifests, {manifest_file_number})
                                   ELSE manifests
  /\ Exit
  /\ UNCHANGED <<logs, tables, current, history, writes, crashes>>

RecoveredSequenceBug == last_sequence
RecoveredSequence == Max({last_sequence, rec.max})

(* The end of Recover, and the new log.                                      *)
OpenNewLog ==
  /\ pc = "replay" /\ rec.todo = {} /\ rec.ok
  /\ last_sequence' = RecoveredSequence
  /\ \E n \in {next_file_number} :
       /\ NewFileNumber(n)
       /\ logfile_number' = n
       /\ logs' = Put(logs, n, EmptyLog)
  /\ pc' = "manifest"
  /\ UNCHANGED <<tables, manifests, current, version, log_number,
                 manifest_file_number, mem, immut, pending_outputs, rec, wr,
                 background, pin, history, counts>>

NewManifestBug ==
  /\ pc = "manifest"
  /\ manifests' = Put(manifests, manifest_file_number, EmptyLog)
  /\ current' = manifest_file_number
  /\ pc' = "install"
  /\ UNCHANGED <<logs, tables, vset, last_sequence, memory, pending_outputs,
                 rec, wr, background, pin, history, counts>>

(* The first LogAndApply: a MANIFEST with a snapshot of the current version  *)
(* and the edit of Recover (two records in the code; nothing names the file  *)
(* before both are synced).                                                  *)
NewManifest ==
  /\ pc = "manifest"
  /\ manifests' = Put(manifests, manifest_file_number,
       [recs |-> <<[add |-> version \cup rec.add, del |-> {},
                    log |-> logfile_number, next |-> next_file_number,
                    seq |-> last_sequence]>>,
        synced |-> 0])
  /\ pc' = "install"
  /\ UNCHANGED <<logs, tables, current, vset, last_sequence, memory,
                 pending_outputs, rec, wr, background, pin, history, counts>>

(* If Sync fails, ManifestContains finds the record: the edit is installed.  *)
SyncManifest ==
  \/ /\ manifests' = [manifests EXCEPT ![manifest_file_number] = Sync(@)]
     /\ UNCHANGED faults
  \/ Fault("manifest sync") /\ UNCHANGED manifests

(* Sync, SetCurrentFile, and the new version.                                *)
SetCurrentFile ==
  /\ pc = "install"
  /\ SyncManifest
  /\ current' = manifest_file_number
  /\ version' = version \cup rec.add
  /\ log_number' = logfile_number
  /\ rec' = NoRec
  /\ pc' = "cleanup"
  /\ UNCHANGED <<logs, tables, manifest_file_number, next_file_number,
                 last_sequence, memory, pending_outputs, wr, background, pin,
                 history, writes, crashes>>

-----------------------------------------------------------------------------
(* DeleteObsoleteFiles.                                                      *)
LiveBug == version \cup pin \cup comp.inputs
Live == pending_outputs \cup version \cup pin \cup comp.inputs

ObsoleteLogsBug == {n \in DOMAIN logs : n < logfile_number}
ObsoleteLogs == {n \in DOMAIN logs : n < log_number}
ObsoleteTables == DOMAIN tables \ Live
ObsoleteManifests == {n \in DOMAIN manifests : n < manifest_file_number}

DeleteObsoleteFiles ==
  /\ pc = "cleanup"
  /\ logs' = Without(logs, ObsoleteLogs)
  /\ tables' = Without(tables, ObsoleteTables)
  /\ manifests' = Without(manifests, ObsoleteManifests)
  /\ pc' = "up"
  /\ UNCHANGED <<current, vset, last_sequence, memory, pending_outputs, rec,
                 wr, background, pin, history, counts>>

-----------------------------------------------------------------------------
(* Write: AddRecord, Sync, and back under the mutex.                         *)
AddRecord(sync) ==
  /\ pc = "up" /\ wr.pc = "idle" /\ writes < MaxWrites
  /\ writes' = writes + 1
  /\ LET e == [seq |-> last_sequence + 1, id |-> writes + 1]
     IN \/ /\ logs' = [logs EXCEPT ![logfile_number] = AppendTo(@, e)]
           /\ wr' = [pc |-> IF sync THEN "sync" ELSE "insert",
                     id |-> e.id, seq |-> e.seq, sync |-> sync]
           /\ UNCHANGED faults
        \/ /\ Fault("torn log")
           /\ logs' = [logs EXCEPT ![logfile_number] = AppendTo(@, TornEntry)]
           /\ wr' = [pc |-> "failed", id |-> e.id, seq |-> e.seq, sync |-> sync]
  /\ UNCHANGED <<tables, manifests, current, pc, vset, last_sequence, memory,
                 pending_outputs, rec, background, pin, history, crashes>>

SyncLog ==
  /\ wr.pc = "sync"
  /\ \/ /\ logs' = [logs EXCEPT ![logfile_number] = Sync(@)]
        /\ wr' = [wr EXCEPT !.pc = "insert"]
        /\ UNCHANGED faults
     \/ /\ Fault("log sync")
        /\ wr' = [wr EXCEPT !.pc = "failed"]
        /\ UNCHANGED logs
  /\ UNCHANGED <<tables, manifests, current, pc, vset, last_sequence, memory,
                 pending_outputs, rec, background, pin, history, writes, crashes>>

EndWrite ==
  /\ pc = "up" /\ wr.pc \in {"insert", "failed"}
  /\ last_sequence' = wr.seq
  /\ IF wr.pc = "insert"
     THEN /\ mem' = mem \cup {[seq |-> wr.seq, id |-> wr.id]}
          /\ acked' = acked \cup {wr.id}
          /\ durable' = IF wr.sync THEN durable \cup {wr.id} ELSE durable
     ELSE UNCHANGED <<mem, acked, durable>>
  /\ wr' = NoWrite
  /\ UNCHANGED <<disk, pc, vset, logfile_number, immut, pending_outputs, rec,
                 background, pin, lost, counts>>

(* The last branch of MakeRoomForWrite, by a writer that has logged nothing. *)
SwitchMemTable ==
  /\ pc = "up" /\ wr.pc = "idle" /\ immut = {} /\ mem # {}
  /\ \E n \in {next_file_number} :
       /\ NewFileNumber(n)
       /\ logfile_number' = n
       /\ logs' = Put(logs, n, EmptyLog)
  /\ immut' = mem /\ mem' = {}
  /\ UNCHANGED <<tables, manifests, current, pc, version, log_number,
                 manifest_file_number, last_sequence, pending_outputs, rec, wr,
                 background, pin, history, counts>>

-----------------------------------------------------------------------------
(* LogAndApply on an open database: the edit, with the counters of the       *)
(* moment, is appended to the MANIFEST; the Sync and the new version follow. *)
LogEdit(add, del, log) ==
  manifests' = [manifests EXCEPT ![manifest_file_number] =
    AppendTo(@, [add |-> add, del |-> del, log |-> log,
                 next |-> next_file_number, seq |-> last_sequence])]

(* The append fails, with nothing or a part of the record in the file, and   *)
(* ManifestContains says no.                                                 *)
LogEditFails ==
  \/ Fault("manifest") /\ UNCHANGED manifests
  \/ /\ Fault("torn manifest")
     /\ manifests' = [manifests EXCEPT ![manifest_file_number] =
                        AppendTo(@, TornEdit)]

(* The background thread: WriteLevel0Table starts on imm_, possibly from     *)
(* inside the compaction loop.                                               *)
BeginFlush ==
  /\ pc = "up" /\ immut # {} /\ flush.pc = "idle" /\ comp.pc \in {"idle", "build"}
  /\ \E n \in {next_file_number} :
       /\ NewFileNumber(n)
       /\ flush' = [pc |-> "build", number |-> n]
       /\ tables' = Put(tables, n, PartialTable)
       /\ pending_outputs' = pending_outputs \cup {n}
  /\ UNCHANGED <<logs, manifests, current, pc, version, log_number,
                 manifest_file_number, last_sequence, memory, rec, wr, comp,
                 pin, history, counts>>

FlushLogNumber == logfile_number

(* BuildTable has synced the table.  "Earlier logs no longer needed".        *)
LogFlush ==
  /\ pc = "up" /\ flush.pc = "build"
  /\ tables' = Put(tables, flush.number, [data |-> immut, whole |-> TRUE])
  /\ pending_outputs' = pending_outputs \ {flush.number}
  /\ \/ /\ LogEdit({flush.number}, {}, FlushLogNumber)
        /\ flush' = [flush EXCEPT !.pc = "logged"]
        /\ UNCHANGED faults
     \/ /\ LogEditFails
        /\ flush' = NoFlush
  /\ UNCHANGED <<logs, current, pc, vset, last_sequence, memory, rec, wr, comp,
                 pin, history, writes, crashes>>

FlushFailsBug ==
  /\ pc = "up" /\ flush.pc = "build"
  /\ Fault("table")
  /\ tables' = Without(tables, {flush.number})
  /\ pending_outputs' = pending_outputs \ {flush.number}
  /\ flush' = NoFlush /\ immut' = {}
  /\ UNCHANGED <<logs, manifests, current, pc, vset, last_sequence,
                 logfile_number, mem, rec, wr, comp, pin, history, writes,
                 crashes>>

(* BuildTable failed and deleted its file; imm_ stays, to be tried again.    *)
FlushFails ==
  /\ pc = "up" /\ flush.pc = "build"
  /\ Fault("table")
  /\ tables' = Without(tables, {flush.number})
  /\ pending_outputs' = pending_outputs \ {flush.number}
  /\ flush' = NoFlush
  /\ UNCHANGED <<logs, manifests, current, pc, vset, last_sequence, memory, rec,
                 wr, comp, pin, history, writes, crashes>>

InstallFlush ==
  /\ pc = "up" /\ flush.pc = "logged"
  /\ SyncManifest
  /\ LET edits == manifests[manifest_file_number].recs
     IN /\ version' = version \cup edits[Len(edits)].add
        /\ log_number' = edits[Len(edits)].log
  /\ immut' = {} /\ flush' = NoFlush
  /\ pc' = "cleanup"
  /\ UNCHANGED <<logs, tables, current, manifest_file_number, next_file_number,
                 last_sequence, logfile_number, mem, pending_outputs, rec, wr,
                 comp, pin, history, writes, crashes>>

-----------------------------------------------------------------------------
(* A compaction of some of the tables.                                       *)
BeginCompaction ==
  /\ Compactions
  /\ pc = "up" /\ immut = {} /\ flush.pc = "idle" /\ comp.pc = "idle"
  /\ \E S \in (SUBSET version) \ {{}} :
       comp' = [pc |-> "build", inputs |-> S, outputs |-> {}, open |-> 0,
                left |-> DataOf(tables, S)]
  /\ UNCHANGED <<disk, pc, vset, last_sequence, memory, pending_outputs, rec,
                 wr, flush, pin, history, counts>>

OpenCompactionOutputFile ==
  /\ pc = "up" /\ flush.pc = "idle"
  /\ comp.pc = "build" /\ comp.open = 0 /\ comp.left # {}
  /\ \E n \in {next_file_number} :
       /\ NewFileNumber(n)
       /\ comp' = [comp EXCEPT !.outputs = @ \cup {n}, !.open = n]
       /\ tables' = Put(tables, n, PartialTable)
       /\ pending_outputs' = pending_outputs \cup {n}
  /\ UNCHANGED <<logs, manifests, current, pc, version, log_number,
                 manifest_file_number, last_sequence, memory, rec, wr, flush,
                 pin, history, counts>>

(* The output is full, or the input exhausted.                               *)
FinishCompactionOutputFile ==
  /\ pc = "up" /\ flush.pc = "idle" /\ comp.open # 0
  /\ \E S \in (SUBSET comp.left) \ {{}} :
       /\ tables' = Put(tables, comp.open, [data |-> S, whole |-> TRUE])
       /\ comp' = [comp EXCEPT !.open = 0, !.left = @ \ S]
  /\ UNCHANGED <<logs, manifests, current, pc, vset, last_sequence, memory,
                 pending_outputs, rec, wr, flush, pin, history, counts>>

CompactionLogNumberBug == logfile_number

(* An edit that names no log keeps the log number of the version set.        *)
CompactionLogNumber == log_number

LogCompaction ==
  /\ pc = "up" /\ flush.pc = "idle"
  /\ comp.pc = "build" /\ comp.open = 0 /\ comp.left = {}
  /\ LogEdit(comp.outputs, comp.inputs, CompactionLogNumber)
  /\ comp' = [comp EXCEPT !.pc = "logged"]
  /\ UNCHANGED <<logs, tables, current, pc, vset, last_sequence, memory,
                 pending_outputs, rec, wr, flush, pin, history, counts>>

(* An error anywhere, LogAndApply included: CleanupCompaction lets the       *)
(* outputs go.                                                               *)
CompactionFails ==
  /\ pc = "up" /\ flush.pc = "idle" /\ comp.pc = "build"
  /\ \/ Fault("table") /\ UNCHANGED manifests
     \/ comp.open = 0 /\ comp.left = {} /\ LogEditFails
  /\ pending_outputs' = pending_outputs \ comp.outputs
  /\ comp' = NoComp
  /\ pc' = "cleanup"
  /\ UNCHANGED <<logs, tables, current, vset, last_sequence, memory, rec, wr,
                 flush, pin, history, writes, crashes>>

InstallCompactionResults ==
  /\ pc = "up" /\ comp.pc = "logged"
  /\ SyncManifest
  /\ version' = (version \ comp.inputs) \cup comp.outputs
  /\ pending_outputs' = pending_outputs \ comp.outputs
  /\ comp' = NoComp
  /\ pc' = "cleanup"
  /\ UNCHANGED <<logs, tables, current, log_number, manifest_file_number,
                 next_file_number, last_sequence, memory, rec, wr, flush, pin,
                 history, writes, crashes>>

-----------------------------------------------------------------------------
(* An iterator or a Get holds the current version, and lets it go.           *)
PinVersion ==
  /\ Readers /\ pc = "up" /\ pin = {} /\ version # {}
  /\ pin' = version
  /\ UNCHANGED <<disk, pc, vset, last_sequence, memory, pending_outputs, rec,
                 wr, background, history, counts>>

UnpinVersion ==
  /\ pc = "up" /\ pin # {}
  /\ pin' = {}
  /\ UNCHANGED <<disk, pc, vset, last_sequence, memory, pending_outputs, rec,
                 wr, background, history, counts>>

-----------------------------------------------------------------------------
(* A crash, or the end of the process.  It may come in the middle of         *)
(* DeleteObsoleteFiles.                                                      *)
SomeOf(S) == IF pc = "cleanup" THEN SUBSET S ELSE {{}}

CrashWith(L, M, T) ==
  /\ crashes < MaxCrashes /\ crashes' = crashes + 1
  /\ logs' = L /\ manifests' = M /\ tables' = T
  /\ Exit
  /\ UNCHANGED <<current, acked, durable, writes, faults>>

ProcessCrash ==
  /\ pc # "down"
  /\ \E l \in SomeOf(ObsoleteLogs), m \in SomeOf(ObsoleteManifests),
        t \in SomeOf(ObsoleteTables) :
       CrashWith(Without(logs, l), Without(manifests, m), Without(tables, t))
  /\ UNCHANGED lost

(* The files that a machine crash may make of fs.                            *)
Survivors(fs) ==
  LET longest == Max({0} \cup {Len(fs[n].recs) : n \in DOMAIN fs})
  IN {[n \in DOMAIN fs |-> [recs |-> SubSeq(fs[n].recs, 1, k[n]), synced |-> k[n]]] :
        k \in {c \in [DOMAIN fs -> 0..longest] :
                 \A n \in DOMAIN fs : c[n] \in fs[n].synced..Len(fs[n].recs)}}

MachineCrash ==
  /\ MachineCrashes
  /\ \E l \in SomeOf(ObsoleteLogs), m \in SomeOf(ObsoleteManifests),
        t \in SomeOf(ObsoleteTables) :
       \E L \in Survivors(Without(logs, l)), M \in Survivors(Without(manifests, m)) :
         /\ CrashWith(L, M, Without(tables, t))
         /\ lost' = lost \cup (acked \ Ids(OnDisk(L, M, Without(tables, t))))

-----------------------------------------------------------------------------
CrInit ==
  /\ logs = <<>> /\ tables = <<>> /\ manifests = <<>> /\ current = 0
  /\ pc = "down"
  /\ version = {} /\ log_number = 0 /\ manifest_file_number = 0
  /\ next_file_number = 0 /\ last_sequence = 0
  /\ logfile_number = 0 /\ mem = {} /\ immut = {}
  /\ pending_outputs = {} /\ rec = NoRec /\ wr = NoWrite
  /\ flush = NoFlush /\ comp = NoComp /\ pin = {}
  /\ acked = {} /\ durable = {} /\ lost = {}
  /\ writes = 0 /\ crashes = 0 /\ faults = 0

Open ==
  \/ NewDB \/ ReadManifest \/ RecoverLogFile \/ OpenFails \/ OpenNewLog
  \/ NewManifest \/ SetCurrentFile

Background ==
  \/ BeginFlush \/ LogFlush \/ FlushFails \/ InstallFlush \/ BeginCompaction
  \/ OpenCompactionOutputFile \/ FinishCompactionOutputFile \/ LogCompaction
  \/ CompactionFails \/ InstallCompactionResults

CrNext ==
  \/ Open \/ DeleteObsoleteFiles \/ Background
  \/ \E sync \in BOOLEAN : AddRecord(sync)
  \/ SyncLog \/ EndWrite \/ SwitchMemTable \/ PinVersion \/ UnpinVersion
  \/ ProcessCrash \/ MachineCrash

CrSpec == CrInit /\ [][CrNext]_crVars

-----------------------------------------------------------------------------

(* "If this flag is true, the write will be flushed from the operating       *)
(* system buffer cache ... before the write is considered complete"          *)
(* (options.h): whatever of the unsynced data a crash of the machine may     *)
(* take with it at this moment, DB::Open will find every acknowledged        *)
(* synchronous write - in a log, or in a table the MANIFEST names.           *)
SyncedWritesSurvive ==
  current \in DOMAIN manifests =>
    \A k \in manifests[current].synced..Len(manifests[current].recs) :
      durable \subseteq Ids(Recoverable(SubSeq(manifests[current].recs, 1, k),
                                       logs, tables,
                                       [n \in DOMAIN logs |-> logs[n].synced]))

(* "If it is just the process that crashes, no writes will be lost even if   *)
(* sync==false" (options.h): what was acknowledged and no machine crash has  *)
(* taken is always in the files, at every step of a flush, a compaction, a   *)
(* file deletion or a recovery.                                              *)
AckedWritesAreOnDisk ==
  acked \ lost \subseteq Ids(OnDisk(logs, manifests, tables))

(* ... and once DB::Open has returned it is in the memtables or the tables   *)
(* of the version.  "Reflect errors immediately so that conditions like full *)
(* file-systems cause the DB::Open() to fail" (db_impl.cc): an open database *)
(* lacks nothing.                                                            *)
OpenIsComplete ==
  pc \in {"up", "cleanup"} =>
    acked \ lost \subseteq Ids(mem \cup immut \cup DataOf(tables, version))

(* No table is deleted or overwritten that the current version, a reader's   *)
(* version or the inputs of a compaction name, or that a MANIFEST could name *)
(* after a crash - although a flush's table is for a while in neither        *)
(* pending_outputs_ nor any version.                                         *)
TablesInUseAreWhole ==
  /\ \A n \in version \cup pin \cup comp.inputs :
       n \in DOMAIN tables /\ tables[n].whole
  /\ current \in DOMAIN manifests =>
       \A k \in manifests[current].synced..Len(manifests[current].recs) :
         \A n \in TablesOf(SubSeq(manifests[current].recs, 1, k)) :
           n \in DOMAIN tables /\ tables[n].whole

(* Sequence numbers order the writes, across crashes: of two writes that can *)
(* be read, the later one has the larger number.                             *)
SequencesIncrease ==
  \A e, f \in OnDisk(logs, manifests, tables) \cup mem :
    e.id < f.id => e.seq < f.seq

(* A database that has acknowledged a write can be opened after any crash:   *)
(* the MANIFEST that CURRENT names exists, VersionSet::Recover accepts       *)
(* whatever prefix of it survives, and DB::Open finds unused file numbers.   *)
DatabaseOpens ==
  acked # {} =>
    /\ current \in DOMAIN manifests
    /\ LET M == manifests[current] IN
         \A k \in M.synced..Len(M.recs) :
           LET edits == SubSeq(M.recs, 1, k) IN
             /\ Readable(edits)
             /\ \A n \in TablesOf(edits) : n < edits[k].next

(* "A hybrid scheme is also possible where every Nth write is synchronous,   *)
(* and in the event of a crash, the bulk load is restarted just after the    *)
(* last synchronous write" (doc/index.html): what a machine crash loses is   *)
(* newer than every acknowledged synchronous write.  No run checks this: TLC *)
(* refutes it, because the log of a full memtable is closed without a sync.  *)
LostWritesAreLast == \A i \in lost, j \in durable : i > j
=============================================================================
