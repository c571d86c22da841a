-------------------------- MODULE WriteStoreProofs --------------------------
(***************************************************************************)
(* The write and read paths implement AtomicStore, for any number of       *)
(* clients and readers: a batch takes effect when the front writer hands   *)
(* its group their status, and a Get answers from the state that its       *)
(* snapshot, or its call, has seen - whatever has been written, switched   *)
(* and flushed since.                                                      *)
(***************************************************************************)
EXTENDS WriteQueueProofs

ReaderPcs == {"idle", "snapshot", "reading", "got"}
ReaderRec ==
  [pc : ReaderPcs, key : Keys \cup {0}, snap : Nat, mem : Nat, imm : Nat,
   tables : SUBSET Nat, got : Nat, view : Nat]

(* A reader's snapshot separates the entries of the batches it must see from *)
(* all others.                                                               *)
SeesView(x) ==
  /\ x.snap <= last_sequence /\ x.view <= Len(hist)
  /\ \A m \in 1..Len(mtab) : \A e \in mtab[m] : \A i \in 1..Len(hist) :
       e.val = hist[i].val => (e.seq <= x.snap <=> i <= x.view)

(* What a Get has pinned holds every entry that it may see.                  *)
HasPinned(x) ==
  /\ x.mem \in 1..Len(mtab)
  /\ x.imm = NULL \/ (x.imm = x.mem - 1 /\ x.imm # 0)
  /\ x.tables = (1..(x.mem - 1)) \ {x.imm}
  /\ \A m \in (x.mem + 1)..Len(mtab) : \A e \in mtab[m] : e.seq > x.snap

ReaderInv ==
  /\ rd \in [Readers -> ReaderRec]
  /\ \A r \in Readers : rd[r].pc # "idle" => SeesView(rd[r])
  /\ \A r \in Readers : rd[r].pc = "reading" => HasPinned(rd[r])

-----------------------------------------------------------------------------
(* The readers' side of a step of a writer: entries that appear, or become   *)
(* those of a call that has succeeded, are above all that readers can see.   *)
EntriesGrow ==
  /\ last_sequence <= last_sequence' /\ last_sequence' \in Nat
  /\ Len(mtab') \in Nat /\ Len(mtab) <= Len(mtab')
  /\ Len(hist') \in Nat /\ Len(hist) <= Len(hist')
  /\ \A i \in 1..Len(hist) : hist'[i] = hist[i]
  /\ \A m \in 1..Len(mtab') : \A e \in mtab'[m] :
       \/ m \in 1..Len(mtab) /\ e \in mtab[m]
       \/ /\ m = Len(mtab') /\ e.seq \in Nat /\ last_sequence < e.seq
          /\ \A k \in 1..Len(hist) : e.val # hist[k].val
  /\ \A i \in 1..Len(hist') : i > Len(hist) =>
       \A m \in 1..Len(mtab') : \A e \in mtab'[m] :
         e.val = hist'[i].val => last_sequence < e.seq

LEMMA GrowKeepsView ==
  ASSUME FilesType, HistType, EntriesGrow, NEW x \in ReaderRec, SeesView(x)
  PROVE  SeesView(x)'
<1>1. /\ x.snap \in Nat /\ x.view \in Nat /\ last_sequence \in Nat
      /\ Len(hist) \in Nat /\ Len(mtab) \in Nat
      /\ \A m \in 1..Len(mtab) : \A e \in mtab[m] : e.seq \in Nat
  BY FilesFacts DEF ReaderRec, HistType
<1>2. ASSUME NEW m \in 1..Len(mtab'), NEW e \in mtab'[m], NEW i \in 1..Len(hist'),
             e.val = hist'[i].val
      PROVE  e.seq <= x.snap <=> i <= x.view
  <2>1. e.seq \in Nat
    BY <1>1 DEF EntriesGrow
  <2>2. CASE i > Len(hist)
    <3>1. last_sequence < e.seq
      BY <1>2, <2>2 DEF EntriesGrow
    <3>2. ~(e.seq <= x.snap) /\ ~(i <= x.view)
      BY <1>1, <2>1, <2>2, <3>1 DEF SeesView
    <3>3. QED
      BY <3>2
  <2>3. CASE i <= Len(hist)
    <3>1. i \in 1..Len(hist) /\ e.val = hist[i].val
      BY <1>1, <1>2, <2>3 DEF EntriesGrow
    <3>2. m \in 1..Len(mtab) /\ e \in mtab[m]
      BY <3>1 DEF EntriesGrow
    <3>3. QED
      BY <3>1, <3>2 DEF SeesView
  <2>4. QED
    BY <1>1, <2>2, <2>3 DEF EntriesGrow
<1>3. x.snap <= last_sequence' /\ x.view <= Len(hist')
  BY <1>1 DEF EntriesGrow, SeesView
<1>4. QED
  BY <1>2, <1>3 DEF SeesView

LEMMA GrowKeepsPinned ==
  ASSUME FilesType, EntriesGrow, NEW x \in ReaderRec, SeesView(x), HasPinned(x)
  PROVE  HasPinned(x)'
<1>1. /\ x.snap \in Nat /\ x.mem \in Nat /\ last_sequence \in Nat
      /\ Len(mtab) \in Nat /\ Len(mtab') \in Nat /\ Len(mtab) <= Len(mtab')
  BY FilesFacts DEF ReaderRec, EntriesGrow
<1>2. ASSUME NEW m \in (x.mem + 1)..Len(mtab'), NEW e \in mtab'[m]
      PROVE  e.seq > x.snap
  <2>1. m \in 1..Len(mtab')
    BY <1>1
  <2>2. CASE m \in 1..Len(mtab) /\ e \in mtab[m]
    <3>1. m \in (x.mem + 1)..Len(mtab)
      BY <1>1, <2>2
    <3>2. QED
      BY <2>2, <3>1 DEF HasPinned
  <2>3. CASE e.seq \in Nat /\ last_sequence < e.seq
    BY <1>1, <2>3 DEF SeesView
  <2>4. QED
    BY <2>1, <2>2, <2>3 DEF EntriesGrow
<1>3. x.mem \in 1..Len(mtab')
  BY <1>1 DEF HasPinned
<1>4. QED
  BY <1>2, <1>3 DEF HasPinned

LEMMA WritersKeepReaders ==
  ASSUME WqInv, ReaderInv, EntriesGrow, rd' = rd
  PROVE  ReaderInv'
<1>1. FilesType /\ HistType
  BY DEF WqInv, FilesInv
<1>2. \A r \in Readers : rd[r] \in ReaderRec
  BY DEF ReaderInv
<1>3. ASSUME NEW r \in Readers, rd[r].pc # "idle" PROVE SeesView(rd[r])'
  <2>1. SeesView(rd[r]) /\ rd[r] \in ReaderRec /\ rd'[r] = rd[r]
    BY <1>2, <1>3 DEF ReaderInv
  <2>2. ASSUME NEW x \in ReaderRec, SeesView(x) PROVE SeesView(x)'
    BY <1>1, <2>2, GrowKeepsView
  <2>3. QED
    BY <2>1, <2>2 DEF SeesView
<1>4. ASSUME NEW r \in Readers, rd[r].pc = "reading" PROVE HasPinned(rd[r])'
  <2>1. SeesView(rd[r]) /\ HasPinned(rd[r]) /\ rd[r] \in ReaderRec /\ rd'[r] = rd[r]
    BY <1>2, <1>4 DEF ReaderInv
  <2>2. ASSUME NEW x \in ReaderRec, SeesView(x), HasPinned(x) PROVE HasPinned(x)'
    BY <1>1, <2>2, GrowKeepsPinned
  <2>3. QED
    BY <2>1, <2>2 DEF HasPinned
<1>5. QED
  BY <1>3, <1>4 DEF ReaderInv

(* Steps that add no entry and end no call.                                  *)
LEMMA FilesStayGrow ==
  ASSUME WqInv, UNCHANGED <<mtab, last_sequence, hist>>
  PROVE  EntriesGrow
BY FilesFacts DEF WqInv, FilesInv, HistType, EntriesGrow

(* The end of a group.                                                       *)
LEMMA FinishGrows ==
  ASSUME NEW q, NEW v, NEW c, WritersInv(q, v, c), FilesInv,
         NEW t \in Clients, NEW n \in 1..Len(q), NEW ok \in BOOLEAN,
         FinishGroup(t, q, v, n, ok), FilesGrow,
         last_sequence <= last_sequence', last_sequence' \in Nat,
         \A m \in 1..Len(mtab) : \A e \in mtab[m] :
           e.seq <= last_sequence \/ m = Len(mtab),
         ok => \E last : Carries(Fresh, q, v, n, last)
  PROVE  EntriesGrow
<1>1. /\ FilesType /\ HistType /\ HistInv /\ QueueType(q, v) /\ ValuesInv(q, v, c)
      /\ Len(q) \in Nat /\ n \in Nat /\ n <= Len(q) /\ Len(hist) \in Nat
  BY QueueFacts DEF WritersInv, FilesInv, HistType
<1>2. \A m \in 1..Len(mtab') : \A e \in mtab'[m] : m \in 1..Len(mtab) /\ e \in mtab[m]
  BY <1>1, GrowKeepsEntries
<1>3. Len(mtab') \in Nat /\ Len(mtab) <= Len(mtab')
  BY <1>1, FilesFacts DEF FilesGrow
<1>4. CASE ~ok
  <2>1. hist' = hist
    BY <1>4 DEF FinishGroup, HistAfter
  <2>2. QED
    BY <1>1, <1>2, <1>3, <2>1 DEF EntriesGrow
<1>5. CASE ok
  <2>1. hist' = HistAfter(q, v, n, TRUE)
    BY <1>5 DEF FinishGroup
  <2>2. hist' \in Seq(HistRec) /\ Extends(hist', q, v, n)
    BY <1>1, <2>1, HistGrows
  <2>3. PICK last : Carries(Fresh, q, v, n, last)
    BY <1>5
  <2>4. /\ \A e \in Fresh : last_sequence < e.seq
        /\ \A i \in 1..n : \A m \in 1..Len(mtab) : \A e \in mtab[m] :
             e.val = v[q[i]].val => e \in Fresh
    BY <1>1, <2>3, FreshIsNew
  <2>5. ASSUME NEW i \in 1..Len(hist'), i > Len(hist),
               NEW m \in 1..Len(mtab'), NEW e \in mtab'[m], e.val = hist'[i].val
        PROVE  last_sequence < e.seq
    <3>1. PICK k \in 1..n : i = Len(hist) + k
      <4>1. i \in 1..Len(hist) \/ \E k \in 1..n : i = Len(hist) + k
        BY <2>2 DEF Extends
      <4>2. i \notin 1..Len(hist)
        BY <1>1, <2>5
      <4>3. QED
        BY <4>1, <4>2
    <3>2. hist'[i].val = v[q[k]].val
      BY <2>2, <3>1 DEF Extends
    <3>3. QED
      BY <1>2, <2>4, <2>5, <3>2
  <2>6. /\ Len(hist') \in Nat /\ Len(hist) <= Len(hist')
        /\ \A i \in 1..Len(hist) : hist'[i] = hist[i]
    BY <1>1, <2>2 DEF Extends
  <2>7. QED
    BY <1>2, <1>3, <2>5, <2>6 DEF EntriesGrow
<1>6. QED
  BY <1>4, <1>5

-----------------------------------------------------------------------------
(* The clients' side.  What a client has to do with the store is read off    *)
(* its Writer alone.                                                         *)
StatusOf(x) ==
  CASE x.pc = "idle" -> "idle"
    [] x.pc \in {"flush", "compacted"} -> "ok"
    [] x.pc = "return" \/ (x.pc = "queue" /\ x.done) -> IF x.ok THEN "ok" ELSE "failed"
    [] OTHER -> "pending"
CallOf(x) == [pc |-> StatusOf(x), keys |-> x.batch, val |-> x.val]

LEMMA StatusIs ==
  ASSUME NEW x
  PROVE  /\ x.pc \in {"sleep", "room"} \cup Writing => StatusOf(x) = "pending"
         /\ x.pc = "queue" /\ ~x.done => StatusOf(x) = "pending"
         /\ x.pc = "return" \/ (x.pc = "queue" /\ x.done) =>
              StatusOf(x) = IF x.ok THEN "ok" ELSE "failed"
         /\ x.pc \in {"flush", "compacted"} => StatusOf(x) = "ok"
         /\ x.pc = "idle" => StatusOf(x) = "idle"
BY DEF StatusOf, Writing

LEMMA StoreWriteIs ==
  \A t \in Clients : StoreWrite(t) = CallOf(w[t])
BY DEF StoreWrite, StoreStatus, CallOf, StatusOf

(* The first n writers of q get the status ok, all others keep theirs.       *)
GivesStatus(u, q, v, n, ok) ==
  /\ \A i \in 1..n :
       CallOf(u[q[i]]) = [pc |-> IF ok THEN "ok" ELSE "failed",
                          keys |-> v[q[i]].batch, val |-> v[q[i]].val]
  /\ \A x \in Clients : (\A i \in 1..n : q[i] # x) => CallOf(u[x]) = CallOf(v[x])

LEMMA FinishGivesStatus ==
  ASSUME NEW q, NEW v, QueueType(q, v), QueueInv(q, v),
         NEW t \in Clients, Len(q) # 0, q[1] = t, NEW n \in 1..Len(q),
         NEW ok \in BOOLEAN
  PROVE  /\ GivesStatus(WritersAfter(t, q, v, n, ok), q, v, n, ok)
         /\ \A i \in 1..n : StatusOf(v[q[i]]) = "pending"
<1> DEFINE u == WritersAfter(t, q, v, n, ok)
<1>1. /\ \A x \in Clients : v[x] \in WriterRec
      /\ \A i \in 1..n : i \in 1..Len(q) /\ q[i] \in Clients
      /\ 1 \in 1..n
  BY QueueFacts
<1>2. \A x \in Clients :
        /\ x = t => u[x] = [v[x] EXCEPT !.pc = "return", !.ok = ok]
        /\ x # t /\ (\E i \in 1..n : q[i] = x) => u[x] = [v[x] EXCEPT !.done = TRUE, !.ok = ok]
        /\ x # t /\ ~(\E i \in 1..n : q[i] = x) => u[x] = v[x]
  BY DEF WritersAfter
<1> HIDE DEF u
<1>3. ASSUME NEW i \in 1..n
      PROVE  /\ StatusOf(v[q[i]]) = "pending"
             /\ q[i] # t => v[q[i]].pc = "queue"
  <2>1. InQueue(v, q[i]) /\ v[q[i]].pc \in Waiting \cup Writing /\ ~v[q[i]].done
    BY <1>1 DEF QueueInv, InQueue
  <2>2. StatusOf(v[q[i]]) = "pending"
    BY <2>1, StatusIs DEF Waiting
  <2>3. q[i] # t => v[q[i]].pc \notin {"sleep", "room"} \cup Writing
    BY <1>1 DEF QueueInv
  <2>4. QED
    BY <2>1, <2>2, <2>3 DEF Waiting
<1>4. ASSUME NEW i \in 1..n
      PROVE  CallOf(u[q[i]]) = [pc |-> IF ok THEN "ok" ELSE "failed",
                                keys |-> v[q[i]].batch, val |-> v[q[i]].val]
  <2> DEFINE r1 == [v[q[i]] EXCEPT !.pc = "return", !.ok = ok]
             r2 == [v[q[i]] EXCEPT !.done = TRUE, !.ok = ok]
  <2>1. u[q[i]] = IF q[i] = t THEN r1 ELSE r2
    BY <1>1, <1>2
  <2>2. /\ r1.pc = "return" /\ r1.ok = ok /\ r1.batch = v[q[i]].batch
        /\ r1.val = v[q[i]].val
        /\ r2.pc = v[q[i]].pc /\ r2.done /\ r2.ok = ok
        /\ r2.batch = v[q[i]].batch /\ r2.val = v[q[i]].val
    BY <1>1 DEF WriterRec
  <2> HIDE DEF r1, r2
  <2>3. /\ StatusOf(r1) = IF ok THEN "ok" ELSE "failed"
        /\ q[i] # t => StatusOf(r2) = IF ok THEN "ok" ELSE "failed"
    BY <1>3, <2>2, StatusIs
  <2>4. QED
    BY <2>1, <2>2, <2>3 DEF CallOf
<1>5. ASSUME NEW x \in Clients, \A i \in 1..n : q[i] # x
      PROVE  CallOf(u[x]) = CallOf(v[x])
  BY <1>1, <1>2, <1>5
<1>6. QED
  BY <1>3, <1>4, <1>5 DEF GivesStatus, u

LEMMA MakeRoomShows ==
  ASSUME NEW q, NEW v, NEW c, WritersInv(q, v, c), FilesInv,
         NEW t \in Clients, Len(q) # 0, q[1] = t, v[t].pc \in Waiting,
         MakeRoomForWrite(t, q, v), last_sequence' = last_sequence
  PROVE  /\ EntriesGrow
         /\ \/ hist' = hist /\ \A x \in Clients : CallOf(w'[x]) = CallOf(v[x])
            \/ \E ok \in BOOLEAN : FinishGroup(t, q, v, 1, ok)
<1> DEFINE n == GroupSize(q, v)
           u == [v EXCEPT ![t].pc = "log", ![t].group = n,
                          ![t].updates = Updates(q, v, n),
                          ![t].last = last_sequence + Cardinality(Slots(q, v, n))]
<1>1. /\ FilesType /\ ImmType /\ HistType /\ last_sequence \in Nat
      /\ QueueType(q, v) /\ QueueInv(q, v)
  BY DEF FilesInv, FilesType, WritersInv
<1>2. /\ v \in [Clients -> WriterRec] /\ v[t] \in WriterRec
      /\ Len(q) \in Nat /\ 1 \in 1..Len(q)
  BY <1>1, QueueFacts DEF QueueType
<1>3. StatusOf(v[t]) = "pending"
  <2>1. ~v[t].done
    BY <1>1, <1>2 DEF QueueInv, InQueue
  <2>2. QED
    BY <2>1, StatusIs DEF Waiting
<1>4. ASSUME NEW r, w' = [v EXCEPT ![t] = r], StatusOf(r) = "pending",
             r.batch = v[t].batch, r.val = v[t].val
      PROVE  \A x \in Clients : CallOf(w'[x]) = CallOf(v[x])
  BY <1>2, <1>3, <1>4 DEF CallOf
<1>5. w' = u => \A x \in Clients : CallOf(w'[x]) = CallOf(v[x])
  <2> DEFINE r == [v[t] EXCEPT !.pc = "log", !.group = n, !.updates = Updates(q, v, n),
                               !.last = last_sequence + Cardinality(Slots(q, v, n))]
  <2>1. u = [v EXCEPT ![t] = r]
    BY <1>2
  <2>2. r.pc = "log" /\ r.batch = v[t].batch /\ r.val = v[t].val
    BY <1>2 DEF WriterRec
  <2> HIDE DEF r, u
  <2>3. StatusOf(r) = "pending"
    BY <2>2, StatusIs DEF Writing
  <2>4. QED
    BY <1>4, <2>1, <2>2, <2>3
<1> HIDE DEF u, n
<1>6. /\ \A m \in 1..Len(mtab) : \A e \in mtab[m] : e.seq <= last_sequence
      /\ Fresh = {}
  BY <1>1, NobodyIsWriting
<1>7. ASSUME FilesGrow, NEW ok \in BOOLEAN, ok => v[t].batch = NullBatch,
             FinishGroup(t, q, v, 1, ok)
      PROVE  EntriesGrow
  <2>1. v[t].batch = NullBatch => Carries(Fresh, q, v, 1, last_sequence)
    <3>1. ASSUME v[t].batch = NullBatch PROVE \A i \in 1..1 : v[q[i]].batch = <<>>
      BY <3>1 DEF NullBatch
    <3>2. DOMAIN <<>> = {}
      OBVIOUS
    <3>3. QED
      BY <1>6, <3>1, <3>2 DEF Carries, NullBatch
  <2>2. ok => \E last : Carries(Fresh, q, v, 1, last)
    BY <1>7, <2>1
  <2>3. /\ last_sequence <= last_sequence' /\ last_sequence' \in Nat
        /\ \A m \in 1..Len(mtab) : \A e \in mtab[m] :
             e.seq <= last_sequence \/ m = Len(mtab)
    BY <1>1, <1>6
  <2>4. QED
    BY <1>2, <1>7, <2>2, <2>3, FinishGrows
<1>8. FilesGrow /\ hist' = hist => EntriesGrow
  <2>1. ASSUME FilesGrow
        PROVE  /\ \A m \in 1..Len(mtab') : \A e \in mtab'[m] :
                    m \in 1..Len(mtab) /\ e \in mtab[m]
               /\ Len(mtab') \in Nat /\ Len(mtab) <= Len(mtab')
    BY <1>1, <2>1, GrowKeepsEntries, FilesFacts DEF FilesGrow
  <2>2. Len(hist) \in Nat
    BY <1>1 DEF HistType
  <2>3. QED
    BY <1>1, <2>1, <2>2 DEF EntriesGrow
<1>9. ASSUME FilesGrow, RoomMade(t, q, v)
      PROVE  /\ EntriesGrow
             /\ \/ hist' = hist /\ \A x \in Clients : CallOf(w'[x]) = CallOf(v[x])
                \/ \E ok \in BOOLEAN : FinishGroup(t, q, v, 1, ok)
  <2>1. CASE v[t].batch = NullBatch
    <3>1. FinishGroup(t, q, v, 1, TRUE)
      BY <1>9, <2>1 DEF RoomMade
    <3>2. QED
      BY <1>7, <1>9, <2>1, <3>1
  <2>2. CASE v[t].batch # NullBatch
    <3>1. w' = u /\ hist' = hist
      BY <1>9, <2>2 DEF RoomMade, u, n
    <3>2. QED
      BY <1>5, <1>8, <1>9, <3>1
  <2>3. QED
    BY <2>1, <2>2
<1>10. imm' = imm /\ UNCHANGED files => FilesGrow
  BY <1>1, FilesStay
<1>11. CASE YieldError(t, q, v) \/ NewLogFails(t, q, v)
  <2>1. FinishGroup(t, q, v, 1, FALSE) /\ imm' = imm /\ UNCHANGED files
    BY <1>11 DEF YieldError, NewLogFails, bgVars, bgButFaults
  <2>2. QED
    BY <1>7, <1>10, <2>1
<1>12. CASE DelayOnce(t, q, v) \/ WaitForRoom(t, q, v)
  <2> DEFINE r1 == [v[t] EXCEPT !.pc = "sleep", !.allow_delay = FALSE]
             r2 == [v[t] EXCEPT !.pc = "room"]
  <2>1. /\ w' = [v EXCEPT ![t] = r1] \/ w' = [v EXCEPT ![t] = r2]
        /\ imm' = imm /\ UNCHANGED <<files, hist>>
    BY <1>2, <1>12 DEF DelayOnce, WaitForRoom, bgVars
  <2>2. /\ r1.pc = "sleep" /\ r1.batch = v[t].batch /\ r1.val = v[t].val
        /\ r2.pc = "room" /\ r2.batch = v[t].batch /\ r2.val = v[t].val
    BY <1>2 DEF WriterRec
  <2> HIDE DEF r1, r2
  <2>3. StatusOf(r1) = "pending" /\ StatusOf(r2) = "pending"
    BY <2>2, StatusIs
  <2>4. \A x \in Clients : CallOf(w'[x]) = CallOf(v[x])
    BY <1>4, <2>1, <2>2, <2>3
  <2>5. QED
    BY <1>8, <1>10, <2>1, <2>4
<1>13. CASE UseMemTable(t, q, v)
  <2>1. RoomMade(t, q, v) /\ imm' = imm /\ UNCHANGED files
    BY <1>13 DEF UseMemTable, bgVars
  <2>2. QED
    BY <1>9, <1>10, <2>1
<1>14. CASE UseNewMemTable(t, q, v)
  <2>1. /\ RoomMade(t, q, v) /\ imm = NULL /\ imm' = mem
        /\ log' = Append(log, <<>>) /\ synced' = Append(synced, 0)
        /\ mtab' = Append(mtab, {})
    BY <1>14 DEF UseNewMemTable, SwitchMemTable
  <2>2. FilesGrow
    BY <1>1, <2>1, FilesSwitch
  <2>3. QED
    BY <1>9, <2>1, <2>2
<1>15. QED
  BY <1>11, <1>12, <1>13, <1>14 DEF MakeRoomForWrite

-----------------------------------------------------------------------------
(* Steps of the store.                                                       *)
CallsBar == [t \in Clients |-> StoreWrite(t)]
HistBar == [i \in DOMAIN hist |-> [keys |-> hist[i].keys, val |-> hist[i].val]]
ReadsBar == [r \in Readers |-> [pc |-> rd[r].pc, key |-> rd[r].key,
                               view |-> rd[r].view, got |-> rd[r].got]]

LEMMA BarsAre ==
  /\ CallsBar = [t \in Clients |-> CallOf(w[t])]
  /\ CallsBar' = [t \in Clients |-> CallOf(w'[t])]
BY DEF CallsBar, StoreWrite, StoreStatus, CallOf, StatusOf

LEMMA StoreStutters ==
  ASSUME \A x \in Clients : CallOf(w'[x]) = CallOf(w[x]), hist' = hist, rd' = rd
  PROVE  UNCHANGED Store!storeVars
<1>1. CallsBar' = CallsBar
  BY BarsAre
<1>2. UNCHANGED <<hist, rd>>
  OBVIOUS
<1>3. QED
  BY <1>1, <1>2 DEF Store!storeVars, CallsBar

Calls == [keys : Batches \cup {NullBatch}, val : Nat]

LEMMA HistBarIs ==
  ASSUME hist \in Seq(HistRec)
  PROVE  /\ HistBar \in Seq(Calls) /\ Len(HistBar) = Len(hist) /\ Len(hist) \in Nat
         /\ DOMAIN HistBar = 1..Len(hist)
         /\ \A i \in 1..Len(hist) : HistBar[i] = [keys |-> hist[i].keys, val |-> hist[i].val]
<1>1. Len(hist) \in Nat /\ DOMAIN hist = 1..Len(hist) /\ \A i \in 1..Len(hist) : hist[i] \in HistRec
  OBVIOUS
<1>2. \A i \in 1..Len(hist) : [keys |-> hist[i].keys, val |-> hist[i].val] \in Calls
  BY <1>1 DEF HistRec, Calls
<1>3. HistBar = [i \in 1..Len(hist) |-> [keys |-> hist[i].keys, val |-> hist[i].val]]
  BY <1>1 DEF HistBar
<1>4. QED
  BY <1>1, <1>2, <1>3

LEMMA OrdersAre ==
  ASSUME NEW S, NEW o, o \in UNION {[1..n -> S] : n \in 1..Cardinality(S)},
         \A i, j \in DOMAIN o : o[i] = o[j] => i = j
  PROVE  o \in Store!Orders(S)
<1>1. Store!Cardinality(S) = Cardinality(S)
  BY DEF Store!Cardinality, Cardinality
<1>2. QED
  BY <1>1 DEF Store!Orders

(* The queue's front writer finishes its group: TakesEffect or Fails.        *)
LEMMA GroupTakesEffect ==
  ASSUME WqInv, NEW t \in Clients, Len(writers) # 0, writers[1] = t,
         NEW n \in 1..Len(writers), FinishGroup(t, writers, w, n, TRUE), rd' = rd
  PROVE  Store!TakesEffect
<1> DEFINE o == [i \in 1..n |-> writers[i]]
           put == [i \in DOMAIN o |-> [keys |-> CallsBar[o[i]].keys, val |-> CallsBar[o[i]].val]]
<1>1. /\ QueueType(writers, w) /\ QueueInv(writers, w) /\ HistType
      /\ Len(writers) \in Nat /\ n \in Nat /\ n <= Len(writers) /\ n # 0
      /\ \A i \in 1..n : i \in 1..Len(writers) /\ writers[i] \in Clients
  BY QueueFacts DEF WqInv, WritersInv, FilesInv
<1>2. /\ GivesStatus(w', writers, w, n, TRUE)
      /\ \A i \in 1..n : StatusOf(w[writers[i]]) = "pending"
  BY <1>1, FinishGivesStatus DEF FinishGroup
<1>3. DOMAIN o = 1..n /\ \A i \in 1..n : o[i] = writers[i]
  OBVIOUS
<1> HIDE DEF o
<1>4. \A i \in 1..n : o[i] \in Store!Pending
  <2>1. \A i \in 1..n : CallsBar[o[i]].pc = "pending"
    BY <1>1, <1>2, <1>3, BarsAre DEF CallOf
  <2>2. QED
    BY <1>1, <1>3, <2>1 DEF Store!Pending, CallsBar
<1>5. o \in Store!Orders(Store!Pending)
  <2> DEFINE P == Store!Pending
  <2>1. \A i, j \in 1..n : o[i] = o[j] => i = j
    BY <1>1, <1>3 DEF QueueInv
  <2>2. o \in [1..n -> P]
    BY <1>3, <1>4 DEF o
  <2>3. IsFiniteSet(P)
    <3>1. P \in SUBSET Clients
      BY DEF Store!Pending
    <3> HIDE DEF P
    <3>2. QED
      BY <3>1, FS_Subset, WriteAssumption
  <2>4. n \in 1..Cardinality(P)
    <3>1. o \in Injection(1..n, P)
      BY <2>1, <2>2 DEF Injection, IsInjective
    <3>2. Cardinality(1..n) <= Cardinality(P)
      <4> HIDE DEF P
      <4> QED BY <2>3, <3>1, FS_Injection
    <3>3. Cardinality(1..n) = n
      BY <1>1, FS_Interval
    <3>4. Cardinality(P) \in Nat
      BY <2>3, FS_CardinalityType
    <3>5. QED
      BY <1>1, <3>2, <3>3, <3>4
  <2> HIDE DEF P
  <2>5. o \in UNION {[1..k -> P] : k \in 1..Cardinality(P)}
    BY <2>2, <2>4
  <2>6. o \in Store!Orders(P)
    <3>1. \A i, j \in DOMAIN o : o[i] = o[j] => i = j
      BY <1>3, <2>1
    <3>2. QED
      BY <2>5, <3>1, OrdersAre
  <2>7. QED
    BY <2>6 DEF P
<1>6. HistBar' = HistBar \o put
  <2>1. Extends(hist', writers, w, n) /\ hist' \in Seq(HistRec) /\ hist \in Seq(HistRec)
    BY <1>1, HistGrows DEF FinishGroup, HistAfter, HistType
  <2>2. \A i \in 1..n : put[i] = [keys |-> w[writers[i]].batch, val |-> w[writers[i]].val]
    BY <1>1, <1>3, BarsAre DEF CallOf
  <2>3. ASSUME NEW i \in 1..n PROVE put[i] \in Calls
    <3>1. \A x \in Clients : w[x].batch \in Batches \cup {NullBatch} /\ w[x].val \in Nat
      BY <1>1, QueueFacts
    <3>2. ASSUME NEW b \in Batches \cup {NullBatch}, NEW k \in Nat
          PROVE  [keys |-> b, val |-> k] \in Calls
      BY DEF Calls
    <3>3. writers[i] \in Clients
      BY <1>1
    <3>4. [keys |-> w[writers[i]].batch, val |-> w[writers[i]].val] \in Calls
      BY <3>1, <3>2, <3>3
    <3>5. QED
      BY <2>2, <3>4
  <2>4. put \in Seq(Calls) /\ Len(put) = n
    BY <1>1, <1>3, <2>3
  <2>5. /\ HistBar \in Seq(Calls) /\ Len(HistBar) = Len(hist) /\ Len(hist) \in Nat
        /\ \A i \in 1..Len(hist) : HistBar[i] = [keys |-> hist[i].keys, val |-> hist[i].val]
    BY <2>1, HistBarIs
  <2>6. /\ Len(HistBar') = Len(hist') /\ DOMAIN HistBar' = 1..Len(hist')
        /\ HistBar' = [i \in 1..Len(hist') |-> HistBar'[i]]
        /\ \A i \in 1..Len(hist') : HistBar'[i] = [keys |-> hist'[i].keys, val |-> hist'[i].val]
    BY <2>1 DEF HistBar
  <2> HIDE DEF put
  <2>7. /\ HistBar \o put \in Seq(Calls) /\ Len(HistBar \o put) = Len(hist) + n
        /\ \A i \in 1..(Len(hist) + n) :
             (HistBar \o put)[i] = IF i <= Len(hist) THEN HistBar[i] ELSE put[i - Len(hist)]
    <3>1. /\ HistBar \o put \in Seq(Calls) /\ Len(HistBar \o put) = Len(HistBar) + Len(put)
          /\ \A i \in 1..(Len(HistBar) + Len(put)) : (HistBar \o put)[i] =
               IF i <= Len(HistBar) THEN HistBar[i] ELSE put[i - Len(HistBar)]
      <4>1. ASSUME NEW a \in Seq(Calls), NEW b \in Seq(Calls)
            PROVE  /\ a \o b \in Seq(Calls) /\ Len(a \o b) = Len(a) + Len(b)
                   /\ \A i \in 1..(Len(a) + Len(b)) :
                        (a \o b)[i] = IF i <= Len(a) THEN a[i] ELSE b[i - Len(a)]
        BY ConcatProperties
      <4>2. QED
        BY <2>4, <2>5, <4>1
    <3>2. Len(HistBar) = Len(hist) /\ Len(put) = n
      BY <2>4, <2>5
    <3>3. QED
      BY <3>1, <3>2
  <2>8. ASSUME NEW i \in 1..Len(hist') PROVE HistBar'[i] = (HistBar \o put)[i]
    <3>1. Len(hist') = Len(hist) + n
      BY <2>1 DEF Extends
    <3>2. CASE i \in 1..Len(hist)
      <4>1. HistBar'[i] = HistBar[i]
        BY <2>1, <2>5, <2>6, <3>2 DEF Extends
      <4>2. i <= Len(hist) /\ i \in 1..(Len(hist) + n)
        BY <1>1, <2>5, <3>2
      <4>3. QED
        BY <2>7, <4>1, <4>2
    <3>3. ASSUME NEW k \in 1..n, i = Len(hist) + k
          PROVE  HistBar'[i] = (HistBar \o put)[i]
      <4>1. HistBar'[i] = put[k]
        <5>1. HistBar'[i] = [keys |-> hist'[i].keys, val |-> hist'[i].val]
          BY <2>6
        <5>2. hist'[i].keys = w[writers[k]].batch /\ hist'[i].val = w[writers[k]].val
          BY <2>1, <3>3 DEF Extends
        <5>3. QED
          BY <2>2, <5>1, <5>2
      <4>2. ~(i <= Len(hist)) /\ i - Len(hist) = k
        BY <1>1, <2>5, <3>3
      <4>3. QED
        BY <2>7, <3>1, <4>1, <4>2
    <3>4. i \in 1..Len(hist) \/ \E k \in 1..n : i = Len(hist) + k
      BY <2>1 DEF Extends
    <3>5. QED
      BY <3>2, <3>3, <3>4
  <2>9. HistBar \o put = [i \in 1..Len(hist') |-> (HistBar \o put)[i]]
    <3>1. Len(HistBar \o put) = Len(hist')
      BY <2>1, <2>7 DEF Extends
    <3>2. HistBar \o put = [i \in 1..Len(HistBar \o put) |-> (HistBar \o put)[i]]
      <4>1. HistBar \o put \in Seq(Calls)
        BY <2>7
      <4>2. \A f : f \in Seq(Calls) => f = [i \in 1..Len(f) |-> f[i]]
        OBVIOUS
      <4>3. QED
        BY <4>1, <4>2
    <3>3. QED
      BY <3>1, <3>2
  <2>10. QED
    BY <2>6, <2>8, <2>9
<1>7. CallsBar' = [x \in Clients |-> IF \E i \in DOMAIN o : o[i] = x
                                     THEN [CallsBar[x] EXCEPT !.pc = "ok"] ELSE CallsBar[x]]
  <2>1. ASSUME NEW x \in Clients, NEW i \in 1..n, o[i] = x
        PROVE  CallOf(w'[x]) = [CallOf(w[x]) EXCEPT !.pc = "ok"]
    BY <1>2, <1>3, <2>1 DEF GivesStatus, CallOf
  <2>2. ASSUME NEW x \in Clients, ~\E i \in 1..n : o[i] = x
        PROVE  CallOf(w'[x]) = CallOf(w[x])
    BY <1>2, <1>3, <2>2 DEF GivesStatus
  <2>3. ASSUME NEW x \in Clients
        PROVE  CallOf(w'[x]) = IF \E i \in DOMAIN o : o[i] = x
                               THEN [CallsBar[x] EXCEPT !.pc = "ok"] ELSE CallsBar[x]
    <3>1. CallsBar[x] = CallOf(w[x]) /\ DOMAIN o = 1..n
      BY <1>3, BarsAre
    <3>2. QED
      BY <2>1, <2>2, <3>1
  <2>4. QED
    BY <2>3, BarsAre
<1>8. ReadsBar' = ReadsBar
  BY DEF ReadsBar
<1>9. QED
  BY <1>5, <1>6, <1>7, <1>8, Zenon DEF Store!TakesEffect, HistBar, CallsBar, ReadsBar

LEMMA GroupFails ==
  ASSUME WqInv, NEW t \in Clients, Len(writers) # 0, writers[1] = t,
         NEW n \in 1..Len(writers), FinishGroup(t, writers, w, n, FALSE), rd' = rd
  PROVE  Store!Fails
<1> DEFINE S == {writers[i] : i \in 1..n}
<1>1. /\ QueueType(writers, w) /\ QueueInv(writers, w)
      /\ Len(writers) \in Nat /\ n \in Nat /\ n # 0
      /\ \A i \in 1..n : i \in 1..Len(writers) /\ writers[i] \in Clients
  BY QueueFacts DEF WqInv, WritersInv
<1>2. /\ GivesStatus(w', writers, w, n, FALSE)
      /\ \A i \in 1..n : StatusOf(w[writers[i]]) = "pending"
      /\ hist' = hist
  BY <1>1, FinishGivesStatus DEF FinishGroup, HistAfter
<1>3. S \in (SUBSET Store!Pending) \ {{}}
  <2>1. \A i \in 1..n : CallsBar[writers[i]].pc = "pending"
    BY <1>1, <1>2, BarsAre DEF CallOf
  <2>2. \A i \in 1..n : writers[i] \in Store!Pending
    BY <1>1, <2>1 DEF Store!Pending, CallsBar
  <2>3. writers[1] \in S
    BY <1>1
  <2>4. S \in SUBSET Store!Pending /\ S # {}
    <3> DEFINE P == Store!Pending
    <3>1. \A i \in 1..n : writers[i] \in P
      BY <2>2
    <3> HIDE DEF P
    <3>2. S \in SUBSET P /\ S # {}
      BY <2>3, <3>1
    <3>3. QED
      BY <3>2 DEF P
  <2>5. QED
    BY <2>4, Zenon
<1>4. CallsBar' = [x \in Clients |-> IF x \in S THEN [CallsBar[x] EXCEPT !.pc = "failed"]
                                                ELSE CallsBar[x]]
  <2>1. ASSUME NEW x \in Clients, NEW i \in 1..n, writers[i] = x
        PROVE  CallOf(w'[x]) = [CallOf(w[x]) EXCEPT !.pc = "failed"]
    BY <1>2, <2>1 DEF GivesStatus, CallOf
  <2>2. ASSUME NEW x \in Clients, ~\E i \in 1..n : writers[i] = x
        PROVE  CallOf(w'[x]) = CallOf(w[x])
    BY <1>2, <2>2 DEF GivesStatus
  <2>3. ASSUME NEW x \in Clients
        PROVE  CallOf(w'[x]) = IF x \in S THEN [CallsBar[x] EXCEPT !.pc = "failed"]
                                          ELSE CallsBar[x]
    <3>1. CallsBar[x] = CallOf(w[x])
      BY BarsAre
    <3>2. QED
      BY <2>1, <2>2, <3>1
  <2>4. QED
    BY <2>3, BarsAre
<1>5. ReadsBar' = ReadsBar /\ HistBar' = HistBar
  BY <1>2 DEF ReadsBar, HistBar
<1> HIDE DEF S
<1>6. QED
  BY <1>3, <1>4, <1>5, Zenon DEF Store!Fails, HistBar, CallsBar, ReadsBar

(* A call of Write that only begins, or is over at once.                     *)
LEMMA CallIsTaken ==
  ASSUME NEW t \in Clients, NEW b \in Batches \cup {NullBatch}, NEW k \in 1..MaxCalls,
         NEW status \in {"pending", "ok", "failed"}, CallOf(w[t]).pc = "idle",
         CallOf(w'[t]) = [pc |-> status, keys |-> b, val |-> k],
         \A x \in Clients : x # t => CallOf(w'[x]) = CallOf(w[x]),
         HistBar' = (IF status = "ok" THEN Append(HistBar, [keys |-> b, val |-> k])
                                      ELSE HistBar),
         rd' = rd
  PROVE  Store!CallsWrite(t)
<1>1. CallsBar[t].pc = "idle"
  BY BarsAre
<1>2. CallsBar' = [CallsBar EXCEPT ![t] = [pc |-> status, keys |-> b, val |-> k]]
  BY BarsAre
<1>3. ReadsBar' = ReadsBar
  BY DEF ReadsBar
<1>4. QED
  BY <1>1, <1>2, <1>3, Zenon DEF Store!CallsWrite, HistBar, CallsBar, ReadsBar

LEMMA CallIsCalled ==
  ASSUME WqInv, NEW t \in Clients, CallWrite(t)
  PROVE  Store!CallsWrite(t) /\ EntriesGrow /\ rd' = rd
<1>1. /\ w[t].pc = "idle" /\ calls' = calls + 1 /\ calls \in Nat /\ calls < MaxCalls
      /\ last_sequence' = last_sequence /\ rd' = rd
      /\ WritersInv(writers, w, calls) /\ FilesInv /\ HistType
      /\ writers \in Seq(Clients) /\ w \in [Clients -> WriterRec]
  BY DEF CallWrite, WqInv, FilesInv, HistType, WritersInv, QueueType
<1>2. PICK b \in Batches \cup {NullBatch}, s \in SyncModes :
        LET me == [IdleWriter EXCEPT !.pc = "queue", !.batch = b, !.sync = s,
                                     !.val = calls + 1, !.seen = Len(hist)]
            v == [w EXCEPT ![t] = me]
            q == Append(writers, t)
        IN  IF writers = <<>>
            THEN MakeRoomForWrite(t, q, v)
            ELSE /\ writers' = q /\ w' = v
                 /\ UNCHANGED <<bgVars, files, hist>>
  BY DEF CallWrite
<1> DEFINE me == [IdleWriter EXCEPT !.pc = "queue", !.batch = b, !.sync = s,
                                    !.val = calls + 1, !.seen = Len(hist)]
           v == [w EXCEPT ![t] = me]
           q == Append(writers, t)
<1>3. /\ me \in WriterRec /\ me.pc = "queue" /\ ~me.done /\ me.ok
      /\ me.val = calls + 1 /\ me.batch = b
  <2>1. Len(hist) \in Nat /\ s \in BOOLEAN /\ calls + 1 \in Nat
    BY <1>1, WriteAssumption DEF HistType
  <2>2. QED
    BY <2>1 DEF IdleWriter, WriterRec, Waiting
<1>4. IF writers = <<>>
      THEN MakeRoomForWrite(t, q, v)
      ELSE w' = v /\ UNCHANGED <<bgVars, files, hist>>
  BY <1>2
<1> HIDE DEF me
<1>5. WritersInv(q, v, calls + 1) /\ v[t] = me /\ \A x \in Clients : x # t => v[x] = w[x]
  BY <1>1, <1>3, JoinsQueue
<1>6. /\ CallOf(w[t]).pc = "idle" /\ calls + 1 \in 1..MaxCalls
      /\ CallOf(v[t]) = [pc |-> "pending", keys |-> b, val |-> calls + 1]
  <2>1. calls + 1 \in 1..MaxCalls
    BY <1>1, WriteAssumption
  <2>2. QED
    BY <1>1, <1>3, <1>5, <2>1, StatusIs DEF CallOf
<1> HIDE DEF v
<1>7. ASSUME \A x \in Clients : CallOf(w'[x]) = CallOf(v[x]), hist' = hist
      PROVE  Store!CallsWrite(t)
  <2>1. HistBar' = HistBar
    BY <1>7 DEF HistBar
  <2>2. CallOf(w'[t]) = [pc |-> "pending", keys |-> b, val |-> calls + 1]
    BY <1>6, <1>7
  <2>3. \A x \in Clients : x # t => CallOf(w'[x]) = CallOf(w[x])
    BY <1>5, <1>7
  <2>4. HistBar' = (IF "pending" = "ok" THEN Append(HistBar, [keys |-> b, val |-> calls + 1])
                                        ELSE HistBar)
    BY <2>1
  <2>5. QED
    BY <1>1, <1>6, <2>2, <2>3, <2>4, CallIsTaken
<1>8. CASE writers # <<>>
  <2>1. w' = v /\ UNCHANGED <<mtab, last_sequence, hist>>
    BY <1>1, <1>4, <1>8 DEF files
  <2>2. QED
    BY <1>1, <1>7, <2>1, FilesStayGrow
<1>9. CASE writers = <<>>
  <2>1. /\ Len(q) = 1 /\ q[1] = t /\ MakeRoomForWrite(t, q, v)
        /\ v[t].pc \in Waiting
    BY <1>3, <1>4, <1>5, <1>9 DEF Waiting
  <2> HIDE DEF q
  <2>2. /\ EntriesGrow
        /\ \/ hist' = hist /\ \A x \in Clients : CallOf(w'[x]) = CallOf(v[x])
           \/ \E ok \in BOOLEAN : FinishGroup(t, q, v, 1, ok)
    BY <1>1, <1>5, <2>1, MakeRoomShows
  <2>3. ASSUME NEW ok \in BOOLEAN, FinishGroup(t, q, v, 1, ok)
        PROVE  Store!CallsWrite(t)
    <3> DEFINE status == IF ok THEN "ok" ELSE "failed"
               put == [keys |-> b, val |-> calls + 1]
    <3>1. QueueType(q, v) /\ QueueInv(q, v)
      BY <1>5 DEF WritersInv
    <3>2. GivesStatus(w', q, v, 1, ok)
      BY <2>1, <2>3, <3>1, FinishGivesStatus DEF FinishGroup
    <3>3. /\ CallOf(w'[t]) = [pc |-> status, keys |-> b, val |-> calls + 1]
          /\ \A x \in Clients : x # t => CallOf(w'[x]) = CallOf(w[x])
      BY <1>3, <1>5, <2>1, <3>2 DEF GivesStatus
    <3>4. HistBar' = IF status = "ok" THEN Append(HistBar, put) ELSE HistBar
      <4>1. CASE ~ok
        BY <2>3, <4>1 DEF HistBar, FinishGroup, HistAfter
      <4>2. CASE ok
        <5>1. Extends(hist', q, v, 1) /\ hist' \in Seq(HistRec) /\ hist \in Seq(HistRec)
          <6>1. hist' = HistAfter(q, v, 1, TRUE)
            BY <2>3, <4>2 DEF FinishGroup
          <6>2. 1 \in Nat /\ 1 <= Len(q)
            BY <2>1
          <6>3. QED
            BY <1>1, <3>1, <6>1, <6>2, HistGrows DEF HistType
        <5>2. /\ HistBar \in Seq(Calls) /\ Len(HistBar) = Len(hist) /\ Len(hist) \in Nat
              /\ \A i \in 1..Len(hist) :
                   HistBar[i] = [keys |-> hist[i].keys, val |-> hist[i].val]
          BY <5>1, HistBarIs
        <5>3. /\ HistBar' = [i \in 1..Len(hist') |-> HistBar'[i]]
              /\ \A i \in 1..Len(hist') :
                   HistBar'[i] = [keys |-> hist'[i].keys, val |-> hist'[i].val]
          BY <5>1 DEF HistBar
        <5>4. put = [keys |-> v[q[1]].batch, val |-> v[q[1]].val] /\ put \in Calls
          <6>1. v[t].batch = b /\ v[t].val = calls + 1 /\ calls + 1 \in Nat
            BY <1>1, <1>3, <1>5
          <6>2. QED
            BY <2>1, <6>1 DEF Calls
        <5> HIDE DEF put
        <5>5. /\ Append(HistBar, put) \in Seq(Calls)
              /\ Append(HistBar, put) =
                   [i \in 1..(Len(hist) + 1) |-> IF i <= Len(hist) THEN HistBar[i] ELSE put]
          <6>1. ASSUME NEW a \in Seq(Calls), NEW e \in Calls
                PROVE  /\ Append(a, e) \in Seq(Calls)
                       /\ Append(a, e) =
                            [i \in 1..(Len(a) + 1) |-> IF i <= Len(a) THEN a[i] ELSE e]
            <7>1. Append(a, e) \in Seq(Calls) /\ Len(Append(a, e)) = Len(a) + 1
              OBVIOUS
            <7>2. \A i \in 1..(Len(a) + 1) :
                    Append(a, e)[i] = IF i <= Len(a) THEN a[i] ELSE e
              OBVIOUS
            <7>3. \A f \in Seq(Calls) : f = [i \in 1..Len(f) |-> f[i]]
              OBVIOUS
            <7>4. Append(a, e) = [i \in 1..(Len(a) + 1) |-> Append(a, e)[i]]
              BY <7>1, <7>3
            <7> QED
              BY <7>1, <7>2, <7>4
          <6>2. QED
            BY <5>2, <5>4, <6>1
        <5>6. Len(hist') = Len(hist) + 1
          BY <5>1 DEF Extends
        <5>7. ASSUME NEW i \in 1..(Len(hist) + 1)
              PROVE  HistBar'[i] = IF i <= Len(hist) THEN HistBar[i] ELSE put
          <6>1. CASE i <= Len(hist)
            <7>1. i \in 1..Len(hist) /\ i \in 1..Len(hist')
              BY <5>2, <5>6, <6>1
            <7>2. hist'[i] = hist[i]
              BY <5>1, <7>1 DEF Extends
            <7>3. QED
              BY <5>2, <5>3, <6>1, <7>1, <7>2
          <6>2. CASE i = Len(hist) + 1
            <7>1. ~(i <= Len(hist)) /\ i \in 1..Len(hist') /\ 1 \in 1..1
              BY <5>2, <5>6, <6>2
            <7>2. hist'[i].keys = v[q[1]].batch /\ hist'[i].val = v[q[1]].val
              BY <5>1, <6>2, <7>1 DEF Extends
            <7>3. QED
              BY <5>3, <5>4, <7>1, <7>2
          <6>3. QED
            BY <5>2, <6>1, <6>2
        <5>8. HistBar' = Append(HistBar, put)
          BY <5>3, <5>5, <5>6, <5>7
        <5>9. QED
          BY <4>2, <5>8
      <4>3. QED
        BY <4>1, <4>2
    <3>5. QED
      BY <1>1, <1>6, <3>3, <3>4, CallIsTaken
  <2>4. QED
    BY <1>1, <1>7, <2>2, <2>3
<1>10. QED
  BY <1>8, <1>9

-----------------------------------------------------------------------------
(* The steps of a writer.                                                    *)
StoreMoves == Store!StoreNext \/ UNCHANGED Store!storeVars

LEMMA GroupEnds ==
  ASSUME WqInv, NEW t \in Clients, Len(writers) # 0, writers[1] = t,
         NEW n \in 1..Len(writers), NEW ok \in BOOLEAN,
         FinishGroup(t, writers, w, n, ok), rd' = rd
  PROVE  StoreMoves
<1>1. CASE ok
  <2>1. FinishGroup(t, writers, w, n, TRUE)
    BY <1>1
  <2>2. Store!TakesEffect
    BY <2>1, GroupTakesEffect
  <2>3. QED
    BY <2>2 DEF StoreMoves, Store!StoreNext
<1>2. CASE ~ok
  <2>1. FinishGroup(t, writers, w, n, FALSE)
    BY <1>2
  <2>2. Store!Fails
    BY <2>1, GroupFails
  <2>3. QED
    BY <2>2 DEF StoreMoves, Store!StoreNext
<1>3. QED
  BY <1>1, <1>2

(* A step that changes one Writer, and not what its client knows.            *)
LEMMA WriterStutters ==
  ASSUME WqInv, NEW t \in Clients, NEW r, w' = [w EXCEPT ![t] = r],
         r.batch = w[t].batch, r.val = w[t].val, StatusOf(r) = StatusOf(w[t]),
         hist' = hist, rd' = rd
  PROVE  StoreMoves
<1>1. w \in [Clients -> WriterRec]
  BY DEF WqInv, WritersInv, QueueType
<1>2. \A x \in Clients : CallOf(w'[x]) = CallOf(w[x])
  BY <1>1 DEF CallOf
<1>3. QED
  BY <1>2, StoreStutters DEF StoreMoves

LEMMA RunShows ==
  ASSUME WqInv, NEW t \in Clients, WriterRuns(t)
  PROVE  StoreMoves /\ EntriesGrow /\ rd' = rd
<1>1. /\ WritersInv(writers, w, calls) /\ FilesInv
      /\ QueueInv(writers, w) /\ QueueType(writers, w) /\ w[t] \in WriterRec
  BY QueueFacts DEF WqInv, WritersInv
<1>2. last_sequence' = last_sequence /\ rd' = rd /\ w[t].pc \in Waiting
  BY DEF WriterRuns, Waiting
<1>3. CASE w[t].done
  <2> DEFINE r == [w[t] EXCEPT !.pc = "return"]
  <2>1. /\ w' = [w EXCEPT ![t] = r] /\ UNCHANGED <<mtab, hist>>
    BY <1>3 DEF WriterRuns, files
  <2>2. /\ r.pc = "return" /\ r.ok = w[t].ok /\ r.batch = w[t].batch
        /\ r.val = w[t].val
    BY <1>1 DEF WriterRec
  <2>3. w[t].pc = "queue"
    BY <1>1, <1>2, <1>3 DEF QueueInv, Waiting
  <2> HIDE DEF r
  <2>4. StatusOf(r) = StatusOf(w[t])
    BY <1>3, <2>2, <2>3, StatusIs
  <2>5. StoreMoves
    BY <1>2, <2>1, <2>2, <2>4, WriterStutters
  <2>6. QED
    BY <1>2, <2>1, <2>5, FilesStayGrow
<1>4. CASE ~w[t].done /\ writers[1] # t
  <2>1. UNCHANGED <<w, mtab, hist>>
    BY <1>4 DEF WriterRuns, files
  <2>2. \A x \in Clients : CallOf(w'[x]) = CallOf(w[x])
    BY <2>1
  <2>3. QED
    BY <1>2, <2>1, <2>2, StoreStutters, FilesStayGrow DEF StoreMoves
<1>5. CASE ~w[t].done /\ writers[1] = t
  <2>1. MakeRoomForWrite(t, writers, w)
    BY <1>5 DEF WriterRuns
  <2>2. Len(writers) # 0 /\ 1 \in 1..Len(writers)
    BY <1>1, <1>2, <1>5, QueueFacts DEF QueueInv, InQueue
  <2>3. /\ EntriesGrow
        /\ \/ hist' = hist /\ \A x \in Clients : CallOf(w'[x]) = CallOf(w[x])
           \/ \E ok \in BOOLEAN : FinishGroup(t, writers, w, 1, ok)
    BY <1>1, <1>2, <1>5, <2>1, <2>2, MakeRoomShows
  <2>4. QED
    BY <1>2, <1>5, <2>2, <2>3, GroupEnds, StoreStutters DEF StoreMoves
<1>6. QED
  BY <1>3, <1>4, <1>5

(* The front writer on its way through the log.                              *)
LEMMA LogShows ==
  ASSUME WqInv, NEW t \in Clients, AddRecord(t) \/ SyncLog(t) \/ LogOrSyncFails(t)
  PROVE  StoreMoves /\ EntriesGrow /\ rd' = rd
<1>1. w[t] \in WriterRec /\ w \in [Clients -> WriterRec]
  BY QueueFacts DEF WqInv, WritersInv, QueueType
<1>2. w[t].pc \in Writing /\ UNCHANGED <<mtab, last_sequence, hist, rd>>
  BY DEF AddRecord, SyncLog, LogOrSyncFails, Writing, files
<1>3. PICK pc \in Writing, ok \in BOOLEAN : w' = [w EXCEPT ![t].pc = pc, ![t].ok = ok]
  <2>1. CASE AddRecord(t) \/ SyncLog(t)
    <3>1. PICK pc \in Writing : w' = [w EXCEPT ![t].pc = pc]
      BY <2>1 DEF AddRecord, SyncLog, Writing
    <3>2. [w[t] EXCEPT !.pc = pc] = [w[t] EXCEPT !.pc = pc, !.ok = w[t].ok]
      BY <1>1 DEF WriterRec
    <3>3. w' = [w EXCEPT ![t].pc = pc, ![t].ok = w[t].ok]
      BY <1>1, <3>1, <3>2
    <3>4. w[t].ok \in BOOLEAN
      BY <1>1 DEF WriterRec
    <3>5. QED
      BY <3>3, <3>4
  <2>2. CASE LogOrSyncFails(t)
    BY <2>2 DEF LogOrSyncFails, Writing
  <2>3. QED
    BY <2>1, <2>2
<1> DEFINE r == [w[t] EXCEPT !.pc = pc, !.ok = ok]
<1>4. w' = [w EXCEPT ![t] = r]
  BY <1>1, <1>3
<1>5. r.pc = pc /\ r.batch = w[t].batch /\ r.val = w[t].val
  BY <1>1 DEF WriterRec
<1> HIDE DEF r
<1>6. StatusOf(r) = StatusOf(w[t])
  BY <1>2, <1>5, StatusIs
<1>7. QED
  BY <1>2, <1>4, <1>5, <1>6, WriterStutters, FilesStayGrow

LEMMA InsertShows ==
  ASSUME WqInv, NEW t \in Clients, InsertInto(t)
  PROVE  StoreMoves /\ EntriesGrow /\ rd' = rd
<1> DEFINE M == Len(mtab)
           U == w[t].updates
           next == CHOOSE e \in U : \A f \in U : e.seq <= f.seq
           r == [w[t] EXCEPT !.updates = U \ {next},
                             !.pc = IF U = {next} THEN "finish" ELSE "insert"]
<1>1. /\ w[t].pc = "insert" /\ mtab' = [mtab EXCEPT ![M] = @ \cup {next}]
      /\ w' = [w EXCEPT ![t] = r]
      /\ UNCHANGED <<last_sequence, hist, rd>>
  <2>1. w[t] \in WriterRec /\ w \in [Clients -> WriterRec]
    BY DEF WqInv, WritersInv, QueueType
  <2>2. QED
    BY <2>1 DEF InsertInto, mem
<1>2. FilesType /\ HistType
  BY DEF WqInv, FilesInv
<1>3. w[t].pc \in Writing \ {"finish"}
  BY <1>1 DEF Writing
<1>4. /\ w[t] \in WriterRec /\ U # {}
      /\ \A e \in U : /\ e \in Entry /\ last_sequence < e.seq
                      /\ \A k \in 1..Len(hist) : e.val # hist[k].val
  <2>1. w[t] \in WriterRec /\ GroupInv(t, writers, w) /\ w[t].ok
    BY <1>3, FrontFacts
  <2>2. QED
    BY <1>3, <2>1, FrontFacts DEF GroupInv
<1>5. next \in U
  <2>1. {e.seq : e \in U} # {} /\ {e.seq : e \in U} \in SUBSET Nat
    BY <1>4 DEF Entry
  <2>2. PICK x \in {e.seq : e \in U} : \A y \in {e.seq : e \in U} : x <= y
    BY <2>1, LeastNat
  <2>3. PICK e \in U : e.seq = x
    BY <2>2
  <2>4. \A f \in U : e.seq <= f.seq
    BY <2>2, <2>3
  <2>5. QED
    BY <2>3, <2>4
<1> HIDE DEF next
<1>6. /\ r.pc \in Writing /\ r.batch = w[t].batch /\ r.val = w[t].val
  BY <1>4 DEF WriterRec, Writing
<1> HIDE DEF r, U, M
<1>7. StoreMoves
  <2>1. StatusOf(r) = StatusOf(w[t])
    BY <1>3, <1>6, StatusIs
  <2>2. QED
    BY <1>1, <1>6, <2>1, WriterStutters
<1>8. EntriesGrow
  <2>1. /\ M \in Nat /\ M # 0 /\ mtab \in Seq(SUBSET Entry) /\ M = Len(mtab)
        /\ last_sequence \in Nat /\ next \in Entry /\ next.seq \in Nat
        /\ \A e \in Entry : e.seq \in Nat
    BY <1>2, <1>4, <1>5, FilesFacts DEF FilesType, M
  <2>2. /\ Len(mtab') = M /\ mtab'[M] = mtab[M] \cup {next}
        /\ \A m \in 1..M : m # M => mtab'[m] = mtab[m]
    BY <1>1, <2>1
  <2>3. ASSUME NEW m \in 1..Len(mtab'), NEW e \in mtab'[m]
        PROVE  \/ m \in 1..Len(mtab) /\ e \in mtab[m]
               \/ /\ m = Len(mtab') /\ e.seq \in Nat /\ last_sequence < e.seq
                  /\ \A k \in 1..Len(hist) : e.val # hist[k].val
    <3>1. m \in 1..M /\ (e \in mtab[m] \/ (m = M /\ e = next))
      BY <2>1, <2>2
    <3>2. QED
      BY <1>4, <1>5, <2>1, <2>2, <3>1
  <2>4. Len(hist) \in Nat
    BY <1>2 DEF HistType
  <2>5. QED
    BY <1>1, <2>1, <2>2, <2>3, <2>4 DEF EntriesGrow
<1>9. QED
  BY <1>1, <1>7, <1>8

LEMMA FinishShows ==
  ASSUME WqInv, NEW t \in Clients, FinishWrite(t)
  PROVE  StoreMoves /\ EntriesGrow /\ rd' = rd
<1>1. /\ w[t].pc = "finish" /\ w[t].pc \in Writing /\ last_sequence' = w[t].last
      /\ imm' = imm /\ UNCHANGED <<files, rd>>
      /\ FinishGroup(t, writers, w, w[t].group, w[t].ok)
  BY DEF FinishWrite, bgVars, Writing
<1>2. /\ WritersInv(writers, w, calls) /\ FilesInv /\ FilesType /\ ImmType
  BY DEF WqInv, FilesInv
<1>3. /\ w[t] \in WriterRec /\ GroupInv(t, writers, w)
      /\ Len(writers) # 0 /\ writers[1] = t /\ w[t].group \in 1..Len(writers)
      /\ \A m \in 1..Len(mtab) : \A e \in mtab[m] :
           e.seq <= last_sequence \/ m = Len(mtab)
  BY <1>1, FrontFacts
<1>4. w[t].ok \in BOOLEAN /\ w[t].last \in Nat /\ last_sequence <= w[t].last
  BY <1>3 DEF GroupInv, WriterRec
<1>5. w[t].ok => \E last : Carries(Fresh, writers, w, w[t].group, last)
  <2>1. w[t].ok => w[t].updates \cup Fresh = Fresh
    BY <1>1, <1>3 DEF GroupInv
  <2>2. w[t].ok => Carries(w[t].updates \cup Fresh, writers, w, w[t].group, w[t].last)
    BY <1>3 DEF GroupInv
  <2>3. QED
    BY <2>1, <2>2
<1>6. FilesGrow
  BY <1>1, <1>2, <1>4, FilesStay
<1>7. EntriesGrow
  BY <1>1, <1>2, <1>3, <1>4, <1>5, <1>6, FinishGrows
<1>8. StoreMoves
  BY <1>1, <1>3, <1>4, GroupEnds
<1>9. QED
  BY <1>1, <1>7, <1>8

(* After the end of Write: the caller has its status, or waits for a flush.  *)
LEMMA AfterWriteShows ==
  ASSUME WqInv, NEW t \in Clients, AwaitFlush(t) \/ ReturnToCaller(t)
  PROVE  StoreMoves /\ EntriesGrow /\ rd' = rd
<1>1. w[t] \in WriterRec /\ w \in [Clients -> WriterRec]
  BY QueueFacts DEF WqInv, WritersInv, QueueType
<1>2. UNCHANGED <<mtab, last_sequence, hist, rd>>
  BY DEF AwaitFlush, ReturnToCaller, files
<1>3. CASE AwaitFlush(t)
  <2> DEFINE r1 == [w[t] EXCEPT !.pc = "flush"]
             r2 == [w[t] EXCEPT !.pc = "compacted", !.ok = (imm = NULL)]
  <2>1. w' = [w EXCEPT ![t] = r1] \/ w' = [w EXCEPT ![t] = r2]
    BY <1>1, <1>3 DEF AwaitFlush
  <2>2. /\ r1.pc = "flush" /\ r1.batch = w[t].batch /\ r1.val = w[t].val
        /\ r2.pc = "compacted" /\ r2.batch = w[t].batch /\ r2.val = w[t].val
    BY <1>1 DEF WriterRec
  <2> HIDE DEF r1, r2
  <2>3. StatusOf(w[t]) = "ok"
    BY <1>3, StatusIs DEF AwaitFlush
  <2>4. StatusOf(r1) = "ok" /\ StatusOf(r2) = "ok"
    BY <2>2, StatusIs
  <2>5. StoreMoves
    BY <1>2, <2>1, <2>2, <2>3, <2>4, WriterStutters
  <2>6. QED
    BY <1>2, <2>5, FilesStayGrow
<1>4. CASE ReturnToCaller(t)
  <2>1. w' = [w EXCEPT ![t] = IdleWriter]
    BY <1>4 DEF ReturnToCaller
  <2>2. CallOf(IdleWriter) = Store!NoWrite
    BY DEF IdleWriter, CallOf, StatusOf, Store!NoWrite, NullBatch
  <2>3. StatusOf(w[t]) \in {"ok", "failed"}
    BY <1>4, StatusIs DEF ReturnToCaller
  <2>4. CallsBar[t].pc \in {"ok", "failed"}
    BY <2>3, BarsAre DEF CallOf
  <2>5. CallsBar' = [CallsBar EXCEPT ![t] = Store!NoWrite]
    BY <1>1, <2>1, <2>2, BarsAre
  <2>6. HistBar' = HistBar /\ ReadsBar' = ReadsBar
    BY <1>2 DEF HistBar, ReadsBar
  <2>7. Store!WriteReturns(t)
    BY <2>4, <2>5, <2>6, Zenon DEF Store!WriteReturns, HistBar, CallsBar, ReadsBar
  <2>8. QED
    BY <1>2, <2>7, FilesStayGrow DEF StoreMoves, Store!StoreNext
<1>5. QED
  BY <1>3, <1>4

-----------------------------------------------------------------------------
(* What a Get finds.                                                         *)
LEMMA NewestIs ==
  ASSUME NEW S, S # {}, NEW n \in Nat, \A e \in S : e.seq \in Nat /\ e.seq <= n
  PROVE  \E e \in S : NewestValue(S) = e.val /\ \A f \in S : f.seq <= e.seq
<1> DEFINE T == {e.seq : e \in S}
           newest == CHOOSE e \in S : \A f \in S : f.seq <= e.seq
<1>1. T \in SUBSET Nat /\ T # {} /\ \A x \in T : x <= n
  OBVIOUS
<1>2. PICK x \in T : \A y \in T : y <= x
  <2> HIDE DEF T
  <2> QED BY <1>1, GreatestNat
<1>3. PICK e \in S : e.seq = x
  OBVIOUS
<1>4. \A f \in S : f.seq <= e.seq
  BY <1>2, <1>3
<1>5. newest \in S /\ \A f \in S : f.seq <= newest.seq
  BY <1>4
<1>6. QED
  BY <1>5 DEF NewestValue

(* A later memtable has the higher sequence numbers.                         *)
LEMMA LaterTableIsNewer ==
  ASSUME WqInv, NEW m \in 1..Len(mtab), NEW n \in 1..Len(mtab), m < n,
         NEW e \in mtab[m], NEW f \in mtab[n]
  PROVE  e.seq < f.seq
<1>1. LogCoversMemTable /\ LogSequencesIncrease /\ mem = Len(mtab)
  BY DEF WqInv, FilesInv, mem
<1>2. PICK i \in 1..Len(log[m]) : e \in log[m][i]
  BY <1>1, EntriesAre DEF LogCoversMemTable
<1>3. PICK j \in 1..Len(log[n]) : f \in log[n][j]
  BY <1>1, EntriesAre DEF LogCoversMemTable
<1>4. QED
  BY <1>1, <1>2, <1>3 DEF LogSequencesIncrease

LEMMA VisibleFacts ==
  ASSUME WqInv, NEW r \in Readers, rd[r] \in ReaderRec
  PROVE  \A m \in 1..Len(mtab) :
           /\ \A e \in mtab[m] :
                e \in Visible(r, m) <=> (e.key = rd[r].key /\ e.seq <= rd[r].snap)
           /\ \A e \in Visible(r, m) :
                /\ e \in mtab[m] /\ e.key = rd[r].key /\ e.seq <= rd[r].snap
                /\ e.seq \in Nat /\ e.val \in Nat
<1>1. \A m \in 1..Len(mtab) : \A e \in mtab[m] : e.seq \in Nat /\ e.val \in Nat
  BY FilesFacts DEF WqInv, FilesInv
<1>2. QED
  BY <1>1 DEF Visible

(* Looking in mem, then imm, then the tables finds the newest of all visible *)
(* entries, wherever they are by now.                                        *)
LEMMA LookupFinds ==
  ASSUME WqInv, NEW r \in Readers, rd[r] \in ReaderRec, HasPinned(rd[r])
  PROVE  \/ /\ Lookup(r) = 0
            /\ \A m \in 1..Len(mtab) : Visible(r, m) = {}
         \/ \E m \in 1..Len(mtab) : \E e \in Visible(r, m) :
              /\ Lookup(r) = e.val
              /\ \A n \in 1..Len(mtab) : \A f \in Visible(r, n) : f.seq <= e.seq
<1> DEFINE M == rd[r].mem
           I == rd[r].imm
           T == rd[r].tables
           V(m) == Visible(r, m)
           N == Len(mtab)
<1>1. /\ M \in 1..N /\ N \in Nat /\ I \in Nat /\ rd[r].snap \in Nat
      /\ I = 0 \/ (I = M - 1 /\ I # 0)
      /\ T = (1..(M - 1)) \ {I}
  BY FilesFacts DEF WqInv, FilesInv, HasPinned, ReaderRec, NULL
<1>2. /\ \A m \in 1..N : \A e \in V(m) :
           e \in mtab[m] /\ e.seq \in Nat /\ e.seq <= rd[r].snap
      /\ \A m, n \in 1..N : \A e \in V(m), f \in V(n) : m < n => e.seq < f.seq
  BY VisibleFacts, LaterTableIsNewer
<1>3. \A n \in 1..N : n > M => V(n) = {}
  <2>1. ASSUME NEW n \in 1..N, n > M, NEW e \in V(n) PROVE FALSE
    <3>1. n \in (M + 1)..N
      BY <1>1, <2>1
    <3>2. e.seq > rd[r].snap
      BY <1>2, <2>1, <3>1 DEF HasPinned
    <3>3. QED
      BY <1>1, <1>2, <2>1, <3>2
  <2>2. QED
    BY <2>1
<1>4. Lookup(r) = IF V(M) # {} THEN NewestValue(V(M))
                  ELSE IF I # 0 /\ V(I) # {} THEN NewestValue(V(I))
                  ELSE NewestValue(UNION {V(m) : m \in T})
  BY DEF Lookup, NULL
<1>5. ASSUME NEW m \in 1..N, V(m) # {}
      PROVE  \E e \in V(m) : NewestValue(V(m)) = e.val /\ \A f \in V(m) : f.seq <= e.seq
  <2>1. \A e \in V(m) : e.seq \in Nat /\ e.seq <= rd[r].snap
    BY <1>2
  <2> HIDE DEF V
  <2>2. QED
    BY <1>1, <1>5, <2>1, NewestIs
<1> HIDE DEF V, M, I, T, N
<1>6. CASE V(M) # {}
  <2>1. PICK e \in V(M) : NewestValue(V(M)) = e.val /\ \A f \in V(M) : f.seq <= e.seq
    BY <1>1, <1>5, <1>6
  <2>2. \A n \in 1..N : \A f \in V(n) : f.seq <= e.seq
    <3> TAKE n \in 1..N
    <3>1. CASE n < M
      BY <1>1, <1>2, <3>1
    <3>2. CASE n = M
      BY <2>1, <3>2
    <3>3. CASE n > M
      BY <1>3, <3>3
    <3>4. QED
      BY <1>1, <3>1, <3>2, <3>3
  <2>3. \E m \in 1..N : \E f \in V(m) :
          Lookup(r) = f.val /\ \A n \in 1..N : \A g \in V(n) : g.seq <= f.seq
    BY <1>1, <1>4, <1>6, <2>1, <2>2
  <2>4. QED
    BY <2>3 DEF V, N
<1>7. CASE V(M) = {} /\ I # 0 /\ V(I) # {}
  <2>1. I \in 1..N
    BY <1>1, <1>7
  <2>2. PICK e \in V(I) : NewestValue(V(I)) = e.val /\ \A f \in V(I) : f.seq <= e.seq
    BY <1>5, <1>7, <2>1
  <2>3. \A n \in 1..N : \A f \in V(n) : f.seq <= e.seq
    <3> TAKE n \in 1..N
    <3>1. CASE n < I
      BY <1>1, <1>2, <2>1, <3>1
    <3>2. CASE n = I
      BY <2>2, <3>2
    <3>3. CASE n >= M
      BY <1>1, <1>3, <1>7, <3>3
    <3>4. QED
      BY <1>1, <1>7, <3>1, <3>2, <3>3
  <2>4. \E m \in 1..N : \E f \in V(m) :
          Lookup(r) = f.val /\ \A n \in 1..N : \A g \in V(n) : g.seq <= f.seq
    BY <1>4, <1>7, <2>1, <2>2, <2>3
  <2>5. QED
    BY <2>4 DEF V, N
<1>8. CASE V(M) = {} /\ (I = 0 \/ V(I) = {})
  <2> DEFINE U == UNION {V(m) : m \in T}
  <2>1. Lookup(r) = NewestValue(U)
    BY <1>4, <1>8
  <2>2. \A n \in 1..N : V(n) = {} \/ n \in T
    <3> TAKE n \in 1..N
    <3>1. CASE n > M
      BY <1>3, <3>1
    <3>2. CASE n = M \/ (n = I /\ I # 0)
      BY <1>8, <3>2
    <3>3. CASE n < M /\ n # I
      BY <1>1, <3>3
    <3>4. QED
      BY <1>1, <3>1, <3>2, <3>3
  <2>3. T \subseteq 1..N
    BY <1>1
  <2>4. \A e \in U : \E m \in 1..N : e \in V(m)
    BY <2>3
  <2>5. \A n \in 1..N : \A f \in V(n) : f \in U
    BY <2>2
  <2> HIDE DEF U
  <2>6. CASE U = {}
    <3>1. Lookup(r) = 0 /\ \A n \in 1..N : V(n) = {}
      BY <2>1, <2>5, <2>6 DEF NewestValue
    <3>2. QED
      BY <3>1 DEF V, N
  <2>7. CASE U # {}
    <3>1. \A e \in U : e.seq \in Nat /\ e.seq <= rd[r].snap
      BY <1>2, <2>4
    <3>2. PICK e \in U : NewestValue(U) = e.val /\ \A f \in U : f.seq <= e.seq
      BY <1>1, <2>7, <3>1, NewestIs
    <3>3. \E m \in 1..N : \E f \in V(m) :
            Lookup(r) = f.val /\ \A n \in 1..N : \A g \in V(n) : g.seq <= f.seq
      BY <2>1, <2>4, <2>5, <3>2
    <3>4. QED
      BY <3>3 DEF V, N
  <2>8. QED
    BY <2>6, <2>7
<1>9. QED
  BY <1>6, <1>7, <1>8

(* A Get answers from the batches of its view alone.                         *)
LEMMA LookupIsRight ==
  ASSUME WqInv, NEW r \in Readers, rd[r] \in ReaderRec, SeesView(rd[r]), HasPinned(rd[r])
  PROVE  Lookup(r) = Store!ValueAt(rd[r].key, rd[r].view) /\ Lookup(r) \in Nat
<1> DEFINE key == rd[r].key
           view == rd[r].view
           N == Len(mtab)
           V(m) == Visible(r, m)
           puts == {i \in 1..view : \E j \in DOMAIN HistBar[i].keys : HistBar[i].keys[j] = key}
           last == CHOOSE i \in puts : \A j \in puts : j <= i
<1>1. Store!ValueAt(key, view) = IF puts = {} THEN 0 ELSE HistBar[last].val
  BY Zenon DEF Store!ValueAt, HistBar
<1>2. /\ HistType /\ HistInv /\ last_sequence \in Nat
      /\ view \in Nat /\ view <= Len(hist) /\ Len(hist) \in Nat
      /\ rd[r].snap \in Nat /\ rd[r].snap <= last_sequence
  <2>1. FilesType /\ HistType /\ HistInv
    BY DEF WqInv, FilesInv
  <2>2. QED
    BY <2>1, FilesFacts DEF HistType, SeesView, ReaderRec
<1>3. \A i \in 1..Len(hist) : HistBar[i].keys = hist[i].keys /\ HistBar[i].val = hist[i].val
  BY <1>2, HistBarIs DEF HistType
<1>4. \A i : i \in puts <=> /\ i \in 1..view /\ i \in 1..Len(hist)
                            /\ \E j \in DOMAIN hist[i].keys : hist[i].keys[j] = key
  <2>1. \A i \in 1..view : i \in 1..Len(hist)
    BY <1>2
  <2>2. QED
    BY <1>3, <2>1
<1> HIDE DEF puts
<1>5. \A m \in 1..N :
        /\ \A e \in mtab[m] : e \in V(m) <=> (e.key = key /\ e.seq <= rd[r].snap)
        /\ \A e \in V(m) : /\ e \in mtab[m] /\ e.key = key /\ e.seq <= rd[r].snap
                           /\ e.seq \in Nat /\ e.val \in Nat
  BY VisibleFacts
<1>6. \A m \in 1..N : \A e \in mtab[m] : \A i \in 1..Len(hist) :
        e.val = hist[i].val => (e.seq <= rd[r].snap <=> i <= view)
  BY DEF SeesView
<1>7. ASSUME NEW m \in 1..N, NEW e \in V(m)
      PROVE  \E i \in puts : e.val = hist[i].val
  <2>1. e \in mtab[m] /\ e.key = key /\ e.seq <= rd[r].snap /\ e.seq <= last_sequence
    BY <1>2, <1>5
  <2>2. PICK i \in 1..Len(hist) : PutBy(e, hist[i].keys, hist[i].val)
    BY <1>2, <2>1 DEF HistInv
  <2>3. e.val = hist[i].val /\ \E j \in DOMAIN hist[i].keys : hist[i].keys[j] = key
    BY <2>1, <2>2 DEF PutBy
  <2>4. i \in 1..view
    BY <1>2, <1>6, <2>1, <2>3
  <2>5. QED
    BY <1>4, <2>3, <2>4
<1>8. ASSUME NEW i \in puts
      PROVE  \E m \in 1..N : \E e \in V(m) : e.val = hist[i].val
  <2>1. PICK j \in DOMAIN hist[i].keys : hist[i].keys[j] = key
    BY <1>4
  <2>2. i \in 1..Len(hist) /\ i <= view
    BY <1>2, <1>4
  <2>3. PICK m \in 1..N : \E e \in mtab[m] :
          e.val = hist[i].val /\ e.key = hist[i].keys[j] /\ e.seq <= last_sequence
    BY <1>2, <2>2 DEF HistInv
  <2>4. PICK e \in mtab[m] : e.val = hist[i].val /\ e.key = key
    BY <2>1, <2>3
  <2>5. e.seq <= rd[r].snap
    BY <1>6, <2>2, <2>4
  <2>6. e \in V(m)
    BY <1>5, <2>4, <2>5
  <2>7. QED
    BY <2>4, <2>6
<1>9. ASSUME NEW m \in 1..N, NEW e \in V(m), NEW n \in 1..N, NEW f \in V(n),
             f.seq <= e.seq, NEW i \in puts, NEW k \in puts,
             e.val = hist[i].val, f.val = hist[k].val
      PROVE  k <= i
  <2>1. e \in mtab[m] /\ f \in mtab[n] /\ e.seq \in Nat /\ f.seq \in Nat
    BY <1>5
  <2>2. i \in 1..Len(hist) /\ k \in 1..Len(hist) /\ i \in Nat /\ k \in Nat
    BY <1>2, <1>4
  <2>3. i < k => e.seq < f.seq
    BY <1>2, <1>9, <2>1, <2>2 DEF HistInv
  <2>4. QED
    BY <1>9, <2>1, <2>2, <2>3
<1>10. \/ /\ Lookup(r) = 0
          /\ \A m \in 1..N : V(m) = {}
       \/ \E m \in 1..N : \E e \in V(m) :
            /\ Lookup(r) = e.val
            /\ \A n \in 1..N : \A f \in V(n) : f.seq <= e.seq
  BY LookupFinds
<1> HIDE DEF V, N, key, view
<1>11. CASE Lookup(r) = 0 /\ \A m \in 1..N : V(m) = {}
  <2>1. puts = {}
    BY <1>8, <1>11
  <2>2. QED
    BY <1>1, <1>11, <2>1 DEF key, view
<1>12. ASSUME NEW m \in 1..N, NEW e \in V(m), Lookup(r) = e.val,
              \A n \in 1..N : \A f \in V(n) : f.seq <= e.seq
       PROVE  Lookup(r) = Store!ValueAt(key, view) /\ Lookup(r) \in Nat
  <2>1. PICK i \in puts : e.val = hist[i].val
    BY <1>7
  <2>2. ASSUME NEW k \in puts PROVE k <= i
    <3>1. PICK n \in 1..N : \E f \in V(n) : f.val = hist[k].val
      BY <1>8
    <3>2. PICK f \in V(n) : f.val = hist[k].val
      BY <3>1
    <3>3. f.seq <= e.seq
      BY <1>12
    <3>4. QED
      BY <1>9, <2>1, <3>2, <3>3
  <2>3. last \in puts /\ \A j \in puts : j <= last
    BY <2>1, <2>2
  <2>4. \A j \in puts : j \in Nat
    BY <1>2, <1>4
  <2> HIDE DEF last
  <2>5. last = i
    <3>1. last <= i /\ i <= last /\ last \in Nat /\ i \in Nat
      BY <2>1, <2>2, <2>3, <2>4
    <3>2. QED
      BY <3>1
  <2>6. HistBar[i].val = hist[i].val
    BY <1>3, <1>4, <2>1
  <2>7. e.val \in Nat
    BY <1>5
  <2>8. QED
    BY <1>1, <1>12, <2>1, <2>5, <2>6, <2>7
<1>13. QED
  BY <1>10, <1>11, <1>12 DEF key, view

(* What last_sequence hides is not in the history.                           *)
LEMMA NowSeesView ==
  ASSUME WqInv, NEW x, x.snap = last_sequence, x.view = Len(hist)
  PROVE  SeesView(x)
<1>1. /\ FilesType /\ WritersInv(writers, w, calls) /\ last_sequence \in Nat
      /\ Len(hist) \in Nat /\ NumbersInv(w) /\ ValuesInv(writers, w, calls)
  BY FilesFacts DEF WqInv, FilesInv, HistType, WritersInv
<1>2. ASSUME NEW m \in 1..Len(mtab), NEW e \in mtab[m], NEW i \in 1..Len(hist),
             e.val = hist[i].val
      PROVE  e.seq <= last_sequence
  <2>1. e.seq \in Nat
    BY <1>1, FilesFacts
  <2>2. ASSUME e.seq > last_sequence PROVE FALSE
    <3>1. m = Len(mtab) /\ \E t \in Clients : w[t].pc \in {"insert", "finish"}
      BY <1>1, <2>1, <2>2 DEF NumbersInv
    <3>2. e \in Fresh
      BY <2>2, <3>1 DEF Fresh
    <3>3. PICK t \in Clients : w[t].pc \in Writing
      BY <3>1 DEF Writing
    <3>4. GroupInv(t, writers, w) /\ w[t].group \in 1..Len(writers) /\ Len(writers) \in Nat
      BY <3>3, FrontFacts
    <3>5. Carries(w[t].updates \cup Fresh, writers, w, w[t].group, w[t].last)
      BY <3>2, <3>4 DEF GroupInv
    <3>6. PICK k \in 1..w[t].group : PutBy(e, w[writers[k]].batch, w[writers[k]].val)
      BY <3>2, <3>5 DEF Carries
    <3>7. k \in 1..Len(writers) /\ e.val = w[writers[k]].val
      BY <3>4, <3>6 DEF PutBy
    <3>8. w[writers[k]].val # hist[i].val
      BY <1>1, <3>7 DEF ValuesInv
    <3>9. QED
      BY <1>2, <3>7, <3>8
  <2>3. QED
    BY <1>1, <2>1, <2>2
<1>3. \A i \in 1..Len(hist) : i <= Len(hist)
  BY <1>1
<1>4. QED
  BY <1>1, <1>2, <1>3 DEF SeesView

-----------------------------------------------------------------------------
(* The steps of a reader.                                                    *)
LEMMA ReaderMoves ==
  ASSUME ReaderInv, UNCHANGED <<mtab, last_sequence, hist>>, NEW r \in Readers,
         NEW y \in ReaderRec, rd' = [rd EXCEPT ![r] = y],
         y.pc # "idle" => SeesView(y), y.pc = "reading" => HasPinned(y)
  PROVE  ReaderInv'
<1>1. /\ rd' \in [Readers -> ReaderRec] /\ rd'[r] = y
      /\ \A x \in Readers : x # r => rd'[x] = rd[x]
  BY DEF ReaderInv
<1>2. ASSUME NEW x \in Readers, rd'[x].pc # "idle" PROVE SeesView(rd'[x])
  BY <1>1, <1>2 DEF ReaderInv
<1>3. ASSUME NEW x \in Readers, rd'[x].pc = "reading" PROVE HasPinned(rd'[x])
  BY <1>1, <1>3 DEF ReaderInv
<1>4. \A z : (SeesView(z) => SeesView(z)') /\ (HasPinned(z) => HasPinned(z)')
  BY DEF SeesView, HasPinned
<1>5. ASSUME NEW x \in Readers
      PROVE  /\ rd'[x].pc # "idle" => SeesView(rd[x])'
             /\ rd'[x].pc = "reading" => HasPinned(rd[x])'
  <2>1. /\ rd'[x].pc # "idle" => SeesView(rd'[x])
        /\ rd'[x].pc = "reading" => HasPinned(rd'[x])
    BY <1>2, <1>3
  <2>2. ASSUME NEW z, SeesView(z), z = rd'[x] PROVE SeesView(rd[x])'
    BY <2>2 DEF SeesView
  <2>3. ASSUME NEW z, HasPinned(z), z = rd'[x] PROVE HasPinned(rd[x])'
    BY <2>3 DEF HasPinned
  <2>4. QED
    BY <2>1, <2>2, <2>3
<1>6. QED
  BY <1>1, <1>5 DEF ReaderInv

(* What a reader shows to the store of its record.                           *)
ReadOf(x) == [pc |-> x.pc, key |-> x.key, view |-> x.view, got |-> x.got]

LEMMA ReadBarIs ==
  ASSUME ReaderInv, NEW r \in Readers, NEW y, rd' = [rd EXCEPT ![r] = y]
  PROVE  /\ ReadsBar[r] = ReadOf(rd[r])
         /\ ReadsBar' = [ReadsBar EXCEPT ![r] = ReadOf(y)]
<1>1. rd \in [Readers -> ReaderRec]
  BY DEF ReaderInv
<1>2. ReadsBar = [x \in Readers |-> ReadOf(rd[x])]
  BY DEF ReadsBar, ReadOf
<1>3. ReadsBar' = [x \in Readers |-> ReadOf(rd'[x])]
  BY DEF ReadsBar, ReadOf
<1>4. QED
  BY <1>1, <1>2, <1>3

LEMMA OthersStay ==
  ASSUME UNCHANGED <<w, hist>>
  PROVE  HistBar' = HistBar /\ CallsBar' = CallsBar
<1>1. HistBar' = HistBar
  BY DEF HistBar
<1>2. CallsBar' = CallsBar
  BY BarsAre
<1>3. QED
  BY <1>1, <1>2

LEMMA TwoUpdates ==
  ASSUME NEW x, NEW pc, NEW view
  PROVE  [ReadOf(x) EXCEPT !.pc = pc, !.view = view]
           = [pc |-> pc, key |-> x.key, view |-> view, got |-> x.got]
<1> DEFINE a == [ReadOf(x) EXCEPT !.pc = pc]
<1>1. a = [pc |-> pc, key |-> x.key, view |-> x.view, got |-> x.got]
  BY DEF ReadOf
<1>2. [a EXCEPT !.view = view] = [pc |-> pc, key |-> x.key, view |-> view, got |-> x.got]
  <2> HIDE DEF a
  <2> QED BY <1>1
<1>3. QED
  BY <1>2, Zenon

LEMMA SnapshotShows ==
  ASSUME WqInv, ReaderInv, NEW r \in Readers, GetSnapshot(r)
  PROVE  StoreMoves /\ ReaderInv'
<1> DEFINE y == [rd[r] EXCEPT !.pc = "snapshot", !.snap = last_sequence, !.view = Len(hist)]
<1>1. /\ rd[r] \in ReaderRec /\ rd[r].pc = "idle" /\ rd' = [rd EXCEPT ![r] = y]
      /\ UNCHANGED <<mtab, last_sequence, hist, w>>
  BY DEF ReaderInv, GetSnapshot, files
<1>2. last_sequence \in Nat /\ Len(hist) \in Nat
  BY FilesFacts DEF WqInv, FilesInv, HistType
<1>3. /\ y \in ReaderRec /\ y.pc = "snapshot" /\ y.snap = last_sequence
      /\ y.view = Len(hist) /\ y.key = rd[r].key /\ y.got = rd[r].got
  BY <1>1, <1>2 DEF ReaderRec, ReaderPcs
<1> HIDE DEF y
<1>4. ReaderInv'
  BY <1>1, <1>3, NowSeesView, ReaderMoves
<1>5. /\ ReadsBar[r] = ReadOf(rd[r]) /\ ReadsBar' = [ReadsBar EXCEPT ![r] = ReadOf(y)]
      /\ HistBar' = HistBar /\ CallsBar' = CallsBar
  BY <1>1, ReadBarIs, OthersStay
<1>6. Len(HistBar) = Len(hist)
  BY HistBarIs DEF WqInv, FilesInv, HistType
<1>7. ReadsBar' = [ReadsBar EXCEPT ![r].pc = "snapshot", ![r].view = Len(HistBar)]
  <2>1. ReadOf(y) = [ReadsBar[r] EXCEPT !.pc = "snapshot", !.view = Len(HistBar)]
    <3>1. ReadOf(y) = [pc |-> "snapshot", key |-> rd[r].key, view |-> Len(hist),
                       got |-> rd[r].got]
      BY <1>3 DEF ReadOf
    <3>2. [ReadOf(rd[r]) EXCEPT !.pc = "snapshot", !.view = Len(hist)]
            = [pc |-> "snapshot", key |-> rd[r].key, view |-> Len(hist), got |-> rd[r].got]
      BY TwoUpdates, Zenon
    <3>3. QED
      BY <1>5, <1>6, <3>1, <3>2
  <2>2. QED
    BY <1>5, <2>1
<1>8. ReadsBar[r].pc = "idle"
  BY <1>1, <1>5 DEF ReadOf
<1>9. Store!TakesSnapshot(r)
  BY <1>5, <1>7, <1>8, Zenon DEF Store!TakesSnapshot, HistBar, CallsBar, ReadsBar
<1>10. QED
  BY <1>4, <1>9 DEF StoreMoves, Store!StoreNext

LEMMA BeginShows ==
  ASSUME WqInv, ReaderInv, NEW r \in Readers, BeginGet(r)
  PROVE  StoreMoves /\ ReaderInv'
<1>1. /\ rd[r] \in ReaderRec /\ rd[r].pc \in {"idle", "snapshot"}
      /\ UNCHANGED <<mtab, last_sequence, hist, w>>
  BY DEF ReaderInv, BeginGet, files
<1>2. /\ FilesType /\ ImmType /\ last_sequence \in Nat /\ Len(hist) \in Nat
      /\ Len(mtab) \in Nat /\ Len(mtab) # 0
  BY FilesFacts DEF WqInv, FilesInv, HistType
<1>3. PICK k \in Keys :
        LET pinned == [rd[r] EXCEPT !.pc = "reading", !.key = k, !.mem = mem,
                                    !.imm = imm, !.tables = InTables]
        IN  rd' = [rd EXCEPT ![r] =
                     IF rd[r].pc = "snapshot" THEN pinned
                     ELSE [pinned EXCEPT !.snap = last_sequence, !.view = Len(hist)]]
  BY DEF BeginGet
<1> DEFINE pinned == [rd[r] EXCEPT !.pc = "reading", !.key = k, !.mem = mem,
                                   !.imm = imm, !.tables = InTables]
           y == IF rd[r].pc = "snapshot" THEN pinned
                ELSE [pinned EXCEPT !.snap = last_sequence, !.view = Len(hist)]
<1>4. rd' = [rd EXCEPT ![r] = y]
  BY <1>3
<1>5. /\ y \in ReaderRec /\ y.pc = "reading" /\ y.key = k /\ y.mem = Len(mtab)
      /\ y.imm = imm /\ y.tables = (1..(Len(mtab) - 1)) \ {imm} /\ y.got = rd[r].got
      /\ rd[r].pc = "snapshot" => y.snap = rd[r].snap /\ y.view = rd[r].view
      /\ rd[r].pc = "idle" => y.snap = last_sequence /\ y.view = Len(hist)
  <2>1. imm \in Nat /\ InTables = (1..(Len(mtab) - 1)) \ {imm} /\ mem = Len(mtab)
    BY <1>2 DEF ImmType, InTables, mem, NULL
  <2>2. InTables \in SUBSET Nat
    BY <1>2, <2>1
  <2>3. pinned \in ReaderRec
    BY <1>1, <1>2, <2>1, <2>2 DEF ReaderRec, ReaderPcs
  <2>4. /\ pinned.pc = "reading" /\ pinned.key = k /\ pinned.mem = Len(mtab)
        /\ pinned.imm = imm /\ pinned.tables = (1..(Len(mtab) - 1)) \ {imm}
        /\ pinned.got = rd[r].got /\ pinned.snap = rd[r].snap /\ pinned.view = rd[r].view
    BY <1>1, <2>1 DEF ReaderRec
  <2> HIDE DEF pinned
  <2>5. CASE rd[r].pc = "snapshot"
    BY <2>3, <2>4, <2>5
  <2>6. CASE rd[r].pc = "idle"
    BY <1>2, <2>3, <2>4, <2>6 DEF ReaderRec
  <2>7. QED
    BY <1>1, <2>5, <2>6
<1> HIDE DEF y
<1>6. SeesView(y)
  <2>1. CASE rd[r].pc = "snapshot"
    <3>1. SeesView(rd[r])
      BY <2>1 DEF ReaderInv
    <3>2. QED
      BY <1>5, <2>1, <3>1 DEF SeesView
  <2>2. CASE rd[r].pc = "idle"
    BY <1>5, <2>2, NowSeesView
  <2>3. QED
    BY <1>1, <2>1, <2>2
<1>7. HasPinned(y)
  BY <1>2, <1>5 DEF HasPinned, ImmType
<1>8. ReaderInv'
  BY <1>1, <1>4, <1>5, <1>6, <1>7, ReaderMoves
<1>9. /\ ReadsBar[r] = ReadOf(rd[r]) /\ ReadsBar' = [ReadsBar EXCEPT ![r] = ReadOf(y)]
      /\ HistBar' = HistBar /\ CallsBar' = CallsBar
  BY <1>1, <1>4, ReadBarIs, OthersStay
<1>10. Len(HistBar) = Len(hist)
  BY HistBarIs DEF WqInv, FilesInv, HistType
<1>11. ReadsBar' = [ReadsBar EXCEPT
                      ![r].pc = "reading", ![r].key = k,
                      ![r].view = IF ReadsBar[r].pc = "idle" THEN Len(HistBar) ELSE @]
  <2> DEFINE z == [ReadsBar[r] EXCEPT !.pc = "reading", !.key = k,
                                      !.view = IF ReadsBar[r].pc = "idle"
                                               THEN Len(HistBar) ELSE ReadsBar[r].view]
  <2>1. ReadOf(y) = z
    <3> DEFINE view == IF rd[r].pc = "idle" THEN Len(hist) ELSE rd[r].view
    <3> HIDE DEF view
    <3>1. ReadOf(y) = [pc |-> "reading", key |-> k, view |-> view, got |-> rd[r].got]
      BY <1>1, <1>5 DEF ReadOf, view
    <3>2. [ReadOf(rd[r]) EXCEPT !.pc = "reading", !.key = k, !.view = view]
            = [pc |-> "reading", key |-> k, view |-> view, got |-> rd[r].got]
      <4> DEFINE a == [ReadOf(rd[r]) EXCEPT !.pc = "reading"]
                 b == [a EXCEPT !.key = k]
      <4>1. a = [pc |-> "reading", key |-> rd[r].key, view |-> rd[r].view,
                 got |-> rd[r].got]
        BY DEF ReadOf
      <4>2. b = [pc |-> "reading", key |-> k, view |-> rd[r].view, got |-> rd[r].got]
        <5> HIDE DEF a
        <5> QED BY <4>1
      <4>3. [b EXCEPT !.view = view]
              = [pc |-> "reading", key |-> k, view |-> view, got |-> rd[r].got]
        <5> HIDE DEF b
        <5> QED BY <4>2
      <4>4. QED
        BY <4>3, Zenon
    <3>3. ReadOf(rd[r]).pc = rd[r].pc /\ ReadOf(rd[r]).view = rd[r].view
      BY DEF ReadOf
    <3>4. (IF ReadsBar[r].pc = "idle" THEN Len(HistBar) ELSE ReadsBar[r].view) = view
      BY <1>9, <1>10, <3>3 DEF view
    <3>5. z = [ReadsBar[r] EXCEPT !.pc = "reading", !.key = k, !.view = view]
      BY <3>4
    <3>6. QED
      BY <1>9, <3>1, <3>2, <3>5
  <2>2. [ReadsBar EXCEPT ![r].pc = "reading", ![r].key = k,
                         ![r].view = IF ReadsBar[r].pc = "idle" THEN Len(HistBar) ELSE @]
          = [ReadsBar EXCEPT ![r] = z]
    BY DEF ReadsBar
  <2> HIDE DEF z
  <2>3. QED
    BY <1>9, <2>1, <2>2
<1>12. ReadsBar[r].pc \in {"idle", "snapshot"}
  BY <1>1, <1>9 DEF ReadOf
<1>13. Store!Reads(r)
  BY <1>9, <1>11, <1>12, Zenon DEF Store!Reads, HistBar, CallsBar, ReadsBar
<1>14. QED
  BY <1>8, <1>13 DEF StoreMoves, Store!StoreNext

LEMMA EndShows ==
  ASSUME WqInv, ReaderInv, NEW r \in Readers, EndGet(r)
  PROVE  StoreMoves /\ ReaderInv'
<1> DEFINE y == [rd[r] EXCEPT !.pc = "got", !.got = Lookup(r)]
<1>1. /\ rd[r] \in ReaderRec /\ rd[r].pc = "reading" /\ rd' = [rd EXCEPT ![r] = y]
      /\ UNCHANGED <<mtab, last_sequence, hist, w>>
      /\ SeesView(rd[r]) /\ HasPinned(rd[r])
  BY DEF ReaderInv, EndGet, files
<1>2. Lookup(r) = Store!ValueAt(rd[r].key, rd[r].view) /\ Lookup(r) \in Nat
  BY <1>1, LookupIsRight
<1>3. /\ y \in ReaderRec /\ y.pc = "got" /\ y.snap = rd[r].snap
      /\ y.view = rd[r].view /\ y.key = rd[r].key /\ y.got = Lookup(r)
  BY <1>1, <1>2 DEF ReaderRec, ReaderPcs
<1> HIDE DEF y
<1>4. ReaderInv'
  <2>1. SeesView(y)
    BY <1>1, <1>3 DEF SeesView
  <2>2. QED
    BY <1>1, <1>3, <2>1, ReaderMoves
<1>5. /\ ReadsBar[r] = ReadOf(rd[r]) /\ ReadsBar' = [ReadsBar EXCEPT ![r] = ReadOf(y)]
      /\ HistBar' = HistBar /\ CallsBar' = CallsBar
  BY <1>1, ReadBarIs, OthersStay
<1>6. /\ ReadsBar[r].pc = "reading" /\ ReadsBar[r].key = rd[r].key
      /\ ReadsBar[r].view = rd[r].view
  BY <1>1, <1>5 DEF ReadOf
<1>7. ReadsBar' = [ReadsBar EXCEPT
                     ![r].pc = "got",
                     ![r].got = Store!ValueAt(ReadsBar[r].key, ReadsBar[r].view)]
  BY <1>2, <1>3, <1>5, <1>6 DEF ReadOf
<1>8. Store!Answers(r)
  BY <1>5, <1>6, <1>7, Zenon DEF Store!Answers, HistBar, CallsBar, ReadsBar
<1>9. QED
  BY <1>4, <1>8 DEF StoreMoves, Store!StoreNext

LEMMA ReturnShows ==
  ASSUME WqInv, ReaderInv, NEW r \in Readers, ReturnGet(r)
  PROVE  StoreMoves /\ ReaderInv'
<1>1. /\ rd[r].pc = "got" /\ rd' = [rd EXCEPT ![r] = IdleReader]
      /\ UNCHANGED <<mtab, last_sequence, hist, w>>
  BY DEF ReturnGet, files
<1>2. IdleReader \in ReaderRec /\ IdleReader.pc = "idle"
  BY DEF IdleReader, ReaderRec, ReaderPcs, NULL
<1>3. ReaderInv'
  BY <1>1, <1>2, ReaderMoves
<1>4. /\ ReadsBar[r] = ReadOf(rd[r]) /\ ReadsBar' = [ReadsBar EXCEPT ![r] = ReadOf(IdleReader)]
      /\ HistBar' = HistBar /\ CallsBar' = CallsBar
  BY <1>1, ReadBarIs, OthersStay
<1>5. ReadOf(IdleReader) = Store!NoRead
  BY DEF ReadOf, IdleReader, Store!NoRead
<1>6. ReadsBar[r].pc = "got" /\ ReadsBar' = [ReadsBar EXCEPT ![r] = Store!NoRead]
  <2>1. ReadsBar[r].pc = "got"
    BY <1>1, <1>4 DEF ReadOf
  <2>2. QED
    BY <1>4, <1>5, <2>1
<1>7. Store!ReadReturns(r)
  BY <1>4, <1>6, Zenon DEF Store!ReadReturns, HistBar, CallsBar, ReadsBar
<1>8. QED
  BY <1>3, <1>7 DEF StoreMoves, Store!StoreNext

LEMMA ReaderShows ==
  ASSUME WqInv, ReaderInv, NEW r \in Readers,
         GetSnapshot(r) \/ BeginGet(r) \/ ReaderStep(r)
  PROVE  StoreMoves /\ ReaderInv'
BY SnapshotShows, BeginShows, EndShows, ReturnShows DEF ReaderStep

-----------------------------------------------------------------------------
LEMMA BackgroundShows ==
  ASSUME WqInv, ReaderInv, UNCHANGED <<w, mtab, last_sequence, hist, rd>>
  PROVE  StoreMoves /\ ReaderInv'
<1>1. \A x \in Clients : CallOf(w'[x]) = CallOf(w[x])
  OBVIOUS
<1>2. EntriesGrow
  BY FilesStayGrow
<1>3. QED
  BY <1>1, <1>2, StoreStutters, WritersKeepReaders DEF StoreMoves

LEMMA StepShows ==
  ASSUME WqInv, ReaderInv, [WqNext]_<<bgVars, wqVars>>
  PROVE  StoreMoves /\ ReaderInv'
<1>1. ASSUME NEW t \in Clients, CallWrite(t) PROVE StoreMoves /\ ReaderInv'
  BY <1>1, CallIsCalled, WritersKeepReaders DEF StoreMoves, Store!StoreNext
<1>2. ASSUME NEW t \in Clients, WriterStep(t) PROVE StoreMoves /\ ReaderInv'
  <2>1. StoreMoves /\ EntriesGrow /\ rd' = rd
    BY <1>2, RunShows, LogShows, InsertShows, FinishShows, AfterWriteShows DEF WriterStep
  <2>2. QED
    BY <2>1, WritersKeepReaders
<1>3. ASSUME NEW t \in Clients, WriterWakesSpuriously(t)
      PROVE  StoreMoves /\ ReaderInv'
  BY <1>3, BackgroundShows DEF WriterWakesSpuriously, files
<1>4. ASSUME NEW r \in Readers, GetSnapshot(r) \/ BeginGet(r) \/ ReaderStep(r)
      PROVE  StoreMoves /\ ReaderInv'
  BY <1>4, ReaderShows
<1>5. CASE UNCHANGED wqVars
  BY <1>5, BackgroundShows DEF wqVars, files
<1>6. QED
  BY <1>1, <1>2, <1>3, <1>4, <1>5 DEF WqNext

LEMMA InitShows ==
  ASSUME WqInit
  PROVE  ReaderInv /\ Store!StoreInit
<1>1. /\ w = [t \in Clients |-> IdleWriter] /\ rd = [r \in Readers |-> IdleReader]
      /\ hist = <<>>
  BY DEF WqInit
<1>2. IdleReader \in ReaderRec /\ IdleReader.pc = "idle"
  BY DEF IdleReader, ReaderRec, ReaderPcs, NULL
<1>3. ReaderInv
  BY <1>1, <1>2 DEF ReaderInv
<1>4. HistBar = <<>>
  BY <1>1 DEF HistBar
<1>5. CallOf(IdleWriter) = Store!NoWrite
  BY DEF IdleWriter, CallOf, StatusOf, Store!NoWrite, NullBatch
<1>6. CallsBar = [t \in Clients |-> Store!NoWrite]
  BY <1>1, <1>5, BarsAre
<1>7. ReadOf(IdleReader) = Store!NoRead
  BY DEF ReadOf, IdleReader, Store!NoRead
<1>8. ReadsBar = [r \in Readers |-> Store!NoRead]
  BY <1>1, <1>7 DEF ReadsBar, ReadOf
<1>9. QED
  BY <1>3, <1>4, <1>6, <1>8, Zenon DEF Store!StoreInit, HistBar, CallsBar, ReadsBar

(* Whatever is written, switched and flushed after a reader has taken its    *)
(* snapshot or pinned mem_, imm_ and the version: the entries its sequence   *)
(* number lets it see are those of the batches that had succeeded by then,   *)
(* and they are in what it has pinned (DBImpl::Get, GetSnapshot).            *)
THEOREM ReadersKeepTheirView == WqSpec => []ReaderInv
<1>1. WqInit => ReaderInv
  BY InitShows
<1>2. WqInv /\ ReaderInv /\ [WqNext]_<<bgVars, wqVars>> => ReaderInv'
  BY StepShows
<1>3. QED
  BY <1>1, <1>2, WqInvariant, PTL DEF WqSpec

(* The write and read paths are an atomic store: a batch takes effect at one *)
(* instant between the call of Write and its return, or not at all when the  *)
(* call reports an error, and a Get answers from the state its snapshot, or  *)
(* its call, has seen (db.h on Write, Get and GetSnapshot).                  *)
THEOREM WritePathIsAtomic == WqSpec => ImplementsStore
<1>1. WqInit => Store!StoreInit
  BY InitShows
<1>2. WqInv /\ ReaderInv /\ [WqNext]_<<bgVars, wqVars>>
        => [Store!StoreNext]_Store!storeVars
  BY StepShows DEF StoreMoves
<1>3. QED
  BY <1>1, <1>2, WqInvariant, ReadersKeepTheirView, PTL
  DEF WqSpec, ImplementsStore, Store!StoreSpec
=============================================================================
