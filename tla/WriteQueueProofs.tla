-------------------------- MODULE WriteQueueProofs --------------------------
(***************************************************************************)
(* The safety of the write path for any number of clients, any batches and *)
(* any limits.  WqInv says where each client is in its call, what the log  *)
(* and the memtables hold of the group that is being written, and how      *)
(* entries, history and sequence numbers belong together; the invariants   *)
(* of WriteQueue follow from it.                                           *)
(*                                                                         *)
(* The parts of WqInv that speak of the queue and the Writers take them as *)
(* parameters: CallWrite joins the queue and runs MakeRoomForWrite in one  *)
(* step, so what MakeRoomForWrite starts from is seldom the state itself.  *)
(***************************************************************************)
EXTENDS WriteQueue, FiniteSetTheorems, SequenceTheorems, WellFoundedInduction, TLAPS

Entry == [seq : Nat, key : Keys, val : Nat]

Waiting == {"queue", "sleep", "room"}
Writing == {"log", "sync", "insert", "finish"}
Over == {"return", "flush", "compacted"}

WriterRec ==
  [pc : {"idle"} \cup Waiting \cup Writing \cup Over,
   batch : Batches \cup {NullBatch}, sync : BOOLEAN, val : Nat,
   allow_delay : BOOLEAN, done : BOOLEAN, ok : BOOLEAN, group : Nat,
   updates : SUBSET Entry, last : Nat, seen : Nat]
HistRec == [keys : Batches \cup {NullBatch}, val : Nat, sync : BOOLEAN]

(* The parts of the state that have a shape.  Only the memtable before the   *)
(* current one can be imm_.                                                  *)
QueueType(q, v) == q \in Seq(Clients) /\ v \in [Clients -> WriterRec]

FilesType ==
  /\ log \in Seq(Seq(SUBSET Entry)) /\ synced \in Seq(Nat)
  /\ mtab \in Seq(SUBSET Entry)
  /\ Len(mtab) # 0 /\ Len(log) = Len(mtab) /\ Len(synced) = Len(mtab)
  /\ \A m \in 1..Len(mtab) : synced[m] <= Len(log[m])
  /\ last_sequence \in Nat

ImmType == imm = NULL \/ (imm = Len(mtab) - 1 /\ imm # 0)

HistType == calls \in Nat /\ hist \in Seq(HistRec)

(* A client is in the queue from the call of Write until it is done, once;   *)
(* only the one at the front has left its wait.                              *)
InQueue(v, t) == v[t].pc \in Waiting \cup Writing /\ ~v[t].done

QueueInv(q, v) ==
  /\ \A i, j \in 1..Len(q) : q[i] = q[j] => i = j
  /\ \A i \in 1..Len(q) : InQueue(v, q[i])
  /\ \A t \in Clients : InQueue(v, t) => \E i \in 1..Len(q) : q[i] = t
  /\ \A t \in Clients : v[t].pc \in ({"sleep", "room"} \cup Writing) =>
       ~v[t].done /\ Len(q) # 0 /\ q[1] = t
  /\ \A t \in Clients : v[t].pc \in Writing => v[t].group \in 1..Len(q)
  /\ \A t \in Clients : InQueue(v, t) /\ v[t].pc # "finish" => v[t].ok

(* Every call has a value of its own.                                        *)
ValuesInv(q, v, c) ==
  /\ \A i \in 1..Len(q) : v[q[i]].val \in 1..c
  /\ \A i, j \in 1..Len(q) : v[q[i]].val = v[q[j]].val => i = j
  /\ \A k \in 1..Len(hist) : hist[k].val \in 1..c
  /\ \A k, l \in 1..Len(hist) : hist[k].val = hist[l].val => k = l
  /\ \A i \in 1..Len(q), k \in 1..Len(hist) : v[q[i]].val # hist[k].val

(* An entry is a put of a key by the batch `keys' of the call `val'.         *)
PutBy(e, keys, val) == e.val = val /\ \E j \in DOMAIN keys : e.key = keys[j]

(* U is what the batches of the first n writers of q put, numbered in the    *)
(* order of the queue from last_sequence + 1 to last.                        *)
Carries(U, q, v, n, last) ==
  /\ \A e \in U : /\ last_sequence < e.seq /\ e.seq <= last
                  /\ \E i \in 1..n : PutBy(e, v[q[i]].batch, v[q[i]].val)
  /\ \A i \in 1..n : \A j \in DOMAIN v[q[i]].batch :
       \E e \in U : e.val = v[q[i]].val /\ e.key = v[q[i]].batch[j]
  /\ \A i, k \in 1..n : \A e, f \in U :
       i < k /\ e.val = v[q[i]].val /\ f.val = v[q[k]].val => e.seq < f.seq

(* The entries that readers cannot see yet, in the current memtable.         *)
Fresh == {e \in mtab[Len(mtab)] : e.seq > last_sequence}

(* The writer t at the front, from the log to the end of its group.          *)
GroupInv(t, q, v) ==
  /\ last_sequence <= v[t].last
  /\ v[t].ok => Carries(v[t].updates \cup Fresh, q, v, v[t].group, v[t].last)
  /\ v[t].pc \in {"log", "sync"} \/ ~v[t].ok => Fresh = {}
  /\ v[t].pc # "finish" => v[t].updates # {}
  /\ v[t].pc = "finish" /\ v[t].ok => v[t].updates = {}
  /\ v[t].pc \in {"sync", "insert"} => v[t].updates \subseteq EntriesOf(Len(mtab))
  /\ v[t].pc = "sync" => v[t].sync
  /\ v[t].pc \in {"insert", "finish"} /\ v[t].sync /\ v[t].ok =>
       synced[Len(mtab)] = Len(log[Len(mtab)])
  /\ \A i \in 1..v[t].group : v[q[i]].sync => v[t].sync

(* Sequence numbers above last_sequence belong to the group being written.   *)
NumbersInv(v) ==
  /\ \A m \in 1..Len(mtab) : \A i \in 1..Len(log[m]) : \A e \in log[m][i] :
       \/ e.seq <= last_sequence
       \/ \E t \in Clients : v[t].pc \in Writing \ {"log"} /\ e.seq <= v[t].last
  /\ \A m \in 1..Len(mtab) : \A e \in mtab[m] :
       \/ e.seq <= last_sequence
       \/ m = Len(mtab) /\ \E t \in Clients : v[t].pc \in {"insert", "finish"}

(* What readers can see is what has succeeded, in its order.                 *)
HistInv ==
  /\ \A m \in 1..Len(mtab) : \A e \in mtab[m] : e.seq <= last_sequence =>
       \E i \in 1..Len(hist) : PutBy(e, hist[i].keys, hist[i].val)
  /\ \A i \in 1..Len(hist) : \A j \in DOMAIN hist[i].keys :
       \E m \in 1..Len(mtab) : \E e \in mtab[m] :
         e.val = hist[i].val /\ e.key = hist[i].keys[j] /\ e.seq <= last_sequence
  /\ \A m, n \in 1..Len(mtab) : \A e \in mtab[m], f \in mtab[n] :
       \A i, k \in 1..Len(hist) :
         e.val = hist[i].val /\ f.val = hist[k].val /\ i < k => e.seq < f.seq

(* All that depends on the queue and the Writers.                            *)
WritersInv(q, v, c) ==
  /\ QueueType(q, v) /\ QueueInv(q, v) /\ ValuesInv(q, v, c) /\ NumbersInv(v)
  /\ \A t \in Clients : v[t].pc \in Writing => GroupInv(t, q, v)

FilesInv ==
  /\ FilesType /\ ImmType /\ HistType
  /\ LogCoversMemTable /\ LogSequencesIncrease
  /\ HistInv /\ SyncWritesAreDurable

WqInv == WritersInv(writers, w, calls) /\ FilesInv

-----------------------------------------------------------------------------
(* Numbers: what replaces induction below.                                   *)
LEMMA NatWF ==
  ASSUME NEW R, R = {ss \in Nat \X Nat : ss[1] < ss[2]}
  PROVE  IsWellFoundedOn(R, Nat)
BY NatLessThanWellFounded, Zenon DEF OpToRel

LEMMA LeastNat ==
  ASSUME NEW T \in SUBSET Nat, T # {}
  PROVE  \E x \in T : \A y \in T : x <= y
<1> PICK R : R = {ss \in Nat \X Nat : ss[1] < ss[2]}
  OBVIOUS
<1>1. IsWellFoundedOn(R, Nat)
  BY NatWF
<1>2. PICK x \in T : \A y \in T : ~(<<y, x>> \in R)
  BY <1>1, WFMin, Zenon
<1>3. \A y \in T : y < x => <<y, x>> \in R
  OBVIOUS
<1>4. ASSUME NEW y \in T PROVE x <= y
  <2>1. ~(y < x)
    BY <1>2, <1>3
  <2>2. QED
    BY <2>1
<1>5. QED
  BY <1>4

LEMMA GreatestNat ==
  ASSUME NEW T \in SUBSET Nat, T # {}, NEW n \in Nat, \A x \in T : x <= n
  PROVE  \E x \in T : \A y \in T : y <= x
<1> DEFINE D == {d \in Nat : \E x \in T : d = n - x}
<1>1. \A x \in T : n - x \in D
  OBVIOUS
<1>2. D # {}
  BY <1>1
<1>3. PICK d \in D : \A e \in D : d <= e
  <2>1. D \in SUBSET Nat
    OBVIOUS
  <2> HIDE DEF D
  <2>2. QED
    BY <1>2, <2>1, LeastNat
<1>4. PICK x \in T : d = n - x
  BY <1>3
<1>5. \A y \in T : y <= x
  BY <1>1, <1>3, <1>4
<1>6. QED
  BY <1>5

-----------------------------------------------------------------------------
(* BuildBatchGroup: the group is a prefix of the queue that the leader may   *)
(* take with it.                                                             *)
LEMMA GroupIsPrefix ==
  ASSUME NEW q, NEW v, Len(q) \in Nat, Len(q) # 0
  PROVE  /\ GroupSize(q, v) \in 1..Len(q)
         /\ \A i \in 2..GroupSize(q, v) : CanJoin(q, v, i)
<1> DEFINE S == {n \in 1..Len(q) : \A i \in 2..n : CanJoin(q, v, i)}
<1>1. 1 \in S
  OBVIOUS
<1>2. PICK g \in S : \A n \in S : n <= g
  <2>1. S \in SUBSET Nat /\ S # {} /\ \A n \in S : n <= Len(q)
    BY <1>1
  <2> HIDE DEF S
  <2>2. QED
    BY <2>1, GreatestNat
<1>3. S = 1..g
  BY <1>2
<1>4. Cardinality(1..g) = g
  BY <1>2, FS_Interval
<1>5. GroupSize(q, v) = g
  BY <1>3, <1>4 DEF GroupSize
<1>6. QED
  BY <1>2, <1>5

LEMMA SlotsAre ==
  ASSUME NEW q, NEW v, NEW n \in Nat, NEW s
  PROVE  s \in Slots(q, v, n) <=>
           \E i \in 1..n : \E j \in DOMAIN v[q[i]].batch : s = <<i, j>>
BY DEF Slots

LEMMA SlotsAreFinite ==
  ASSUME NEW q, NEW v, NEW n \in Nat,
         \A i \in 1..n : IsFiniteSet(DOMAIN v[q[i]].batch)
  PROVE  /\ IsFiniteSet(Slots(q, v, n))
         /\ Cardinality(Slots(q, v, n)) \in Nat
<1> DEFINE F == {{i} \X DOMAIN v[q[i]].batch : i \in 1..n}
           f == [i \in 1..n |-> {i} \X DOMAIN v[q[i]].batch]
<1>1. IsFiniteSet(F)
  <2>1. f \in Surjection(1..n, F)
    BY DEF Surjection
  <2>2. IsFiniteSet(1..n)
    BY FS_Interval
  <2> HIDE DEF F, f
  <2>3. QED
    BY <2>1, <2>2, FS_Surjection
<1>2. ASSUME NEW T \in F PROVE IsFiniteSet(T)
  <2>1. PICK i \in 1..n : T = {i} \X DOMAIN v[q[i]].batch
    OBVIOUS
  <2>2. IsFiniteSet({i}) /\ IsFiniteSet(DOMAIN v[q[i]].batch)
    BY FS_Singleton
  <2>3. QED
    BY <2>1, <2>2, FS_Product
<1>3. IsFiniteSet(UNION F)
  <2> HIDE DEF F
  <2> QED BY <1>1, <1>2, FS_UNION
<1>4. QED
  BY <1>3, FS_CardinalityType DEF Slots

(* Ranks number the slots from 1, in their order.                            *)
LEMMA RanksNumber ==
  ASSUME NEW q, NEW v, NEW n \in Nat,
         IsFiniteSet(Slots(q, v, n)),
         \A i \in 1..n : DOMAIN v[q[i]].batch \subseteq Nat
  PROVE  /\ \A s \in Slots(q, v, n) :
              Rank(s, Slots(q, v, n)) \in 1..Cardinality(Slots(q, v, n))
         /\ \A s, r \in Slots(q, v, n) : s[1] < r[1] =>
              Rank(s, Slots(q, v, n)) < Rank(r, Slots(q, v, n))
<1> DEFINE S == Slots(q, v, n)
           B(s) == {p \in S : p[1] < s[1] \/ (p[1] = s[1] /\ p[2] <= s[2])}
<1>1. \A s \in S : s \in (1..n) \X Nat
  BY SlotsAre
<1>2. \A s \in S : s \in B(s) /\ B(s) \in SUBSET S
  BY <1>1
<1>3. \A s \in S : IsFiniteSet(B(s)) /\ Cardinality(B(s)) \in Nat
                   /\ Cardinality(B(s)) <= Cardinality(S)
  <2> TAKE s \in S
  <2>1. B(s) \in SUBSET S
    BY <1>2
  <2> HIDE DEF B, S
  <2>2. IsFiniteSet(S)
    BY DEF S
  <2>3. QED
    BY <2>1, <2>2, FS_Subset, FS_CardinalityType
<1>4. \A s \in S : Cardinality(B(s)) # 0
  <2> TAKE s \in S
  <2>1. s \in B(s) /\ IsFiniteSet(B(s))
    BY <1>2, <1>3
  <2> HIDE DEF B, S
  <2>2. QED
    BY <2>1, FS_EmptySet
<1>5. ASSUME NEW s \in S, NEW r \in S, s[1] < r[1]
      PROVE  Cardinality(B(s)) < Cardinality(B(r))
  <2>1. B(s) \in SUBSET B(r)
    BY <1>1, <1>5
  <2>2. r \in B(r) /\ ~(r \in B(s))
    BY <1>1, <1>5
  <2>3. IsFiniteSet(B(r)) /\ Cardinality(B(r)) \in Nat /\ Cardinality(B(s)) \in Nat
    BY <1>3
  <2> HIDE DEF B, S
  <2>4. QED
    BY <2>1, <2>2, <2>3, FS_Subset
<1>6. \A s \in S : Rank(s, S) = Cardinality(B(s))
  BY DEF Rank
<1>7. Cardinality(S) \in Nat
  BY FS_CardinalityType
<1> HIDE DEF B
<1>8. QED
  BY <1>3, <1>4, <1>5, <1>6, <1>7

LEMMA BatchesAreSequences ==
  ASSUME NEW b \in Batches \cup {NullBatch}
  PROVE  /\ b \in Seq(Keys) /\ Len(b) \in Nat /\ DOMAIN b = 1..Len(b)
         /\ IsFiniteSet(DOMAIN b)
         /\ b # NullBatch => 1 \in DOMAIN b
<1>1. b \in Seq(Keys)
  <2>1. CASE b \in Batches
    BY <2>1, WriteAssumption
  <2>2. CASE b = <<>>
    BY <2>2
  <2>3. QED
    BY <2>1, <2>2 DEF NullBatch
<1>2. IsFiniteSet(1..Len(b))
  BY <1>1, FS_Interval
<1>3. b # NullBatch => 1 \in DOMAIN b
  BY <1>1 DEF NullBatch
<1>4. QED
  BY <1>1, <1>2, <1>3

(* The combined batch carries what the members of the group put, in order.   *)
LEMMA UpdatesAreCarried ==
  ASSUME NEW q, NEW v, QueueType(q, v), NEW n \in 1..Len(q),
         \A i, k \in 1..n : v[q[i]].val = v[q[k]].val => i = k,
         last_sequence \in Nat,
         NEW last, last = last_sequence + Cardinality(Slots(q, v, n))
  PROVE  /\ Updates(q, v, n) \in SUBSET Entry
         /\ last \in Nat /\ last_sequence <= last
         /\ Carries(Updates(q, v, n), q, v, n, last)
         /\ v[q[1]].batch # NullBatch => Updates(q, v, n) # {}
<1> DEFINE S == Slots(q, v, n)
           D(i) == DOMAIN v[q[i]].batch
           R(i, j) == Rank(<<i, j>>, S)
           IsEntry(f, i, j) == /\ f.seq = last_sequence + R(i, j)
                               /\ f.key = v[q[i]].batch[j] /\ f.val = v[q[i]].val
<1>1. \A i \in 1..n : /\ q[i] \in Clients /\ v[q[i]].val \in Nat
                      /\ v[q[i]].batch \in Batches \cup {NullBatch}
  <2>1. q \in Seq(Clients) /\ v \in [Clients -> WriterRec]
    BY DEF QueueType
  <2>2. \A i \in 1..n : q[i] \in Clients
    BY <2>1
  <2>3. \A x \in Clients : v[x].val \in Nat /\ v[x].batch \in Batches \cup {NullBatch}
    BY <2>1 DEF WriterRec
  <2>4. QED
    BY <2>2, <2>3
<1>2. \A i \in 1..n : /\ IsFiniteSet(DOMAIN v[q[i]].batch)
                      /\ DOMAIN v[q[i]].batch = 1..Len(v[q[i]].batch)
                      /\ Len(v[q[i]].batch) \in Nat
                      /\ v[q[i]].batch \in Seq(Keys)
                      /\ \A j \in DOMAIN v[q[i]].batch : v[q[i]].batch[j] \in Keys
  BY <1>1, BatchesAreSequences
<1>3. \A i \in 1..n : IsFiniteSet(DOMAIN v[q[i]].batch)
  BY <1>2
<1>4. n \in Nat
  BY DEF QueueType
<1>5. IsFiniteSet(S) /\ Cardinality(S) \in Nat
  BY <1>3, <1>4, SlotsAreFinite
<1>6. /\ \A s \in S : Rank(s, S) \in 1..Cardinality(S)
      /\ \A s, r \in S : s[1] < r[1] => Rank(s, S) < Rank(r, S)
  BY <1>2, <1>4, <1>5, RanksNumber
<1>7. /\ \A s \in S : \E i \in 1..n : \E j \in D(i) : s = <<i, j>>
      /\ \A i \in 1..n : \A j \in D(i) : <<i, j>> \in S
  BY <1>4, SlotsAre
<1>8. \A i \in 1..n : \A j \in D(i) : R(i, j) \in Nat /\ 0 < R(i, j) /\ R(i, j) <= Cardinality(S)
  <2> TAKE i \in 1..n
  <2> TAKE j \in D(i)
  <2>1. <<i, j>> \in S
    BY <1>7
  <2> HIDE DEF S, D
  <2>2. QED
    BY <1>5, <1>6, <2>1
<1>9. ASSUME NEW i \in 1..n, NEW k \in 1..n, NEW j \in D(i), NEW l \in D(k), i < k
      PROVE  R(i, j) < R(k, l)
  <2>1. <<i, j>> \in S /\ <<k, l>> \in S
    BY <1>7
  <2>2. <<i, j>>[1] = i /\ <<k, l>>[1] = k
    OBVIOUS
  <2> HIDE DEF S, D
  <2>3. QED
    BY <1>6, <1>9, <2>1, <2>2
<1>10. \A f \in Updates(q, v, n) : f \in Entry /\ \E i \in 1..n : \E j \in D(i) : IsEntry(f, i, j)
  <2> TAKE f \in Updates(q, v, n)
  <2>1. PICK s \in S : f = [seq |-> last_sequence + Rank(s, S),
                            key |-> v[q[s[1]]].batch[s[2]], val |-> v[q[s[1]]].val]
    BY DEF Updates
  <2>7. PICK i \in 1..n : \E j \in D(i) : s = <<i, j>>
    BY <1>7
  <2>2. PICK j \in D(i) : s = <<i, j>>
    BY <2>7
  <2>3. f = [seq |-> last_sequence + R(i, j), key |-> v[q[i]].batch[j], val |-> v[q[i]].val]
    BY <2>1, <2>2
  <2>4. R(i, j) \in Nat /\ v[q[i]].batch[j] \in Keys /\ v[q[i]].val \in Nat
    BY <1>1, <1>2, <1>8
  <2> HIDE DEF R
  <2>5. f \in Entry /\ IsEntry(f, i, j)
    BY <2>3, <2>4 DEF Entry
  <2>6. QED
    BY <2>5
<1>11. \A i \in 1..n : \A j \in D(i) : \E f \in Updates(q, v, n) : IsEntry(f, i, j)
  <2> TAKE i \in 1..n
  <2> TAKE j \in D(i)
  <2> DEFINE f == [seq |-> last_sequence + R(i, j), key |-> v[q[i]].batch[j],
                   val |-> v[q[i]].val]
  <2>1. <<i, j>> \in S /\ <<i, j>>[1] = i /\ <<i, j>>[2] = j
    BY <1>7
  <2>2. f \in Updates(q, v, n)
    BY <2>1 DEF Updates
  <2>3. QED
    BY <2>2
<1> HIDE DEF R, S
<1>12. Carries(Updates(q, v, n), q, v, n, last)
  <2>1. ASSUME NEW f \in Updates(q, v, n)
        PROVE  /\ last_sequence < f.seq /\ f.seq <= last
               /\ \E i \in 1..n : PutBy(f, v[q[i]].batch, v[q[i]].val)
    <3>5. PICK i \in 1..n : \E j \in D(i) : IsEntry(f, i, j)
      BY <1>10
    <3>1. PICK j \in D(i) : IsEntry(f, i, j)
      BY <3>5
    <3>2. last_sequence < f.seq /\ f.seq <= last
      BY <1>5, <1>8, <3>1 DEF S
    <3>3. PutBy(f, v[q[i]].batch, v[q[i]].val)
      BY <3>1 DEF PutBy
    <3>4. QED
      BY <3>2, <3>3
  <2>2. \A i \in 1..n : \A j \in D(i) :
          \E f \in Updates(q, v, n) : f.val = v[q[i]].val /\ f.key = v[q[i]].batch[j]
    BY <1>11
  <2>3. ASSUME NEW i \in 1..n, NEW k \in 1..n, i < k,
               NEW f \in Updates(q, v, n), NEW g \in Updates(q, v, n),
               f.val = v[q[i]].val, g.val = v[q[k]].val
        PROVE  f.seq < g.seq
    <3>1. PICK j \in D(i) : IsEntry(f, i, j)
      BY <1>10, <2>3
    <3>2. PICK l \in D(k) : IsEntry(g, k, l)
      BY <1>10, <2>3
    <3>3. R(i, j) \in Nat /\ R(k, l) \in Nat /\ R(i, j) < R(k, l)
      BY <1>8, <1>9, <2>3
    <3>4. QED
      BY <3>1, <3>2, <3>3
  <2> HIDE DEF D, IsEntry
  <2>4. QED
    BY <2>1, <2>2, <2>3 DEF Carries, D
<1>13. ASSUME v[q[1]].batch # NullBatch PROVE Updates(q, v, n) # {}
  <2>1. 1 \in 1..n /\ 1 \in D(1)
    BY <1>1, <1>4, <1>13, BatchesAreSequences
  <2>2. QED
    BY <1>11, <2>1
<1>14. QED
  BY <1>5, <1>10, <1>12, <1>13 DEF S

-----------------------------------------------------------------------------
(* The files.                                                                *)
LEMMA FilesFacts ==
  ASSUME FilesType
  PROVE  /\ Len(mtab) \in Nat /\ Len(mtab) # 0 /\ last_sequence \in Nat
         /\ \A m \in 1..Len(mtab) :
              /\ mtab[m] \subseteq Entry /\ log[m] \in Seq(SUBSET Entry)
              /\ Len(log[m]) \in Nat /\ synced[m] \in Nat
              /\ synced[m] <= Len(log[m])
              /\ \A i \in 1..Len(log[m]) : log[m][i] \subseteq Entry
         /\ \A e \in Entry : e.seq \in Nat /\ e.key \in Keys /\ e.val \in Nat
<1>1. Len(mtab) \in Nat /\ Len(mtab) # 0 /\ last_sequence \in Nat
  BY DEF FilesType
<1>2. ASSUME NEW m \in 1..Len(mtab)
      PROVE  /\ mtab[m] \subseteq Entry /\ log[m] \in Seq(SUBSET Entry)
             /\ synced[m] \in Nat /\ synced[m] <= Len(log[m])
  BY DEF FilesType
<1>3. ASSUME NEW m \in 1..Len(mtab)
      PROVE  /\ Len(log[m]) \in Nat
             /\ \A i \in 1..Len(log[m]) : log[m][i] \subseteq Entry
  BY <1>2
<1>4. QED
  BY <1>1, <1>2, <1>3 DEF Entry

(* What a step that appends nothing does to the files: at most a new, empty  *)
(* memtable with its log; a table stays a table.                             *)
FilesGrow ==
  /\ Len(mtab') \in Nat /\ Len(mtab) <= Len(mtab')
  /\ \A m \in 1..Len(mtab) :
       mtab'[m] = mtab[m] /\ log'[m] = log[m] /\ synced'[m] = synced[m]
  /\ \A m \in 1..Len(mtab') : ~(m <= Len(mtab)) =>
       mtab'[m] = {} /\ log'[m] = <<>> /\ synced'[m] = 0
  /\ InTables \subseteq InTables'

LEMMA FilesStay ==
  ASSUME FilesType, ImmType, UNCHANGED files, imm' \in {imm, NULL},
         last_sequence' \in Nat
  PROVE  FilesGrow /\ FilesType' /\ ImmType'
<1>1. Len(mtab) \in Nat
  BY DEF FilesType
<1>2. UNCHANGED <<log, synced, mtab>>
  BY DEF files
<1>3. FilesType' /\ ImmType'
  BY <1>2 DEF FilesType, ImmType
<1>4. InTables \subseteq InTables'
  BY <1>1, <1>2 DEF InTables, mem, NULL
<1>5. QED
  BY <1>1, <1>2, <1>3, <1>4 DEF FilesGrow

LEMMA FilesSwitch ==
  ASSUME FilesType, ImmType, imm = NULL, imm' = mem,
         log' = Append(log, <<>>), synced' = Append(synced, 0),
         mtab' = Append(mtab, {}), last_sequence' = last_sequence
  PROVE  FilesGrow /\ FilesType' /\ ImmType' /\ Len(mtab') = Len(mtab) + 1
<1>1. /\ Len(mtab) \in Nat /\ Len(mtab) # 0
      /\ Len(log) = Len(mtab) /\ Len(synced) = Len(mtab)
      /\ log \in Seq(Seq(SUBSET Entry)) /\ synced \in Seq(Nat)
      /\ mtab \in Seq(SUBSET Entry)
  BY DEF FilesType
<1>2. /\ Len(mtab') = Len(mtab) + 1 /\ Len(log') = Len(mtab) + 1
      /\ Len(synced') = Len(mtab) + 1
      /\ mtab' \in Seq(SUBSET Entry) /\ synced' \in Seq(Nat)
  BY <1>1
<1>3. log' \in Seq(Seq(SUBSET Entry))
  <2>1. <<>> \in Seq(SUBSET Entry)
    OBVIOUS
  <2> DEFINE T == Seq(SUBSET Entry)
  <2> HIDE DEF T
  <2>2. log \in Seq(T) /\ <<>> \in T
    BY <1>1, <2>1 DEF T
  <2>3. Append(log, <<>>) \in Seq(T)
    BY <2>2
  <2>4. QED
    BY <2>3 DEF T
<1>4. /\ \A m \in 1..Len(mtab) :
           mtab'[m] = mtab[m] /\ log'[m] = log[m] /\ synced'[m] = synced[m]
      /\ \A m \in 1..Len(mtab') : ~(m <= Len(mtab)) =>
           mtab'[m] = {} /\ log'[m] = <<>> /\ synced'[m] = 0
  BY <1>1, <1>2
<1>5. \A m \in 1..Len(mtab') : synced'[m] <= Len(log'[m])
  <2> TAKE m \in 1..Len(mtab')
  <2>1. CASE m <= Len(mtab)
    BY <1>1, <1>4, <2>1 DEF FilesType
  <2>2. CASE ~(m <= Len(mtab))
    <3>1. log'[m] = <<>> /\ synced'[m] = 0
      BY <1>4, <2>2
    <3>2. Len(log'[m]) = 0
      BY <3>1
    <3>4. 0 <= 0
      OBVIOUS
    <3>3. QED
      BY <3>1, <3>2, <3>4, Zenon
  <2>3. QED
    BY <2>1, <2>2
<1>6. InTables \subseteq InTables'
  BY <1>1, <1>2 DEF InTables, mem, NULL
<1>7. ImmType'
  BY <1>1, <1>2 DEF ImmType, mem
<1>8. QED
  BY <1>1, <1>2, <1>3, <1>4, <1>5, <1>6, <1>7 DEF FilesGrow, FilesType

LEMMA EntriesAre ==
  ASSUME NEW m, NEW e
  PROVE  /\ e \in EntriesOf(m) <=> \E i \in 1..Len(log[m]) : e \in log[m][i]
         /\ e \in SyncedEntries(m) <=> \E i \in 1..synced[m] : e \in log[m][i]
BY DEF EntriesOf, SyncedEntries

LEMMA GrowKeepsLogs ==
  ASSUME FilesType, FilesGrow, LogCoversMemTable, LogSequencesIncrease
  PROVE  LogCoversMemTable' /\ LogSequencesIncrease'
<1>1. \A m \in 1..Len(mtab) : EntriesOf(m)' = EntriesOf(m)
  BY DEF FilesGrow, EntriesOf
<1>2. ASSUME NEW m \in 1..Len(mtab') PROVE mtab'[m] \subseteq EntriesOf(m)'
  <2>1. CASE m <= Len(mtab)
    BY <1>1, <2>1, FilesFacts DEF FilesGrow, LogCoversMemTable, mem
  <2>2. CASE ~(m <= Len(mtab))
    BY <2>2 DEF FilesGrow
  <2>3. QED
    BY <2>1, <2>2
<1>3. ASSUME NEW m \in 1..Len(mtab'), NEW n \in 1..Len(mtab'),
             NEW i \in 1..Len(log'[m]), NEW j \in 1..Len(log'[n]),
             m < n \/ (m = n /\ i < j),
             NEW e \in log'[m][i], NEW f \in log'[n][j]
      PROVE  e.seq < f.seq
  <2>1. \A k \in 1..Len(mtab') : ~(k <= Len(mtab)) => Len(log'[k]) = 0
    BY DEF FilesGrow
  <2>2. m \in 1..Len(mtab) /\ n \in 1..Len(mtab)
    BY <2>1, FilesFacts DEF FilesGrow
  <2>3. log'[m] = log[m] /\ log'[n] = log[n]
    BY <2>2 DEF FilesGrow
  <2>4. QED
    BY <1>3, <2>2, <2>3 DEF LogSequencesIncrease, mem
<1>4. QED
  BY <1>2, <1>3 DEF LogCoversMemTable, LogSequencesIncrease, mem

(* Entries of the memtables, before and after.                               *)
LEMMA GrowKeepsEntries ==
  ASSUME FilesType, FilesGrow
  PROVE  /\ \A m \in 1..Len(mtab') : \A e \in mtab'[m] :
              m \in 1..Len(mtab) /\ e \in mtab[m]
         /\ \A m \in 1..Len(mtab) : m \in 1..Len(mtab') /\ mtab'[m] = mtab[m]
BY FilesFacts DEF FilesGrow

LEMMA GrowKeepsDurable ==
  ASSUME FilesType, FilesGrow, NEW m \in 1..Len(mtab), NEW mine,
         m \in InTables \/ mine \subseteq SyncedEntries(m)
  PROVE  m \in InTables' \/ mine \subseteq SyncedEntries(m)'
<1>1. SyncedEntries(m)' = SyncedEntries(m)
  BY DEF FilesGrow, SyncedEntries
<1>2. QED
  BY <1>1 DEF FilesGrow

(* A step in which no call succeeds, and which shows readers no entry.       *)
LEMMA NoSuccess ==
  ASSUME FilesType, FilesGrow, hist' = hist, HistInv, SyncWritesAreDurable,
         \A m \in 1..Len(mtab) : \A e \in mtab[m] :
           e.seq <= last_sequence' <=> e.seq <= last_sequence
  PROVE  HistInv' /\ SyncWritesAreDurable'
<1>1. HistInv'
  <2>1. ASSUME NEW m \in 1..Len(mtab'), NEW e \in mtab'[m], e.seq <= last_sequence'
        PROVE  \E i \in 1..Len(hist') : PutBy(e, hist'[i].keys, hist'[i].val)
    BY <2>1, GrowKeepsEntries DEF HistInv
  <2>2. ASSUME NEW i \in 1..Len(hist'), NEW j \in DOMAIN hist'[i].keys
        PROVE  \E m \in 1..Len(mtab') : \E e \in mtab'[m] :
                 e.val = hist'[i].val /\ e.key = hist'[i].keys[j]
                 /\ e.seq <= last_sequence'
    <3>1. PICK m \in 1..Len(mtab) : \E e \in mtab[m] :
                 e.val = hist[i].val /\ e.key = hist[i].keys[j]
                 /\ e.seq <= last_sequence
      BY DEF HistInv
    <3>2. QED
      BY <3>1, GrowKeepsEntries
  <2>3. ASSUME NEW m \in 1..Len(mtab'), NEW n \in 1..Len(mtab'),
               NEW e \in mtab'[m], NEW f \in mtab'[n],
               NEW i \in 1..Len(hist'), NEW k \in 1..Len(hist'),
               e.val = hist'[i].val, f.val = hist'[k].val, i < k
        PROVE  e.seq < f.seq
    <3>1. /\ m \in 1..Len(mtab) /\ e \in mtab[m]
          /\ n \in 1..Len(mtab) /\ f \in mtab[n]
      BY GrowKeepsEntries
    <3>2. QED
      BY <2>3, <3>1 DEF HistInv
  <2>4. QED
    BY <2>1, <2>2, <2>3 DEF HistInv
<1>2. ASSUME NEW i \in 1..Len(hist'), hist'[i].sync
      PROVE  \E m \in 1..Len(mtab') :
               LET mine == {e \in mtab'[m] : e.val = hist'[i].val} IN
                 /\ {e.key : e \in mine} = {hist'[i].keys[j] : j \in DOMAIN hist'[i].keys}
                 /\ m \in InTables' \/ mine \subseteq SyncedEntries(m)'
  <2> DEFINE mine(m) == {e \in mtab[m] : e.val = hist[i].val}
  <2>1. PICK m \in 1..Len(mtab) :
          /\ {e.key : e \in mine(m)} = {hist[i].keys[j] : j \in DOMAIN hist[i].keys}
          /\ m \in InTables \/ mine(m) \subseteq SyncedEntries(m)
    BY <1>2 DEF SyncWritesAreDurable, mem
  <2>2. m \in InTables' \/ mine(m) \subseteq SyncedEntries(m)'
    <3> HIDE DEF mine
    <3> QED BY <2>1, GrowKeepsDurable
  <2>3. m \in 1..Len(mtab') /\ mtab'[m] = mtab[m]
    BY GrowKeepsEntries
  <2>4. {e \in mtab'[m] : e.val = hist'[i].val} = mine(m)
    BY <2>3
  <2>5. QED
    BY <2>1, <2>2, <2>3, <2>4
<1>3. SyncWritesAreDurable'
  BY <1>2 DEF SyncWritesAreDurable, mem
<1>4. QED
  BY <1>1, <1>3

(* A step on the current log and memtable that touches no entry of a call    *)
(* that has succeeded.                                                       *)
LEMMA DurableStays ==
  ASSUME SyncWritesAreDurable, hist' = hist, Len(mtab') = Len(mtab),
         InTables' = InTables,
         \A m \in 1..Len(mtab) : SyncedEntries(m) \subseteq SyncedEntries(m)',
         \A i \in 1..Len(hist) : \A m \in 1..Len(mtab) :
           {e \in mtab'[m] : e.val = hist[i].val} = {e \in mtab[m] : e.val = hist[i].val}
  PROVE  SyncWritesAreDurable'
<1>1. ASSUME NEW i \in 1..Len(hist'), hist'[i].sync
      PROVE  \E m \in 1..Len(mtab') :
               LET mine == {e \in mtab'[m] : e.val = hist'[i].val} IN
                 /\ {e.key : e \in mine} = {hist'[i].keys[j] : j \in DOMAIN hist'[i].keys}
                 /\ m \in InTables' \/ mine \subseteq SyncedEntries(m)'
  <2> DEFINE mine(m) == {e \in mtab[m] : e.val = hist[i].val}
  <2>1. PICK m \in 1..Len(mtab) :
          /\ {e.key : e \in mine(m)} = {hist[i].keys[j] : j \in DOMAIN hist[i].keys}
          /\ m \in InTables \/ mine(m) \subseteq SyncedEntries(m)
    BY <1>1 DEF SyncWritesAreDurable, mem
  <2>2. m \in InTables' \/ mine(m) \subseteq SyncedEntries(m)'
    <3> HIDE DEF mine
    <3> QED BY <2>1
  <2>3. {e \in mtab'[m] : e.val = hist'[i].val} = mine(m)
    OBVIOUS
  <2>4. m \in 1..Len(mtab') /\ hist'[i] = hist[i]
    OBVIOUS
  <2>5. /\ {e.key : e \in {f \in mtab'[m] : f.val = hist'[i].val}} =
             {hist'[i].keys[j] : j \in DOMAIN hist'[i].keys}
        /\ m \in InTables' \/ {e \in mtab'[m] : e.val = hist'[i].val} \subseteq SyncedEntries(m)'
    <3> HIDE DEF mine
    <3>1. {e.key : e \in {f \in mtab'[m] : f.val = hist'[i].val}} = {e.key : e \in mine(m)}
      BY <2>3
    <3>2. QED
      BY <2>1, <2>2, <2>3, <2>4, <3>1
  <2>6. QED
    BY <2>4, <2>5, Zenon
<1>2. QED
  BY <1>1 DEF SyncWritesAreDurable, mem

(* H is the history followed by the calls of the first n writers of q.       *)
Extends(H, q, v, n) ==
  /\ Len(hist) \in Nat /\ Len(H) = Len(hist) + n
  /\ \A i \in 1..Len(hist) : i \in 1..Len(H) /\ H[i] = hist[i]
  /\ \A i \in 1..n : /\ Len(hist) + i \in 1..Len(H)
                     /\ H[Len(hist) + i].keys = v[q[i]].batch
                     /\ H[Len(hist) + i].val = v[q[i]].val
                     /\ H[Len(hist) + i].sync = v[q[i]].sync
  /\ \A i \in 1..Len(H) : i \in 1..Len(hist) \/ \E k \in 1..n : i = Len(hist) + k

LEMMA HistGrows ==
  ASSUME HistType, NEW q, NEW v, NEW n \in Nat, QueueType(q, v), n <= Len(q)
  PROVE  LET H == HistAfter(q, v, n, TRUE)
         IN  H \in Seq(HistRec) /\ Extends(H, q, v, n)
<1> DEFINE r(i) == [keys |-> v[q[i]].batch, val |-> v[q[i]].val, sync |-> v[q[i]].sync]
           g == [i \in 1..n |-> r(i)]
<1>1. \A i \in 1..n : r(i) \in HistRec
  <2>1. q \in Seq(Clients) /\ v \in [Clients -> WriterRec]
    BY DEF QueueType
  <2>2. \A i \in 1..n : q[i] \in Clients
    BY <2>1
  <2>3. \A x \in Clients : v[x].val \in Nat /\ v[x].batch \in Batches \cup {NullBatch}
                           /\ v[x].sync \in BOOLEAN
    BY <2>1 DEF WriterRec
  <2>4. QED
    BY <2>2, <2>3 DEF HistRec
<1>2. g \in [1..n -> HistRec]
  BY <1>1
<1>3. g \in Seq(HistRec) /\ Len(g) = n
  BY <1>2
<1>4. hist \in Seq(HistRec)
  BY DEF HistType
<1>5. HistAfter(q, v, n, TRUE) = hist \o g
  BY DEF HistAfter
<1>6. \A i \in 1..n : g[i].keys = v[q[i]].batch /\ g[i].val = v[q[i]].val
                      /\ g[i].sync = v[q[i]].sync
  OBVIOUS
<1> HIDE DEF g
<1>7. /\ hist \o g \in Seq(HistRec) /\ Len(hist \o g) = Len(hist) + n
      /\ \A i \in 1..(Len(hist) + n) :
           (hist \o g)[i] = IF i <= Len(hist) THEN hist[i] ELSE g[i - Len(hist)]
  BY <1>3, <1>4, ConcatProperties
<1>8. Len(hist) \in Nat
  BY <1>4
<1>9. \A i \in 1..Len(hist) : i \in 1..(Len(hist) + n) /\ (hist \o g)[i] = hist[i]
  BY <1>7, <1>8
<1>10. \A i \in 1..n : /\ Len(hist) + i \in 1..(Len(hist) + n)
                       /\ (hist \o g)[Len(hist) + i] = g[i]
  <2> TAKE i \in 1..n
  <2>1. /\ Len(hist) + i \in 1..(Len(hist) + n) /\ ~(Len(hist) + i <= Len(hist))
        /\ (Len(hist) + i) - Len(hist) = i
    BY <1>8
  <2>2. QED
    BY <1>7, <2>1
<1> HIDE DEF r
<1>11. ASSUME NEW i \in 1..(Len(hist) + n), ~(i <= Len(hist))
       PROVE  \E k \in 1..n : i = Len(hist) + k
  <2>1. i - Len(hist) \in 1..n /\ i = Len(hist) + (i - Len(hist))
    BY <1>8, <1>11
  <2>2. QED
    BY <2>1
<1>12. \A i \in 1..(Len(hist) + n) :
         i \in 1..Len(hist) \/ \E k \in 1..n : i = Len(hist) + k
  <2> TAKE i \in 1..(Len(hist) + n)
  <2>1. CASE i <= Len(hist)
    BY <1>8, <2>1
  <2>2. CASE ~(i <= Len(hist))
    BY <1>11, <2>2
  <2>3. QED
    BY <2>1, <2>2
<1>13. Extends(hist \o g, q, v, n)
  BY ONLY <1>6, <1>7, <1>8, <1>9, <1>10, <1>12 DEF Extends
<1>14. QED
  BY <1>5, <1>7, <1>13

(* Entries that are in flight belong to no call that has succeeded, and are  *)
(* the only ones of the calls in the group.                                  *)
LEMMA FreshIsNew ==
  ASSUME FilesType, HistInv, NEW q, NEW v, NEW c, Len(q) \in Nat,
         ValuesInv(q, v, c), NEW n \in 1..Len(q), NEW last,
         Carries(Fresh, q, v, n, last),
         \A m \in 1..Len(mtab) : \A e \in mtab[m] :
           e.seq <= last_sequence \/ m = Len(mtab)
  PROVE  /\ \A e \in Fresh : e \in mtab[Len(mtab)] /\ last_sequence < e.seq
         /\ \A m \in 1..Len(mtab) : \A e \in mtab[m] :
              e.seq <= last_sequence \/ (m = Len(mtab) /\ e \in Fresh)
         /\ \A e \in Fresh : \A k \in 1..Len(hist) : e.val # hist[k].val
         /\ \A i \in 1..n : \A m \in 1..Len(mtab) : \A e \in mtab[m] :
              e.val = v[q[i]].val => m = Len(mtab) /\ e \in Fresh
<1>1. /\ Len(mtab) \in 1..Len(mtab) /\ last_sequence \in Nat
      /\ \A m \in 1..Len(mtab) : \A e \in mtab[m] : e.seq \in Nat
  BY FilesFacts
<1>2. \A e \in Fresh : e \in mtab[Len(mtab)] /\ last_sequence < e.seq
  BY <1>1 DEF Fresh
<1>3. \A m \in 1..Len(mtab) : \A e \in mtab[m] :
        e.seq <= last_sequence \/ (m = Len(mtab) /\ e \in Fresh)
  BY <1>1 DEF Fresh
<1>4. \A i \in 1..n : \A k \in 1..Len(hist) : v[q[i]].val # hist[k].val
  BY DEF ValuesInv
<1>5. \A e \in Fresh : \E i \in 1..n : e.val = v[q[i]].val
  BY DEF Carries, PutBy
<1>6. \A m \in 1..Len(mtab) : \A e \in mtab[m] : e.seq <= last_sequence =>
        \E k \in 1..Len(hist) : e.val = hist[k].val
  BY DEF HistInv, PutBy
<1>7. QED
  BY <1>2, <1>3, <1>4, <1>5, <1>6

(* A step in which the first n writers succeed and readers get to see what   *)
(* their batches put: all that is in the current memtable and was not        *)
(* visible before.                                                           *)
LEMMA GroupKeepsHist ==
  ASSUME FilesType, FilesGrow, HistInv,
         NEW q, NEW v, NEW c, Len(q) \in Nat, ValuesInv(q, v, c),
         NEW n \in 1..Len(q),
         last_sequence' \in Nat, last_sequence <= last_sequence',
         Carries(Fresh, q, v, n, last_sequence'),
         \A m \in 1..Len(mtab) : \A e \in mtab[m] :
           e.seq <= last_sequence \/ m = Len(mtab),
         Extends(hist', q, v, n)
  PROVE  HistInv'
<1> DEFINE h == Len(hist)
           g == Len(mtab)
<1>1. /\ h \in Nat /\ n \in Nat
      /\ \A i \in 1..h : i \in 1..Len(hist') /\ hist'[i] = hist[i]
      /\ \A i \in 1..n : /\ h + i \in 1..Len(hist')
                         /\ hist'[h + i].keys = v[q[i]].batch
                         /\ hist'[h + i].val = v[q[i]].val
  BY DEF Extends
<1>2. \A i \in 1..Len(hist') : i \in 1..h \/ \E k \in 1..n : i = h + k
  BY DEF Extends
<1>3. /\ g \in 1..g /\ last_sequence \in Nat
      /\ \A m \in 1..g : \A e \in mtab[m] : e.seq \in Nat
  BY FilesFacts
<1>4. /\ \A e \in Fresh : e \in mtab[g] /\ last_sequence < e.seq
      /\ \A m \in 1..g : \A e \in mtab[m] :
           e.seq <= last_sequence \/ (m = g /\ e \in Fresh)
      /\ \A e \in Fresh : \A k \in 1..h : e.val # hist[k].val
      /\ \A i \in 1..n : \A m \in 1..g : \A e \in mtab[m] :
           e.val = v[q[i]].val => m = g /\ e \in Fresh
  BY FreshIsNew
<1>5. ASSUME NEW m \in 1..Len(mtab'), NEW e \in mtab'[m], e.seq <= last_sequence'
      PROVE  \E i \in 1..Len(hist') : PutBy(e, hist'[i].keys, hist'[i].val)
  <2>1. m \in 1..g /\ e \in mtab[m]
    BY GrowKeepsEntries
  <2>2. CASE e.seq <= last_sequence
    <3>1. PICK i \in 1..h : PutBy(e, hist[i].keys, hist[i].val)
      BY <2>1, <2>2 DEF HistInv
    <3>2. i \in 1..Len(hist') /\ hist'[i] = hist[i]
      BY <1>1
    <3>3. QED
      BY <3>1, <3>2
  <2>3. CASE e \in Fresh
    <3>1. PICK i \in 1..n : PutBy(e, v[q[i]].batch, v[q[i]].val)
      BY <2>3 DEF Carries
    <3>2. /\ h + i \in 1..Len(hist')
          /\ hist'[h + i].keys = v[q[i]].batch /\ hist'[h + i].val = v[q[i]].val
      BY <1>1
    <3>3. QED
      BY <3>1, <3>2
  <2>4. QED
    BY <1>4, <2>1, <2>2, <2>3
<1>6. ASSUME NEW i \in 1..Len(hist'), NEW j \in DOMAIN hist'[i].keys
      PROVE  \E m \in 1..Len(mtab') : \E e \in mtab'[m] :
               e.val = hist'[i].val /\ e.key = hist'[i].keys[j]
               /\ e.seq <= last_sequence'
  <2>1. CASE i \in 1..h
    <3>1. hist'[i] = hist[i] /\ j \in DOMAIN hist[i].keys
      BY <1>1, <1>6, <2>1
    <3>2. PICK m \in 1..g : \E e \in mtab[m] :
             e.val = hist[i].val /\ e.key = hist[i].keys[j] /\ e.seq <= last_sequence
      BY <2>1, <3>1 DEF HistInv
    <3>3. PICK e \in mtab[m] :
             e.val = hist[i].val /\ e.key = hist[i].keys[j] /\ e.seq <= last_sequence
      BY <3>2
    <3>4. e.seq <= last_sequence'
      BY <1>3, <3>3
    <3>5. m \in 1..Len(mtab') /\ mtab'[m] = mtab[m]
      BY GrowKeepsEntries
    <3>6. QED
      BY <3>1, <3>3, <3>4, <3>5
  <2>2. ASSUME NEW k \in 1..n, i = h + k
        PROVE  \E m \in 1..Len(mtab') : \E e \in mtab'[m] :
                 e.val = hist'[i].val /\ e.key = hist'[i].keys[j]
                 /\ e.seq <= last_sequence'
    <3>1. hist'[i].keys = v[q[k]].batch /\ hist'[i].val = v[q[k]].val
      BY <1>1, <2>2
    <3>2. PICK e \in Fresh : e.val = v[q[k]].val /\ e.key = v[q[k]].batch[j]
      BY <3>1 DEF Carries
    <3>3. e.seq <= last_sequence' /\ e \in mtab[g]
      BY <1>4 DEF Carries
    <3>4. g \in 1..Len(mtab') /\ mtab'[g] = mtab[g]
      BY <1>3, GrowKeepsEntries
    <3>5. QED
      BY <3>1, <3>2, <3>3, <3>4
  <2>3. QED
    BY <1>2, <2>1, <2>2
<1>7. ASSUME NEW m \in 1..Len(mtab'), NEW l \in 1..Len(mtab'),
             NEW e \in mtab'[m], NEW f \in mtab'[l],
             NEW i \in 1..Len(hist'), NEW k \in 1..Len(hist'),
             e.val = hist'[i].val, f.val = hist'[k].val, i < k
      PROVE  e.seq < f.seq
  <2>1. m \in 1..g /\ e \in mtab[m] /\ l \in 1..g /\ f \in mtab[l]
    BY GrowKeepsEntries
  <2>2. CASE i \in 1..h /\ k \in 1..h
    <3>1. hist'[i] = hist[i] /\ hist'[k] = hist[k]
      BY <1>1, <2>2
    <3>2. QED
      BY <1>7, <2>1, <2>2, <3>1 DEF HistInv
  <2>3. ASSUME i \in 1..h, NEW b \in 1..n, k = h + b
        PROVE  e.seq < f.seq
    <3>1. hist'[i] = hist[i] /\ hist'[k].val = v[q[b]].val
      BY <1>1, <2>3
    <3>2. f \in Fresh
      BY <1>4, <1>7, <2>1, <3>1
    <3>3. e \notin Fresh
      BY <1>4, <1>7, <2>3, <3>1
    <3>4. e.seq <= last_sequence /\ last_sequence < f.seq
      BY <1>4, <2>1, <3>2, <3>3
    <3>5. e.seq \in Nat /\ f.seq \in Nat /\ last_sequence \in Nat
      BY <1>3, <2>1
    <3>6. QED
      BY <3>4, <3>5
  <2>4. ASSUME NEW a \in 1..n, i = h + a, NEW b \in 1..n, k = h + b
        PROVE  e.seq < f.seq
    <3>1. hist'[i].val = v[q[a]].val /\ hist'[k].val = v[q[b]].val
      BY <1>1, <2>4
    <3>2. a < b
      BY <1>1, <1>7, <2>4
    <3>3. e \in Fresh /\ f \in Fresh
      BY <1>4, <1>7, <2>1, <3>1
    <3>4. QED
      BY <1>7, <3>1, <3>2, <3>3 DEF Carries
  <2>5. ASSUME NEW a \in 1..n, i = h + a PROVE k \notin 1..h
    BY <1>1, <1>7, <2>5
  <2>6. QED
    BY <1>2, <2>2, <2>3, <2>4, <2>5
<1>8. QED
  BY <1>5, <1>6, <1>7 DEF HistInv

LEMMA GroupKeepsDurable ==
  ASSUME FilesType, FilesGrow, HistInv, SyncWritesAreDurable, LogCoversMemTable,
         NEW q, NEW v, NEW c, Len(q) \in Nat, ValuesInv(q, v, c),
         NEW n \in 1..Len(q), NEW last,
         Carries(Fresh, q, v, n, last),
         \A m \in 1..Len(mtab) : \A e \in mtab[m] :
           e.seq <= last_sequence \/ m = Len(mtab),
         \A i \in 1..n : v[q[i]].sync /\ v[q[i]].batch # NullBatch =>
           synced[Len(mtab)] = Len(log[Len(mtab)]),
         Extends(hist', q, v, n)
  PROVE  SyncWritesAreDurable'
<1> DEFINE h == Len(hist)
           g == Len(mtab)
<1>1. /\ h \in Nat /\ n \in Nat
      /\ \A i \in 1..h : i \in 1..Len(hist') /\ hist'[i] = hist[i]
      /\ \A i \in 1..n : /\ h + i \in 1..Len(hist')
                         /\ hist'[h + i].keys = v[q[i]].batch
                         /\ hist'[h + i].val = v[q[i]].val
                         /\ hist'[h + i].sync = v[q[i]].sync
  BY DEF Extends
<1>2. \A i \in 1..Len(hist') : i \in 1..h \/ \E k \in 1..n : i = h + k
  BY DEF Extends
<1>3. g \in 1..g
  BY FilesFacts
<1>4. /\ \A e \in Fresh : e \in mtab[g]
      /\ \A i \in 1..n : \A e \in mtab[g] : e.val = v[q[i]].val => e \in Fresh
  BY <1>3, FreshIsNew
<1>5. ASSUME NEW i \in 1..Len(hist'), hist'[i].sync
      PROVE  \E m \in 1..Len(mtab') :
               LET mine == {e \in mtab'[m] : e.val = hist'[i].val} IN
                 /\ {e.key : e \in mine} = {hist'[i].keys[j] : j \in DOMAIN hist'[i].keys}
                 /\ m \in InTables' \/ mine \subseteq SyncedEntries(m)'
  <2> DEFINE mine(m) == {e \in mtab[m] : e.val = hist'[i].val}
             keys == {hist'[i].keys[j] : j \in DOMAIN hist'[i].keys}
  <2>1. \E m \in 1..g : /\ {e.key : e \in mine(m)} = keys
                        /\ m \in InTables \/ mine(m) \subseteq SyncedEntries(m)
    <3>1. CASE i \in 1..h
      <4>1. hist'[i] = hist[i] /\ hist[i].sync
        BY <1>1, <1>5, <3>1
      <4>2. PICK m \in 1..g :
              LET old == {e \in mtab[m] : e.val = hist[i].val} IN
                /\ {e.key : e \in old} = {hist[i].keys[j] : j \in DOMAIN hist[i].keys}
                /\ m \in InTables \/ old \subseteq SyncedEntries(m)
        BY <3>1, <4>1 DEF SyncWritesAreDurable, mem
      <4>3. /\ {e.key : e \in mine(m)} = keys
            /\ m \in InTables \/ mine(m) \subseteq SyncedEntries(m)
        BY <4>1, <4>2
      <4>4. QED
        BY <4>3
    <3>2. ASSUME NEW k \in 1..n, i = h + k
          PROVE  /\ {e.key : e \in mine(g)} = keys
                 /\ mine(g) \subseteq SyncedEntries(g)
      <4>1. /\ hist'[i].keys = v[q[k]].batch /\ hist'[i].val = v[q[k]].val
            /\ v[q[k]].sync
        BY <1>1, <1>5, <3>2
      <4>2. \A e : e \in mine(g) <=> e \in Fresh /\ e.val = v[q[k]].val
        BY <1>4, <4>1
      <4> HIDE DEF mine
      <4>3. ASSUME NEW e \in mine(g)
            PROVE  \E j \in DOMAIN v[q[k]].batch : e.key = v[q[k]].batch[j]
        <5>1. PICK b \in 1..n : PutBy(e, v[q[b]].batch, v[q[b]].val)
          BY <4>2 DEF Carries
        <5>2. v[q[b]].val = v[q[k]].val /\ b \in 1..Len(q) /\ k \in 1..Len(q)
          BY <4>2, <5>1 DEF PutBy
        <5>3. b = k
          BY <5>2 DEF ValuesInv
        <5>4. QED
          BY <5>1, <5>3 DEF PutBy
      <4>4. \A j \in DOMAIN v[q[k]].batch : \E e \in mine(g) : e.key = v[q[k]].batch[j]
        BY <4>2 DEF Carries
      <4>5. {e.key : e \in mine(g)} = keys
        BY <4>1, <4>3, <4>4
      <4>6. CASE v[q[k]].batch = NullBatch
        <5>1. DOMAIN v[q[k]].batch = {}
          BY <4>6 DEF NullBatch
        <5>2. QED
          BY <4>3, <4>5, <5>1
      <4>7. CASE v[q[k]].batch # NullBatch
        <5>1. EntriesOf(g) = SyncedEntries(g)
          BY <4>1, <4>7 DEF EntriesOf, SyncedEntries
        <5>2. mtab[g] \subseteq SyncedEntries(g)
          BY <1>3, <5>1 DEF LogCoversMemTable, mem
        <5>3. QED
          BY <1>4, <4>2, <4>5, <5>2
      <4>8. QED
        BY <4>6, <4>7
    <3> HIDE DEF mine, keys, g, h
    <3>3. QED
      BY <1>2, <1>3, <3>1, <3>2
  <2>2. PICK m \in 1..g : /\ {e.key : e \in mine(m)} = keys
                          /\ m \in InTables \/ mine(m) \subseteq SyncedEntries(m)
    BY <2>1
  <2>3. m \in InTables' \/ mine(m) \subseteq SyncedEntries(m)'
    <3> HIDE DEF mine
    <3> QED BY <2>2, GrowKeepsDurable
  <2>4. m \in 1..Len(mtab') /\ mtab'[m] = mtab[m]
    BY GrowKeepsEntries
  <2>5. {e \in mtab'[m] : e.val = hist'[i].val} = mine(m)
    BY <2>4
  <2>6. QED
    BY <2>2, <2>3, <2>4, <2>5
<1>6. QED
  BY <1>5 DEF SyncWritesAreDurable, mem

-----------------------------------------------------------------------------
(* The queue and the Writers.                                                *)
LEMMA QueueFacts ==
  ASSUME NEW q, NEW v, QueueType(q, v)
  PROVE  /\ Len(q) \in Nat /\ \A i \in 1..Len(q) : q[i] \in Clients
         /\ \A x \in Clients :
              /\ v[x] \in WriterRec
              /\ v[x].batch \in Batches \cup {NullBatch}
              /\ v[x].sync \in BOOLEAN /\ v[x].done \in BOOLEAN /\ v[x].ok \in BOOLEAN
              /\ v[x].val \in Nat /\ v[x].group \in Nat /\ v[x].last \in Nat
              /\ v[x].updates \in SUBSET Entry
              /\ v[x].pc \in {"idle"} \cup Waiting \cup Writing \cup Over
<1>1. q \in Seq(Clients) /\ v \in [Clients -> WriterRec]
  BY DEF QueueType
<1>2. Len(q) \in Nat /\ \A i \in 1..Len(q) : q[i] \in Clients
  BY <1>1
<1>3. \A x \in Clients : v[x] \in WriterRec
  BY <1>1
<1>4. \A r \in WriterRec :
              /\ r.batch \in Batches \cup {NullBatch}
              /\ r.sync \in BOOLEAN /\ r.done \in BOOLEAN /\ r.ok \in BOOLEAN
              /\ r.val \in Nat /\ r.group \in Nat /\ r.last \in Nat
              /\ r.updates \in SUBSET Entry
              /\ r.pc \in {"idle"} \cup Waiting \cup Writing \cup Over
  BY DEF WriterRec
<1>5. QED
  BY <1>2, <1>3, <1>4

LEMMA PcsDiffer ==
  /\ Waiting \cap Writing = {} /\ Waiting \cap Over = {} /\ Writing \cap Over = {}
  /\ "idle" \notin Waiting \cup Writing \cup Over
BY DEF Waiting, Writing, Over

(* Only the client at the front of the queue can be writing.                 *)
LEMMA OnlyFrontWrites ==
  ASSUME NEW q, NEW v, QueueInv(q, v), NEW x \in Clients, v[x].pc \in Writing
  PROVE  Len(q) # 0 /\ q[1] = x /\ ~v[x].done /\ v[x].group \in 1..Len(q)
BY DEF QueueInv

LEMMA SlotsFollowBatches ==
  ASSUME NEW U, NEW q, NEW v, NEW p, NEW u, NEW n, NEW last,
         Carries(U, q, v, n, last),
         \A i \in 1..n : u[p[i]].batch = v[q[i]].batch /\ u[p[i]].val = v[q[i]].val
  PROVE  Carries(U, p, u, n, last)
<1>1. ASSUME NEW e \in U
      PROVE  /\ last_sequence < e.seq /\ e.seq <= last
             /\ \E i \in 1..n : PutBy(e, u[p[i]].batch, u[p[i]].val)
  BY DEF Carries
<1>2. ASSUME NEW i \in 1..n, NEW j \in DOMAIN u[p[i]].batch
      PROVE  \E e \in U : e.val = u[p[i]].val /\ e.key = u[p[i]].batch[j]
  BY DEF Carries
<1>3. ASSUME NEW i \in 1..n, NEW k \in 1..n, NEW e \in U, NEW f \in U,
             i < k, e.val = u[p[i]].val, f.val = u[p[k]].val
      PROVE  e.seq < f.seq
  BY <1>3 DEF Carries
<1>4. QED
  BY <1>1, <1>2, <1>3 DEF Carries

(* The step of a client that neither is nor becomes a writer at the front,   *)
(* and does not leave the queue.                                             *)
LEMMA QuietWriter ==
  ASSUME NEW q, NEW v, NEW c, WritersInv(q, v, c), NEW t \in Clients,
         NEW r \in WriterRec, NEW u, u = [v EXCEPT ![t] = r],
         \/ /\ v[t].pc \in Waiting /\ Len(q) # 0 /\ q[1] = t
            /\ r.pc \in Waiting /\ r.done = v[t].done /\ r.ok = v[t].ok
         \/ ~InQueue(v, t) /\ r.pc \in {"idle"} \cup Over,
         r.val = v[t].val \/ ~InQueue(v, t)
  PROVE  WritersInv(q, u, c)
<1>1. QueueType(q, v) /\ QueueInv(q, v) /\ ValuesInv(q, v, c) /\ NumbersInv(v)
  BY DEF WritersInv
<1>2. /\ QueueType(q, u) /\ u[t] = r
      /\ \A x \in Clients : x # t => u[x] = v[x]
  BY <1>1 DEF QueueType
<1>3. v[t].pc \notin Writing /\ u[t].pc \notin Writing
  BY <1>1, <1>2, PcsDiffer, OnlyFrontWrites DEF InQueue
<1>4. InQueue(u, t) <=> InQueue(v, t)
  BY <1>2, PcsDiffer DEF InQueue
<1>5. \A x \in Clients : InQueue(u, x) <=> InQueue(v, x)
  BY <1>2, <1>4 DEF InQueue
<1>6. QueueInv(q, u)
  <2>1. \A i \in 1..Len(q) : q[i] \in Clients /\ InQueue(u, q[i])
    BY <1>1, <1>5, QueueFacts DEF QueueInv
  <2>2. \A x \in Clients : InQueue(u, x) => \E i \in 1..Len(q) : q[i] = x
    BY <1>1, <1>5 DEF QueueInv
  <2>3. \A x \in Clients : u[x].pc \in {"sleep", "room"} \cup Writing =>
          ~u[x].done /\ Len(q) # 0 /\ q[1] = x
    <3> TAKE x \in Clients
    <3>1. CASE x # t
      BY <1>1, <1>2, <3>1 DEF QueueInv
    <3>2. CASE x = t
      BY <1>1, <1>2, <1>3, <1>4, <3>2, QueueFacts, PcsDiffer
         DEF QueueInv, InQueue, Over
    <3>3. QED
      BY <3>1, <3>2
  <2>4. \A x \in Clients : u[x].pc \in Writing => u[x].group \in 1..Len(q)
    BY <1>1, <1>2, <1>3 DEF QueueInv
  <2>5. \A x \in Clients : InQueue(u, x) /\ u[x].pc # "finish" => u[x].ok
    <3> TAKE x \in Clients
    <3>1. CASE x # t
      BY <1>1, <1>2, <1>5, <3>1 DEF QueueInv
    <3>2. CASE x = t
      BY <1>1, <1>2, <1>3, <1>4, <3>2, PcsDiffer DEF QueueInv, InQueue, Writing
    <3>3. QED
      BY <3>1, <3>2
  <2>6. QED
    BY <1>1, <2>1, <2>2, <2>3, <2>4, <2>5 DEF QueueInv
<1>7. \A i \in 1..Len(q) : u[q[i]].val = v[q[i]].val
  BY <1>1, <1>2, QueueFacts DEF QueueInv
<1>8. ValuesInv(q, u, c)
  BY <1>1, <1>7 DEF ValuesInv
<1>9. NumbersInv(u)
  BY <1>1, <1>2, <1>3 DEF NumbersInv, Writing
<1>10. ASSUME NEW x \in Clients, u[x].pc \in Writing PROVE GroupInv(x, q, u)
  <2>1. x # t /\ v[x].pc \in Writing /\ u[x] = v[x]
    BY <1>2, <1>3, <1>10
  <2>2. GroupInv(x, q, v)
    BY <2>1 DEF WritersInv
  <2>3. Len(q) # 0 /\ q[1] = x /\ v[x].group \in 1..Len(q)
    BY <1>1, <2>1, OnlyFrontWrites
  <2>4. v[x].group \in Nat /\ \A i \in 1..v[x].group : i \in 1..Len(q)
    BY <1>1, <2>3, QueueFacts
  <2>5. \A i \in 1..v[x].group : u[q[i]] = v[q[i]]
    <3> TAKE i \in 1..v[x].group
    <3>1. q[i] \in Clients /\ InQueue(v, q[i])
      BY <1>1, <2>4, QueueFacts DEF QueueInv
    <3>2. CASE q[i] # t
      BY <1>2, <3>1, <3>2
    <3>3. CASE q[i] = t
      BY <2>1, <2>3, <3>1, <3>3
    <3>4. QED
      BY <3>2, <3>3
  <2>6. v[x].ok => Carries(v[x].updates \cup Fresh, q, u, v[x].group, v[x].last)
    BY <2>2, <2>5, SlotsFollowBatches DEF GroupInv
  <2>7. QED
    BY <2>1, <2>2, <2>5, <2>6 DEF GroupInv
<1>11. QED
  BY <1>2, <1>6, <1>8, <1>9, <1>10 DEF WritersInv

(* CallWrite puts the client, with a value of its own, at the end.           *)
LEMMA JoinsQueue ==
  ASSUME NEW q, NEW v, NEW c \in Nat, WritersInv(q, v, c), NEW t \in Clients,
         v[t].pc = "idle",
         NEW r \in WriterRec, r.pc = "queue", ~r.done, r.ok, r.val = c + 1
  PROVE  WritersInv(Append(q, t), [v EXCEPT ![t] = r], c + 1)
<1> DEFINE p == Append(q, t)
           u == [v EXCEPT ![t] = r]
<1>1. /\ QueueType(q, v) /\ QueueInv(q, v) /\ ValuesInv(q, v, c) /\ NumbersInv(v)
      /\ \A x \in Clients : v[x].pc \in Writing => GroupInv(x, q, v)
  BY DEF WritersInv
<1>2. /\ Len(q) \in Nat /\ Len(p) = Len(q) + 1 /\ p \in Seq(Clients)
      /\ p[Len(q) + 1] = t /\ \A i \in 1..Len(q) : i \in 1..Len(p) /\ p[i] = q[i]
      /\ \A i \in 1..Len(p) : i \in 1..Len(q) \/ i = Len(q) + 1
  BY <1>1 DEF QueueType
<1>3. u \in [Clients -> WriterRec] /\ u[t] = r /\ \A x \in Clients : x # t => u[x] = v[x]
  BY <1>1 DEF QueueType
<1>4. QueueType(p, u)
  BY <1>2, <1>3 DEF QueueType
<1>5. ~InQueue(v, t) /\ InQueue(u, t) /\ u[t].pc = "queue"
      /\ v[t].pc \notin Writing /\ u[t].pc \notin Writing
  BY <1>3 DEF InQueue, Waiting, Writing
<1> HIDE DEF p, u
<1>6. \A i \in 1..Len(q) : q[i] \in Clients /\ q[i] # t
  BY <1>1, <1>5, QueueFacts DEF QueueInv
<1>7. /\ \A i \in 1..Len(q) : u[p[i]] = v[q[i]]
      /\ u[p[Len(q) + 1]] = r
  BY <1>2, <1>3, <1>6
<1>8. QueueInv(p, u)
  <2>1. \A i, j \in 1..Len(p) : p[i] = p[j] => i = j
    BY <1>1, <1>2, <1>6 DEF QueueInv
  <2>2. \A i \in 1..Len(p) : InQueue(u, p[i])
    BY <1>1, <1>2, <1>3, <1>5, <1>6 DEF QueueInv, InQueue
  <2>3. ASSUME NEW x \in Clients, InQueue(u, x) PROVE \E i \in 1..Len(p) : p[i] = x
    <3>1. CASE x = t
      BY <1>2, <3>1
    <3>2. CASE x # t
      <4>1. InQueue(v, x)
        BY <1>3, <2>3, <3>2 DEF InQueue
      <4>2. PICK i \in 1..Len(q) : q[i] = x
        BY <1>1, <4>1 DEF QueueInv
      <4>3. QED
        BY <1>2, <4>2
    <3>3. QED
      BY <3>1, <3>2
  <2>4. ASSUME NEW x \in Clients, u[x].pc \in {"sleep", "room"} \cup Writing
        PROVE  x # t /\ ~u[x].done /\ Len(p) # 0 /\ p[1] = x
    BY <1>1, <1>2, <1>3, <1>5, <2>4 DEF QueueInv
  <2>5. ASSUME NEW x \in Clients, u[x].pc \in Writing PROVE u[x].group \in 1..Len(p)
    BY <1>1, <1>2, <1>3, <1>5, <2>5, QueueFacts DEF QueueInv
  <2>6. ASSUME NEW x \in Clients, InQueue(u, x), u[x].pc # "finish" PROVE u[x].ok
    BY <1>1, <1>3, <2>6 DEF QueueInv, InQueue
  <2>7. QED
    BY <2>1, <2>2, <2>3, <2>4, <2>5, <2>6 DEF QueueInv
<1>9. ValuesInv(p, u, c + 1)
  <2>1. \A i \in 1..Len(p) : u[p[i]].val \in 1..(c + 1)
    BY <1>1, <1>2, <1>7 DEF ValuesInv
  <2>2. \A i, j \in 1..Len(p) : u[p[i]].val = u[p[j]].val => i = j
    <3>1. \A i \in 1..Len(q) : u[p[i]].val # c + 1
      BY <1>1, <1>7 DEF ValuesInv
    <3>2. \A i, j \in 1..Len(q) : u[p[i]].val = u[p[j]].val => i = j
      BY <1>1, <1>7 DEF ValuesInv
    <3>3. u[p[Len(q) + 1]].val = c + 1
      BY <1>7
    <3>4. QED
      BY <1>2, <3>1, <3>2, <3>3
  <2>3. \A k \in 1..Len(hist) : hist[k].val \in 1..(c + 1) /\ hist[k].val # c + 1
    BY <1>1 DEF ValuesInv
  <2>4. \A i \in 1..Len(p), k \in 1..Len(hist) : u[p[i]].val # hist[k].val
    BY <1>1, <1>2, <1>7, <2>3 DEF ValuesInv
  <2>5. QED
    BY <1>1, <2>1, <2>2, <2>3, <2>4 DEF ValuesInv
<1>10. NumbersInv(u)
  BY <1>1, <1>3, <1>5 DEF NumbersInv, Writing
<1>11. ASSUME NEW x \in Clients, u[x].pc \in Writing PROVE GroupInv(x, p, u)
  <2>1. x # t /\ v[x].pc \in Writing /\ u[x] = v[x]
    BY <1>3, <1>5, <1>11
  <2>2. GroupInv(x, q, v)
    BY <1>1, <2>1
  <2>3. v[x].group \in Nat /\ \A i \in 1..v[x].group : i \in 1..Len(q)
    BY <1>1, <2>1, OnlyFrontWrites, QueueFacts
  <2>4. \A i \in 1..v[x].group : u[p[i]] = v[q[i]]
    BY <1>7, <2>3
  <2>5. v[x].ok => Carries(v[x].updates \cup Fresh, p, u, v[x].group, v[x].last)
    BY <2>2, <2>4, SlotsFollowBatches DEF GroupInv
  <2>6. QED
    BY <2>1, <2>2, <2>4, <2>5 DEF GroupInv
<1>12. QED
  BY <1>4, <1>8, <1>9, <1>10, <1>11 DEF WritersInv, p, u

(* The writer at the front forms its group.                                  *)
LEMMA GroupStarts ==
  ASSUME NEW q, NEW v, NEW c, WritersInv(q, v, c), FilesType,
         NEW t \in Clients, Len(q) # 0, q[1] = t,
         v[t].pc \in Waiting, v[t].batch # NullBatch,
         NEW n, n = GroupSize(q, v), NEW last,
         last = last_sequence + Cardinality(Slots(q, v, n))
  PROVE  WritersInv(q, [v EXCEPT ![t].pc = "log", ![t].group = n,
                                 ![t].updates = Updates(q, v, n), ![t].last = last], c)
<1> DEFINE U == Updates(q, v, n)
           u == [v EXCEPT ![t].pc = "log", ![t].group = n, ![t].updates = U, ![t].last = last]
<1>1. QueueType(q, v) /\ QueueInv(q, v) /\ ValuesInv(q, v, c) /\ NumbersInv(v)
  BY DEF WritersInv
<1>2. /\ Len(q) \in Nat /\ 1 \in 1..Len(q) /\ last_sequence \in Nat
      /\ \A i \in 1..Len(q) : q[i] \in Clients
  <2>1. Len(q) \in Nat /\ \A i \in 1..Len(q) : q[i] \in Clients
    BY <1>1, QueueFacts
  <2>2. 1 \in 1..Len(q)
    BY <2>1
  <2>3. last_sequence \in Nat
    BY DEF FilesType
  <2>4. QED
    BY <2>1, <2>2, <2>3
<1>3. /\ n \in 1..Len(q) /\ \A i \in 1..n : i \in 1..Len(q)
      /\ \A i \in 1..n : v[q[i]].sync => v[t].sync
  <2>1. n \in 1..Len(q) /\ \A i \in 2..n : CanJoin(q, v, i)
    BY <1>2, GroupIsPrefix
  <2>2. \A i \in 1..n : i \in 1..Len(q) /\ (i = 1 \/ i \in 2..n)
    BY <1>2, <2>1
  <2>3. \A i \in 1..n : v[q[i]].sync => v[t].sync
    BY <2>1, <2>2 DEF CanJoin
  <2>4. QED
    BY <2>1, <2>2, <2>3
<1>4. /\ U \in SUBSET Entry /\ last \in Nat /\ last_sequence <= last
      /\ Carries(U, q, v, n, last) /\ U # {}
  <2>1. \A i, k \in 1..n : v[q[i]].val = v[q[k]].val => i = k
    BY <1>1, <1>3 DEF ValuesInv
  <2>2. QED
    BY <1>1, <1>2, <1>3, <2>1, UpdatesAreCarried
<1> HIDE DEF U
<1>5. /\ u \in [Clients -> WriterRec]
      /\ \A x \in Clients : x # t => u[x] = v[x]
      /\ u[t].pc = "log" /\ u[t].group = n /\ u[t].updates = U /\ u[t].last = last
      /\ u[t].done = v[t].done /\ u[t].ok = v[t].ok /\ u[t].sync = v[t].sync
      /\ u[t].val = v[t].val /\ u[t].batch = v[t].batch
  <2> DEFINE r == [v[t] EXCEPT !.pc = "log", !.group = n, !.updates = U, !.last = last]
  <2>1. v \in [Clients -> WriterRec] /\ v[t] \in WriterRec
    BY <1>1 DEF QueueType
  <2>2. n \in Nat /\ "log" \in Writing
    BY <1>2, <1>3 DEF Writing
  <2>3. r \in WriterRec
    BY <1>4, <2>1, <2>2 DEF WriterRec
  <2>4. /\ r.pc = "log" /\ r.group = n /\ r.updates = U /\ r.last = last
        /\ r.done = v[t].done /\ r.ok = v[t].ok /\ r.sync = v[t].sync
        /\ r.val = v[t].val /\ r.batch = v[t].batch
    BY <2>1 DEF WriterRec
  <2>5. u = [v EXCEPT ![t] = r]
    BY <2>1
  <2> HIDE DEF r, u
  <2>6. QED
    BY <2>1, <2>3, <2>4, <2>5
<1> HIDE DEF u
<1>6. \A x \in Clients : /\ u[x].done = v[x].done /\ u[x].ok = v[x].ok
                         /\ u[x].sync = v[x].sync /\ u[x].val = v[x].val
                         /\ u[x].batch = v[x].batch
                         /\ InQueue(u, x) <=> InQueue(v, x)
  BY <1>5 DEF InQueue, Writing
<1>7. /\ \A x \in Clients : v[x].pc \notin Writing
      /\ InQueue(v, t) /\ v[t].ok
  BY <1>1, <1>2, OnlyFrontWrites, PcsDiffer DEF QueueInv, Waiting
<1>8. QueueInv(q, u)
  <2>1. /\ \A i \in 1..Len(q) : InQueue(u, q[i])
        /\ \A x \in Clients : InQueue(u, x) => \E i \in 1..Len(q) : q[i] = x
    BY <1>1, <1>2, <1>6 DEF QueueInv
  <2>2. \A x \in Clients : u[x].pc \in {"sleep", "room"} \cup Writing =>
          ~u[x].done /\ Len(q) # 0 /\ q[1] = x
    BY <1>1, <1>5, <1>6, <1>7 DEF QueueInv, InQueue
  <2>3. \A x \in Clients : u[x].pc \in Writing => u[x].group \in 1..Len(q)
    BY <1>3, <1>5, <1>7
  <2>4. \A x \in Clients : InQueue(u, x) /\ u[x].pc # "finish" => u[x].ok
    BY <1>1, <1>5, <1>6, <1>7 DEF QueueInv
  <2>5. QED
    BY <1>1, <2>1, <2>2, <2>3, <2>4 DEF QueueInv
<1>9. ValuesInv(q, u, c)
  <2>1. \A i \in 1..Len(q) : u[q[i]].val = v[q[i]].val
    BY <1>2, <1>6
  <2>2. QED
    BY <1>1, <2>1 DEF ValuesInv
<1>10. NumbersInv(u) /\ Fresh = {}
  <2>1. \A m \in 1..Len(mtab) : \A e \in mtab[m] : e.seq <= last_sequence
    BY <1>1, <1>7 DEF NumbersInv, Writing
  <2>2. \A m \in 1..Len(mtab) : \A i \in 1..Len(log[m]) : \A e \in log[m][i] :
          e.seq <= last_sequence
    BY <1>1, <1>7 DEF NumbersInv
  <2>3. Fresh = {}
    BY <2>1, FilesFacts DEF Fresh
  <2>4. QED
    BY <2>1, <2>2, <2>3 DEF NumbersInv
<1>11. ASSUME NEW x \in Clients, u[x].pc \in Writing PROVE GroupInv(x, q, u)
  <2>1. x = t
    BY <1>5, <1>7, <1>11
  <2>2. Carries(U, q, u, n, last)
    BY <1>2, <1>3, <1>4, <1>6, SlotsFollowBatches
  <2>3. u[t].updates \cup Fresh = U
    BY <1>5, <1>10
  <2>4. \A i \in 1..n : u[q[i]].sync => u[t].sync
    BY <1>2, <1>3, <1>6
  <2>5. QED
    BY <1>4, <1>5, <1>10, <2>1, <2>2, <2>3, <2>4 DEF GroupInv
<1>12. QED
  BY <1>5, <1>1, <1>8, <1>9, <1>10, <1>11 DEF WritersInv, QueueType, u, U

(* The first n writers of q are gone, and nobody is writing.                 *)
Left(p, u, q, v, n) ==
  /\ QueueType(p, u) /\ QueueInv(p, u)
  /\ \A x \in Clients : u[x].pc \notin Writing
  /\ Len(p) = Len(q) - n
  /\ \A i \in 1..Len(p) : n + i \in 1..Len(q) /\ u[p[i]] = v[q[n + i]]

(* The front writer and its group leave the queue with their status.         *)
LEMMA GroupLeaves ==
  ASSUME NEW q, NEW v, QueueType(q, v), QueueInv(q, v),
         NEW t \in Clients, Len(q) # 0, q[1] = t, NEW n \in 1..Len(q),
         NEW ok \in BOOLEAN
  PROVE  Left(SubSeq(q, n + 1, Len(q)), WritersAfter(t, q, v, n, ok), q, v, n)
<1> DEFINE p == SubSeq(q, n + 1, Len(q))
           u == WritersAfter(t, q, v, n, ok)
<1>1. /\ q \in Seq(Clients) /\ Len(q) \in Nat /\ n \in Nat /\ n <= Len(q) /\ 1 <= n
      /\ \A i \in 1..Len(q) : q[i] \in Clients
  BY QueueFacts DEF QueueType
<1>2. /\ p \in Seq(Clients) /\ Len(p) = Len(q) - n
      /\ \A i \in 1..Len(p) : n + i \in 1..Len(q) /\ p[i] = q[n + i]
  <2>1. \A i \in (n + 1)..Len(q) : q[i] \in Clients
    BY <1>1
  <2>2. /\ SubSeq(q, n + 1, Len(q)) \in Seq(Clients)
        /\ Len(SubSeq(q, n + 1, Len(q))) =
             IF n + 1 <= Len(q) THEN Len(q) - (n + 1) + 1 ELSE 0
        /\ \A i \in 1..(Len(q) - (n + 1) + 1) :
             SubSeq(q, n + 1, Len(q))[i] = q[(n + 1) + i - 1]
    BY <1>1, <2>1, SubSeqProperties
  <2>3. Len(q) - (n + 1) + 1 = Len(q) - n /\ \A i \in Nat : (n + 1) + i - 1 = n + i
    BY <1>1
  <2>4. Len(p) = Len(q) - n
    BY <1>1, <2>2
  <2>5. \A i \in 1..Len(p) : n + i \in 1..Len(q)
    BY <1>1, <2>4
  <2>6. ASSUME NEW i \in 1..Len(p) PROVE p[i] = q[n + i]
    <3>1. Len(q) - (n + 1) + 1 = Len(p)
      BY <1>1, <2>4
    <3>2. i \in 1..(Len(q) - (n + 1) + 1)
      BY <3>1, Zenon
    <3>3. i \in Nat
      OBVIOUS
    <3>4. p[i] = q[(n + 1) + i - 1]
      BY <2>2, <3>2
    <3>5. QED
      BY <2>3, <3>3, <3>4
  <2>7. QED
    BY <2>2, <2>4, <2>5, <2>6
<1>13. u \in [Clients -> {u[x] : x \in Clients}]
  BY DEF WritersAfter
<1>3. \A x \in Clients :
        /\ x = t => u[x] = [v[x] EXCEPT !.pc = "return", !.ok = ok]
        /\ x # t /\ (\E i \in 1..n : q[i] = x) => u[x] = [v[x] EXCEPT !.done = TRUE, !.ok = ok]
        /\ x # t /\ ~(\E i \in 1..n : q[i] = x) => u[x] = v[x]
  BY DEF WritersAfter
<1>4. \A x \in Clients : v[x] \in WriterRec
  BY QueueFacts
<1>5. ASSUME NEW x \in Clients PROVE u[x] \in WriterRec
  <2>1. /\ [v[x] EXCEPT !.pc = "return", !.ok = ok] \in WriterRec
        /\ [v[x] EXCEPT !.done = TRUE, !.ok = ok] \in WriterRec
    BY <1>4 DEF WriterRec, Over
  <2>2. QED
    BY <1>3, <1>4, <2>1
<1> HIDE DEF p, u
<1>6. QueueType(p, u)
  BY <1>2, <1>5, <1>13 DEF QueueType
<1>7. ASSUME NEW x \in Clients
      PROVE  /\ x = t => u[x].pc = "return"
             /\ x # t => u[x].pc = v[x].pc
             /\ x # t /\ (\E i \in 1..n : q[i] = x) => u[x].done
             /\ (\A i \in 1..n : q[i] # x) => x # t /\ u[x] = v[x]
  <2>1. /\ [v[x] EXCEPT !.pc = "return", !.ok = ok].pc = "return"
        /\ [v[x] EXCEPT !.done = TRUE, !.ok = ok].pc = v[x].pc
        /\ [v[x] EXCEPT !.done = TRUE, !.ok = ok].done
    BY <1>4 DEF WriterRec
  <2>2. (\A i \in 1..n : q[i] # x) => x # t
    BY <1>1
  <2>3. QED
    BY <1>3, <2>1, <2>2
<1>8. \A i \in 1..Len(p) : p[i] = q[n + i] /\ u[p[i]] = v[q[n + i]]
  <2> TAKE i \in 1..Len(p)
  <2>1. n + i \in 1..Len(q) /\ p[i] = q[n + i] /\ \A j \in 1..n : j \in 1..Len(q) /\ j # n + i
    BY <1>1, <1>2
  <2>2. \A j \in 1..n : q[j] # q[n + i]
    BY <2>1 DEF QueueInv
  <2>3. QED
    BY <1>1, <1>7, <2>1, <2>2
<1>9. ASSUME NEW x \in Clients, InQueue(u, x)
      PROVE  \E i \in 1..Len(p) : p[i] = x /\ x # t /\ u[x] = v[x]
  <2>1. x # t
    BY <1>7, <1>9 DEF InQueue, Waiting, Writing
  <2>2. \A i \in 1..n : q[i] # x
    BY <1>7, <1>9, <2>1 DEF InQueue
  <2>3. u[x] = v[x] /\ InQueue(v, x)
    BY <1>7, <1>9, <2>2 DEF InQueue
  <2>4. PICK j \in 1..Len(q) : q[j] = x
    BY <2>3 DEF QueueInv
  <2>5. j - n \in 1..Len(p) /\ n + (j - n) = j
    BY <1>1, <1>2, <2>2, <2>4
  <2>6. p[j - n] = x
    BY <1>2, <2>4, <2>5
  <2>7. QED
    BY <2>1, <2>3, <2>5, <2>6
<1>10. ASSUME NEW x \in Clients, u[x].pc \in {"sleep", "room"} \cup Writing PROVE FALSE
  <2>1. x # t
    BY <1>7, <1>10 DEF Writing
  <2>2. u[x].pc = v[x].pc
    BY <1>7, <2>1
  <2>3. q[1] = x
    BY <1>10, <2>2 DEF QueueInv
  <2>4. QED
    BY <2>1, <2>3
<1>11. QueueInv(p, u)
  <2>1. \A i, j \in 1..Len(p) : p[i] = p[j] => i = j
    <3> TAKE i, j \in 1..Len(p)
    <3>1. /\ n + i \in 1..Len(q) /\ n + j \in 1..Len(q)
          /\ p[i] = q[n + i] /\ p[j] = q[n + j]
      BY <1>2
    <3>2. p[i] = p[j] => n + i = n + j
      BY <3>1 DEF QueueInv
    <3>3. QED
      BY <1>1, <1>2, <3>2
  <2>2. \A i \in 1..Len(p) : InQueue(u, p[i])
    BY <1>2, <1>8 DEF QueueInv, InQueue
  <2>3. \A x \in Clients : InQueue(u, x) => \E i \in 1..Len(p) : p[i] = x
    BY <1>9
  <2>4. \A x \in Clients : InQueue(u, x) /\ u[x].pc # "finish" => u[x].ok
    BY <1>9 DEF QueueInv, InQueue
  <2>5. QED
    BY <1>10, <2>1, <2>2, <2>3, <2>4 DEF QueueInv
<1>12. QED
  BY <1>2, <1>6, <1>8, <1>10, <1>11 DEF Left, p, u

(* Whether the calls of the group succeed or fail, values stay distinct.     *)
LEMMA LeavingKeepsValues ==
  ASSUME NEW q, NEW v, NEW c, QueueType(q, v), ValuesInv(q, v, c),
         NEW n \in 1..Len(q), Left(writers', w', q, v, n), calls' = c,
         hist' = hist \/ Extends(hist', q, v, n)
  PROVE  ValuesInv(writers, w, calls)'
<1> DEFINE h == Len(hist)
           p == writers'
           u == w'
<1>0. Len(p) \in Nat /\ \A i \in 1..Len(p) : n + i \in 1..Len(q) /\ u[p[i]] = v[q[n + i]]
  BY DEF Left, QueueType
<1> HIDE DEF p, u
<1>1. Len(q) \in Nat /\ n \in Nat /\ \A i \in 1..n : i \in 1..Len(q)
  BY QueueFacts
<1>2. /\ \A i \in 1..Len(p) : u[p[i]].val \in 1..c
      /\ \A i, j \in 1..Len(p) : u[p[i]].val = u[p[j]].val => i = j
      /\ \A i \in 1..Len(p), k \in 1..h : u[p[i]].val # hist[k].val
  <2>1. /\ \A i \in 1..Len(q) : v[q[i]].val \in 1..c
        /\ \A i, j \in 1..Len(q) : v[q[i]].val = v[q[j]].val => i = j
        /\ \A i \in 1..Len(q), k \in 1..h : v[q[i]].val # hist[k].val
    BY DEF ValuesInv
  <2>2. ASSUME NEW i \in 1..Len(p), NEW j \in 1..Len(p), u[p[i]].val = u[p[j]].val
        PROVE  i = j
    <3>1. /\ n + i \in 1..Len(q) /\ n + j \in 1..Len(q)
          /\ v[q[n + i]].val = v[q[n + j]].val
      BY <1>0, <2>2
    <3>2. n + i = n + j
      BY <2>1, <3>1
    <3>3. QED
      BY <1>1, <3>2
  <2>3. \A i \in 1..Len(p) : u[p[i]].val \in 1..c
    BY <1>0, <2>1
  <2>4. \A i \in 1..Len(p), k \in 1..h : u[p[i]].val # hist[k].val
    <3> TAKE i \in 1..Len(p), k \in 1..h
    <3>1. n + i \in 1..Len(q) /\ u[p[i]].val = v[q[n + i]].val
      BY <1>0
    <3>2. QED
      BY <2>1, <3>1
  <2>5. QED
    BY <2>2, <2>3, <2>4
<1>3. \A i \in 1..Len(p), k \in 1..n : u[p[i]].val # v[q[k]].val
  <2>1. \A i \in 1..Len(p), k \in 1..n : n + i # k
    BY <1>1
  <2>2. QED
    BY <1>0, <1>1, <2>1 DEF ValuesInv
<1>4. /\ \A k \in 1..Len(hist') : hist'[k].val \in 1..c
      /\ \A k, l \in 1..Len(hist') : hist'[k].val = hist'[l].val => k = l
      /\ \A i \in 1..Len(p), k \in 1..Len(hist') : u[p[i]].val # hist'[k].val
  <2>1. CASE hist' = hist
    BY <1>2, <2>1 DEF ValuesInv
  <2>2. CASE Extends(hist', q, v, n)
    <3>1. ASSUME NEW k \in 1..Len(hist')
          PROVE  \/ k \in 1..h /\ hist'[k].val = hist[k].val
                 \/ \E a \in 1..n : k = h + a /\ hist'[k].val = v[q[a]].val
      <4>1. CASE k \in 1..h
        BY <2>2, <4>1 DEF Extends
      <4>2. ASSUME NEW a \in 1..n, k = h + a
            PROVE  hist'[k].val = v[q[a]].val
        BY <2>2, <4>2 DEF Extends
      <4>3. k \in 1..h \/ \E a \in 1..n : k = h + a
        BY <2>2 DEF Extends
      <4>4. QED
        BY <4>1, <4>2, <4>3
    <3>2. \A k \in 1..Len(hist') : hist'[k].val \in 1..c
      BY <1>1, <3>1 DEF ValuesInv
    <3>3. \A k, l \in 1..Len(hist') : hist'[k].val = hist'[l].val => k = l
      <4> TAKE k, l \in 1..Len(hist')
      <4>1. CASE k \in 1..h /\ hist'[k].val = hist[k].val
        BY <1>1, <3>1, <4>1 DEF ValuesInv
      <4>2. ASSUME NEW a \in 1..n, k = h + a, hist'[k].val = v[q[a]].val
            PROVE  hist'[k].val = hist'[l].val => k = l
        <5>1. CASE l \in 1..h /\ hist'[l].val = hist[l].val
          <6>1. a \in 1..Len(q) /\ v[q[a]].val # hist[l].val
            BY <1>1, <5>1 DEF ValuesInv
          <6>2. QED
            BY <4>2, <5>1, <6>1
        <5>2. ASSUME NEW b \in 1..n, l = h + b, hist'[l].val = v[q[b]].val
              PROVE  hist'[k].val = hist'[l].val => k = l
          BY <1>1, <4>2, <5>2 DEF ValuesInv
        <5>3. QED
          BY <3>1, <5>1, <5>2
      <4>3. QED
        BY <3>1, <4>1, <4>2
    <3>4. \A i \in 1..Len(p), k \in 1..Len(hist') : u[p[i]].val # hist'[k].val
      <4> TAKE i \in 1..Len(p), k \in 1..Len(hist')
      <4>1. CASE k \in 1..h /\ hist'[k].val = hist[k].val
        BY <1>2, <4>1
      <4>2. ASSUME NEW a \in 1..n, hist'[k].val = v[q[a]].val
            PROVE  u[p[i]].val # hist'[k].val
        BY <1>3, <4>2
      <4>3. QED
        BY <3>1, <4>1, <4>2
    <3>5. QED
      BY <3>2, <3>3, <3>4
  <2>3. QED
    BY <2>1, <2>2
<1>5. QED
  BY <1>2, <1>4 DEF ValuesInv, p, u

LEMMA WritersStay ==
  ASSUME NEW q, NEW v, NEW c, WritersInv(q, v, c),
         writers' = q, w' = v, calls' = c,
         UNCHANGED <<files, last_sequence, hist>>
  PROVE  WritersInv(writers, w, calls)'
<1>1. UNCHANGED <<log, synced, mtab, last_sequence, hist>>
  BY DEF files
<1>2. /\ QueueType(q, v) /\ QueueInv(q, v) /\ ValuesInv(q, v, c) /\ NumbersInv(v)
      /\ \A x \in Clients : v[x].pc \in Writing => GroupInv(x, q, v)
  BY DEF WritersInv
<1>3. QueueType(writers', w') /\ QueueInv(writers', w')
  BY <1>2
<1>4. ValuesInv(writers, w, calls)'
  BY <1>1, <1>2 DEF ValuesInv
<1>5. NumbersInv(w)'
  BY <1>1, <1>2 DEF NumbersInv
<1>6. ASSUME NEW x \in Clients, v[x].pc \in Writing PROVE GroupInv(x, writers, w)'
  <2>1. GroupInv(x, q, v)
    BY <1>2, <1>6
  <2>2. Fresh' = Fresh /\ EntriesOf(Len(mtab))' = EntriesOf(Len(mtab))
    BY <1>1 DEF Fresh, EntriesOf
  <2>3. \A U : Carries(U, q, v, v[x].group, v[x].last) =>
               Carries(U, writers, w, w[x].group, w[x].last)'
    BY <1>1 DEF Carries
  <2>4. QED
    BY <1>1, <2>1, <2>2, <2>3 DEF GroupInv
<1>7. QED
  BY <1>3, <1>4, <1>5, <1>6 DEF WritersInv, QueueType, QueueInv

(* The front writer starts its group on a new memtable.                      *)
LEMMA WritersStayOnSwitch ==
  ASSUME NEW q, NEW v, NEW c, WritersInv(q, v, c),
         writers' = q, w' = v, calls' = c,
         FilesType, FilesGrow, Len(mtab') = Len(mtab) + 1,
         UNCHANGED <<last_sequence, hist>>,
         \A x \in Clients : v[x].pc \notin Writing \ {"log"}
  PROVE  WritersInv(writers, w, calls)'
<1>1. last_sequence' = last_sequence /\ hist' = hist
  OBVIOUS
<1>2. /\ QueueType(q, v) /\ QueueInv(q, v) /\ ValuesInv(q, v, c) /\ NumbersInv(v)
      /\ \A x \in Clients : v[x].pc \in Writing => GroupInv(x, q, v)
  BY DEF WritersInv
<1>3. QueueType(writers', w') /\ QueueInv(writers', w')
  BY <1>2
<1>4. ValuesInv(writers, w, calls)'
  BY <1>1, <1>2 DEF ValuesInv
<1>5. /\ \A m \in 1..Len(mtab) : \A e \in mtab[m] : e.seq <= last_sequence
      /\ \A m \in 1..Len(mtab) : \A i \in 1..Len(log[m]) : \A e \in log[m][i] :
           e.seq <= last_sequence
  BY <1>2 DEF NumbersInv, Writing
<1>6. Fresh = {} /\ Fresh' = {}
  <2>1. mtab'[Len(mtab')] = {}
    BY FilesFacts DEF FilesGrow
  <2>2. QED
    BY <1>5, <2>1, FilesFacts DEF Fresh
<1>7. NumbersInv(w)'
  <2>1. ASSUME NEW m \in 1..Len(mtab'), NEW e \in mtab'[m] PROVE e.seq <= last_sequence
    BY <1>5, GrowKeepsEntries
  <2>2. ASSUME NEW m \in 1..Len(mtab'), NEW i \in 1..Len(log'[m]), NEW e \in log'[m][i]
        PROVE  e.seq <= last_sequence
    <3>1. CASE m <= Len(mtab)
      BY <1>5, <2>2, <3>1, FilesFacts DEF FilesGrow
    <3>2. CASE ~(m <= Len(mtab))
      <4>1. log'[m] = <<>>
        BY <3>2 DEF FilesGrow
      <4>2. QED
        BY <2>2, <4>1
    <3>3. QED
      BY <3>1, <3>2
  <2>3. QED
    BY <1>1, <2>1, <2>2 DEF NumbersInv
<1>8. ASSUME NEW x \in Clients, v[x].pc \in Writing PROVE GroupInv(x, writers, w)'
  <2>1. GroupInv(x, q, v) /\ v[x].pc = "log"
    BY <1>2, <1>8
  <2>2. \A U : Carries(U, q, v, v[x].group, v[x].last) =>
               Carries(U, writers, w, w[x].group, w[x].last)'
    BY <1>1 DEF Carries
  <2>3. QED
    BY <1>1, <1>6, <2>1, <2>2 DEF GroupInv
<1>9. QED
  BY <1>3, <1>4, <1>7, <1>8 DEF WritersInv, QueueType, QueueInv

(* The end of Write, for a group that has logged and inserted its batches,   *)
(* for one that could not, and for the NULL batch and the errors of          *)
(* MakeRoomForWrite, which may have switched memtables in the same step.     *)
LEMMA FinishKeepsInv ==
  ASSUME NEW q, NEW v, NEW c \in Nat, WritersInv(q, v, c), FilesInv,
         NEW t \in Clients, Len(q) # 0, q[1] = t, NEW n \in 1..Len(q),
         NEW ok \in BOOLEAN, FinishGroup(t, q, v, n, ok), calls' = c,
         FilesGrow, FilesType', ImmType',
         last_sequence <= last_sequence',
         \A m \in 1..Len(mtab) : \A i \in 1..Len(log[m]) : \A e \in log[m][i] :
           e.seq <= last_sequence',
         \A m \in 1..Len(mtab) : \A e \in mtab[m] :
           e.seq <= last_sequence \/ m = Len(mtab),
         ok => /\ Carries(Fresh, q, v, n, last_sequence')
               /\ \A i \in 1..n : v[q[i]].sync /\ v[q[i]].batch # NullBatch =>
                    synced[Len(mtab)] = Len(log[Len(mtab)]),
         ~ok => Fresh = {}
  PROVE  WqInv'
<1>1. /\ QueueType(q, v) /\ QueueInv(q, v) /\ ValuesInv(q, v, c)
      /\ FilesType /\ HistType /\ HistInv /\ SyncWritesAreDurable
      /\ LogCoversMemTable /\ LogSequencesIncrease
  BY DEF WritersInv, FilesInv
<1>2. Len(q) \in Nat /\ n \in Nat /\ n <= Len(q) /\ last_sequence' \in Nat
  BY <1>1, QueueFacts DEF FilesType
<1>3. /\ writers' = SubSeq(q, n + 1, Len(q)) /\ w' = WritersAfter(t, q, v, n, ok)
      /\ hist' = HistAfter(q, v, n, ok)
  BY DEF FinishGroup
<1>4. Left(writers', w', q, v, n)
  BY <1>1, <1>3, GroupLeaves
<1>5. /\ HistType'
      /\ ok => Extends(hist', q, v, n)
      /\ ~ok => hist' = hist
  BY <1>1, <1>2, <1>3, HistGrows DEF HistAfter, HistType
<1>6. ValuesInv(writers, w, calls)'
  <2>1. hist' = hist \/ Extends(hist', q, v, n)
    BY <1>5
  <2>2. QED
    BY <1>1, <1>4, <2>1, LeavingKeepsValues
<1>7. LogCoversMemTable' /\ LogSequencesIncrease'
  BY <1>1, GrowKeepsLogs
<1>8. HistInv' /\ SyncWritesAreDurable'
  <2>1. CASE ok
    BY <1>1, <1>2, <1>5, <2>1, GroupKeepsHist, GroupKeepsDurable
  <2>2. CASE ~ok
    <3>1. \A m \in 1..Len(mtab) : \A e \in mtab[m] :
            e.seq <= last_sequence' <=> e.seq <= last_sequence
      BY <1>1, <1>2, <2>2, FilesFacts DEF Fresh
    <3>2. QED
      BY <1>1, <1>5, <2>2, <3>1, NoSuccess
  <2>3. QED
    BY <2>1, <2>2
<1>9. NumbersInv(w)'
  <2>1. ASSUME NEW m \in 1..Len(mtab'), NEW i \in 1..Len(log'[m]), NEW e \in log'[m][i]
        PROVE  e.seq <= last_sequence'
    <3>1. CASE m <= Len(mtab)
      BY <1>1, <2>1, <3>1, FilesFacts DEF FilesGrow
    <3>2. CASE ~(m <= Len(mtab))
      <4>1. log'[m] = <<>>
        BY <3>2 DEF FilesGrow
      <4>2. QED
        BY <2>1, <4>1
    <3>3. QED
      BY <3>1, <3>2
  <2>2. ASSUME NEW m \in 1..Len(mtab'), NEW e \in mtab'[m] PROVE e.seq <= last_sequence'
    <3>1. m \in 1..Len(mtab) /\ e \in mtab[m]
      BY <1>1, GrowKeepsEntries
    <3>2. e \in EntriesOf(m)
      BY <1>1, <3>1 DEF LogCoversMemTable, mem
    <3>3. QED
      BY <3>1, <3>2, EntriesAre
  <2>3. QED
    BY <1>4, <2>1, <2>2 DEF NumbersInv, Left
<1>10. WritersInv(writers, w, calls)'
  BY <1>4, <1>6, <1>9 DEF Left, WritersInv, QueueType, QueueInv
<1>11. QED
  BY <1>5, <1>7, <1>8, <1>10 DEF WqInv, FilesInv

-----------------------------------------------------------------------------
(* MakeRoomForWrite.  Nobody is writing when the front writer runs it.       *)
LEMMA NobodyIsWriting ==
  ASSUME NEW q, NEW v, NEW c, WritersInv(q, v, c), FilesType,
         NEW t \in Clients, q[1] = t, v[t].pc \in Waiting
  PROVE  /\ \A x \in Clients : v[x].pc \notin Writing
         /\ \A m \in 1..Len(mtab) : \A i \in 1..Len(log[m]) : \A e \in log[m][i] :
              e.seq <= last_sequence
         /\ \A m \in 1..Len(mtab) : \A e \in mtab[m] : e.seq <= last_sequence
         /\ Fresh = {}
<1>1. QueueInv(q, v) /\ NumbersInv(v)
  BY DEF WritersInv
<1>2. \A x \in Clients : v[x].pc \notin Writing
  BY <1>1, OnlyFrontWrites, PcsDiffer
<1>3. \A m \in 1..Len(mtab) : \A i \in 1..Len(log[m]) : \A e \in log[m][i] :
        e.seq <= last_sequence
  BY <1>1, <1>2 DEF NumbersInv
<1>4. \A m \in 1..Len(mtab) : \A e \in mtab[m] : e.seq <= last_sequence
  BY <1>1, <1>2 DEF NumbersInv, Writing
<1>5. Fresh = {}
  BY <1>4, FilesFacts DEF Fresh
<1>6. QED
  BY <1>2, <1>3, <1>4, <1>5

(* The front writer leaves alone: with an error, or with the NULL batch.     *)
LEMMA LeavesAlone ==
  ASSUME NEW q, NEW v, NEW c \in Nat, WritersInv(q, v, c), FilesInv,
         NEW t \in Clients, Len(q) # 0, q[1] = t, v[t].pc \in Waiting,
         NEW ok \in BOOLEAN, ok => v[t].batch = NullBatch,
         FinishGroup(t, q, v, 1, ok), calls' = c, last_sequence' = last_sequence,
         FilesGrow, FilesType', ImmType'
  PROVE  WqInv'
<1>1. FilesType /\ QueueType(q, v)
  BY DEF FilesInv, WritersInv
<1>2. 1 \in 1..Len(q) /\ Len(mtab) \in Nat /\ last_sequence \in Nat
  BY <1>1, QueueFacts, FilesFacts
<1>3. /\ \A m \in 1..Len(mtab) : \A i \in 1..Len(log[m]) : \A e \in log[m][i] :
           e.seq <= last_sequence'
      /\ \A m \in 1..Len(mtab) : \A e \in mtab[m] : e.seq <= last_sequence
      /\ Fresh = {}
  BY <1>1, NobodyIsWriting
<1>4. v[t].batch = NullBatch =>
        /\ Carries(Fresh, q, v, 1, last_sequence')
        /\ \A i \in 1..1 : ~(v[q[i]].sync /\ v[q[i]].batch # NullBatch)
  <2>1. ASSUME v[t].batch = NullBatch PROVE \A i \in 1..1 : v[q[i]].batch = <<>>
    BY <2>1 DEF NullBatch
  <2>2. DOMAIN <<>> = {}
    OBVIOUS
  <2>3. QED
    BY <1>3, <2>1, <2>2 DEF Carries, NullBatch
<1>5. /\ last_sequence <= last_sequence'
      /\ \A m \in 1..Len(mtab) : \A e \in mtab[m] :
           e.seq <= last_sequence \/ m = Len(mtab)
  BY <1>2, <1>3
<1>6. /\ ok => /\ Carries(Fresh, q, v, 1, last_sequence')
               /\ \A i \in 1..1 : v[q[i]].sync /\ v[q[i]].batch # NullBatch =>
                    synced[Len(mtab)] = Len(log[Len(mtab)])
      /\ ~ok => Fresh = {}
  BY <1>3, <1>4
<1>7. QED
  BY <1>2, <1>3, <1>5, <1>6, FinishKeepsInv

(* A step that leaves the files, the history and the numbers alone.          *)
LEMMA FilesInvStays ==
  ASSUME FilesInv, UNCHANGED <<files, last_sequence, hist>>, imm' \in {imm, NULL},
         calls' \in Nat
  PROVE  FilesInv'
<1>1. /\ FilesType /\ ImmType /\ HistType /\ HistInv /\ SyncWritesAreDurable
      /\ LogCoversMemTable /\ LogSequencesIncrease
  BY DEF FilesInv
<1>2. FilesGrow /\ FilesType' /\ ImmType'
  BY <1>1, FilesStay DEF FilesType
<1>3. HistType'
  BY <1>1 DEF HistType
<1>4. LogCoversMemTable' /\ LogSequencesIncrease'
  BY <1>1, <1>2, GrowKeepsLogs
<1>5. HistInv' /\ SyncWritesAreDurable'
  BY <1>1, <1>2, NoSuccess
<1>6. QED
  BY <1>1, <1>2, <1>3, <1>4, <1>5 DEF FilesInv

LEMMA StaysInv ==
  ASSUME NEW q, NEW v, NEW c \in Nat, WritersInv(q, v, c), FilesInv,
         writers' = q, w' = v, calls' = c,
         UNCHANGED <<files, last_sequence, hist>>, imm' \in {imm, NULL}
  PROVE  WqInv'
BY WritersStay, FilesInvStays DEF WqInv

LEMMA MakeRoomKeepsInv ==
  ASSUME NEW q, NEW v, NEW c \in Nat, WritersInv(q, v, c), FilesInv,
         NEW t \in Clients, Len(q) # 0, q[1] = t, v[t].pc \in Waiting,
         MakeRoomForWrite(t, q, v), calls' = c, last_sequence' = last_sequence
  PROVE  WqInv'
<1> DEFINE n == GroupSize(q, v)
           u == [v EXCEPT ![t].pc = "log", ![t].group = n,
                          ![t].updates = Updates(q, v, n),
                          ![t].last = last_sequence + Cardinality(Slots(q, v, n))]
<1>1. FilesType /\ ImmType /\ HistType /\ last_sequence' \in Nat
  BY DEF FilesInv, FilesType
<1>2. v \in [Clients -> WriterRec] /\ v[t] \in WriterRec
  BY DEF WritersInv, QueueType
<1>3. \A x \in Clients : v[x].pc \notin Writing
  BY <1>1, NobodyIsWriting
<1>4. v[t].batch # NullBatch => WritersInv(q, u, c)
  BY <1>1, GroupStarts
<1>5. \A x \in Clients : u[x].pc \notin Writing \ {"log"}
  <2> TAKE x \in Clients
  <2>1. CASE x = t
    BY <1>2, <2>1 DEF WriterRec
  <2>2. CASE x # t
    BY <1>2, <1>3, <2>2
  <2>3. QED
    BY <2>1, <2>2
<1>6. (imm' = imm /\ UNCHANGED files) => FilesGrow /\ FilesType' /\ ImmType'
  BY <1>1, FilesStay
<1> HIDE DEF u, n
<1>7. CASE YieldError(t, q, v)
  <2>1. FinishGroup(t, q, v, 1, FALSE) /\ imm' = imm /\ UNCHANGED files
    BY <1>7 DEF YieldError, bgVars
  <2>2. QED
    BY <1>6, <2>1, LeavesAlone
<1>8. CASE NewLogFails(t, q, v)
  <2>1. FinishGroup(t, q, v, 1, FALSE) /\ imm' = imm /\ UNCHANGED files
    BY <1>8 DEF NewLogFails, bgButFaults
  <2>2. QED
    BY <1>6, <2>1, LeavesAlone
<1>9. CASE DelayOnce(t, q, v) \/ WaitForRoom(t, q, v)
  <2> DEFINE r1 == [v[t] EXCEPT !.pc = "sleep", !.allow_delay = FALSE]
             r2 == [v[t] EXCEPT !.pc = "room"]
  <2>1. /\ w' = [v EXCEPT ![t] = r1] \/ w' = [v EXCEPT ![t] = r2]
        /\ writers' = q /\ imm' = imm /\ UNCHANGED <<files, hist>>
    BY <1>2, <1>9 DEF DelayOnce, WaitForRoom, bgVars
  <2>2. /\ r1 \in WriterRec /\ r1.pc \in Waiting /\ r1.done = v[t].done
        /\ r1.ok = v[t].ok /\ r1.val = v[t].val
        /\ r2 \in WriterRec /\ r2.pc \in Waiting /\ r2.done = v[t].done
        /\ r2.ok = v[t].ok /\ r2.val = v[t].val
    BY <1>2 DEF WriterRec, Waiting
  <2> HIDE DEF r1, r2
  <2>3. WritersInv(q, [v EXCEPT ![t] = r1], c) /\ WritersInv(q, [v EXCEPT ![t] = r2], c)
    BY <2>2, QuietWriter
  <2>4. WritersInv(q, w', c)
    BY <2>1, <2>3
  <2>5. QED
    BY <2>1, <2>4, StaysInv
<1>10. CASE UseMemTable(t, q, v)
  <2>1. RoomMade(t, q, v) /\ imm' = imm /\ UNCHANGED files
    BY <1>10 DEF UseMemTable, bgVars
  <2>2. CASE v[t].batch = NullBatch
    BY <1>6, <2>1, <2>2, LeavesAlone DEF RoomMade
  <2>3. CASE v[t].batch # NullBatch
    <3>1. w' = u /\ writers' = q /\ hist' = hist
      BY <2>1, <2>3 DEF RoomMade, u, n
    <3>2. QED
      BY <1>4, <2>1, <2>3, <3>1, StaysInv
  <2>4. QED
    BY <2>2, <2>3
<1>11. CASE UseNewMemTable(t, q, v)
  <2>1. /\ RoomMade(t, q, v) /\ imm = NULL /\ imm' = mem
        /\ log' = Append(log, <<>>) /\ synced' = Append(synced, 0)
        /\ mtab' = Append(mtab, {})
    BY <1>11 DEF UseNewMemTable, SwitchMemTable
  <2>2. FilesGrow /\ FilesType' /\ ImmType' /\ Len(mtab') = Len(mtab) + 1
    BY <1>1, <2>1, FilesSwitch
  <2>3. CASE v[t].batch = NullBatch
    BY <2>1, <2>2, <2>3, LeavesAlone DEF RoomMade
  <2>4. CASE v[t].batch # NullBatch
    <3>1. w' = u /\ writers' = q /\ hist' = hist
      BY <2>1, <2>4 DEF RoomMade, u, n
    <3>2. WritersInv(writers, w, calls)'
      BY <1>1, <1>4, <1>5, <2>2, <2>4, <3>1, WritersStayOnSwitch
    <3>3. HistType' /\ LogCoversMemTable' /\ LogSequencesIncrease'
      BY <1>1, <2>2, <3>1, GrowKeepsLogs DEF FilesInv, HistType
    <3>4. HistInv' /\ SyncWritesAreDurable'
      BY <1>1, <2>2, <3>1, NoSuccess DEF FilesInv
    <3>5. QED
      BY <2>2, <3>2, <3>3, <3>4 DEF WqInv, FilesInv
  <2>5. QED
    BY <2>3, <2>4
<1>12. QED
  BY <1>7, <1>8, <1>9, <1>10, <1>11 DEF MakeRoomForWrite

-----------------------------------------------------------------------------
(* The actions.                                                              *)
LEMMA CallKeepsInv ==
  ASSUME WqInv, NEW t \in Clients, CallWrite(t)
  PROVE  WqInv'
<1>1. /\ w[t].pc = "idle" /\ calls' = calls + 1 /\ calls \in Nat
      /\ last_sequence' = last_sequence
      /\ WritersInv(writers, w, calls) /\ FilesInv
  BY DEF CallWrite, WqInv, FilesInv, HistType
<1>2. PICK b \in Batches \cup {NullBatch}, s \in SyncModes :
        LET me == [IdleWriter EXCEPT !.pc = "queue", !.batch = b, !.sync = s,
                                     !.val = calls + 1, !.seen = Len(hist)]
            v == [w EXCEPT ![t] = me]
            q == Append(writers, t)
        IN  IF writers = <<>>
            THEN MakeRoomForWrite(t, q, v)
            ELSE /\ writers' = q /\ w' = v
                 /\ UNCHANGED <<bgVars, files, hist>>
  BY DEF CallWrite
<1> DEFINE me == [IdleWriter EXCEPT !.pc = "queue", !.batch = b, !.sync = s,
                                    !.val = calls + 1, !.seen = Len(hist)]
           v == [w EXCEPT ![t] = me]
           q == Append(writers, t)
<1>3. /\ me \in WriterRec /\ me.pc = "queue" /\ ~me.done /\ me.ok
      /\ me.val = calls + 1
  <2>1. Len(hist) \in Nat /\ s \in BOOLEAN
    BY <1>1, WriteAssumption DEF FilesInv, HistType
  <2>2. calls + 1 \in Nat
    BY <1>1
  <2>3. QED
    BY <2>1, <2>2 DEF IdleWriter, WriterRec, Waiting
<1>4. writers \in Seq(Clients) /\ w \in [Clients -> WriterRec]
  BY <1>1 DEF WritersInv, QueueType
<1> HIDE DEF me
<1>5. WritersInv(q, v, calls + 1) /\ calls + 1 \in Nat
  BY <1>1, <1>3, JoinsQueue
<1>6. CASE writers = <<>>
  <2>1. Len(q) # 0 /\ q[1] = t /\ v[t] = me
    BY <1>4, <1>6
  <2>2. v[t].pc \in Waiting
    BY <1>3, <2>1 DEF Waiting
  <2>3. MakeRoomForWrite(t, q, v)
    BY <1>2, <1>6 DEF me
  <2> HIDE DEF v, q
  <2>4. QED
    BY <1>1, <1>5, <2>1, <2>2, <2>3, MakeRoomKeepsInv
<1>7. CASE writers # <<>>
  <2>1. writers' = q /\ w' = v /\ UNCHANGED <<bgVars, files, hist>>
    BY <1>2, <1>7 DEF me
  <2>2. imm' = imm
    BY <2>1 DEF bgVars
  <2> HIDE DEF v, q
  <2>3. QED
    BY <1>1, <1>5, <2>1, <2>2, StaysInv
<1>8. QED
  BY <1>6, <1>7

(* A client that is done, or over, or idle: it goes on by itself.            *)
LEMMA OutOfQueueKeepsInv ==
  ASSUME WqInv, NEW t \in Clients, NEW r \in WriterRec, w' = [w EXCEPT ![t] = r],
         ~InQueue(w, t), r.pc \in {"idle"} \cup Over,
         UNCHANGED <<writers, files, last_sequence, hist, calls, imm>>
  PROVE  WqInv'
<1>1. WritersInv(writers, w, calls) /\ FilesInv /\ calls \in Nat
  BY DEF WqInv, FilesInv, HistType
<1>2. WritersInv(writers, w', calls)
  BY <1>1, QuietWriter
<1>3. QED
  BY <1>1, <1>2, StaysInv

LEMMA RunKeepsInv ==
  ASSUME WqInv, NEW t \in Clients, WriterRuns(t)
  PROVE  WqInv'
<1>1. /\ w[t].pc \in Waiting /\ calls' = calls /\ calls \in Nat
      /\ last_sequence' = last_sequence
      /\ WritersInv(writers, w, calls) /\ FilesInv
  BY DEF WriterRuns, WqInv, FilesInv, HistType, Waiting
<1>2. w[t] \in WriterRec
  BY <1>1 DEF WritersInv, QueueType
<1>3. CASE w[t].done
  <2> DEFINE r == [w[t] EXCEPT !.pc = "return"]
  <2>1. w' = [w EXCEPT ![t] = r] /\ UNCHANGED <<writers, files, hist, imm>>
    BY <1>3 DEF WriterRuns, bgVars
  <2>2. r \in WriterRec /\ r.pc \in Over
    BY <1>2 DEF WriterRec, Over
  <2>3. ~InQueue(w, t)
    BY <1>3 DEF InQueue
  <2> HIDE DEF r
  <2>4. QED
    BY <1>1, <2>1, <2>2, <2>3, OutOfQueueKeepsInv
<1>4. CASE ~w[t].done /\ writers[1] = t
  <2>1. MakeRoomForWrite(t, writers, w)
    BY <1>4 DEF WriterRuns
  <2>2. Len(writers) # 0
    <3>1. InQueue(w, t)
      BY <1>1, <1>4 DEF InQueue
    <3>2. PICK i \in 1..Len(writers) : writers[i] = t
      BY <1>1, <3>1 DEF WritersInv, QueueInv
    <3>3. Len(writers) \in Nat
      BY <1>1 DEF WritersInv, QueueType
    <3>4. QED
      BY <3>2, <3>3
  <2>3. QED
    BY <1>1, <1>4, <2>1, <2>2, MakeRoomKeepsInv
<1>5. CASE ~w[t].done /\ writers[1] # t
  <2>1. UNCHANGED <<writers, w, files, hist, imm>>
    BY <1>5 DEF WriterRuns, bgVars
  <2>2. QED
    BY <1>1, <2>1, StaysInv
<1>6. QED
  BY <1>3, <1>4, <1>5

LEMMA AfterWriteKeepsInv ==
  ASSUME WqInv, NEW t \in Clients, AwaitFlush(t) \/ ReturnToCaller(t)
  PROVE  WqInv'
<1>1. w[t] \in WriterRec
  BY DEF WqInv, WritersInv, QueueType
<1>2. UNCHANGED <<writers, files, last_sequence, hist, calls, imm>>
  BY DEF AwaitFlush, ReturnToCaller, bgVars
<1>3. ~InQueue(w, t)
  BY DEF AwaitFlush, ReturnToCaller, InQueue, Waiting, Writing
<1>4. PICK r \in WriterRec : w' = [w EXCEPT ![t] = r] /\ r.pc \in {"idle"} \cup Over
  <2>1. CASE AwaitFlush(t)
    <3> DEFINE r1 == [w[t] EXCEPT !.pc = "flush"]
               r2 == [w[t] EXCEPT !.pc = "compacted", !.ok = (imm = NULL)]
    <3>1. w' = [w EXCEPT ![t] = r1] \/ w' = [w EXCEPT ![t] = r2]
      BY <1>1, <2>1 DEF AwaitFlush
    <3>2. r1 \in WriterRec /\ r1.pc \in Over /\ r2 \in WriterRec /\ r2.pc \in Over
      BY <1>1 DEF WriterRec, Over
    <3> HIDE DEF r1, r2
    <3>3. QED
      BY <3>1, <3>2
  <2>2. CASE ReturnToCaller(t)
    <3>1. IdleWriter \in WriterRec /\ IdleWriter.pc = "idle"
      BY DEF IdleWriter, WriterRec
    <3>2. w' = [w EXCEPT ![t] = IdleWriter]
      BY <2>2 DEF ReturnToCaller
    <3>3. QED
      BY <3>1, <3>2
  <2>3. QED
    BY <2>1, <2>2
<1>5. QED
  BY <1>2, <1>3, <1>4, OutOfQueueKeepsInv

LEMMA FrontAdvances ==
  ASSUME WqInv, NEW t \in Clients, w[t].pc \in Writing \ {"finish"}, NEW r \in WriterRec,
         w' = [w EXCEPT ![t] = r], r.pc \in Writing, r.done = w[t].done,
         r.group = w[t].group, r.val = w[t].val, r.ok = w[t].ok \/ r.pc = "finish",
         UNCHANGED <<writers, hist, calls>>
  PROVE  /\ QueueType(writers', w') /\ QueueInv(writers', w')
         /\ ValuesInv(writers, w, calls)' /\ HistType'
         /\ w'[t] = r
         /\ \A x \in Clients : x # t => w[x].pc \notin Writing /\ w'[x] = w[x]
<1>1. /\ QueueType(writers, w) /\ QueueInv(writers, w) /\ ValuesInv(writers, w, calls)
      /\ HistType
  BY DEF WqInv, WritersInv, FilesInv
<1>2. /\ w'[t] = r /\ \A x \in Clients : x # t => w'[x] = w[x]
      /\ w' \in [Clients -> WriterRec]
  BY <1>1 DEF QueueType
<1>3. \A x \in Clients : x # t => w[x].pc \notin Writing
  BY <1>1, OnlyFrontWrites
<1>4. \A x \in Clients : InQueue(w', x) <=> InQueue(w, x)
  BY <1>2 DEF InQueue
<1>5. \A i \in 1..Len(writers) : writers[i] \in Clients
  BY <1>1, QueueFacts
<1>6. \A x \in Clients : w'[x].val = w[x].val /\ w'[x].group = w[x].group
                         /\ w'[x].done = w[x].done
  BY <1>2
<1>7. QueueInv(writers', w')
  <2>1. /\ \A i \in 1..Len(writers) : InQueue(w', writers[i])
        /\ \A x \in Clients : InQueue(w', x) => \E i \in 1..Len(writers) : writers[i] = x
    BY <1>1, <1>4, <1>5 DEF QueueInv
  <2>2. /\ \A x \in Clients : w'[x].pc \in {"sleep", "room"} \cup Writing =>
             ~w'[x].done /\ Len(writers) # 0 /\ writers[1] = x
        /\ \A x \in Clients : w'[x].pc \in Writing => w'[x].group \in 1..Len(writers)
    BY <1>1, <1>2, <1>6 DEF QueueInv
  <2>3. \A x \in Clients : InQueue(w', x) /\ w'[x].pc # "finish" => w'[x].ok
    <3> TAKE x \in Clients
    <3>1. CASE x # t
      BY <1>1, <1>2, <1>4, <3>1 DEF QueueInv
    <3>2. CASE x = t
      <4>1. InQueue(w, t) /\ w[t].pc # "finish" => w[t].ok
        BY <1>1 DEF QueueInv
      <4>2. QED
        BY <1>2, <1>4, <3>2, <4>1
    <3>3. QED
      BY <3>1, <3>2
  <2>4. QED
    BY <1>1, <2>1, <2>2, <2>3 DEF QueueInv
<1>8. ValuesInv(writers, w, calls)'
  <2>1. \A i \in 1..Len(writers) : w'[writers[i]].val = w[writers[i]].val
    BY <1>5, <1>6
  <2>2. QED
    BY <1>1, <2>1 DEF ValuesInv
<1>9. QED
  BY <1>1, <1>2, <1>3, <1>7, <1>8 DEF QueueType, HistType

(* What WqInv says of the client that is writing.                            *)
LEMMA FrontFacts ==
  ASSUME WqInv, NEW t \in Clients, w[t].pc \in Writing
  PROVE  /\ w[t] \in WriterRec /\ GroupInv(t, writers, w)
         /\ Len(writers) \in Nat /\ Len(writers) # 0 /\ writers[1] = t
         /\ w[t].group \in 1..Len(writers)
         /\ w[t].pc # "finish" => w[t].ok
         /\ \A m \in 1..Len(mtab) : \A i \in 1..Len(log[m]) : \A e \in log[m][i] :
              e.seq <= last_sequence \/ (w[t].pc # "log" /\ e.seq <= w[t].last)
         /\ \A m \in 1..Len(mtab) : \A e \in mtab[m] :
              \/ e.seq <= last_sequence
              \/ m = Len(mtab) /\ w[t].pc \in {"insert", "finish"}
         /\ w[t].ok => \A e \in w[t].updates :
              /\ e \in Entry /\ last_sequence < e.seq /\ e.seq <= w[t].last
              /\ \A k \in 1..Len(hist) : e.val # hist[k].val
<1>1. /\ QueueType(writers, w) /\ QueueInv(writers, w) /\ ValuesInv(writers, w, calls)
      /\ NumbersInv(w) /\ GroupInv(t, writers, w)
  BY DEF WqInv, WritersInv
<1>2. /\ Len(writers) \in Nat /\ w[t] \in WriterRec /\ w[t].updates \subseteq Entry
  BY <1>1, QueueFacts
<1>3. /\ Len(writers) # 0 /\ writers[1] = t /\ ~w[t].done
      /\ w[t].group \in 1..Len(writers)
  BY <1>1, OnlyFrontWrites
<1>4. \A x \in Clients : x # t => w[x].pc \notin Writing
  BY <1>1, OnlyFrontWrites
<1>5. w[t].pc # "finish" => w[t].ok
  BY <1>1, <1>3 DEF QueueInv, InQueue
<1>6. \A m \in 1..Len(mtab) : \A i \in 1..Len(log[m]) : \A e \in log[m][i] :
        e.seq <= last_sequence \/ (w[t].pc # "log" /\ e.seq <= w[t].last)
  BY <1>1, <1>4 DEF NumbersInv
<1>7. \A m \in 1..Len(mtab) : \A e \in mtab[m] :
        e.seq <= last_sequence \/ (m = Len(mtab) /\ w[t].pc \in {"insert", "finish"})
  BY <1>1, <1>4 DEF NumbersInv, Writing
<1>8. ASSUME w[t].ok, NEW e \in w[t].updates
      PROVE  /\ e \in Entry /\ last_sequence < e.seq /\ e.seq <= w[t].last
             /\ \A k \in 1..Len(hist) : e.val # hist[k].val
  <2>1. Carries(w[t].updates \cup Fresh, writers, w, w[t].group, w[t].last)
    BY <1>1, <1>8 DEF GroupInv
  <2>2. /\ last_sequence < e.seq /\ e.seq <= w[t].last
        /\ \E i \in 1..w[t].group : e.val = w[writers[i]].val
    BY <1>8, <2>1 DEF Carries, PutBy
  <2>3. \A i \in 1..w[t].group : i \in 1..Len(writers)
    BY <1>2, <1>3
  <2>4. \A k \in 1..Len(hist) : e.val # hist[k].val
    BY <1>1, <2>2, <2>3 DEF ValuesInv
  <2>5. QED
    BY <1>2, <1>8, <2>2, <2>4
<1>9. QED
  BY <1>1, <1>2, <1>3, <1>5, <1>6, <1>7, <1>8

(* What its group puts, and the rule about synchronous writes, are untouched *)
(* by its own progress.                                                      *)
LEMMA GroupStays ==
  ASSUME WqInv, NEW t \in Clients, w[t].pc \in Writing, NEW r \in WriterRec,
         w' = [w EXCEPT ![t] = r], r.batch = w[t].batch, r.val = w[t].val,
         r.sync = w[t].sync, r.group = w[t].group, r.last = w[t].last,
         UNCHANGED <<writers, last_sequence>>,
         r.ok => w[t].ok /\ r.updates \cup Fresh' = w[t].updates \cup Fresh
  PROVE  /\ r.ok => Carries(w[t].updates \cup Fresh, writers, w, w[t].group, w[t].last)'
         /\ \A i \in 1..w'[t].group : w'[writers'[i]].sync => w'[t].sync
<1>1. /\ w'[t] = r /\ \A x \in Clients : x # t => w'[x] = w[x]
  BY DEF WqInv, WritersInv, QueueType
<1>2. /\ GroupInv(t, writers, w)
      /\ \A i \in 1..w[t].group : i \in 1..Len(writers)
  BY FrontFacts
<1>3. \A i \in 1..Len(writers) : writers[i] \in Clients
  BY QueueFacts DEF WqInv, WritersInv
<1>4. \A i \in 1..w[t].group : /\ w'[writers[i]].batch = w[writers[i]].batch
                               /\ w'[writers[i]].val = w[writers[i]].val
                               /\ w'[writers[i]].sync = w[writers[i]].sync
  BY <1>1, <1>2, <1>3
<1>5. ASSUME r.ok
      PROVE  Carries(w[t].updates \cup Fresh, writers, w, w[t].group, w[t].last)'
  <2>1. Carries(w[t].updates \cup Fresh, writers, w, w[t].group, w[t].last)
    BY <1>2, <1>5 DEF GroupInv
  <2>2. w[t].updates \cup Fresh = w'[t].updates \cup Fresh'
    BY <1>1, <1>5
  <2>3. /\ writers' = writers /\ last_sequence' = last_sequence
        /\ w'[t].group = w[t].group /\ w'[t].last = w[t].last
    BY <1>1
  <2>4. ASSUME NEW U, U = w[t].updates \cup Fresh,
               Carries(U, writers, w, w[t].group, w[t].last)
        PROVE  Carries(U, writers, w, w[t].group, w[t].last)'
    <3>1. /\ \A e \in U : /\ last_sequence < e.seq /\ e.seq <= w[t].last
                          /\ \E i \in 1..w[t].group :
                               PutBy(e, w'[writers[i]].batch, w'[writers[i]].val)
          /\ \A i \in 1..w[t].group : \A j \in DOMAIN w'[writers[i]].batch :
               \E e \in U : e.val = w'[writers[i]].val /\ e.key = w'[writers[i]].batch[j]
          /\ \A i, k \in 1..w[t].group : \A e, f \in U :
               i < k /\ e.val = w'[writers[i]].val /\ f.val = w'[writers[k]].val =>
                 e.seq < f.seq
      BY <1>4, <2>4 DEF Carries
    <3>2. QED
      BY <2>3, <3>1 DEF Carries
  <2>5. QED
    BY <2>1, <2>2, <2>4
<1>6. \A i \in 1..w'[t].group : w'[writers'[i]].sync => w'[t].sync
  <2>1. \A i \in 1..w[t].group : w[writers[i]].sync => w[t].sync
    BY <1>2 DEF GroupInv
  <2>2. QED
    BY <1>1, <1>4, <2>1
<1>7. QED
  BY <1>5, <1>6

LEMMA AddRecordKeepsInv ==
  ASSUME WqInv, NEW t \in Clients, AddRecord(t)
  PROVE  WqInv'
<1> DEFINE M == Len(mtab)
           U == w[t].updates
           r == [w[t] EXCEPT !.pc = IF w[t].sync THEN "sync" ELSE "insert"]
<1>1. /\ w[t].pc = "log" /\ log' = [log EXCEPT ![M] = Append(@, U)]
      /\ w' = [w EXCEPT ![t] = r]
      /\ UNCHANGED <<imm, writers, synced, mtab, last_sequence, calls, hist>>
  <2>1. w[t] \in WriterRec
    BY DEF WqInv, WritersInv, QueueType
  <2>2. QED
    BY <2>1 DEF AddRecord, bgVars, mem
<1>2. /\ FilesType /\ ImmType /\ LogCoversMemTable /\ LogSequencesIncrease
      /\ HistInv /\ SyncWritesAreDurable
  BY DEF WqInv, FilesInv
<1>3. w[t].pc \in Writing \ {"finish"}
  BY <1>1 DEF Writing
<1>4. /\ w[t] \in WriterRec /\ GroupInv(t, writers, w) /\ w[t].ok
      /\ \A m \in 1..M : \A i \in 1..Len(log[m]) : \A e \in log[m][i] :
           e.seq <= last_sequence
      /\ \A m \in 1..M : \A e \in mtab[m] : e.seq <= last_sequence
      /\ \A e \in U : e \in Entry /\ last_sequence < e.seq /\ e.seq <= w[t].last
  BY <1>1, <1>3, FrontFacts
<1>5. /\ r \in WriterRec /\ r.pc = (IF w[t].sync THEN "sync" ELSE "insert")
      /\ r.done = w[t].done /\ r.group = w[t].group /\ r.val = w[t].val
      /\ r.ok = w[t].ok /\ r.updates = U /\ r.last = w[t].last
      /\ r.sync = w[t].sync /\ r.batch = w[t].batch /\ r.pc \in Writing
  BY <1>4 DEF WriterRec, Writing
<1> HIDE DEF r, U, M
<1>6. /\ QueueType(writers', w') /\ QueueInv(writers', w')
      /\ ValuesInv(writers, w, calls)' /\ HistType'
      /\ w'[t] = r
      /\ \A x \in Clients : x # t => w[x].pc \notin Writing /\ w'[x] = w[x]
  BY <1>1, <1>3, <1>5, FrontAdvances
<1>7. /\ M \in 1..Len(log) /\ M \in Nat /\ Len(log) = M /\ U \in SUBSET Entry
      /\ log \in Seq(Seq(SUBSET Entry)) /\ last_sequence \in Nat
      /\ \A m \in 1..M : log[m] \in Seq(SUBSET Entry) /\ Len(log[m]) \in Nat
                         /\ synced[m] \in Nat /\ synced[m] <= Len(log[m])
      /\ \A m \in 1..M : \A i \in 1..Len(log[m]) : log[m][i] \subseteq Entry
  <2>1. M \in Nat /\ M # 0 /\ last_sequence \in Nat /\ Len(log) = M
        /\ log \in Seq(Seq(SUBSET Entry))
    BY <1>2, FilesFacts DEF FilesType, M
  <2>2. U \in SUBSET Entry
    BY <1>4
  <2>3. \A m \in 1..M : /\ log[m] \in Seq(SUBSET Entry) /\ Len(log[m]) \in Nat
                        /\ synced[m] \in Nat /\ synced[m] <= Len(log[m])
                        /\ \A i \in 1..Len(log[m]) : log[m][i] \subseteq Entry
    BY <1>2, FilesFacts DEF M
  <2>4. QED
    BY <2>1, <2>2, <2>3
<1>8. /\ log' \in Seq(Seq(SUBSET Entry)) /\ Len(log') = M
      /\ log'[M] = Append(log[M], U)
      /\ \A m \in 1..M : m # M => log'[m] = log[m]
  BY <1>1, <1>7
<1>9. /\ Len(log'[M]) = Len(log[M]) + 1 /\ log'[M][Len(log[M]) + 1] = U
      /\ \A i \in 1..Len(log[M]) : log'[M][i] = log[M][i]
  BY <1>7, <1>8
<1>10. /\ \A m \in 1..M : Len(log[m]) <= Len(log'[m])
       /\ \A m \in 1..M : \A i \in 1..Len(log[m]) : log'[m][i] = log[m][i]
       /\ \A m \in 1..M : \A i \in 1..Len(log'[m]) :
            \/ i \in 1..Len(log[m]) /\ log'[m][i] = log[m][i]
            \/ m = M /\ i = Len(log[M]) + 1 /\ log'[m][i] = U
  <2>1. ASSUME NEW m \in 1..M
        PROVE  /\ Len(log[m]) <= Len(log'[m])
               /\ \A i \in 1..Len(log[m]) : log'[m][i] = log[m][i]
               /\ \A i \in 1..Len(log'[m]) :
                    \/ i \in 1..Len(log[m]) /\ log'[m][i] = log[m][i]
                    \/ m = M /\ i = Len(log[M]) + 1 /\ log'[m][i] = U
    <3>1. CASE m = M
      BY <1>7, <1>9, <3>1
    <3>2. CASE m # M
      BY <1>7, <1>8, <3>2
    <3>3. QED
      BY <3>1, <3>2
  <2>2. QED
    BY <2>1
<1>11. /\ Len(mtab') = M /\ mtab' = mtab /\ last_sequence' = last_sequence
       /\ synced' = synced /\ hist' = hist /\ Fresh' = Fresh
  BY <1>1 DEF M, Fresh
<1>12. FilesType' /\ ImmType'
  <2>1. ASSUME NEW m \in 1..M PROVE synced[m] <= Len(log'[m])
    <3>1. CASE m = M
      BY <1>7, <1>9, <3>1
    <3>2. CASE m # M
      BY <1>7, <1>8, <3>2
    <3>3. QED
      BY <3>1, <3>2
  <2>2. ImmType'
    BY <1>1, <1>2, <1>11 DEF ImmType, M
  <2>3. QED
    BY <1>2, <1>8, <1>11, <2>1, <2>2 DEF FilesType, M
<1>13. /\ \A m \in 1..M : EntriesOf(m) \subseteq EntriesOf(m)'
       /\ \A m \in 1..M : SyncedEntries(m) = SyncedEntries(m)'
       /\ U \subseteq EntriesOf(Len(mtab))'
  <2>1. \A m \in 1..M : EntriesOf(m) \subseteq EntriesOf(m)'
    <3> TAKE m \in 1..M
    <3>1. \A i \in 1..Len(log[m]) : i \in 1..Len(log'[m]) /\ log'[m][i] = log[m][i]
      BY <1>7, <1>8, <1>9, <1>10
    <3>2. QED
      BY <3>1 DEF EntriesOf
  <2>2. \A m \in 1..M : SyncedEntries(m) = SyncedEntries(m)'
    <3> TAKE m \in 1..M
    <3>1. \A i \in 1..synced[m] : i \in 1..Len(log[m]) /\ log'[m][i] = log[m][i]
      BY <1>7, <1>10
    <3>2. QED
      BY <1>11, <3>1 DEF SyncedEntries
  <2>3. U \subseteq EntriesOf(Len(mtab))'
    <3>1. Len(log[M]) + 1 \in 1..Len(log'[M])
      BY <1>7, <1>9
    <3>2. QED
      BY <1>9, <1>11, <3>1 DEF EntriesOf
  <2>4. QED
    BY <2>1, <2>2, <2>3
<1>14. LogCoversMemTable'
  BY <1>2, <1>11, <1>13 DEF LogCoversMemTable, mem, M
<1>15. LogSequencesIncrease'
  <2>1. ASSUME NEW m \in 1..M, NEW n \in 1..M,
               NEW i \in 1..Len(log'[m]), NEW j \in 1..Len(log'[n]),
               m < n \/ (m = n /\ i < j), NEW e \in log'[m][i], NEW f \in log'[n][j]
        PROVE  e.seq < f.seq
    <3>1. i \in 1..Len(log[m]) /\ log'[m][i] = log[m][i]
      <4>1. CASE m < n
        BY <1>7, <1>10, <4>1
      <4>2. CASE m = n /\ i < j
        <5>1. Len(log'[M]) = Len(log[M]) + 1 /\ Len(log[M]) \in Nat
          BY <1>7, <1>9
        <5>2. ~(m = M /\ i = Len(log[M]) + 1)
          BY <4>2, <5>1
        <5>3. QED
          BY <1>10, <5>2
      <4>3. QED
        BY <2>1, <4>1, <4>2
    <3>2. CASE j \in 1..Len(log[n]) /\ log'[n][j] = log[n][j]
      BY <1>2, <2>1, <3>1, <3>2 DEF LogSequencesIncrease, mem, M
    <3>3. CASE log'[n][j] = U
      <4>1. e.seq <= last_sequence /\ last_sequence < f.seq
        BY <1>4, <3>1, <3>3
      <4>2. e \in Entry /\ f \in Entry
        BY <1>4, <1>7, <3>1, <3>3
      <4>3. QED
        BY <1>7, <4>1, <4>2 DEF Entry
    <3>4. QED
      BY <1>10, <3>2, <3>3
  <2>2. QED
    BY <1>11, <2>1 DEF LogSequencesIncrease, mem, M
<1>16. HistInv' /\ SyncWritesAreDurable'
  <2>1. HistInv'
    BY <1>2, <1>11 DEF HistInv, M
  <2>2. SyncWritesAreDurable'
    <3>1. InTables' = InTables
      BY <1>1 DEF InTables, mem
    <3>2. QED
      BY <1>2, <1>11, <1>13, <3>1, DurableStays DEF M
  <2>3. QED
    BY <2>1, <2>2
<1>17. NumbersInv(w)'
  <2>1. ASSUME NEW m \in 1..M, NEW i \in 1..Len(log'[m]), NEW e \in log'[m][i]
        PROVE  e.seq <= last_sequence \/ e.seq <= r.last
    BY <1>4, <1>5, <1>10
  <2>2. r.pc \in Writing \ {"log"}
    BY <1>5 DEF Writing
  <2>3. QED
    BY <1>4, <1>6, <1>11, <2>1, <2>2 DEF NumbersInv, M
<1>18. ASSUME NEW x \in Clients, w'[x].pc \in Writing PROVE GroupInv(x, writers, w)'
  <2>1. x = t
    BY <1>6, <1>18
  <2>4. /\ Carries(w[t].updates \cup Fresh, writers, w, w[t].group, w[t].last)'
        /\ \A i \in 1..w'[t].group : w'[writers'[i]].sync => w'[t].sync
    <3>1. r.ok => w[t].ok /\ r.updates \cup Fresh' = w[t].updates \cup Fresh
      BY <1>4, <1>5, <1>11 DEF U
    <3>2. QED
      BY <1>1, <1>3, <1>4, <1>5, <3>1, GroupStays
  <2>6. Fresh = {} /\ U # {} /\ last_sequence <= r.last
    BY <1>1, <1>4, <1>5 DEF GroupInv, U
  <2>7. r.pc \in {"insert", "finish"} => ~r.sync
    BY <1>5
  <2>8. r.pc \in {"sync", "insert"} /\ (r.pc = "sync" => r.sync)
    BY <1>5
  <2>9. writers' = writers /\ w'[t] = r /\ r.updates = U /\ U \subseteq EntriesOf(Len(mtab))'
    BY <1>1, <1>5, <1>6, <1>13
  <2>10. QED
    BY <1>11, <2>1, <2>4, <2>6, <2>7, <2>8, <2>9 DEF GroupInv
<1>19. QED
  BY <1>6, <1>12, <1>14, <1>15, <1>16, <1>17, <1>18
     DEF WqInv, FilesInv, WritersInv, QueueType, QueueInv

LEMMA SyncKeepsInv ==
  ASSUME WqInv, NEW t \in Clients, SyncLog(t)
  PROVE  WqInv'
<1> DEFINE M == Len(mtab)
           r == [w[t] EXCEPT !.pc = "insert"]
<1>1. /\ w[t].pc = "sync" /\ synced' = [synced EXCEPT ![M] = Len(log[M])]
      /\ w' = [w EXCEPT ![t] = r]
      /\ UNCHANGED <<imm, writers, log, mtab, last_sequence, calls, hist>>
  <2>1. w[t] \in WriterRec
    BY DEF WqInv, WritersInv, QueueType
  <2>2. QED
    BY <2>1 DEF SyncLog, bgVars, mem
<1>2. /\ FilesType /\ ImmType /\ LogCoversMemTable /\ LogSequencesIncrease
      /\ HistInv /\ SyncWritesAreDurable
  BY DEF WqInv, FilesInv
<1>3. w[t].pc \in Writing \ {"finish"}
  BY <1>1 DEF Writing
<1>4. /\ w[t] \in WriterRec /\ GroupInv(t, writers, w) /\ w[t].ok
      /\ NumbersInv(w)
  BY <1>1, <1>3, FrontFacts DEF WqInv, WritersInv
<1>5. /\ r \in WriterRec /\ r.pc = "insert"
      /\ r.done = w[t].done /\ r.group = w[t].group /\ r.val = w[t].val
      /\ r.ok = w[t].ok /\ r.updates = w[t].updates /\ r.last = w[t].last
      /\ r.sync = w[t].sync /\ r.batch = w[t].batch /\ r.pc \in Writing
  BY <1>4 DEF WriterRec, Writing
<1> HIDE DEF r, M
<1>6. /\ QueueType(writers', w') /\ QueueInv(writers', w')
      /\ ValuesInv(writers, w, calls)' /\ HistType'
      /\ w'[t] = r
      /\ \A x \in Clients : x # t => w[x].pc \notin Writing /\ w'[x] = w[x]
  BY <1>1, <1>3, <1>5, FrontAdvances
<1>7. /\ M \in Nat /\ M # 0 /\ synced \in Seq(Nat) /\ Len(synced) = M
      /\ \A m \in 1..M : Len(log[m]) \in Nat /\ synced[m] \in Nat
                         /\ synced[m] <= Len(log[m])
  BY <1>2, FilesFacts DEF FilesType, M
<1>8. /\ synced' \in Seq(Nat) /\ Len(synced') = M /\ synced'[M] = Len(log[M])
      /\ \A m \in 1..M : m # M => synced'[m] = synced[m]
  BY <1>1, <1>7
<1>9. \A m \in 1..M : /\ synced[m] <= synced'[m] /\ synced'[m] <= Len(log[m])
                      /\ synced'[m] \in Nat
  <2> TAKE m \in 1..M
  <2>1. CASE m = M
    BY <1>7, <1>8, <2>1
  <2>2. CASE m # M
    BY <1>7, <1>8, <2>2
  <2>3. QED
    BY <2>1, <2>2
<1>10. /\ Len(mtab') = M /\ mtab' = mtab /\ last_sequence' = last_sequence
       /\ log' = log /\ hist' = hist /\ Fresh' = Fresh
       /\ \A m : EntriesOf(m)' = EntriesOf(m)
  BY <1>1 DEF M, Fresh, EntriesOf
<1>11. FilesType' /\ ImmType'
  BY <1>1, <1>2, <1>7, <1>8, <1>9 DEF FilesType, ImmType, M
<1>12. LogCoversMemTable' /\ LogSequencesIncrease' /\ HistInv'
  BY <1>2, <1>10 DEF LogCoversMemTable, LogSequencesIncrease, HistInv, mem, M
<1>13. SyncWritesAreDurable'
  <2>1. \A m \in 1..M : SyncedEntries(m) \subseteq SyncedEntries(m)'
    <3> TAKE m \in 1..M
    <3>1. \A i \in 1..synced[m] : i \in 1..synced'[m]
      BY <1>7, <1>9
    <3>2. QED
      BY <1>10, <3>1 DEF SyncedEntries
  <2>2. InTables' = InTables
    BY <1>1 DEF InTables, mem
  <2>3. QED
    BY <1>2, <1>10, <2>1, <2>2, DurableStays DEF M
<1>14. NumbersInv(w)'
  <2>1. \A x \in Clients :
          /\ w'[x].last = w[x].last
          /\ w[x].pc \in Writing \ {"log"} => w'[x].pc \in Writing \ {"log"}
          /\ w[x].pc \in {"insert", "finish"} => w'[x].pc \in {"insert", "finish"}
    BY <1>5, <1>6 DEF Writing
  <2>2. QED
    BY <1>4, <1>10, <2>1 DEF NumbersInv, M
<1>15. ASSUME NEW x \in Clients, w'[x].pc \in Writing PROVE GroupInv(x, writers, w)'
  <2>1. x = t
    BY <1>6, <1>15
  <2>2. /\ Carries(w[t].updates \cup Fresh, writers, w, w[t].group, w[t].last)'
        /\ \A i \in 1..w'[t].group : w'[writers'[i]].sync => w'[t].sync
    <3>1. r.ok => w[t].ok /\ r.updates \cup Fresh' = w[t].updates \cup Fresh
      BY <1>4, <1>5, <1>10
    <3>2. QED
      BY <1>1, <1>3, <1>4, <1>5, <3>1, GroupStays
  <2>3. w[t].updates # {} /\ w[t].updates \subseteq EntriesOf(Len(mtab))
        /\ last_sequence <= w[t].last /\ Fresh = {}
    BY <1>1, <1>4 DEF GroupInv
  <2>4. EntriesOf(Len(mtab))' = EntriesOf(Len(mtab)) /\ synced'[Len(mtab')] = Len(log'[Len(mtab')])
    BY <1>8, <1>10 DEF M
  <2>5. /\ w'[t].updates = w[t].updates /\ w'[t].ok /\ w'[t].pc = "insert"
        /\ w'[t].last = w[t].last /\ last_sequence' = last_sequence
    BY <1>4, <1>5, <1>6, <1>10
  <2>6. QED
    BY <2>1, <2>2, <2>3, <2>4, <2>5 DEF GroupInv
<1>16. QED
  BY <1>6, <1>11, <1>12, <1>13, <1>14, <1>15
     DEF WqInv, FilesInv, WritersInv, QueueType, QueueInv

LEMMA LogFailureKeepsInv ==
  ASSUME WqInv, NEW t \in Clients, LogOrSyncFails(t)
  PROVE  WqInv'
<1> DEFINE r == [w[t] EXCEPT !.pc = "finish", !.ok = FALSE]
<1>1. /\ w[t].pc \in {"log", "sync"} /\ w' = [w EXCEPT ![t] = r]
      /\ UNCHANGED <<imm, writers, log, synced, mtab, last_sequence, calls, hist>>
  <2>1. w[t] \in WriterRec
    BY DEF WqInv, WritersInv, QueueType
  <2>2. QED
    BY <2>1 DEF LogOrSyncFails, bgButFaults, files
<1>2. FilesInv /\ calls \in Nat
  BY DEF WqInv, FilesInv, HistType
<1>3. w[t].pc \in Writing \ {"finish"}
  BY <1>1 DEF Writing
<1>4. w[t] \in WriterRec /\ GroupInv(t, writers, w) /\ NumbersInv(w)
  BY <1>3, FrontFacts DEF WqInv, WritersInv
<1>5. /\ r \in WriterRec /\ r.pc = "finish"
      /\ r.done = w[t].done /\ r.group = w[t].group /\ r.val = w[t].val
      /\ ~r.ok /\ r.updates = w[t].updates /\ r.last = w[t].last
      /\ r.sync = w[t].sync /\ r.batch = w[t].batch /\ r.pc \in Writing
  BY <1>4 DEF WriterRec, Writing
<1> HIDE DEF r
<1>6. /\ QueueType(writers', w') /\ QueueInv(writers', w')
      /\ ValuesInv(writers, w, calls)'
      /\ w'[t] = r
      /\ \A x \in Clients : x # t => w[x].pc \notin Writing /\ w'[x] = w[x]
  BY <1>1, <1>3, <1>5, FrontAdvances
<1>7. FilesInv'
  BY <1>1, <1>2, FilesInvStays DEF files
<1>8. NumbersInv(w)'
  <2>1. \A x \in Clients :
          /\ w'[x].last = w[x].last
          /\ w[x].pc \in Writing \ {"log"} => w'[x].pc \in Writing \ {"log"}
          /\ w[x].pc \in {"insert", "finish"} => w'[x].pc \in {"insert", "finish"}
    BY <1>5, <1>6 DEF Writing
  <2>2. QED
    BY <1>1, <1>4, <2>1 DEF NumbersInv
<1>9. ASSUME NEW x \in Clients, w'[x].pc \in Writing PROVE GroupInv(x, writers, w)'
  <2>1. x = t /\ Fresh' = Fresh
    BY <1>1, <1>6, <1>9 DEF Fresh
  <2>2. \A i \in 1..w'[t].group : w'[writers'[i]].sync => w'[t].sync
    BY <1>1, <1>3, <1>4, <1>5, GroupStays
  <2>3. Fresh = {} /\ last_sequence <= w[t].last
    BY <1>1, <1>4 DEF GroupInv
  <2>4. /\ w'[t].pc = "finish" /\ ~w'[t].ok /\ w'[t].last = w[t].last
        /\ last_sequence' = last_sequence
    BY <1>1, <1>5, <1>6
  <2>5. QED
    BY <2>1, <2>2, <2>3, <2>4 DEF GroupInv
<1>10. QED
  BY <1>6, <1>7, <1>8, <1>9 DEF WqInv, WritersInv, QueueType, QueueInv

LEMMA InsertKeepsInv ==
  ASSUME WqInv, NEW t \in Clients, InsertInto(t)
  PROVE  WqInv'
<1> DEFINE M == Len(mtab)
           U == w[t].updates
           next == CHOOSE e \in U : \A f \in U : e.seq <= f.seq
           r == [w[t] EXCEPT !.updates = U \ {next},
                             !.pc = IF U = {next} THEN "finish" ELSE "insert"]
<1>1. /\ w[t].pc = "insert" /\ mtab' = [mtab EXCEPT ![M] = @ \cup {next}]
      /\ w' = [w EXCEPT ![t] = r]
      /\ UNCHANGED <<imm, writers, log, synced, last_sequence, calls, hist>>
  <2>1. w[t] \in WriterRec /\ w \in [Clients -> WriterRec]
    BY DEF WqInv, WritersInv, QueueType
  <2>2. QED
    BY <2>1 DEF InsertInto, bgVars, mem
<1>2. /\ FilesType /\ ImmType /\ LogCoversMemTable /\ LogSequencesIncrease
      /\ HistInv /\ SyncWritesAreDurable
  BY DEF WqInv, FilesInv
<1>3. w[t].pc \in Writing \ {"finish"}
  BY <1>1 DEF Writing
<1>4. /\ w[t] \in WriterRec /\ GroupInv(t, writers, w) /\ w[t].ok /\ NumbersInv(w)
      /\ \A e \in U : /\ e \in Entry /\ last_sequence < e.seq /\ e.seq <= w[t].last
                      /\ \A k \in 1..Len(hist) : e.val # hist[k].val
  BY <1>1, <1>3, FrontFacts DEF WqInv, WritersInv
<1>5. /\ U # {} /\ U \subseteq EntriesOf(M) /\ last_sequence <= w[t].last
      /\ w[t].sync => synced[M] = Len(log[M])
  BY <1>1, <1>4 DEF GroupInv
<1>6. next \in U
  <2>1. {e.seq : e \in U} # {} /\ {e.seq : e \in U} \in SUBSET Nat
    BY <1>4, <1>5 DEF Entry
  <2>2. PICK x \in {e.seq : e \in U} : \A y \in {e.seq : e \in U} : x <= y
    BY <2>1, LeastNat
  <2>3. PICK e \in U : e.seq = x
    BY <2>2
  <2>4. \A f \in U : e.seq <= f.seq
    BY <2>2, <2>3
  <2>5. QED
    BY <2>3, <2>4
<1> HIDE DEF next
<1>7. /\ r \in WriterRec /\ r.pc = (IF U = {next} THEN "finish" ELSE "insert")
      /\ r.done = w[t].done /\ r.group = w[t].group /\ r.val = w[t].val
      /\ r.ok = w[t].ok /\ r.updates = U \ {next} /\ r.last = w[t].last
      /\ r.sync = w[t].sync /\ r.batch = w[t].batch /\ r.pc \in Writing
  BY <1>4 DEF WriterRec, Writing
<1> HIDE DEF r, U, M
<1>8. /\ QueueType(writers', w') /\ QueueInv(writers', w')
      /\ ValuesInv(writers, w, calls)' /\ HistType'
      /\ w'[t] = r
      /\ \A x \in Clients : x # t => w[x].pc \notin Writing /\ w'[x] = w[x]
  BY <1>1, <1>3, <1>7, FrontAdvances
<1>9. /\ M \in Nat /\ M # 0 /\ mtab \in Seq(SUBSET Entry) /\ M = Len(mtab)
      /\ \A m \in 1..M : mtab[m] \subseteq Entry
      /\ last_sequence \in Nat /\ next \in Entry /\ next.seq \in Nat
      /\ \A e \in Entry : e.seq \in Nat
  BY <1>2, <1>4, <1>6, FilesFacts DEF FilesType, M
<1>10. /\ mtab' \in Seq(SUBSET Entry) /\ Len(mtab') = M
       /\ mtab'[M] = mtab[M] \cup {next}
       /\ \A m \in 1..M : m # M => mtab'[m] = mtab[m]
  <2>1. /\ Len(mtab') = M /\ mtab'[M] = mtab[M] \cup {next}
        /\ \A m \in 1..M : m # M => mtab'[m] = mtab[m]
    BY <1>1, <1>9
  <2>2. mtab[M] \cup {next} \in SUBSET Entry
    BY <1>9
  <2>3. mtab' \in Seq(SUBSET Entry)
    BY <1>1, <1>9, <2>2
  <2>4. QED
    BY <2>1, <2>3
<1>11. \A m \in 1..M : /\ \A e \in mtab[m] : e \in mtab'[m]
                       /\ \A e \in mtab'[m] : e \in mtab[m] \/ (m = M /\ e = next)
  BY <1>9, <1>10
<1>12. /\ last_sequence' = last_sequence /\ log' = log /\ hist' = hist
       /\ synced' = synced /\ \A m : EntriesOf(m)' = EntriesOf(m)
       /\ \A m : SyncedEntries(m)' = SyncedEntries(m)
  BY <1>1 DEF EntriesOf, SyncedEntries
<1>13. FilesType' /\ ImmType'
  BY <1>1, <1>2, <1>9, <1>10 DEF FilesType, ImmType
<1>14. LogCoversMemTable' /\ LogSequencesIncrease'
  <2>1. \A m \in 1..M : mtab'[m] \subseteq EntriesOf(m)
    BY <1>2, <1>5, <1>6, <1>9, <1>11 DEF LogCoversMemTable, mem
  <2>2. LogCoversMemTable'
    BY <1>10, <1>12, <2>1 DEF LogCoversMemTable, mem
  <2>3. LogSequencesIncrease'
    BY <1>2, <1>9, <1>10, <1>12 DEF LogSequencesIncrease, mem
  <2>4. QED
    BY <2>2, <2>3
<1>15. HistInv'
  <2>1. ASSUME NEW m \in 1..M, NEW e \in mtab'[m], e.seq <= last_sequence
        PROVE  \E i \in 1..Len(hist) : PutBy(e, hist[i].keys, hist[i].val)
    <3>1. e # next
      BY <1>4, <1>6, <1>9, <2>1
    <3>2. e \in mtab[m]
      BY <1>11, <3>1
    <3>3. QED
      BY <1>2, <1>9, <2>1, <3>2 DEF HistInv
  <2>2. ASSUME NEW i \in 1..Len(hist), NEW j \in DOMAIN hist[i].keys
        PROVE  \E m \in 1..M : \E e \in mtab'[m] :
                 e.val = hist[i].val /\ e.key = hist[i].keys[j] /\ e.seq <= last_sequence
    <3>1. PICK m \in 1..M : \E e \in mtab[m] :
                 e.val = hist[i].val /\ e.key = hist[i].keys[j] /\ e.seq <= last_sequence
      BY <1>2, <1>9 DEF HistInv
    <3>2. QED
      BY <1>11, <3>1
  <2>3. ASSUME NEW m \in 1..M, NEW n \in 1..M, NEW e \in mtab'[m], NEW f \in mtab'[n],
               NEW i \in 1..Len(hist), NEW k \in 1..Len(hist),
               e.val = hist[i].val, f.val = hist[k].val, i < k
        PROVE  e.seq < f.seq
    <3>1. e # next /\ f # next
      BY <1>4, <1>6, <2>3
    <3>2. e \in mtab[m] /\ f \in mtab[n]
      BY <1>11, <3>1
    <3>3. QED
      BY <1>2, <1>9, <2>3, <3>2 DEF HistInv
  <2>4. QED
    BY <1>10, <1>12, <2>1, <2>2, <2>3 DEF HistInv
<1>16. SyncWritesAreDurable'
  <2>1. ASSUME NEW i \in 1..Len(hist), NEW m \in 1..M
        PROVE  {e \in mtab'[m] : e.val = hist[i].val} = {e \in mtab[m] : e.val = hist[i].val}
    BY <1>4, <1>6, <1>11
  <2>2. InTables' = InTables /\ \A m \in 1..M : SyncedEntries(m) \subseteq SyncedEntries(m)'
    BY <1>1, <1>9, <1>10, <1>12 DEF InTables, mem
  <2>3. QED
    BY <1>2, <1>9, <1>10, <1>12, <2>1, <2>2, DurableStays
<1>17. NumbersInv(w)'
  <2>1. \A x \in Clients :
          /\ w'[x].last = w[x].last
          /\ w[x].pc \in Writing \ {"log"} => w'[x].pc \in Writing \ {"log"}
          /\ w[x].pc \in {"insert", "finish"} => w'[x].pc \in {"insert", "finish"}
    BY <1>7, <1>8 DEF Writing
  <2>2. \A m \in 1..M : \A i \in 1..Len(log[m]) : \A e \in log[m][i] :
          \/ e.seq <= last_sequence
          \/ \E x \in Clients : w'[x].pc \in Writing \ {"log"} /\ e.seq <= w'[x].last
    BY <1>4, <1>9, <2>1 DEF NumbersInv
  <2>3. w'[t].pc \in {"insert", "finish"}
    BY <1>7, <1>8
  <2>4. \A m \in 1..M : \A e \in mtab[m] : e.seq <= last_sequence \/ m = M
    BY <1>4, <1>9 DEF NumbersInv
  <2>5. \A m \in 1..M : \A e \in mtab'[m] : e.seq <= last_sequence \/ m = M
    BY <1>11, <2>4
  <2>6. QED
    BY <1>10, <1>12, <2>2, <2>3, <2>5 DEF NumbersInv
<1>18. Fresh' = Fresh \cup {next}
  <2>1. \A e : e \in Fresh <=> e \in mtab[M] /\ e.seq > last_sequence
    BY <1>9 DEF Fresh
  <2>2. \A e : e \in Fresh' <=> e \in mtab'[M] /\ e.seq > last_sequence
    BY <1>10, <1>12 DEF Fresh
  <2>3. next.seq > last_sequence
    BY <1>4, <1>6, <1>9
  <2>4. QED
    BY <1>10, <2>1, <2>2, <2>3
<1>19. ASSUME NEW x \in Clients, w'[x].pc \in Writing PROVE GroupInv(x, writers, w)'
  <2>1. x = t
    BY <1>8, <1>19
  <2>2. /\ Carries(w[t].updates \cup Fresh, writers, w, w[t].group, w[t].last)'
        /\ \A i \in 1..w'[t].group : w'[writers'[i]].sync => w'[t].sync
    <3>1. r.ok => w[t].ok /\ r.updates \cup Fresh' = w[t].updates \cup Fresh
      BY <1>4, <1>6, <1>7, <1>18 DEF U
    <3>2. QED
      BY <1>1, <1>3, <1>4, <1>7, <3>1, GroupStays
  <2>3. w'[t].updates \subseteq EntriesOf(Len(mtab))'
    BY <1>5, <1>7, <1>8, <1>9, <1>10, <1>12
  <2>4. w'[t].sync => synced'[Len(mtab')] = Len(log'[Len(mtab')])
    BY <1>5, <1>7, <1>8, <1>10, <1>12
  <2>5. /\ w'[t].ok /\ last_sequence' <= w'[t].last
        /\ \/ w'[t].pc = "insert" /\ w'[t].updates # {}
           \/ w'[t].pc = "finish" /\ w'[t].updates = {}
    BY <1>4, <1>5, <1>6, <1>7, <1>8, <1>12
  <2>6. QED
    BY <2>1, <2>2, <2>3, <2>4, <2>5 DEF GroupInv
<1>20. QED
  BY <1>8, <1>13, <1>14, <1>15, <1>16, <1>17, <1>19
     DEF WqInv, FilesInv, WritersInv, QueueType, QueueInv

LEMMA FinishWriteKeepsInv ==
  ASSUME WqInv, NEW t \in Clients, FinishWrite(t)
  PROVE  WqInv'
<1>1. /\ w[t].pc = "finish" /\ last_sequence' = w[t].last
      /\ UNCHANGED <<imm, files, calls>>
      /\ FinishGroup(t, writers, w, w[t].group, w[t].ok)
  BY DEF FinishWrite, bgVars
<1>2. /\ WritersInv(writers, w, calls) /\ FilesInv /\ calls \in Nat
      /\ FilesType /\ ImmType
  BY DEF WqInv, FilesInv, HistType
<1>3. w[t].pc \in Writing
  BY <1>1 DEF Writing
<1>4. /\ w[t] \in WriterRec /\ GroupInv(t, writers, w)
      /\ Len(writers) # 0 /\ writers[1] = t /\ w[t].group \in 1..Len(writers)
      /\ \A m \in 1..Len(mtab) : \A i \in 1..Len(log[m]) : \A e \in log[m][i] :
           e.seq <= last_sequence \/ e.seq <= w[t].last
      /\ \A m \in 1..Len(mtab) : \A e \in mtab[m] :
           e.seq <= last_sequence \/ m = Len(mtab)
  BY <1>1, <1>3, FrontFacts
<1>5. /\ w[t].ok \in BOOLEAN /\ w[t].last \in Nat /\ last_sequence \in Nat
      /\ last_sequence <= last_sequence'
  BY <1>1, <1>2, <1>4 DEF WriterRec, FilesType, GroupInv
<1>6. FilesGrow /\ FilesType' /\ ImmType'
  BY <1>1, <1>2, <1>5, FilesStay
<1>7. \A m \in 1..Len(mtab) : \A i \in 1..Len(log[m]) : \A e \in log[m][i] :
        e.seq <= last_sequence'
  <2>1. \A m \in 1..Len(mtab) : \A i \in 1..Len(log[m]) : \A e \in log[m][i] :
          e.seq \in Nat
    BY <1>2, FilesFacts
  <2>2. QED
    BY <1>1, <1>4, <1>5, <2>1
<1>8. w[t].ok => Carries(Fresh, writers, w, w[t].group, last_sequence')
  <2>1. w[t].ok => w[t].updates \cup Fresh = Fresh
    BY <1>1, <1>4 DEF GroupInv
  <2>2. QED
    BY <1>1, <1>4, <2>1 DEF GroupInv
<1>9. w[t].ok => \A i \in 1..w[t].group :
        w[writers[i]].sync /\ w[writers[i]].batch # NullBatch =>
          synced[Len(mtab)] = Len(log[Len(mtab)])
  BY <1>1, <1>4 DEF GroupInv
<1>10. ~w[t].ok => Fresh = {}
  BY <1>4 DEF GroupInv
<1>11. QED
  BY <1>1, <1>2, <1>4, <1>5, <1>6, <1>7, <1>8, <1>9, <1>10, FinishKeepsInv

(* The background thread and its clients leave the write path alone, but for *)
(* releasing imm_.                                                           *)
LEMMA BackgroundKeepsImm ==
  ASSUME BgStep \/ ClientStep \/ BeginDelete
  PROVE  imm' \in {imm, NULL}
<1>1. CASE BgStep
  BY <1>1 DEF BgStep, BgSeesShutdown, BgStartsFlush, BgFinishesManual, BgStartsManual,
     BgStartsCompaction, TableBuilt, FlushAbandoned, FlushFails, FlushInstalled,
     CompactionPrioritizesImm, CompactionLoopEnds, CompactionAbandoned, CompactionFails,
     CompactionInstalled, BackoffEnds
<1>2. CASE ClientStep \/ BeginDelete
  BY <1>2 DEF ClientStep, CallCompactRange, CallerWakes, SpuriousWakeup, DeleteWakes,
     BeginDelete
<1>3. QED
  BY <1>1, <1>2

(* Every step in which the write path stands still.                          *)
LEMMA OthersKeepInv ==
  ASSUME WqInv, UNCHANGED <<writers, w, files, last_sequence, calls, hist>>,
         imm' \in {imm, NULL}
  PROVE  WqInv'
<1>1. WritersInv(writers, w, calls) /\ FilesInv /\ calls \in Nat
  BY DEF WqInv, FilesInv, HistType
<1>2. QED
  BY <1>1, StaysInv

LEMMA ReadersKeepImm ==
  ASSUME NEW r \in Readers, GetSnapshot(r) \/ BeginGet(r) \/ ReaderStep(r)
  PROVE  /\ UNCHANGED <<writers, w, asleep, files, last_sequence, calls, hist>>
         /\ imm' = imm
<1>1. CASE GetSnapshot(r) \/ BeginGet(r) \/ ReturnGet(r)
  BY <1>1 DEF GetSnapshot, BeginGet, ReturnGet, bgVars
<1>2. CASE EndGet(r)
  BY <1>2 DEF EndGet, bgVars, SeekCompactionDue
<1>3. QED
  BY <1>1, <1>2 DEF ReaderStep

LEMMA StepKeepsInv ==
  ASSUME WqInv, [WqNext]_<<bgVars, wqVars>>
  PROVE  WqInv'
<1>1. ASSUME NEW t \in Clients, CallWrite(t) PROVE WqInv'
  BY <1>1, CallKeepsInv
<1>2. ASSUME NEW t \in Clients, WriterStep(t) PROVE WqInv'
  BY <1>2, RunKeepsInv, AddRecordKeepsInv, SyncKeepsInv, LogFailureKeepsInv,
     InsertKeepsInv, FinishWriteKeepsInv, AfterWriteKeepsInv DEF WriterStep
<1>3. ASSUME NEW t \in Clients, WriterWakesSpuriously(t) PROVE WqInv'
  BY <1>3, OthersKeepInv DEF WriterWakesSpuriously, bgVars
<1>4. ASSUME NEW r \in Readers, GetSnapshot(r) \/ BeginGet(r) \/ ReaderStep(r)
      PROVE  WqInv'
  BY <1>4, ReadersKeepImm, OthersKeepInv
<1>5. CASE (BgStep \/ ClientStep \/ BeginDelete) /\ UNCHANGED wqVars
  BY <1>5, BackgroundKeepsImm, OthersKeepInv DEF wqVars
<1>6. CASE UNCHANGED <<bgVars, wqVars>>
  BY <1>6, OthersKeepInv DEF bgVars, wqVars
<1>7. QED
  BY <1>1, <1>2, <1>3, <1>4, <1>5, <1>6 DEF WqNext

LEMMA InitHasInv ==
  ASSUME WqInit
  PROVE  WqInv
<1>1. /\ imm = NULL /\ writers = <<>> /\ w = [t \in Clients |-> IdleWriter]
      /\ log = <<<<>>>> /\ synced = <<0>> /\ mtab = <<{}>>
      /\ last_sequence = 0 /\ calls = 0 /\ hist = <<>>
  BY DEF WqInit, BgInit
<1>2. IdleWriter \in WriterRec /\ \A t \in Clients : w[t].pc = "idle"
  BY <1>1 DEF IdleWriter, WriterRec
<1>3. /\ Len(writers) = 0 /\ Len(hist) = 0 /\ Len(mtab) = 1 /\ Len(log) = 1
      /\ Len(synced) = 1 /\ log[1] = <<>> /\ Len(log[1]) = 0 /\ mtab[1] = {}
      /\ synced[1] = 0
  BY <1>1
<1>4. QueueType(writers, w) /\ QueueInv(writers, w)
  BY <1>1, <1>2, <1>3 DEF QueueType, QueueInv, InQueue, Waiting, Writing
<1>5. ValuesInv(writers, w, calls) /\ NumbersInv(w)
  BY <1>1, <1>3 DEF ValuesInv, NumbersInv
<1>6. WritersInv(writers, w, calls)
  BY <1>2, <1>4, <1>5 DEF WritersInv, Writing
<1>7. FilesType /\ ImmType /\ HistType
  BY <1>1, <1>3 DEF FilesType, ImmType, HistType
<1>8. LogCoversMemTable /\ LogSequencesIncrease /\ HistInv /\ SyncWritesAreDurable
  BY <1>1, <1>3 DEF LogCoversMemTable, LogSequencesIncrease, HistInv,
     SyncWritesAreDurable, mem
<1>9. QED
  BY <1>6, <1>7, <1>8 DEF WqInv, FilesInv

(* The inductive invariant of the write path (BuildBatchGroup, Write and     *)
(* MakeRoomForWrite, with the background thread releasing imm_).             *)
THEOREM WqInvariant == WqSpec => []WqInv
<1>1. WqInit => WqInv
  BY InitHasInv
<1>2. WqInv /\ [WqNext]_<<bgVars, wqVars>> => WqInv'
  BY StepKeepsInv
<1>3. QED
  BY <1>1, <1>2, PTL DEF WqSpec

(* At most one client is between the unlock and the lock of Write, at the    *)
(* front of the queue with its group behind it, none of which has been told  *)
(* that it is done.                                                          *)
THEOREM OnlyOneLogger == WqSpec => []OneLogger
<1>1. WqInv => OneLogger
  <2> SUFFICES ASSUME WqInv, NEW t \in Clients,
                      w[t].pc \in {"log", "sync", "insert", "finish"}
               PROVE  /\ w[t].group \in 1..Len(writers) /\ writers[1] = t
                      /\ \A i \in 1..w[t].group : ~w[writers[i]].done
    BY DEF OneLogger
  <2>1. /\ w[t].group \in 1..Len(writers) /\ writers[1] = t
        /\ Len(writers) \in Nat
    BY FrontFacts DEF Writing
  <2>2. \A i \in 1..Len(writers) : ~w[writers[i]].done
    BY DEF WqInv, WritersInv, QueueInv, InQueue
  <2>3. QED
    BY <2>1, <2>2
<1>2. QED
  BY <1>1, WqInvariant, PTL

(* What is in a memtable is in the log of the same number, so that the log   *)
(* can go when the memtable is in a table.                                   *)
THEOREM LogsCoverMemTables == WqSpec => []LogCoversMemTable
<1>1. WqInv => LogCoversMemTable
  BY DEF WqInv, FilesInv
<1>2. QED
  BY <1>1, WqInvariant, PTL

(* Sequence numbers only go up along a log and from a log to the next, even  *)
(* after writes that failed with their record in the log.                    *)
THEOREM SequencesIncreaseAlongLogs == WqSpec => []LogSequencesIncrease
<1>1. WqInv => LogSequencesIncrease
  BY DEF WqInv, FilesInv
<1>2. QED
  BY <1>1, WqInvariant, PTL

(* WriteOptions::sync, whoever led the group and wherever memtables have     *)
(* moved since.                                                              *)
THEOREM SyncWritesStayDurable == WqSpec => []SyncWritesAreDurable
<1>1. WqInv => SyncWritesAreDurable
  BY DEF WqInv, FilesInv
<1>2. QED
  BY <1>1, WqInvariant, PTL
=============================================================================
