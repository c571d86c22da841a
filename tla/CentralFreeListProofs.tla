------------------------ MODULE CentralFreeListProofs ------------------------
(* For any threads, classes and sizes: no thread holds two locks of size     *)
(* classes, no class has or uses more slots than it may, slots are never     *)
(* made, every object is in exactly one place and every count is exact.      *)
EXTENDS CentralFreeList, FiniteSetTheorems, TLAPS

Fields == {"pc", "cl", "n", "range", "list", "at", "force", "evicted", "span"}
IsCall(r) == r = [f \in Fields |-> r[f]]

(* What a call keeps through its steps, and where it can be with which lock. *)
CallInv(r) ==
  /\ IsCall(r)
  /\ r.range \subseteq Objects
  /\ r.cl \in Classes /\ r.at \in Classes

LocksInv ==
  /\ lock \in [Classes -> Threads \cup {NoThread}]
  /\ \A c \in Classes : lock[c] # NoThread =>
       th[lock[c]].pc \in Holding /\ c = HeldBy(th[lock[c]])

SlotsInv ==
  /\ slots \in [Classes -> Seq(SUBSET Objects)]
  /\ cacheSize \in [Classes -> Nat]
  /\ SlotsFit

ThInv == th = [t \in Threads |-> th[t]] /\ \A t \in Threads : CallInv(th[t])

CfInv == ThInv /\ LocksInv /\ SlotsInv

---------------------------------------------------------------------------
LEMMA IdleIsCall ==
  CallInv(Idle) /\ DOMAIN Idle = Fields /\ Idle.pc = "idle"
<1>1. DOMAIN Idle = Fields /\ Idle.pc = "idle" /\ Idle.range = {}
  BY DEF Idle, Fields
<1>2. Idle.cl \in Classes /\ Idle.at \in Classes
  BY CentralAssumption DEF Idle
<1>3. IsCall(Idle)
  BY <1>1 DEF Idle, IsCall
<1> QED
  BY <1>1, <1>2, <1>3 DEF CallInv

LEMMA ReleasingIsCall ==
  ASSUME NEW r, CallInv(r)
  PROVE  CallInv(Releasing(r)) /\ Releasing(r).pc = "release" /\ Releasing(r).at = r.cl
<1>1. DOMAIN r = Fields
  BY DEF CallInv, IsCall
<1> QED
  BY <1>1 DEF Releasing, CallInv, IsCall, Fields

(* A step of t that leaves it with q, having taken or kept the lock of the   *)
(* class it then is with, or with none.                                      *)
LEMMA StepOfOne ==
  ASSUME ThInv, LocksInv, NEW t \in Threads, NEW q, CallInv(q), Set(t, q),
         lock' \in [Classes -> Threads \cup {NoThread}],
         \A c \in Classes : lock'[c] # t => lock'[c] \in {lock[c], NoThread},
         \A c \in Classes : lock'[c] = t => q.pc \in Holding /\ c = HeldBy(q)
  PROVE  (ThInv /\ LocksInv)'
<1>1. th' = [u \in Threads |-> IF u = t THEN q ELSE th[u]]
  BY DEF Set, ThInv
<1>2. ThInv'
  BY <1>1 DEF ThInv
<1>3. ASSUME NEW c \in Classes, lock'[c] # NoThread
      PROVE  th'[lock'[c]].pc \in Holding /\ c = HeldBy(th'[lock'[c]])
  <2>1. CASE lock'[c] = t
    BY <2>1, <1>1
  <2>2. CASE lock'[c] # t
    BY <2>2, <1>1, <1>3 DEF LocksInv
  <2> QED
    BY <2>1, <2>2
<1>4. LocksInv'
  BY <1>3 DEF LocksInv, HeldBy
<1> QED
  BY <1>2, <1>4

(* Nothing happens to the calls and locks, or nothing to the slots.          *)
LEMMA CallsUnchanged == ThInv /\ LocksInv /\ UNCHANGED <<th, lock>> => (ThInv /\ LocksInv)'
  BY DEF ThInv, LocksInv, HeldBy

LEMMA SlotsUnchanged == SlotsInv /\ UNCHANGED cache => SlotsInv'
  BY DEF SlotsInv, SlotsFit, Used, cache

LEMMA InitCfInv == CfInit => CfInv
<1> SUFFICES ASSUME CfInit
             PROVE  CfInv
  OBVIOUS
<1>1. ThInv
  BY IdleIsCall DEF CfInit, ThInv
<1>2. LocksInv
  BY DEF CfInit, LocksInv
<1>3. SlotsInv
  BY CentralAssumption DEF CfInit, SlotsInv, SlotsFit, Used
<1> QED
  BY <1>1, <1>2, <1>3 DEF CfInv

(* A range more, and a slot more or not.                                     *)
LEMMA KeepFits ==
  ASSUME SlotsInv, NEW c \in Classes, NEW range \in SUBSET Objects, Keep(c, range),
         \/ Used(c) < cacheSize[c] /\ UNCHANGED cacheSize
         \/ cacheSize[c] < MaxCache[c] /\ cacheSize' = [cacheSize EXCEPT ![c] = @ + 1]
  PROVE  SlotsInv'
<1>1. slots' = [slots EXCEPT ![c] = Append(slots[c], range)]
  BY DEF Keep
<1>2. slots' \in [Classes -> Seq(SUBSET Objects)]
  BY <1>1 DEF SlotsInv
<1>3. cacheSize' \in [Classes -> Nat]
  BY DEF SlotsInv
<1>4. ASSUME NEW d \in Classes
      PROVE  Len(slots'[d]) <= cacheSize'[d] /\ cacheSize'[d] <= MaxCache[d]
  <2>1. Len(slots'[d]) = IF d = c THEN Len(slots[c]) + 1 ELSE Len(slots[d])
    BY <1>1 DEF SlotsInv
  <2>2. /\ Len(slots[d]) \in Nat /\ Len(slots[c]) \in Nat /\ MaxCache[d] \in Nat
        /\ MaxCache[c] \in Nat
    BY CentralAssumption DEF SlotsInv
  <2> QED
    BY <2>1, <2>2 DEF SlotsInv, SlotsFit, Used
<1> QED
  BY <1>2, <1>3, <1>4 DEF SlotsInv, SlotsFit, Used

(* A range less.                                                             *)
LEMMA PopFits ==
  ASSUME SlotsInv, NEW c \in Classes, slots[c] # <<>>,
         slots' = [slots EXCEPT ![c] = SubSeq(@, 1, Len(@) - 1)]
  PROVE  /\ slots' \in [Classes -> Seq(SUBSET Objects)]
         /\ \A d \in Classes : Len(slots'[d]) = IF d = c THEN Len(slots[c]) - 1 ELSE Len(slots[d])
         /\ Len(slots[c]) \in Nat \ {0}
<1>1. Len(slots[c]) \in Nat \ {0} /\ slots[c] \in Seq(SUBSET Objects)
  BY DEF SlotsInv
<1>2. /\ SubSeq(slots[c], 1, Len(slots[c]) - 1) \in Seq(SUBSET Objects)
      /\ Len(SubSeq(slots[c], 1, Len(slots[c]) - 1)) = Len(slots[c]) - 1
  BY <1>1
<1> QED
  BY <1>1, <1>2 DEF SlotsInv

(* ... and a slot less or not: the last range goes with the last slot.       *)
LEMMA PoppedFits ==
  ASSUME SlotsInv, NEW c \in Classes, slots' \in [Classes -> Seq(SUBSET Objects)],
         \A d \in Classes : Len(slots'[d]) = IF d = c THEN Len(slots[c]) - 1 ELSE Len(slots[d]),
         Len(slots[c]) \in Nat \ {0},
         UNCHANGED cacheSize \/ cacheSize' = [cacheSize EXCEPT ![c] = @ - 1]
  PROVE  SlotsInv'
<1>1. cacheSize[c] \in Nat \ {0}
  BY DEF SlotsInv, SlotsFit, Used
<1>2. cacheSize' \in [Classes -> Nat]
  BY <1>1 DEF SlotsInv
<1>3. ASSUME NEW d \in Classes
      PROVE  Len(slots'[d]) <= cacheSize'[d] /\ cacheSize'[d] <= MaxCache[d]
  <2>1. /\ Len(slots[d]) \in Nat /\ MaxCache[d] \in Nat /\ cacheSize[d] \in Nat
        /\ Len(slots[d]) <= cacheSize[d] /\ cacheSize[d] <= MaxCache[d]
    BY CentralAssumption DEF SlotsInv, SlotsFit, Used
  <2>2. cacheSize'[d] \in {cacheSize[d], IF d = c THEN cacheSize[d] - 1 ELSE cacheSize[d]}
    BY DEF SlotsInv
  <2>3. Len(slots'[d]) = IF d = c THEN Len(slots[d]) - 1 ELSE Len(slots[d])
    OBVIOUS
  <2> QED
    BY <1>1, <2>1, <2>2, <2>3
<1> QED
  BY <1>2, <1>3 DEF SlotsInv, SlotsFit, Used

---------------------------------------------------------------------------
LEMMA CallsPreserve ==
  ASSUME CfInv, NEW t \in Threads, InsertRange(t) \/ RemoveRange(t)
  PROVE  CfInv'
<1> USE DEF CfInv
<1>1. \A d \in Classes : lock[d] # t
  BY CentralAssumption DEF LocksInv, InsertRange, RemoveRange, Holding
<1>2. CASE InsertRange(t)
  <2>1. PICK c \in Classes : \E range \in SUBSET (app \cap ObjectsOf(c)) :
          InsertInSlot(t, c, range) \/ InsertElsewhere(t, c, range)
    BY <1>2 DEF InsertRange
  <2>2. PICK range \in SUBSET Objects :
          InsertInSlot(t, c, range) \/ InsertElsewhere(t, c, range)
    BY <2>1 DEF ObjectsOf
  <2>3. CASE InsertInSlot(t, c, range)
    <3>1. (ThInv /\ LocksInv)'
      BY <2>3, CallsUnchanged DEF InsertInSlot
    <3>2. SlotsInv'
      BY <2>2, <2>3, KeepFits DEF InsertInSlot
    <3> QED
      BY <3>1, <3>2
  <2>4. CASE InsertElsewhere(t, c, range)
    <3> DEFINE r == [Idle EXCEPT !.cl = c, !.range = range]
               e == [r EXCEPT !.pc = "evict"]
    <3>1. CallInv(r) /\ r.cl = c /\ DOMAIN r = Fields
      BY <2>2, IdleIsCall DEF CallInv, IsCall, Fields
    <3>2. CallInv(e) /\ e.pc = "evict" /\ e.cl = c
      BY <3>1 DEF CallInv, IsCall, Fields
    <3>3. PICK q : Set(t, q) /\ q \in {e, Releasing(r)}
      BY <2>4 DEF InsertElsewhere
    <3>4. CallInv(q) /\ q.pc \in Holding /\ HeldBy(q) = c
      <4> HIDE DEF r, e
      <4> QED
        BY <3>1, <3>2, <3>3, ReleasingIsCall DEF Holding, HeldBy
    <3>5. Take(c, t)
      BY <2>4 DEF InsertElsewhere
    <3>6. (ThInv /\ LocksInv)'
      <4> HIDE DEF r, e
      <4>1. lock' = [lock EXCEPT ![c] = t]
        BY <3>5 DEF Take
      <4> QED
        BY <4>1, <1>1, <3>3, <3>4, StepOfOne DEF LocksInv
    <3>7. SlotsInv'
      BY <2>4, SlotsUnchanged DEF InsertElsewhere
    <3> QED
      BY <3>6, <3>7
  <2> QED
    BY <2>2, <2>3, <2>4
<1>3. CASE RemoveRange(t)
  <2>1. PICK c \in Classes, n \in Nat : RemoveFromSlot(c, n) \/ RemoveFromSpans(t, c, n)
    BY <1>3, CentralAssumption DEF RemoveRange
  <2>2. UNCHANGED <<lock, cacheSize>>
    BY <1>3 DEF RemoveRange
  <2>3. CASE RemoveFromSlot(c, n)
    <3>1. (ThInv /\ LocksInv)'
      BY <2>2, <2>3, CallsUnchanged DEF RemoveFromSlot
    <3>2. /\ slots' \in [Classes -> Seq(SUBSET Objects)]
          /\ \A d \in Classes : Len(slots'[d]) = IF d = c THEN Len(slots[c]) - 1
                                                  ELSE Len(slots[d])
          /\ Len(slots[c]) \in Nat \ {0}
      BY <2>3, PopFits DEF RemoveFromSlot
    <3>3. SlotsInv'
      BY <2>2, <3>2, PoppedFits
    <3> QED
      BY <3>1, <3>3
  <2>4. CASE RemoveFromSpans(t, c, n)
    <3>1. SlotsInv'
      BY <2>2, <2>4, SlotsUnchanged DEF RemoveFromSpans, cache
    <3>2. CASE UNCHANGED th
      BY <2>2, <3>1, <3>2, CallsUnchanged
    <3>3. CASE Set(t, [Idle EXCEPT !.pc = "populate", !.cl = c, !.n = n])
      <4> DEFINE q == [Idle EXCEPT !.pc = "populate", !.cl = c, !.n = n]
      <4>1. CallInv(q)
        BY IdleIsCall DEF CallInv, IsCall, Fields
      <4> HIDE DEF q
      <4>2. (ThInv /\ LocksInv)'
        BY <4>1, <3>3, <1>1, <2>2, StepOfOne DEF LocksInv, q
      <4> QED
        BY <3>1, <4>2
    <3> QED
      BY <2>4, <3>2, <3>3 DEF RemoveFromSpans
  <2> QED
    BY <2>1, <2>3, <2>4
<1> QED
  BY <1>2, <1>3

---------------------------------------------------------------------------
(* What a thread in a call knows: the lock it may have.                      *)
LEMMA HeldLock ==
  ASSUME ThInv, LocksInv, NEW t \in Threads
  PROVE  /\ CallInv(th[t]) /\ DOMAIN th[t] = Fields
         /\ \A d \in Classes : lock[d] = t => th[t].pc \in Holding /\ d = HeldBy(th[t])
<1>1. t # NoThread
  BY CentralAssumption
<1> QED
  BY <1>1 DEF ThInv, LocksInv, CallInv, IsCall

LEMMA EvictPreserves ==
  ASSUME CfInv, NEW t \in Threads, Evict(t)
  PROVE  CfInv'
<1> DEFINE r == th[t]
<1>1. /\ CallInv(r) /\ DOMAIN r = Fields /\ r.pc = "evict"
      /\ \A d \in Classes : lock[d] = t => d = r.cl
  BY HeldLock DEF CfInv, Evict, HeldBy
<1>2. lock \in [Classes -> Threads \cup {NoThread}] /\ r.cl \in Classes
  BY <1>1 DEF CfInv, LocksInv, CallInv
<1>3. SlotsInv'
  BY SlotsUnchanged DEF CfInv, Evict
<1>4. PICK v \in Classes :
        \/ /\ Set(t, IF r.force THEN Releasing(r) ELSE [r EXCEPT !.force = TRUE])
           /\ UNCHANGED lock
        \/ Set(t, [r EXCEPT !.pc = "shrink", !.at = v]) /\ Drop(r.cl)
  BY DEF Evict
<1>5. CASE /\ Set(t, IF r.force THEN Releasing(r) ELSE [r EXCEPT !.force = TRUE])
           /\ UNCHANGED lock
  <2> DEFINE q == [r EXCEPT !.force = TRUE]
  <2>1. CallInv(q) /\ q.pc = "evict" /\ q.cl = r.cl
    BY <1>1 DEF CallInv, IsCall, Fields
  <2>2. PICK s : Set(t, s) /\ s \in {q, Releasing(r)}
    BY <1>5
  <2> HIDE DEF q
  <2>3. CallInv(s) /\ s.pc \in Holding /\ HeldBy(s) = r.cl
    BY <1>1, <2>1, <2>2, ReleasingIsCall DEF Holding, HeldBy
  <2> HIDE DEF r
  <2>4. (ThInv /\ LocksInv)'
    BY <1>1, <1>2, <1>5, <2>2, <2>3, StepOfOne DEF CfInv
  <2> QED
    BY <1>3, <2>4 DEF CfInv
<1>6. CASE Set(t, [r EXCEPT !.pc = "shrink", !.at = v]) /\ Drop(r.cl)
  <2> DEFINE q == [r EXCEPT !.pc = "shrink", !.at = v]
  <2>1. CallInv(q)
    BY <1>1 DEF CallInv, IsCall, Fields
  <2>2. /\ lock' \in [Classes -> Threads \cup {NoThread}]
        /\ \A d \in Classes : lock'[d] # t /\ lock'[d] \in {lock[d], NoThread}
    BY <1>1, <1>2, <1>6, CentralAssumption DEF Drop
  <2>3. Set(t, q)
    BY <1>6
  <2> HIDE DEF q, r
  <2>4. (ThInv /\ LocksInv)'
    BY <2>1, <2>2, <2>3, StepOfOne DEF CfInv
  <2> QED
    BY <1>3, <2>4 DEF CfInv
<1> QED
  BY <1>4, <1>5, <1>6

(* The steps after which a thread without a lock has none, or one it was free *)
(* to take.                                                                  *)
LEMMA StepWithoutLock ==
  ASSUME ThInv, LocksInv, NEW t \in Threads, th[t].pc \notin Holding,
         NEW q, CallInv(q), Set(t, q),
         \/ UNCHANGED lock
         \/ \E c \in Classes : Take(c, t) /\ q.pc \in Holding /\ c = HeldBy(q)
  PROVE  (ThInv /\ LocksInv)'
<1>1. lock \in [Classes -> Threads \cup {NoThread}] /\ \A d \in Classes : lock[d] # t
  BY HeldLock DEF LocksInv
<1>2. CASE UNCHANGED lock
  BY <1>1, <1>2, StepOfOne
<1>3. CASE \E c \in Classes : Take(c, t) /\ q.pc \in Holding /\ c = HeldBy(q)
  <2>1. PICK c \in Classes : Take(c, t) /\ q.pc \in Holding /\ c = HeldBy(q)
    BY <1>3
  <2>2. lock' = [lock EXCEPT ![c] = t]
    BY <2>1 DEF Take
  <2> QED
    BY <1>1, <2>1, <2>2, StepOfOne
<1> QED
  BY <1>2, <1>3

LEMMA ShrinkPreserves ==
  ASSUME CfInv, NEW t \in Threads, Shrink(t)
  PROVE  CfInv'
<1> DEFINE r == th[t]
           v == r.at
           full == Used(v) = cacheSize[v]
           done == [r EXCEPT !.pc = "relock"]
<1>1. CallInv(r) /\ DOMAIN r = Fields /\ r.pc \notin Holding /\ v \in Classes
  BY HeldLock DEF CfInv, Shrink, Holding, CallInv
<1>2. ThInv /\ LocksInv /\ SlotsInv
  BY DEF CfInv
<1>3. \A b \in BOOLEAN : CallInv([done EXCEPT !.evicted = b])
  BY <1>1 DEF CallInv, IsCall, Fields
<1>4. CASE Set(t, [done EXCEPT !.evicted = FALSE]) /\ UNCHANGED <<lock, cache>>
  <2>1. (ThInv /\ LocksInv)'
    <3> DEFINE q == [done EXCEPT !.evicted = FALSE]
    <3>1. CallInv(q) /\ Set(t, q)
      BY <1>3, <1>4
    <3> HIDE DEF q
    <3> QED
      BY <1>1, <1>2, <1>4, <3>1, StepWithoutLock
  <2> QED
    BY <1>2, <1>4, <2>1, SlotsUnchanged DEF CfInv
<1>5. CASE /\ cacheSize[v] # 0
           /\ cacheSize' = [cacheSize EXCEPT ![v] = @ - 1]
           /\ full
           /\ Take(v, t)
           /\ slots' = [slots EXCEPT ![v] = SubSeq(@, 1, Len(@) - 1)]
           /\ Set(t, [r EXCEPT !.pc = "release", !.evicted = TRUE, !.list = slots[v][Used(v)]])
  <2> DEFINE q == [r EXCEPT !.pc = "release", !.evicted = TRUE, !.list = slots[v][Used(v)]]
  <2>1. CallInv(q) /\ q.pc \in Holding /\ HeldBy(q) = v /\ Set(t, q)
    BY <1>1, <1>5 DEF CallInv, IsCall, Fields, Holding, HeldBy
  <2>2. slots[v] # <<>>
    BY <1>1, <1>2, <1>5 DEF SlotsInv, Used
  <2> HIDE DEF q, r
  <2>3. (ThInv /\ LocksInv)'
    BY <1>1, <1>2, <1>5, <2>1, StepWithoutLock DEF r
  <2>4. SlotsInv'
    BY <1>1, <1>2, <1>5, <2>2, PopFits, PoppedFits
  <2> QED
    BY <2>3, <2>4 DEF CfInv
<1>6. CASE /\ cacheSize[v] # 0
           /\ cacheSize' = [cacheSize EXCEPT ![v] = @ - 1]
           /\ ~full
           /\ Set(t, [done EXCEPT !.evicted = TRUE])
           /\ UNCHANGED <<lock, slots>>
  <2> DEFINE q == [done EXCEPT !.evicted = TRUE]
  <2>1. CallInv(q) /\ Set(t, q)
    BY <1>3, <1>6
  <2> HIDE DEF q
  <2>2. (ThInv /\ LocksInv)'
    BY <1>1, <1>2, <1>6, <2>1, StepWithoutLock
  <2> HIDE DEF r
  <2>3. /\ cacheSize \in [Classes -> Nat] /\ cacheSize[v] \in Nat \ {0} /\ Len(slots[v]) \in Nat
        /\ Len(slots[v]) <= cacheSize[v]
    BY <1>1, <1>2, <1>6 DEF SlotsInv, SlotsFit, Used
  <2>4. cacheSize' \in [Classes -> Nat] /\ Len(slots[v]) <= cacheSize[v] - 1
    <3>1. cacheSize[v] - 1 \in Nat /\ Len(slots[v]) # cacheSize[v]
      BY <2>3, <1>6 DEF Used
    <3>2. cacheSize' = [cacheSize EXCEPT ![v] = cacheSize[v] - 1]
      BY <1>6
    <3>3. cacheSize' \in [Classes -> Nat]
      BY <2>3, <3>1, <3>2
    <3> QED
      BY <2>3, <3>1, <3>3
  <2>5. ASSUME NEW d \in Classes
        PROVE  Len(slots'[d]) <= cacheSize'[d] /\ cacheSize'[d] <= MaxCache[d]
    <3>1. /\ cacheSize[d] \in Nat /\ MaxCache[d] \in Nat
          /\ Len(slots[d]) <= cacheSize[d] /\ cacheSize[d] <= MaxCache[d]
      BY <1>2, CentralAssumption DEF SlotsInv, SlotsFit, Used
    <3>2. cacheSize'[d] = IF d = v THEN cacheSize[d] - 1 ELSE cacheSize[d]
      BY <1>6, <2>3
    <3>3. slots' = slots
      BY <1>6
    <3> QED
      BY <2>4, <3>1, <3>2, <3>3
  <2>6. SlotsInv'
    BY <1>2, <1>6, <2>4, <2>5 DEF SlotsInv, SlotsFit, Used
  <2> QED
    BY <2>2, <2>6 DEF CfInv
<1> QED
  BY <1>4, <1>5, <1>6 DEF Shrink

LEMMA RelockPreserves ==
  ASSUME CfInv, NEW t \in Threads, Relock(t)
  PROVE  CfInv'
<1> DEFINE r == th[t]
           c == r.cl
           e == [r EXCEPT !.pc = "evict", !.force = TRUE]
<1>1. /\ CallInv(r) /\ DOMAIN r = Fields /\ r.pc \notin Holding /\ c \in Classes
      /\ r.range \in SUBSET Objects
  BY HeldLock DEF CfInv, Relock, Holding, CallInv
<1>2. ThInv /\ LocksInv /\ SlotsInv
  BY DEF CfInv
<1>3. CallInv(e) /\ e.pc = "evict" /\ e.cl = c
  BY <1>1 DEF CallInv, IsCall, Fields
<1>4. CASE /\ cacheSize[c] < MaxCache[c]
           /\ cacheSize' = [cacheSize EXCEPT ![c] = @ + 1]
           /\ Keep(c, r.range)
           /\ Set(t, Idle)
           /\ UNCHANGED lock
  <2> HIDE DEF r
  <2>1. (ThInv /\ LocksInv)'
    BY <1>1, <1>2, <1>4, IdleIsCall, StepWithoutLock DEF r
  <2>2. SlotsInv'
    BY <1>1, <1>2, <1>4, KeepFits
  <2> QED
    BY <2>1, <2>2 DEF CfInv
<1>5. CASE /\ Take(c, t)
           /\ Set(t, IF r.evicted \/ r.force THEN Releasing(r) ELSE e)
           /\ UNCHANGED cache
  <2>1. PICK q : Set(t, q) /\ q \in {e, Releasing(r)}
    BY <1>5
  <2> HIDE DEF e, r
  <2>2. CallInv(q) /\ q.pc \in Holding /\ HeldBy(q) = c
    BY <1>1, <1>3, <2>1, ReleasingIsCall DEF Holding, HeldBy
  <2>3. (ThInv /\ LocksInv)'
    BY <1>1, <1>2, <1>5, <2>1, <2>2, StepWithoutLock DEF r
  <2> QED
    BY <1>2, <1>5, <2>3, SlotsUnchanged DEF CfInv
<1> QED
  BY <1>4, <1>5 DEF Relock

LEMMA ReleaseToSpansPreserves ==
  ASSUME CfInv, NEW t \in Threads, ReleaseToSpans(t)
  PROVE  CfInv'
<1> DEFINE r == th[t]
           rest(o) == [r EXCEPT !.list = @ \ {o}]
           delete(o) == [rest(o) EXCEPT !.pc = "delete", !.span = o[1]]
<1>1. /\ CallInv(r) /\ DOMAIN r = Fields /\ r.pc = "release" /\ r.at \in Classes
      /\ \A d \in Classes : lock[d] = t => d = r.at
  BY HeldLock DEF CfInv, ReleaseToSpans, HeldBy, CallInv
<1>2. /\ ThInv /\ LocksInv /\ SlotsInv
      /\ lock \in [Classes -> Threads \cup {NoThread}]
  BY DEF CfInv, LocksInv
<1>3. SlotsInv'
  BY SlotsUnchanged DEF CfInv, ReleaseToSpans
<1>4. PICK o \in r.list : \/ Set(t, delete(o)) /\ Drop(r.at)
                          \/ Set(t, rest(o)) /\ UNCHANGED lock
  BY DEF ReleaseToSpans
<1>5. /\ CallInv(rest(o)) /\ rest(o).pc = "release" /\ rest(o).at = r.at
      /\ CallInv(delete(o))
  BY <1>1 DEF CallInv, IsCall, Fields
<1> HIDE DEF r, rest, delete
<1>6. CASE Set(t, delete(o)) /\ Drop(r.at)
  <2>1. /\ lock' \in [Classes -> Threads \cup {NoThread}]
        /\ \A d \in Classes : lock'[d] # t /\ lock'[d] \in {lock[d], NoThread}
    BY <1>1, <1>2, <1>6, CentralAssumption DEF Drop
  <2>2. (ThInv /\ LocksInv)'
    BY <1>2, <1>5, <1>6, <2>1, StepOfOne
  <2> QED
    BY <1>3, <2>2 DEF CfInv
<1>7. CASE Set(t, rest(o)) /\ UNCHANGED lock
  <2>1. (ThInv /\ LocksInv)'
    BY <1>1, <1>2, <1>5, <1>7, StepOfOne DEF Holding, HeldBy
  <2> QED
    BY <1>3, <2>1 DEF CfInv
<1> QED
  BY <1>4, <1>6, <1>7

LEMMA ReleasedPreserves ==
  ASSUME CfInv, NEW t \in Threads, Released(t)
  PROVE  CfInv'
<1> DEFINE q == IF th[t].range = {} THEN Idle ELSE [th[t] EXCEPT !.pc = "relock"]
<1>1. /\ CallInv(th[t]) /\ DOMAIN th[t] = Fields /\ th[t].at \in Classes
      /\ \A d \in Classes : lock[d] = t => d = th[t].at
  BY HeldLock DEF CfInv, Released, HeldBy, CallInv
<1>2. CallInv([th[t] EXCEPT !.pc = "relock"])
  BY <1>1 DEF CallInv, IsCall, Fields
<1>3. CallInv(q) /\ Set(t, q)
  BY <1>2, IdleIsCall DEF Released
<1>4. /\ lock' \in [Classes -> Threads \cup {NoThread}]
      /\ \A d \in Classes : lock'[d] # t /\ lock'[d] \in {lock[d], NoThread}
  BY <1>1, CentralAssumption DEF CfInv, LocksInv, Released, Drop
<1> HIDE DEF q
<1>5. (ThInv /\ LocksInv)'
  BY <1>3, <1>4, StepOfOne DEF CfInv
<1>6. SlotsInv'
  BY SlotsUnchanged DEF CfInv, Released
<1> QED
  BY <1>5, <1>6 DEF CfInv

(* The steps around the calls of the page heap.                              *)
LEMMA HeapStepsPreserve ==
  ASSUME CfInv, NEW t \in Threads,
         DeleteSpan(t) \/ LockAfterDelete(t) \/ NewSpan(t) \/ Populated(t)
  PROVE  CfInv'
<1> DEFINE r == th[t]
<1>1. CallInv(r) /\ DOMAIN r = Fields /\ r.pc \notin Holding /\ r.at \in Classes
  BY HeldLock DEF CfInv, DeleteSpan, LockAfterDelete, NewSpan, Populated, Holding, CallInv
<1>2. SlotsInv'
  BY SlotsUnchanged DEF CfInv, DeleteSpan, LockAfterDelete, NewSpan, Populated
<1>3. \A pc, sp : CallInv([r EXCEPT !.pc = pc, !.span = sp]) /\ CallInv([r EXCEPT !.pc = pc])
  BY <1>1 DEF CallInv, IsCall, Fields
<1>4. CASE DeleteSpan(t)
  <2> DEFINE q == [r EXCEPT !.pc = "deleted", !.span = NoSpan]
  <2>1. CallInv(q) /\ Set(t, q) /\ UNCHANGED lock
    BY <1>3, <1>4 DEF DeleteSpan
  <2> HIDE DEF q
  <2>2. (ThInv /\ LocksInv)'
    BY <1>1, <2>1, StepWithoutLock DEF CfInv
  <2> QED
    BY <1>2, <2>2 DEF CfInv
<1>5. CASE LockAfterDelete(t)
  <2> DEFINE q == [r EXCEPT !.pc = "release"]
  <2>1. CallInv(q) /\ Set(t, q) /\ q.pc = "release" /\ q.at = r.at
    BY <1>1, <1>3, <1>5 DEF LockAfterDelete, Fields
  <2> HIDE DEF q
  <2>2. Take(r.at, t) /\ q.pc \in Holding /\ r.at = HeldBy(q)
    BY <1>5, <2>1 DEF LockAfterDelete, Holding, HeldBy
  <2>3. (ThInv /\ LocksInv)'
    BY <1>1, <2>1, <2>2, StepWithoutLock DEF CfInv
  <2> QED
    BY <1>2, <2>3 DEF CfInv
<1>6. CASE NewSpan(t)
  <2>1. PICK q : CallInv(q) /\ Set(t, q)
    BY <1>3, <1>6 DEF NewSpan
  <2>2. (ThInv /\ LocksInv)'
    BY <1>1, <1>6, <2>1, StepWithoutLock DEF CfInv, NewSpan
  <2> QED
    BY <1>2, <2>2 DEF CfInv
<1>7. CASE Populated(t)
  <2>1. (ThInv /\ LocksInv)'
    BY <1>1, <1>7, IdleIsCall, StepWithoutLock DEF CfInv, Populated
  <2> QED
    BY <1>2, <2>1 DEF CfInv
<1> QED
  BY <1>4, <1>5, <1>6, <1>7

LEMMA NextCfInv == CfInv /\ [CfNext]_cfVars => CfInv'
<1> SUFFICES ASSUME CfInv, [CfNext]_cfVars
             PROVE  CfInv'
  OBVIOUS
<1>1. CASE UNCHANGED cfVars
  BY <1>1, CallsUnchanged, SlotsUnchanged DEF CfInv, cfVars
<1>2. ASSUME NEW t \in Threads, InsertRange(t) \/ RemoveRange(t) \/ Step(t)
      PROVE  CfInv'
  BY <1>2, CallsPreserve, EvictPreserves, ShrinkPreserves, RelockPreserves,
     ReleaseToSpansPreserves, ReleasedPreserves, HeapStepsPreserve DEF Step
<1> QED
  BY <1>1, <1>2 DEF CfNext

---------------------------------------------------------------------------
(* The inductive invariant: a lock belongs to the class that its holder is   *)
(* busy with, and the slots of each class are within its size.               *)
THEOREM CfInvariant == CfSpec => []CfInv
<1>1. CfInit => CfInv
  BY InitCfInv
<1>2. CfInv /\ [CfNext]_cfVars => CfInv'
  BY NextCfInv
<1> QED
  BY <1>1, <1>2, PTL DEF CfSpec

(* EvictRandomSizeClass never makes a thread wait for the lock of one class  *)
(* with the lock of another in hand.                                         *)
THEOREM OneLockAlways == CfSpec => []OneLockAtATime
<1>1. CfInv => OneLockAtATime
  BY DEF CfInv, LocksInv, OneLockAtATime
<1> QED
  BY <1>1, CfInvariant, PTL

(* The assertions of ShrinkCache and InsertRange never fail: a class uses no *)
(* more slots than it has and has no more than it may.                       *)
THEOREM SlotsFitAlways == CfSpec => []SlotsFit
<1>1. CfInv => SlotsFit
  BY DEF CfInv, SlotsInv
<1> QED
  BY <1>1, CfInvariant, PTL

---------------------------------------------------------------------------
(* The slots of all classes, and how a step moves them.                      *)
SlotsBound == SlotsAreNotMade /\ IsFiniteSet(SlotsOf(cacheSize))

LEMMA SlotsAreFinite ==
  ASSUME NEW size \in [Classes -> Nat]
  PROVE  IsFiniteSet(SlotsOf(size))
<1> DEFINE f == [c \in Classes |-> {c} \X (1..size[c])]
           S == {{c} \X (1..size[c]) : c \in Classes}
<1>1. f \in Surjection(Classes, S)
  BY DEF Surjection
<1>2. IsFiniteSet(S)
  <2> HIDE DEF f, S
  <2> QED
    BY <1>1, FS_Surjection, FiniteAssumption
<1>3. \A c \in Classes : IsFiniteSet({c} \X (1..size[c]))
  <2> TAKE c \in Classes
  <2>1. IsFiniteSet({c}) /\ IsFiniteSet(1..size[c])
    <3>1. size[c] \in Int /\ 1 \in Int
      OBVIOUS
    <3> QED
      BY <3>1, FS_Interval, FS_Singleton
  <2> QED
    BY <2>1, FS_Product
<1>4. \A T \in S : IsFiniteSet(T)
  BY <1>3
<1>5. IsFiniteSet(UNION S)
  <2> HIDE DEF S
  <2> QED
    BY <1>2, <1>4, FS_UNION
<1> QED
  BY <1>5 DEF SlotsOf

(* A class's size up or down by one is one slot more or less.                *)
LEMMA OneSlotMore ==
  ASSUME NEW size \in [Classes -> Nat], NEW c \in Classes
  PROVE  /\ SlotsOf([size EXCEPT ![c] = @ + 1]) = SlotsOf(size) \cup {<<c, size[c] + 1>>}
         /\ <<c, size[c] + 1>> \notin SlotsOf(size)
<1>1. \A x : x \in SlotsOf(size) <=> \E d \in Classes : \E i \in 1..size[d] : x = <<d, i>>
  BY DEF SlotsOf
<1> DEFINE more == [size EXCEPT ![c] = @ + 1]
<1>2. \A d \in Classes : more[d] = IF d = c THEN size[c] + 1 ELSE size[d]
  OBVIOUS
<1>3. \A x : x \in SlotsOf(more) <=> \E d \in Classes : \E i \in 1..more[d] : x = <<d, i>>
  BY DEF SlotsOf
<1> HIDE DEF more
<1>4. size[c] \in Nat
  OBVIOUS
<1>5. 1..(size[c] + 1) = 1..size[c] \cup {size[c] + 1} /\ size[c] + 1 \notin 1..size[c]
  BY <1>4
<1>6. \A x : x \in SlotsOf(more) <=> x \in SlotsOf(size) \cup {<<c, size[c] + 1>>}
  <2> TAKE x
  <2>1. ASSUME x \in SlotsOf(more)
        PROVE  x \in SlotsOf(size) \cup {<<c, size[c] + 1>>}
    <3>1. PICK d \in Classes : \E i \in 1..more[d] : x = <<d, i>>
      BY <2>1, <1>3
    <3>2. PICK i \in 1..more[d] : x = <<d, i>>
      BY <3>1
    <3>3. i \in 1..size[d] \/ (d = c /\ i = size[c] + 1)
      BY <3>2, <1>2, <1>5
    <3> QED
      BY <3>2, <3>3, <1>1
  <2>2. ASSUME x \in SlotsOf(size)
        PROVE  x \in SlotsOf(more)
    <3>1. PICK d \in Classes : \E i \in 1..size[d] : x = <<d, i>>
      BY <2>2, <1>1
    <3>2. PICK i \in 1..size[d] : x = <<d, i>>
      BY <3>1
    <3>3. i \in 1..more[d]
      BY <3>2, <1>2, <1>5
    <3> QED
      BY <3>2, <3>3, <1>3
  <2>3. <<c, size[c] + 1>> \in SlotsOf(more)
    BY <1>2, <1>3, <1>5
  <2> QED
    BY <2>1, <2>2, <2>3
<1>7. <<c, size[c] + 1>> \notin SlotsOf(size)
  BY <1>1, <1>5
<1> QED
  BY <1>6, <1>7 DEF more

LEMMA SlotsCounted ==
  ASSUME NEW size \in [Classes -> Nat], NEW c \in Classes
  PROVE  Cardinality(SlotsOf([size EXCEPT ![c] = @ + 1])) = Cardinality(SlotsOf(size)) + 1
<1> DEFINE more == SlotsOf([size EXCEPT ![c] = @ + 1])
<1>1. IsFiniteSet(SlotsOf(size))
  BY SlotsAreFinite
<1>2. /\ more = SlotsOf(size) \cup {<<c, size[c] + 1>>}
      /\ <<c, size[c] + 1>> \notin SlotsOf(size)
  BY OneSlotMore
<1> HIDE DEF more
<1>3. Cardinality(more) = Cardinality(SlotsOf(size)) + 1
  BY <1>1, <1>2, FS_AddElement
<1> QED
  BY <1>3 DEF more

(* Which calls have won a slot, after a step of t.                           *)
LEMMA EvictedAfter ==
  ASSUME ThInv, NEW t \in Threads, NEW q, Set(t, q)
  PROVE  /\ Evicted' \subseteq Evicted \cup {t}
         /\ q.evicted = FALSE => Evicted' = Evicted \ {t}
         /\ q.evicted = th[t].evicted => Evicted' = Evicted
<1>1. th' = [u \in Threads |-> IF u = t THEN q ELSE th[u]]
  BY DEF Set, ThInv
<1> QED
  BY <1>1 DEF Evicted

(* How a step moves slots: not, out of a class, or into one.                 *)
NoSlotMoves == cacheSize' = cacheSize /\ Evicted' \subseteq Evicted
SlotLeaves(t) ==
  \E c \in Classes : /\ cacheSize[c] # 0
                     /\ cacheSize' = [cacheSize EXCEPT ![c] = @ - 1]
                     /\ Evicted' \subseteq Evicted \cup {t}
SlotComes(t) ==
  \E c \in Classes : /\ cacheSize' = [cacheSize EXCEPT ![c] = @ + 1]
                     /\ t \in Evicted /\ Evicted' = Evicted \ {t}

LEMMA NoSlotMovesIf ==
  ASSUME ThInv, NEW t \in Threads, UNCHANGED cacheSize,
         \/ UNCHANGED th
         \/ \E q : Set(t, q) /\ (q.evicted = FALSE \/ q.evicted = th[t].evicted)
  PROVE  NoSlotMoves
<1>1. CASE UNCHANGED th
  BY <1>1 DEF NoSlotMoves, Evicted
<1>2. CASE \E q : Set(t, q) /\ (q.evicted = FALSE \/ q.evicted = th[t].evicted)
  <2>1. PICK q : Set(t, q) /\ (q.evicted = FALSE \/ q.evicted = th[t].evicted)
    BY <1>2
  <2>2. /\ q.evicted = FALSE => Evicted' = Evicted \ {t}
        /\ q.evicted = th[t].evicted => Evicted' = Evicted
    BY <2>1, EvictedAfter
  <2> QED
    BY <2>1, <2>2 DEF NoSlotMoves
<1> QED
  BY <1>1, <1>2

LEMMA IdleHasNoSlot == Idle.evicted = FALSE
  BY DEF Idle

LEMMA ReleasingKeepsSlot ==
  ASSUME NEW r, CallInv(r)
  PROVE  Releasing(r).evicted = r.evicted
<1>1. DOMAIN r = Fields
  BY DEF CallInv, IsCall
<1> QED
  BY <1>1 DEF Releasing, Fields

LEMMA CallsMoveNoSlots ==
  ASSUME CfInv, NEW t \in Threads, InsertRange(t) \/ RemoveRange(t)
  PROVE  NoSlotMoves
<1>1. CASE InsertRange(t)
  <2>1. PICK c \in Classes : \E range \in SUBSET (app \cap ObjectsOf(c)) :
          InsertInSlot(t, c, range) \/ InsertElsewhere(t, c, range)
    BY <1>1 DEF InsertRange
  <2>2. PICK range \in SUBSET Objects :
          InsertInSlot(t, c, range) \/ InsertElsewhere(t, c, range)
    BY <2>1 DEF ObjectsOf
  <2>3. CASE InsertInSlot(t, c, range)
    BY <2>3, NoSlotMovesIf DEF InsertInSlot, CfInv
  <2>4. CASE InsertElsewhere(t, c, range)
    <3> DEFINE r == [Idle EXCEPT !.cl = c, !.range = range]
    <3>1. CallInv(r) /\ r.evicted = FALSE /\ DOMAIN r = Fields
      BY <2>2, IdleIsCall, IdleHasNoSlot DEF CallInv, IsCall, Fields
    <3>2. UNCHANGED cacheSize /\ \E q : Set(t, q) /\ q \in {[r EXCEPT !.pc = "evict"], Releasing(r)}
      BY <2>4 DEF InsertElsewhere, cache
    <3> HIDE DEF r
    <3>3. [r EXCEPT !.pc = "evict"].evicted = FALSE /\ Releasing(r).evicted = FALSE
      BY <3>1, ReleasingKeepsSlot DEF Fields
    <3>4. \E q : Set(t, q) /\ q.evicted = FALSE
      BY <3>2, <3>3
    <3> QED
      BY <3>2, <3>4, NoSlotMovesIf DEF CfInv
  <2> QED
    BY <2>2, <2>3, <2>4
<1>2. CASE RemoveRange(t)
  <2>1. PICK c \in Classes, n \in Nat : RemoveFromSlot(c, n) \/ RemoveFromSpans(t, c, n)
    BY <1>2, CentralAssumption DEF RemoveRange
  <2>2. UNCHANGED cacheSize
    BY <1>2 DEF RemoveRange
  <2> DEFINE q == [Idle EXCEPT !.pc = "populate", !.cl = c, !.n = n]
  <2>3. q.evicted = FALSE
    BY IdleIsCall, IdleHasNoSlot DEF Fields
  <2>4. UNCHANGED th \/ Set(t, q)
    BY <2>1 DEF RemoveFromSlot, RemoveFromSpans
  <2> HIDE DEF q
  <2> QED
    BY <2>2, <2>3, <2>4, NoSlotMovesIf DEF CfInv
<1> QED
  BY <1>1, <1>2

LEMMA OtherStepsMoveNoSlots ==
  ASSUME CfInv, NEW t \in Threads,
         \/ Evict(t) \/ ReleaseToSpans(t) \/ DeleteSpan(t) \/ LockAfterDelete(t)
         \/ Released(t) \/ NewSpan(t) \/ Populated(t)
  PROVE  NoSlotMoves
<1> DEFINE r == th[t]
<1>1. ThInv /\ CallInv(r) /\ DOMAIN r = Fields
  BY DEF CfInv, ThInv, CallInv, IsCall
<1>2. UNCHANGED cacheSize
  BY DEF Evict, ReleaseToSpans, DeleteSpan, LockAfterDelete, Released, NewSpan, Populated, cache
<1>3. SUFFICES \E q : Set(t, q) /\ (q.evicted = FALSE \/ q.evicted = r.evicted)
  BY <1>1, <1>2, NoSlotMovesIf
<1>4. CASE Evict(t)
  <2> DEFINE again == [r EXCEPT !.force = TRUE]
             shrink(v) == [r EXCEPT !.pc = "shrink", !.at = v]
  <2>1. \/ Set(t, again) \/ Set(t, Releasing(r))
        \/ \E v : Set(t, shrink(v))
    BY <1>4 DEF Evict
  <2>2. Releasing(r).evicted = r.evicted /\ again.evicted = r.evicted
    BY <1>1, ReleasingKeepsSlot DEF Fields
  <2>3. \A v : shrink(v).evicted = r.evicted
    BY <1>1 DEF Fields
  <2> HIDE DEF r, again, shrink
  <2> QED
    BY <2>1, <2>2, <2>3
<1>5. CASE ReleaseToSpans(t)
  <2> DEFINE rest(o) == [r EXCEPT !.list = @ \ {o}]
             delete(o) == [rest(o) EXCEPT !.pc = "delete", !.span = o[1]]
  <2>1. \E o : Set(t, rest(o)) \/ Set(t, delete(o))
    BY <1>5 DEF ReleaseToSpans
  <2>2. \A o : rest(o).evicted = r.evicted /\ delete(o).evicted = r.evicted
    BY <1>1 DEF Fields
  <2> HIDE DEF r, rest, delete
  <2> QED
    BY <2>1, <2>2
<1>6. CASE DeleteSpan(t) \/ LockAfterDelete(t) \/ NewSpan(t)
  <2> DEFINE at(pc) == [r EXCEPT !.pc = pc]
             with(pc, sp) == [r EXCEPT !.pc = pc, !.span = sp]
  <2>1. (\E pc : Set(t, at(pc))) \/ (\E pc, sp : Set(t, with(pc, sp)))
    BY <1>6 DEF DeleteSpan, LockAfterDelete, NewSpan
  <2>2. /\ \A pc : at(pc).evicted = r.evicted
        /\ \A pc, sp : with(pc, sp).evicted = r.evicted
    BY <1>1 DEF Fields
  <2> HIDE DEF r, at, with
  <2> QED
    BY <2>1, <2>2
<1>7. CASE Released(t)
  <2>1. PICK q : Set(t, q) /\ q \in {Idle, [r EXCEPT !.pc = "relock"]}
    BY <1>7 DEF Released
  <2> HIDE DEF r
  <2> QED
    BY <1>1, <2>1, IdleHasNoSlot DEF Fields
<1>8. CASE Populated(t)
  BY <1>8, IdleHasNoSlot DEF Populated
<1> QED
  BY <1>4, <1>5, <1>6, <1>7, <1>8

LEMMA ShrinkTakesOne ==
  ASSUME CfInv, NEW t \in Threads, Shrink(t)
  PROVE  NoSlotMoves \/ SlotLeaves(t)
<1> DEFINE r == th[t]
           v == r.at
<1>1. ThInv /\ DOMAIN r = Fields /\ v \in Classes
  BY DEF CfInv, ThInv, CallInv, IsCall
<1>2. PICK q : Set(t, q)
  BY DEF Shrink
<1>3. CASE Set(t, [r EXCEPT !.pc = "relock", !.evicted = FALSE]) /\ UNCHANGED cache
  <2>1. [r EXCEPT !.pc = "relock", !.evicted = FALSE].evicted = FALSE
    BY <1>1 DEF Fields
  <2> QED
    BY <1>1, <1>3, <2>1, NoSlotMovesIf DEF cache
<1>4. CASE cacheSize[v] # 0 /\ cacheSize' = [cacheSize EXCEPT ![v] = @ - 1]
  BY <1>1, <1>2, <1>4, EvictedAfter DEF SlotLeaves
<1> QED
  BY <1>3, <1>4, <1>1 DEF Shrink, Fields

LEMMA RelockAddsOne ==
  ASSUME CfInv, NEW t \in Threads, Relock(t)
  PROVE  NoSlotMoves \/ SlotComes(t)
<1> DEFINE r == th[t]
           c == r.cl
           e == [r EXCEPT !.pc = "evict", !.force = TRUE]
<1>1. ThInv /\ CallInv(r) /\ DOMAIN r = Fields /\ c \in Classes
  BY DEF CfInv, ThInv, CallInv, IsCall
<1>2. CASE r.evicted /\ cacheSize' = [cacheSize EXCEPT ![c] = @ + 1] /\ Set(t, Idle)
  <2>1. t \in Evicted
    BY <1>2 DEF Evicted
  <2>2. Evicted' = Evicted \ {t}
    BY <1>1, <1>2, EvictedAfter, IdleHasNoSlot
  <2> HIDE DEF r
  <2> QED
    BY <1>1, <1>2, <2>1, <2>2 DEF SlotComes
<1>3. CASE Set(t, IF r.evicted \/ r.force THEN Releasing(r) ELSE e) /\ UNCHANGED cache
  <2>1. PICK q : Set(t, q) /\ q \in {e, Releasing(r)}
    BY <1>3
  <2>2. q.evicted = r.evicted
    <3> HIDE DEF r
    <3> QED
      BY <1>1, <2>1, ReleasingKeepsSlot DEF Fields
  <2> QED
    BY <1>1, <1>3, <2>1, <2>2, NoSlotMovesIf DEF cache
<1> QED
  BY <1>2, <1>3 DEF Relock

LEMMA InitSlotsBound == CfInit => SlotsBound
<1> SUFFICES ASSUME CfInit
             PROVE  SlotsBound
  OBVIOUS
<1>1. Evicted = {}
  BY IdleHasNoSlot DEF CfInit, Evicted
<1>2. cacheSize = InitialCache /\ IsFiniteSet(SlotsOf(InitialCache))
  BY SlotsAreFinite, CentralAssumption DEF CfInit
<1>3. Cardinality(SlotsOf(InitialCache)) \in Nat /\ Cardinality(Evicted) = 0
  BY <1>1, <1>2, FS_CardinalityType, FS_EmptySet
<1> QED
  BY <1>2, <1>3 DEF SlotsBound, SlotsAreNotMade

LEMMA NextSlotsBound ==
  ASSUME CfInv, CfInv', SlotsBound, [CfNext]_cfVars
  PROVE  SlotsBound'
<1> DEFINE n == Cardinality(SlotsOf(cacheSize))
           m == Cardinality(SlotsOf(cacheSize'))
           k == Cardinality(Evicted)
           j == Cardinality(Evicted')
           limit == Cardinality(SlotsOf(InitialCache))
<1>1. cacheSize \in [Classes -> Nat] /\ cacheSize' \in [Classes -> Nat]
  BY DEF CfInv, SlotsInv
<1>2. IsFiniteSet(SlotsOf(cacheSize)) /\ IsFiniteSet(SlotsOf(cacheSize'))
  BY <1>1, SlotsAreFinite
<1>3. IsFiniteSet(Evicted) /\ IsFiniteSet(Evicted')
  BY FiniteAssumption, FS_Subset DEF Evicted
<1>4. /\ n \in Nat /\ m \in Nat /\ k \in Nat /\ j \in Nat /\ limit \in Nat
  BY <1>2, <1>3, FS_CardinalityType, SlotsAreFinite, CentralAssumption
<1>5. n + k <= limit
  BY DEF SlotsBound, SlotsAreNotMade
<1>6. ASSUME NoSlotMoves
      PROVE  m = n /\ j <= k
  BY <1>6, <1>3, FS_Subset DEF NoSlotMoves
<1>7. ASSUME NEW t \in Threads, SlotLeaves(t)
      PROVE  m = n - 1 /\ j <= k + 1
  <2>1. PICK c \in Classes : /\ cacheSize[c] # 0
                             /\ cacheSize' = [cacheSize EXCEPT ![c] = @ - 1]
                             /\ Evicted' \subseteq Evicted \cup {t}
    BY <1>7 DEF SlotLeaves
  <2>2. cacheSize = [cacheSize' EXCEPT ![c] = @ + 1]
    <3>1. \A d \in Classes :
            cacheSize'[d] = IF d = c THEN cacheSize[d] - 1 ELSE cacheSize[d]
      BY <1>1, <2>1
    <3>2. \A d \in Classes :
            [cacheSize' EXCEPT ![c] = @ + 1][d] =
              IF d = c THEN cacheSize'[d] + 1 ELSE cacheSize'[d]
      BY <1>1
    <3>3. \A d \in Classes : cacheSize[d] \in Nat
      BY <1>1
    <3>4. \A d \in Classes : [cacheSize' EXCEPT ![c] = @ + 1][d] = cacheSize[d]
      BY <3>1, <3>2, <3>3
    <3> QED
      BY <1>1, <3>4
  <2>3. n = m + 1
    BY <1>1, <2>2, SlotsCounted
  <2>4. IsFiniteSet(Evicted \cup {t}) /\ Cardinality(Evicted \cup {t}) \in {k, k + 1}
    BY <1>3, FS_AddElement
  <2>5. j <= Cardinality(Evicted \cup {t}) /\ Cardinality(Evicted \cup {t}) \in Nat
    BY <2>1, <2>4, FS_Subset, FS_CardinalityType
  <2> HIDE DEF n, m, k, j
  <2> QED
    BY <1>4, <2>3, <2>4, <2>5
<1>8. ASSUME NEW t \in Threads, SlotComes(t)
      PROVE  m = n + 1 /\ j = k - 1
  <2>1. PICK c \in Classes : /\ cacheSize' = [cacheSize EXCEPT ![c] = @ + 1]
                             /\ t \in Evicted /\ Evicted' = Evicted \ {t}
    BY <1>8 DEF SlotComes
  <2>2. m = n + 1
    BY <1>1, <2>1, SlotsCounted
  <2>3. j = k - 1
    BY <1>3, <2>1, FS_RemoveElement
  <2> QED
    BY <2>2, <2>3
<1>9. ASSUME UNCHANGED cfVars
      PROVE  NoSlotMoves
  BY <1>9 DEF NoSlotMoves, Evicted, cfVars, cache
<1>10. NoSlotMoves \/ \E t \in Threads : SlotLeaves(t) \/ SlotComes(t)
  BY <1>9, CallsMoveNoSlots, OtherStepsMoveNoSlots, ShrinkTakesOne, RelockAddsOne
     DEF CfNext, Step
<1>11. m + j <= limit
  <2> HIDE DEF n, m, k, j, limit
  <2> QED
    BY <1>4, <1>5, <1>6, <1>7, <1>8, <1>10
<1> QED
  BY <1>2, <1>11 DEF SlotsBound, SlotsAreNotMade

(* However calls of any classes interleave, the slots of all classes and     *)
(* those on their way between two are never more than at the start.          *)
THEOREM SlotsNeverMade == CfSpec => []SlotsAreNotMade
<1>1. CfInit => SlotsBound
  BY InitSlotsBound
<1>2. CfInv /\ CfInv' /\ SlotsBound /\ [CfNext]_cfVars => SlotsBound'
  BY NextSlotsBound
<1>3. SlotsBound => SlotsAreNotMade
  BY DEF SlotsBound
<1> QED
  BY <1>1, <1>2, <1>3, CfInvariant, PTL DEF CfSpec

---------------------------------------------------------------------------
(* Conservation: every object of the central free lists is in exactly one    *)
(* place, a slot keeps a whole range of its class, and the counters and      *)
(* reference counts are what the lists hold.  The counts are what makes      *)
(* conservation true: a span goes back to the page heap when its count says  *)
(* that no object of it is out, whatever is said about it in slots, in lists *)
(* half released, and in thread caches.                                      *)

(* The places that objects can be in: a slot of a class, what a call has, and *)
(* the two that all share.                                                   *)
SlotHas(c, i, o) == i \in 1..Used(c) /\ o \in slots[c][i]

Holds(k, x, i, o) ==
  \/ k = "slot" /\ x \in Classes /\ SlotHas(x, i, o)
  \/ k = "range" /\ x \in Threads /\ i = 0 /\ o \in th[x].range
  \/ k = "list" /\ x \in Threads /\ i = 0 /\ o \in th[x].list
  \/ k = "app" /\ x = NoThread /\ i = 0 /\ o \in app
  \/ k = "free" /\ x = NoThread /\ i = 0 /\ o \in free

ObjectsOnce ==
  \A o \in Objects :
    /\ \A k, x, i, l, y, j : Holds(k, x, i, o) /\ Holds(l, y, j, o) => k = l /\ x = y /\ i = j
    /\ InUse(o[1]) <=> \E k, x, i : Holds(k, x, i, o)

(* ... and spans.                                                            *)
Owns(k, x, sp) ==
  \/ k = "class" /\ x \in Classes /\ sp \in spans[x]
  \/ k = "heap" /\ x = NoThread /\ sp \in heap
  \/ k = "call" /\ x \in Threads /\ th[x].span = sp

SpansOnce ==
  \A sp \in Spans :
    /\ \A k, x, l, y : Owns(k, x, sp) /\ Owns(l, y, sp) => k = l /\ x = y
    /\ \E k, x : Owns(k, x, sp)

(* What a call has is of the class it is for, or busy with; the range to be  *)
(* inserted stays whole while the call looks for a slot.                     *)
WholeCall(r) ==
  /\ r.range \subseteq ObjectsOf(r.cl) /\ r.list \subseteq ObjectsOf(r.at)
  /\ r.range # {} => Cardinality(r.range) = Batch[r.cl]
  /\ r.pc \in {"idle", "populate", "populated"} => r.range = {} /\ r.list = {}
  /\ r.pc \in {"evict", "shrink", "relock"} => r.range # {} /\ r.list = {}
  /\ r.span \in Spans \cup {NoSpan}
  /\ r.pc = "delete" => r.span # NoSpan
  /\ r.pc \notin {"delete", "populated"} => r.span = NoSpan

CallsWhole == \A t \in Threads : WholeCall(th[t])

SlotsWhole ==
  \A c \in Classes : \A i \in 1..Used(c) :
    slots[c][i] \subseteq ObjectsOf(c) /\ Cardinality(slots[c][i]) = Batch[c]

ListsInv ==
  /\ spans \in [Classes -> SUBSET Spans] /\ \A c \in Classes : IsFiniteSet(spans[c])
  /\ free \subseteq Objects /\ app \subseteq Objects /\ IsFiniteSet(app)
  /\ heap \subseteq Spans

(* The counters, and a span that is in no list has none of its objects out.  *)
CountsInv ==
  /\ counter = [c \in Classes |-> Cardinality(free \cap ObjectsOf(c))]
  /\ numSpans = [c \in Classes |-> Cardinality(spans[c])]
  /\ refcount = [sp \in Spans |->
       IF InUse(sp) THEN ObjectsPerSpan - Cardinality(free \cap Of(sp)) ELSE 0]

FlInv ==
  CfInv /\ ListsInv /\ ObjectsOnce /\ SpansOnce /\ CallsWhole /\ SlotsWhole /\ CountsInv

---------------------------------------------------------------------------
(* The objects of a span, and of a class.                                    *)
LEMMA OfSpan ==
  ASSUME NEW sp \in Spans
  PROVE  /\ IsFiniteSet(Of(sp)) /\ Cardinality(Of(sp)) = ObjectsPerSpan
         /\ Of(sp) = {o \in Objects : o[1] = sp}
<1>1. ObjectsPerSpan \in Nat \ {0}
  BY CentralAssumption
<1>2. /\ IsFiniteSet(1..ObjectsPerSpan) /\ Cardinality(1..ObjectsPerSpan) = ObjectsPerSpan
  BY <1>1, FS_Interval
<1>3. IsFiniteSet({sp}) /\ Cardinality({sp}) = 1
  BY FS_Singleton
<1>4. IsFiniteSet(Of(sp)) /\ Cardinality(Of(sp)) = 1 * ObjectsPerSpan
  BY <1>2, <1>3, FS_Product DEF Of
<1>5. Of(sp) = {o \in Objects : o[1] = sp}
  BY DEF Of, Objects
<1> QED
  BY <1>1, <1>4, <1>5

LEMMA ObjectIsOfSpan ==
  ASSUME NEW o \in Objects
  PROVE  o[1] \in Spans /\ o \in Of(o[1])
BY DEF Objects, Of

LEMMA ObjectsOfClass ==
  ASSUME ListsInv, NEW c \in Classes
  PROVE  IsFiniteSet(ObjectsOf(c)) /\ ObjectsOf(c) \subseteq Objects
<1>1. ObjectsPerSpan \in Nat \ {0} /\ spans[c] \subseteq Spans /\ IsFiniteSet(spans[c])
  BY CentralAssumption DEF ListsInv
<1>2. IsFiniteSet(1..ObjectsPerSpan)
  BY <1>1, FS_Interval
<1>3. IsFiniteSet(spans[c] \X (1..ObjectsPerSpan))
  BY <1>1, <1>2, FS_Product
<1>4. ObjectsOf(c) \subseteq spans[c] \X (1..ObjectsPerSpan)
  BY <1>1 DEF ObjectsOf, Objects
<1>5. IsFiniteSet(ObjectsOf(c))
  BY <1>3, <1>4, FS_Subset
<1> QED
  BY <1>5 DEF ObjectsOf

(* An object that goes to another place leaves the one it was in.            *)
Stays(o) == \A l, y, j : Holds(l, y, j, o)' <=> Holds(l, y, j, o)
GoesTo(o, k, x, i) == \A l, y, j : Holds(l, y, j, o)' <=> l = k /\ y = x /\ j = i

LEMMA Placed ==
  ASSUME ObjectsOnce,
         \A o \in Objects :
           \/ Stays(o) /\ (InUse(o[1])' <=> InUse(o[1]))
           \/ InUse(o[1])' /\ \E k, x, i : GoesTo(o, k, x, i)
  PROVE  ObjectsOnce'
<1> SUFFICES ASSUME NEW o \in Objects
             PROVE  /\ \A l, y, j, m, z, h :
                         Holds(l, y, j, o)' /\ Holds(m, z, h, o)' => l = m /\ y = z /\ j = h
                    /\ InUse(o[1])' <=> \E l, y, j : Holds(l, y, j, o)'
  BY DEF ObjectsOnce, Objects
<1>1. CASE Stays(o) /\ (InUse(o[1])' <=> InUse(o[1]))
  BY <1>1 DEF ObjectsOnce, Stays
<1>2. CASE InUse(o[1])' /\ \E k, x, i : GoesTo(o, k, x, i)
  BY <1>2 DEF GoesTo
<1> QED
  BY <1>1, <1>2

LEMMA Moved ==
  ASSUME ObjectsOnce, UNCHANGED spans,
         \A o \in Objects :
           Stays(o) \/ (InUse(o[1]) /\ \E k, x, i : GoesTo(o, k, x, i))
  PROVE  ObjectsOnce'
<1>1. \A sp : InUse(sp)' <=> InUse(sp)
  BY DEF InUse
<1> QED
  BY <1>1, Placed

LEMMA NothingMoved ==
  ASSUME ObjectsOnce, UNCHANGED spans,
         \A o \in Objects : Stays(o)
  PROVE  ObjectsOnce'
<1>1. \A sp : InUse(sp)' <=> InUse(sp)
  BY DEF InUse
<1> QED
  BY <1>1 DEF ObjectsOnce, Objects, Stays

---------------------------------------------------------------------------
LEMMA InitFlInv == CfInit => FlInv
<1> SUFFICES ASSUME CfInit
             PROVE  FlInv
  OBVIOUS
<1>1. CfInv
  BY InitCfInv
<1>2. /\ \A c \in Classes : spans[c] = {} /\ Used(c) = 0
      /\ free = {} /\ app = {} /\ heap = Spans
      /\ \A t \in Threads : th[t].range = {} /\ th[t].list = {} /\ th[t].span = NoSpan
                            /\ th[t].pc = "idle"
  BY DEF CfInit, Idle, Used
<1>3. ListsInv
  BY <1>2, FS_EmptySet DEF ListsInv, CfInit
<1>4. \A sp : ~InUse(sp)
  BY <1>2 DEF InUse
<1>5. ObjectsOnce
  BY <1>2, <1>4 DEF ObjectsOnce, Holds, SlotHas
<1>6. SpansOnce
  BY <1>2, CentralAssumption DEF SpansOnce, Owns
<1>7. CallsWhole
  BY <1>2 DEF CallsWhole, WholeCall
<1>8. SlotsWhole
  BY <1>2 DEF SlotsWhole
<1>9. CountsInv
  <2>1. \A c \in Classes : Cardinality(free \cap ObjectsOf(c)) = 0 /\ Cardinality(spans[c]) = 0
    BY <1>2, FS_EmptySet
  <2> QED
    BY <2>1, <1>4 DEF CountsInv, CfInit
<1> QED
  BY <1>1, <1>3, <1>5, <1>6, <1>7, <1>8, <1>9 DEF FlInv

---------------------------------------------------------------------------
(* What a step leaves as it is.                                              *)
LEMMA OneCall ==
  ASSUME ThInv, NEW t \in Threads, NEW q, Set(t, q)
  PROVE  \A u \in Threads : th'[u] = IF u = t THEN q ELSE th[u]
BY DEF Set, ThInv

LEMMA ListsKept ==
  ASSUME ListsInv, CountsInv, UNCHANGED lists, heap' \subseteq Spans,
         app' \subseteq Objects, IsFiniteSet(app')
  PROVE  (ListsInv /\ CountsInv)'
<1>1. UNCHANGED <<spans, free, refcount, numSpans, counter>>
  BY DEF lists
<1>2. (\A sp : InUse(sp)' <=> InUse(sp)) /\ (\A c : ObjectsOf(c)' = ObjectsOf(c))
  BY <1>1 DEF InUse, ObjectsOf, Objects
<1>3. ListsInv'
  BY <1>1 DEF ListsInv, Objects
<1>4. CountsInv'
  BY <1>1, <1>2 DEF CountsInv, Of
<1> QED
  BY <1>3, <1>4

LEMMA ListsStay ==
  ASSUME ListsInv, CountsInv, UNCHANGED <<lists, heap>>, app' \subseteq Objects, IsFiniteSet(app')
  PROVE  (ListsInv /\ CountsInv)'
<1>1. UNCHANGED lists /\ heap' \subseteq Spans
  BY DEF ListsInv
<1> QED
  BY <1>1, ListsKept

LEMMA SpansStay ==
  ASSUME SpansOnce, ThInv, UNCHANGED <<spans, heap>>, NEW t \in Threads, NEW q, Set(t, q),
         q.span = th[t].span
  PROVE  SpansOnce'
<1>1. \A u \in Threads : th'[u].span = th[u].span
  BY OneCall
<1>2. \A k, x, sp : Owns(k, x, sp)' <=> Owns(k, x, sp)
  BY <1>1 DEF Owns
<1> QED
  BY <1>2 DEF SpansOnce

LEMMA CallsStay ==
  ASSUME CallsWhole, ThInv, UNCHANGED spans, NEW t \in Threads, NEW q, Set(t, q), WholeCall(q)
  PROVE  CallsWhole'
<1>1. \A r : WholeCall(r)' <=> WholeCall(r)
  BY DEF WholeCall, ObjectsOf, Objects
<1> QED
  BY <1>1, OneCall DEF CallsWhole

LEMMA SlotsStay == SlotsWhole /\ UNCHANGED <<spans, slots>> => SlotsWhole'
  BY DEF SlotsWhole, Used, ObjectsOf, Objects

(* A range more or less in the slots of a class.                             *)
LEMMA Kept ==
  ASSUME SlotsInv, SlotsWhole, UNCHANGED spans, NEW c \in Classes, NEW range,
         range \subseteq ObjectsOf(c), Cardinality(range) = Batch[c], Keep(c, range)
  PROVE  /\ SlotsWhole'
         /\ \A d \in Classes : \A i, o : SlotHas(d, i, o)' <=>
              SlotHas(d, i, o) \/ (d = c /\ i = Used(c) + 1 /\ o \in range)
<1>1. slots \in [Classes -> Seq(SUBSET Objects)] /\ range \in SUBSET Objects
  BY DEF SlotsInv, ObjectsOf
<1>2. slots' = [slots EXCEPT ![c] = Append(slots[c], range)]
  BY DEF Keep
<1>3. ASSUME NEW d \in Classes
      PROVE  /\ Used(d)' = IF d = c THEN Used(c) + 1 ELSE Used(d)
             /\ \A i \in 1..Used(d)' :
                  slots'[d][i] = IF d = c /\ i = Used(c) + 1 THEN range ELSE slots[d][i]
  BY <1>1, <1>2 DEF Used
<1>4. \A d \in Classes : Used(d) \in Nat /\ ObjectsOf(d)' = ObjectsOf(d)
  BY <1>1 DEF Used, ObjectsOf, Objects
<1>5. SlotsWhole'
  BY <1>3, <1>4 DEF SlotsWhole
<1>6. \A d \in Classes : \A i, o : SlotHas(d, i, o)' <=>
        SlotHas(d, i, o) \/ (d = c /\ i = Used(c) + 1 /\ o \in range)
  BY <1>3, <1>4 DEF SlotHas
<1> QED
  BY <1>5, <1>6

LEMMA Popped ==
  ASSUME SlotsInv, SlotsWhole, UNCHANGED spans, NEW c \in Classes, slots[c] # <<>>,
         slots' = [slots EXCEPT ![c] = SubSeq(@, 1, Len(@) - 1)]
  PROVE  /\ SlotsWhole'
         /\ \A d \in Classes : \A i, o : SlotHas(d, i, o)' <=>
              SlotHas(d, i, o) /\ ~(d = c /\ i = Used(c))
         /\ Used(c) \in 1..Used(c)
<1>1. slots \in [Classes -> Seq(SUBSET Objects)]
  BY DEF SlotsInv
<1>2. Len(slots[c]) \in Nat \ {0}
  BY <1>1
<1>3. ASSUME NEW d \in Classes
      PROVE  /\ Used(d)' = IF d = c THEN Used(c) - 1 ELSE Used(d)
             /\ \A i \in 1..Used(d)' : slots'[d][i] = slots[d][i]
  BY <1>1, <1>2 DEF Used
<1>4. \A d \in Classes : Used(d) \in Nat /\ ObjectsOf(d)' = ObjectsOf(d)
  BY <1>1 DEF Used, ObjectsOf, Objects
<1>5. SlotsWhole'
  BY <1>2, <1>3, <1>4 DEF SlotsWhole, Used
<1>6. \A d \in Classes : \A i, o : SlotHas(d, i, o)' <=>
        SlotHas(d, i, o) /\ ~(d = c /\ i = Used(c))
  <2>1. Used(c) \in Nat \ {0}
    BY <1>2 DEF Used
  <2> SUFFICES ASSUME NEW d \in Classes, NEW i, NEW o
               PROVE  SlotHas(d, i, o)' <=> SlotHas(d, i, o) /\ ~(d = c /\ i = Used(c))
    OBVIOUS
  <2>2. i \in 1..Used(d)' <=> i \in 1..Used(d) /\ ~(d = c /\ i = Used(c))
    BY <2>1, <1>3, <1>4
  <2> QED
    BY <2>2, <1>3 DEF SlotHas
<1> QED
  BY <1>2, <1>5, <1>6 DEF Used

---------------------------------------------------------------------------
LEMMA UsedInClass ==
  ASSUME NEW c \in Classes, NEW o \in ObjectsOf(c)
  PROVE  o \in Objects /\ InUse(o[1])
BY DEF ObjectsOf, InUse

LEMMA ReleasingMoves ==
  ASSUME NEW r, DOMAIN r = Fields
  PROVE  /\ Releasing(r).range = {} /\ Releasing(r).list = r.range
         /\ Releasing(r).cl = r.cl /\ Releasing(r).at = r.cl
         /\ Releasing(r).pc = "release" /\ Releasing(r).span = r.span
BY DEF Releasing, Fields

LEMMA InsertConserves ==
  ASSUME FlInv, CfInv', NEW t \in Threads, InsertRange(t)
  PROVE  FlInv'
<1> USE DEF FlInv
<1>1. ThInv /\ LocksInv /\ SlotsInv /\ DOMAIN th[t] = Fields /\ th[t].pc = "idle"
  BY HeldLock DEF CfInv, InsertRange
<1>2. th[t].range = {} /\ th[t].list = {} /\ th[t].span = NoSpan
  BY <1>1 DEF CallsWhole, WholeCall
<1>3. PICK c \in Classes : \E range \in SUBSET (app \cap ObjectsOf(c)) :
        /\ Cardinality(range) \in 1..Batch[c]
        /\ InsertInSlot(t, c, range) \/ InsertElsewhere(t, c, range)
        /\ app' = app \ range
  BY DEF InsertRange
<1>4. PICK range \in SUBSET (app \cap ObjectsOf(c)) :
        /\ Cardinality(range) \in 1..Batch[c]
        /\ InsertInSlot(t, c, range) \/ InsertElsewhere(t, c, range)
        /\ app' = app \ range
  BY <1>3
<1>5. UNCHANGED <<lists, heap>> /\ UNCHANGED <<spans, free, heap>>
  BY DEF InsertRange, lists
<1>6. range # {}
  BY <1>4, FS_EmptySet
<1>7. (ListsInv /\ CountsInv)'
  <2>1. app' \subseteq Objects /\ IsFiniteSet(app')
    BY <1>4, FS_Difference DEF ListsInv
  <2> QED
    BY <1>5, <2>1, ListsStay
<1>8. \A o \in Objects : o \in range =>
        /\ InUse(o[1]) /\ Holds("app", NoThread, 0, o)
        /\ \A l, y, j : Holds(l, y, j, o) => l = "app" /\ y = NoThread /\ j = 0
  <2>1. ASSUME NEW o \in Objects, o \in range
        PROVE  InUse(o[1]) /\ Holds("app", NoThread, 0, o)
    BY <2>1, UsedInClass DEF Holds
  <2> QED
    BY <2>1 DEF ObjectsOnce
<1>9. CASE InsertInSlot(t, c, range)
  <2>1. UNCHANGED th /\ Keep(c, range) /\ Cardinality(range) = Batch[c]
    BY <1>9 DEF InsertInSlot
  <2>2. /\ SlotsWhole'
        /\ \A d \in Classes : \A i, o : SlotHas(d, i, o)' <=>
             SlotHas(d, i, o) \/ (d = c /\ i = Used(c) + 1 /\ o \in range)
    BY <1>1, <1>4, <1>5, <2>1, Kept
  <2>3. ASSUME NEW o \in Objects, o \in range
        PROVE  GoesTo(o, "slot", c, Used(c) + 1)
    BY <1>4, <1>5, <1>8, <2>1, <2>2, <2>3 DEF Holds, GoesTo
  <2>4. ASSUME NEW o \in Objects, o \notin range
        PROVE  Stays(o)
    BY <1>4, <1>5, <2>1, <2>2, <2>4 DEF Holds, Stays
  <2>6. ObjectsOnce'
    BY <1>5, <1>8, <2>3, <2>4, Moved
  <2>5. SpansOnce' /\ CallsWhole'
    BY <1>5, <2>1 DEF SpansOnce, Owns, CallsWhole, WholeCall, ObjectsOf, Objects
  <2> QED
    BY <1>7, <2>2, <2>5, <2>6
<1>10. CASE InsertElsewhere(t, c, range)
  <2> DEFINE r == [Idle EXCEPT !.cl = c, !.range = range]
             e == [r EXCEPT !.pc = "evict"]
  <2>1. /\ r.range = range /\ r.list = {} /\ r.cl = c /\ r.span = NoSpan /\ DOMAIN r = Fields
        /\ e.range = range /\ e.list = {} /\ e.cl = c /\ e.span = NoSpan /\ e.pc = "evict"
        /\ Releasing(r).range = {} /\ Releasing(r).list = range /\ Releasing(r).at = c
        /\ Releasing(r).span = NoSpan /\ Releasing(r).pc = "release"
    <3>1. /\ r.range = range /\ r.list = {} /\ r.cl = c /\ r.span = NoSpan /\ DOMAIN r = Fields
          /\ e.range = range /\ e.list = {} /\ e.cl = c /\ e.span = NoSpan /\ e.pc = "evict"
      BY DEF Idle, Fields
    <3> HIDE DEF r, e
    <3> QED
      BY <3>1, ReleasingMoves
  <2>2. PICK q : /\ Set(t, q) /\ UNCHANGED cache
                 /\ (q = e /\ Cardinality(range) = Batch[c]) \/ q = Releasing(r)
    BY <1>10 DEF InsertElsewhere
  <2> HIDE DEF r, e
  <2>3. WholeCall(q) /\ q.span = NoSpan
    BY <1>4, <1>6, <2>1, <2>2 DEF WholeCall
  <2>4. SpansOnce' /\ CallsWhole' /\ SlotsWhole'
    BY <1>1, <1>2, <1>5, <2>2, <2>3, SpansStay, CallsStay, SlotsStay DEF cache
  <2>5. PICK k \in {"range", "list"} :
          /\ k = "range" => q.range = range /\ q.list = {}
          /\ k = "list" => q.range = {} /\ q.list = range
    BY <2>1, <2>2
  <2>6. /\ \A u \in Threads : th'[u] = IF u = t THEN q ELSE th[u]
        /\ \A d, i, o : SlotHas(d, i, o)' <=> SlotHas(d, i, o)
    BY <1>1, <2>2, OneCall DEF cache, SlotHas, Used
  <2>7. ASSUME NEW o \in Objects, o \in range
        PROVE  GoesTo(o, k, t, 0)
    BY <1>4, <1>5, <1>8, <2>5, <2>6, <2>7 DEF Holds, GoesTo
  <2>8. ASSUME NEW o \in Objects, o \notin range
        PROVE  Stays(o)
    BY <1>2, <1>4, <1>5, <2>5, <2>6, <2>8 DEF Holds, Stays
  <2>9. ObjectsOnce'
    BY <1>5, <1>8, <2>7, <2>8, Moved
  <2> QED
    BY <1>7, <2>4, <2>9
<1> QED
  BY <1>4, <1>9, <1>10

---------------------------------------------------------------------------
(* A step that only changes the call: what it has stays its, or the range is *)
(* now to be released.                                                       *)
LEMMA CallGoesOn ==
  ASSUME FlInv, CfInv', NEW t \in Threads, NEW q, Set(t, q), WholeCall(q),
         q.span = th[t].span, UNCHANGED <<lists, slots, heap, app>>,
         \/ q.range = th[t].range /\ q.list = th[t].list
         \/ q.range = {} /\ q.list = th[t].range /\ th[t].list = {}
  PROVE  FlInv'
<1> USE DEF FlInv
<1>1. ThInv /\ UNCHANGED <<spans, free, slots, heap, app>>
  BY DEF CfInv, lists
<1>2. (ListsInv /\ CountsInv)'
  BY ListsStay DEF ListsInv
<1>3. SpansOnce' /\ CallsWhole' /\ SlotsWhole'
  BY <1>1, SpansStay, CallsStay, SlotsStay
<1>4. /\ \A u \in Threads : th'[u] = IF u = t THEN q ELSE th[u]
      /\ \A d, i, o : SlotHas(d, i, o)' <=> SlotHas(d, i, o)
  BY <1>1, OneCall DEF SlotHas, Used
<1>5. ObjectsOnce'
  <2>1. CASE q.range = th[t].range /\ q.list = th[t].list
    <3>1. \A o : Stays(o)
      BY <1>1, <1>4, <2>1 DEF Stays, Holds
    <3> QED
      BY <1>1, <3>1, NothingMoved
  <2>2. CASE q.range = {} /\ q.list = th[t].range /\ th[t].list = {}
    <3>1. ASSUME NEW o \in Objects, o \in th[t].range
          PROVE  InUse(o[1]) /\ GoesTo(o, "list", t, 0)
      <4>1. Holds("range", t, 0, o)
        BY <3>1 DEF Holds
      <4>2. \A l, y, j : Holds(l, y, j, o) => l = "range" /\ y = t /\ j = 0
        BY <4>1 DEF ObjectsOnce
      <4>3. GoesTo(o, "list", t, 0)
        BY <1>1, <1>4, <2>2, <3>1, <4>2 DEF GoesTo, Holds
      <4> QED
        BY <4>1, <4>3 DEF ObjectsOnce
    <3>2. ASSUME NEW o \in Objects, o \notin th[t].range
          PROVE  Stays(o)
      BY <1>1, <1>4, <2>2, <3>2 DEF Stays, Holds
    <3> QED
      BY <1>1, <3>1, <3>2, Moved
  <2> QED
    BY <2>1, <2>2
<1> QED
  BY <1>2, <1>3, <1>5

LEMMA CallFacts ==
  ASSUME FlInv, NEW t \in Threads
  PROVE  /\ ThInv /\ SlotsInv /\ DOMAIN th[t] = Fields /\ WholeCall(th[t])
         /\ th[t].cl \in Classes /\ th[t].at \in Classes
BY HeldLock DEF FlInv, CfInv, CallsWhole, CallInv

LEMMA EvictConserves ==
  ASSUME FlInv, CfInv', NEW t \in Threads, Evict(t)
  PROVE  FlInv'
<1> DEFINE r == th[t]
           e == [r EXCEPT !.force = TRUE]
           s(v) == [r EXCEPT !.pc = "shrink", !.at = v]
<1>1. DOMAIN r = Fields /\ WholeCall(r) /\ r.pc = "evict"
  BY CallFacts DEF Evict
<1>2. r.range # {} /\ r.list = {} /\ r.span = NoSpan
  BY <1>1 DEF WholeCall
<1>3. PICK v, q : v \in Classes /\ Set(t, q) /\ q \in {e, s(v), Releasing(r)}
  BY DEF Evict
<1>4. CASE q = e
  <2>1. /\ e.range = r.range /\ e.list = r.list /\ e.span = r.span /\ e.pc = r.pc
        /\ e.cl = r.cl /\ e.at = r.at
    BY <1>1 DEF Fields
  <2>2. WholeCall(e)
    BY <1>1, <2>1 DEF WholeCall
  <2> QED
    BY <1>3, <1>4, <2>1, <2>2, CallGoesOn DEF Evict, cache
<1>5. CASE q = s(v)
  <2>1. /\ q.range = r.range /\ q.list = {} /\ q.span = r.span /\ q.pc = "shrink"
        /\ q.cl = r.cl
    BY <1>1, <1>2, <1>5 DEF Fields
  <2>2. WholeCall(q)
    BY <1>1, <1>2, <2>1 DEF WholeCall
  <2> QED
    BY <1>2, <1>3, <2>1, <2>2, CallGoesOn DEF Evict, cache
<1>6. CASE q = Releasing(r)
  <2>1. /\ q.range = {} /\ q.list = r.range /\ q.span = r.span /\ q.pc = "release"
        /\ q.cl = r.cl /\ q.at = r.cl
    BY <1>1, <1>6, ReleasingMoves
  <2>2. WholeCall(q)
    BY <1>1, <1>2, <2>1 DEF WholeCall
  <2> QED
    BY <1>2, <1>3, <2>1, <2>2, CallGoesOn DEF Evict, cache
<1> QED
  BY <1>3, <1>4, <1>5, <1>6

LEMMA ReleasedConserves ==
  ASSUME FlInv, CfInv', NEW t \in Threads, Released(t) \/ LockAfterDelete(t)
  PROVE  FlInv'
<1> DEFINE r == th[t]
<1>1. DOMAIN r = Fields /\ WholeCall(r) /\ r.pc \in {"release", "deleted"}
  BY CallFacts DEF Released, LockAfterDelete
<1>2. r.span = NoSpan
  BY <1>1 DEF WholeCall
<1>3. \A pc : /\ [r EXCEPT !.pc = pc].range = r.range /\ [r EXCEPT !.pc = pc].list = r.list
              /\ [r EXCEPT !.pc = pc].cl = r.cl /\ [r EXCEPT !.pc = pc].at = r.at
              /\ [r EXCEPT !.pc = pc].span = NoSpan /\ [r EXCEPT !.pc = pc].pc = pc
  BY <1>1, <1>2 DEF Fields
<1>4. CASE LockAfterDelete(t)
  <2> DEFINE q == [r EXCEPT !.pc = "release"]
  <2>1. WholeCall(q)
    BY <1>1, <1>3 DEF WholeCall
  <2>2. /\ Set(t, q) /\ q.range = r.range /\ q.list = r.list /\ q.span = r.span
        /\ UNCHANGED <<lists, slots, heap, app>>
    BY <1>2, <1>3, <1>4 DEF LockAfterDelete, cache
  <2> HIDE DEF q
  <2> QED
    BY <2>1, <2>2, CallGoesOn
<1>5. CASE Released(t) /\ r.range = {}
  <2>1. /\ Idle.range = {} /\ Idle.list = {} /\ Idle.span = NoSpan /\ Idle.pc = "idle"
        /\ r.list = {}
    BY <1>5 DEF Idle, Released
  <2>2. WholeCall(Idle)
    BY <2>1 DEF WholeCall
  <2>3. Set(t, Idle) /\ UNCHANGED <<lists, slots, heap, app>>
    BY <1>5 DEF Released, cache
  <2> QED
    BY <1>2, <1>5, <2>1, <2>2, <2>3, CallGoesOn
<1>6. CASE Released(t) /\ r.range # {}
  <2> DEFINE q == [r EXCEPT !.pc = "relock"]
  <2>1. WholeCall(q)
    BY <1>1, <1>3, <1>6 DEF WholeCall, Released
  <2>2. /\ Set(t, q) /\ q.range = r.range /\ q.list = r.list /\ q.span = r.span
        /\ UNCHANGED <<lists, slots, heap, app>>
    BY <1>2, <1>3, <1>6 DEF Released, cache
  <2> HIDE DEF q
  <2> QED
    BY <2>1, <2>2, CallGoesOn
<1> QED
  BY <1>4, <1>5, <1>6

---------------------------------------------------------------------------
LEMMA ShrinkConserves ==
  ASSUME FlInv, CfInv', NEW t \in Threads, Shrink(t)
  PROVE  FlInv'
<1> DEFINE r == th[t]
           v == r.at
           e(b) == [[r EXCEPT !.pc = "relock"] EXCEPT !.evicted = b]
           s == [r EXCEPT !.pc = "release", !.evicted = TRUE, !.list = slots[v][Used(v)]]
<1>1. DOMAIN r = Fields /\ WholeCall(r) /\ r.pc = "shrink" /\ ThInv /\ SlotsInv /\ v \in Classes
  BY CallFacts DEF Shrink
<1>2. r.range # {} /\ r.list = {} /\ r.span = NoSpan
  BY <1>1 DEF WholeCall
<1>3. UNCHANGED <<lists, heap, app>> /\ UNCHANGED <<spans, free, heap, app>>
  BY DEF Shrink, lists
<1>4. CASE UNCHANGED slots /\ \E b \in BOOLEAN : Set(t, e(b))
  <2>1. PICK b \in BOOLEAN : Set(t, e(b))
    BY <1>4
  <2>2. /\ e(b).range = r.range /\ e(b).list = r.list /\ e(b).span = r.span
        /\ e(b).cl = r.cl /\ e(b).at = r.at /\ e(b).pc = "relock"
    BY <1>1 DEF Fields
  <2>3. WholeCall(e(b))
    BY <1>1, <1>2, <2>2 DEF WholeCall
  <2> HIDE DEF e, r
  <2> QED
    BY <1>3, <1>4, <2>1, <2>2, <2>3, CallGoesOn DEF r
<1>5. CASE /\ cacheSize[v] # 0 /\ Used(v) = cacheSize[v]
           /\ slots' = [slots EXCEPT ![v] = SubSeq(@, 1, Len(@) - 1)]
           /\ Set(t, s)
  <2>1. slots[v] # <<>>
    BY <1>1, <1>5 DEF SlotsInv, Used
  <2>2. /\ SlotsWhole'
        /\ \A d \in Classes : \A i, o : SlotHas(d, i, o)' <=>
             SlotHas(d, i, o) /\ ~(d = v /\ i = Used(v))
        /\ Used(v) \in 1..Used(v)
    BY <1>1, <1>3, <1>5, <2>1, Popped DEF FlInv
  <2>3. /\ s.range = r.range /\ s.list = slots[v][Used(v)] /\ s.span = r.span
        /\ s.cl = r.cl /\ s.at = v /\ s.pc = "release"
    BY <1>1 DEF Fields
  <2>4. WholeCall(s)
    BY <1>1, <1>2, <2>2, <2>3 DEF WholeCall, FlInv, SlotsWhole
  <2> HIDE DEF s
  <2>5. SpansOnce' /\ CallsWhole'
    BY <1>1, <1>3, <1>5, <2>3, <2>4, SpansStay, CallsStay DEF FlInv
  <2>6. (ListsInv /\ CountsInv)'
    BY <1>3, ListsStay DEF FlInv, ListsInv
  <2>7. \A u \in Threads : th'[u] = IF u = t THEN s ELSE th[u]
    BY <1>1, <1>5, OneCall
  <2>8. ASSUME NEW o \in Objects, o \in slots[v][Used(v)]
        PROVE  InUse(o[1]) /\ GoesTo(o, "list", t, 0)
    <3>1. Holds("slot", v, Used(v), o)
      BY <1>1, <2>2, <2>8 DEF Holds, SlotHas
    <3>2. \A l, y, j : Holds(l, y, j, o) => l = "slot" /\ y = v /\ j = Used(v)
      BY <3>1 DEF ObjectsOnce, FlInv
    <3>3. GoesTo(o, "list", t, 0)
      BY <1>3, <2>2, <2>3, <2>7, <2>8, <3>2 DEF GoesTo, Holds
    <3> QED
      BY <3>1, <3>3 DEF ObjectsOnce, FlInv
  <2>9. ASSUME NEW o \in Objects, o \notin slots[v][Used(v)]
        PROVE  Stays(o)
    <3>1. \A d \in Classes : \A i : SlotHas(d, i, o)' <=> SlotHas(d, i, o)
      BY <2>2, <2>9 DEF SlotHas
    <3> QED
      BY <1>2, <1>3, <2>3, <2>7, <2>9, <3>1 DEF Stays, Holds
  <2>10. ObjectsOnce'
    BY <1>3, <2>8, <2>9, Moved DEF FlInv
  <2> QED
    BY <2>2, <2>5, <2>6, <2>10 DEF FlInv
<1>6. CASE UNCHANGED cache /\ Set(t, e(FALSE))
  BY <1>4, <1>6 DEF cache
<1>7. CASE UNCHANGED slots /\ Set(t, e(TRUE))
  BY <1>4, <1>7
<1> QED
  BY <1>5, <1>6, <1>7 DEF Shrink

LEMMA RelockConserves ==
  ASSUME FlInv, CfInv', NEW t \in Threads, Relock(t)
  PROVE  FlInv'
<1> DEFINE r == th[t]
           c == r.cl
           e == [r EXCEPT !.pc = "evict", !.force = TRUE]
<1>1. DOMAIN r = Fields /\ WholeCall(r) /\ r.pc = "relock" /\ ThInv /\ SlotsInv /\ c \in Classes
  BY CallFacts DEF Relock
<1>2. r.range # {} /\ r.list = {} /\ r.span = NoSpan
  BY <1>1 DEF WholeCall
<1>3. UNCHANGED <<lists, heap, app>> /\ UNCHANGED <<spans, free, heap, app>>
  BY DEF Relock, lists
<1>4. CASE Keep(c, r.range) /\ Set(t, Idle)
  <2>1. /\ Idle.range = {} /\ Idle.list = {} /\ Idle.span = NoSpan /\ Idle.pc = "idle"
    BY DEF Idle
  <2>2. WholeCall(Idle)
    BY <2>1 DEF WholeCall
  <2>3. /\ SlotsWhole'
        /\ \A d \in Classes : \A i, o : SlotHas(d, i, o)' <=>
             SlotHas(d, i, o) \/ (d = c /\ i = Used(c) + 1 /\ o \in r.range)
    <3>1. r.range \subseteq ObjectsOf(c) /\ Cardinality(r.range) = Batch[c]
      BY <1>1, <1>2 DEF WholeCall
    <3> QED
      BY <1>1, <1>3, <1>4, <3>1, Kept DEF FlInv
  <2>4. SpansOnce' /\ CallsWhole'
    BY <1>1, <1>2, <1>3, <1>4, <2>1, <2>2, SpansStay, CallsStay DEF FlInv
  <2>5. (ListsInv /\ CountsInv)'
    BY <1>3, ListsStay DEF FlInv, ListsInv
  <2>6. \A u \in Threads : th'[u] = IF u = t THEN Idle ELSE th[u]
    BY <1>1, <1>4, OneCall
  <2>7. ASSUME NEW o \in Objects, o \in r.range
        PROVE  InUse(o[1]) /\ GoesTo(o, "slot", c, Used(c) + 1)
    <3>1. Holds("range", t, 0, o)
      BY <2>7 DEF Holds
    <3>2. \A l, y, j : Holds(l, y, j, o) => l = "range" /\ y = t /\ j = 0
      BY <3>1 DEF ObjectsOnce, FlInv
    <3>3. GoesTo(o, "slot", c, Used(c) + 1)
      BY <1>1, <1>3, <2>1, <2>3, <2>6, <2>7, <3>2 DEF GoesTo, Holds
    <3> QED
      BY <3>1, <3>3 DEF ObjectsOnce, FlInv
  <2>8. ASSUME NEW o \in Objects, o \notin r.range
        PROVE  Stays(o)
    BY <1>2, <1>3, <2>1, <2>3, <2>6, <2>8 DEF Stays, Holds
  <2>9. ObjectsOnce'
    BY <1>3, <2>7, <2>8, Moved DEF FlInv
  <2> QED
    BY <2>3, <2>4, <2>5, <2>9 DEF FlInv
<1>5. CASE UNCHANGED cache /\ Set(t, IF r.evicted \/ r.force THEN Releasing(r) ELSE e)
  <2>1. PICK q : Set(t, q) /\ q \in {e, Releasing(r)}
    BY <1>5
  <2>2. CASE q = e
    <3>1. /\ q.range = r.range /\ q.list = r.list /\ q.span = r.span /\ q.pc = "evict"
          /\ q.cl = r.cl /\ q.at = r.at
      BY <1>1, <2>2 DEF Fields
    <3>2. WholeCall(q)
      BY <1>1, <1>2, <3>1 DEF WholeCall
    <3> QED
      BY <1>3, <1>5, <2>1, <3>1, <3>2, CallGoesOn DEF cache
  <2>3. CASE q = Releasing(r)
    <3>1. /\ q.range = {} /\ q.list = r.range /\ q.span = r.span /\ q.pc = "release"
          /\ q.cl = r.cl /\ q.at = r.cl
      BY <1>1, <2>3, ReleasingMoves
    <3>2. WholeCall(q)
      BY <1>1, <1>2, <3>1 DEF WholeCall
    <3> QED
      BY <1>2, <1>3, <1>5, <2>1, <3>1, <3>2, CallGoesOn DEF cache
  <2> QED
    BY <2>1, <2>2, <2>3
<1> QED
  BY <1>4, <1>5 DEF Relock

---------------------------------------------------------------------------
(* The page heap gets a span from a call, or gives it one.                   *)
LEMMA HeapConserves ==
  ASSUME FlInv, CfInv', NEW t \in Threads, DeleteSpan(t) \/ NewSpan(t)
  PROVE  FlInv'
<1> DEFINE r == th[t]
<1>1. DOMAIN r = Fields /\ WholeCall(r) /\ ThInv /\ r.pc \in {"delete", "populate"}
  BY CallFacts DEF DeleteSpan, NewSpan
<1>2. /\ UNCHANGED <<lists, slots, app>> /\ UNCHANGED <<spans, free, slots, app>>
      /\ heap \subseteq Spans
  BY DEF DeleteSpan, NewSpan, cache, lists, FlInv, ListsInv
<1>3. PICK q :
        /\ Set(t, q)
        /\ \/ /\ DeleteSpan(t) /\ heap' = heap \cup {r.span}
              /\ q = [r EXCEPT !.pc = "deleted", !.span = NoSpan]
           \/ /\ NewSpan(t) /\ heap' = heap
              /\ q = [r EXCEPT !.pc = "populated"]
           \/ /\ NewSpan(t) /\ heap # {}
              /\ \E sp \in heap :
                   /\ q = [r EXCEPT !.pc = "populated", !.span = sp]
                   /\ heap' = heap \ {sp}
  <2>1. heap # {} => (CHOOSE sp \in heap : TRUE) \in heap
    OBVIOUS
  <2> QED
    BY <2>1 DEF DeleteSpan, NewSpan
<1>4. q.range = r.range /\ q.list = r.list /\ q.cl = r.cl /\ q.at = r.at
  BY <1>1, <1>3 DEF Fields
<1>5. \A u \in Threads : th'[u] = IF u = t THEN q ELSE th[u]
  BY <1>1, <1>3, OneCall
<1>6. ObjectsOnce'
  <2>1. \A o : Stays(o)
    <3>1. \A d, i, o : SlotHas(d, i, o)' <=> SlotHas(d, i, o)
      BY <1>2 DEF SlotHas, Used
    <3> QED
      BY <1>2, <1>4, <1>5, <3>1 DEF Stays, Holds
  <2> QED
    BY <1>2, <2>1, NothingMoved DEF FlInv
<1>7. /\ WholeCall(q) /\ heap' \subseteq Spans
      /\ r.span = NoSpan \/ (r.span \in Spans /\ q.span = NoSpan /\ heap' = heap \cup {r.span})
      /\ r.span = NoSpan => \/ q.span = NoSpan /\ heap' = heap
                            \/ q.span \in heap /\ heap' = heap \ {q.span}
  <2>1. CASE DeleteSpan(t) /\ q = [r EXCEPT !.pc = "deleted", !.span = NoSpan]
    <3>1. q.pc = "deleted" /\ q.span = NoSpan /\ r.pc = "delete"
      BY <1>1, <2>1 DEF Fields, DeleteSpan
    <3> QED
      BY <1>1, <1>2, <1>3, <1>4, <2>1, <3>1 DEF WholeCall, DeleteSpan
  <2>2. CASE NewSpan(t) /\ q = [r EXCEPT !.pc = "populated"] /\ heap' = heap
    <3>1. q.pc = "populated" /\ q.span = r.span /\ r.pc = "populate"
      BY <1>1, <2>2 DEF Fields, NewSpan
    <3> QED
      BY <1>1, <1>2, <1>4, <2>2, <3>1 DEF WholeCall
  <2>3. ASSUME NEW sp \in heap, NewSpan(t), heap' = heap \ {sp},
               q = [r EXCEPT !.pc = "populated", !.span = sp]
        PROVE  /\ WholeCall(q) /\ heap' \subseteq Spans
               /\ r.span = NoSpan /\ q.span \in heap /\ heap' = heap \ {q.span}
    <3>1. q.pc = "populated" /\ q.span = sp /\ r.pc = "populate"
      BY <1>1, <2>3 DEF Fields, NewSpan
    <3> QED
      BY <1>1, <1>2, <1>4, <2>3, <3>1 DEF WholeCall
  <2> QED
    BY <1>3, <2>1, <2>2, <2>3
<1>8. SpansOnce'
  <2> SUFFICES ASSUME NEW sp \in Spans
               PROVE  /\ \A k, x, l, y : Owns(k, x, sp)' /\ Owns(l, y, sp)' => k = l /\ x = y
                      /\ \E k, x : Owns(k, x, sp)'
    BY DEF SpansOnce
  <2>1. /\ \A k, x, l, y : Owns(k, x, sp) /\ Owns(l, y, sp) => k = l /\ x = y
        /\ \E k, x : Owns(k, x, sp)
    BY DEF FlInv, SpansOnce
  <2>2. CASE sp = r.span
    <3>1. Owns("call", t, sp)
      BY <2>2 DEF Owns
    <3>2. \A k, x : Owns(k, x, sp) => k = "call" /\ x = t
      BY <2>1, <3>1
    <3>3. \A k, x : Owns(k, x, sp)' <=> k = "heap" /\ x = NoThread
      BY <1>2, <1>5, <1>7, <2>2, <3>2, CentralAssumption DEF Owns
    <3> QED
      BY <3>3
  <2>3. CASE sp # r.span /\ sp = q.span
    <3>1. r.span = NoSpan /\ q.span \in heap /\ heap' = heap \ {q.span}
      BY <1>7, <2>3, CentralAssumption
    <3>2. Owns("heap", NoThread, sp)
      BY <2>3, <3>1 DEF Owns
    <3>3. \A k, x : Owns(k, x, sp) => k = "heap" /\ x = NoThread
      BY <2>1, <3>2
    <3>4. \A k, x : Owns(k, x, sp)' <=> k = "call" /\ x = t
      BY <1>2, <1>5, <2>3, <3>1, <3>3 DEF Owns
    <3> QED
      BY <3>4
  <2>4. CASE sp # r.span /\ sp # q.span
    <3>1. sp \in heap' <=> sp \in heap
      BY <1>7, <2>4
    <3>2. \A k, x : Owns(k, x, sp)' <=> Owns(k, x, sp)
      BY <1>2, <1>5, <2>4, <3>1 DEF Owns
    <3> QED
      BY <2>1, <3>2
  <2> QED
    BY <2>2, <2>3, <2>4
<1>9. CallsWhole' /\ SlotsWhole'
  BY <1>1, <1>2, <1>3, <1>7, CallsStay, SlotsStay DEF FlInv
<1>10. (ListsInv /\ CountsInv)'
  BY <1>2, <1>7, ListsKept DEF FlInv, ListsInv
<1> QED
  BY <1>6, <1>8, <1>9, <1>10 DEF FlInv

---------------------------------------------------------------------------
(* An object of the list that a call releases: nobody else has it, and its   *)
(* span is in the lists of one class.                                        *)
LEMMA ObjectToRelease ==
  ASSUME FlInv, NEW t \in Threads, NEW o \in th[t].list
  PROVE  /\ o \in ObjectsOf(th[t].at) /\ o \in Objects /\ o[1] \in spans[th[t].at]
         /\ o[1] \in Spans /\ InUse(o[1]) /\ o \in Of(o[1])
         /\ \A l, y, j : Holds(l, y, j, o) <=> l = "list" /\ y = t /\ j = 0
         /\ o \notin free
         /\ \A d \in Classes : o[1] \in spans[d] => d = th[t].at
<1>1. th[t].at \in Classes /\ o \in ObjectsOf(th[t].at)
  BY CallFacts DEF WholeCall
<1>2. o \in Objects /\ o[1] \in spans[th[t].at]
  BY <1>1 DEF ObjectsOf
<1>3. o[1] \in Spans /\ InUse(o[1]) /\ o \in Of(o[1])
  BY <1>1, <1>2, ObjectIsOfSpan DEF InUse
<1>4. Holds("list", t, 0, o)
  BY DEF Holds
<1>5. \A l, y, j : Holds(l, y, j, o) <=> l = "list" /\ y = t /\ j = 0
  BY <1>2, <1>4 DEF FlInv, ObjectsOnce
<1>6. o \notin free
  BY <1>5 DEF Holds
<1>7. ASSUME NEW d \in Classes, o[1] \in spans[d]
      PROVE  d = th[t].at
  <2>1. Owns("class", d, o[1]) /\ Owns("class", th[t].at, o[1])
    BY <1>1, <1>2, <1>7 DEF Owns
  <2> QED
    BY <2>1, <1>3 DEF FlInv, SpansOnce
<1> QED
  BY <1>1, <1>2, <1>3, <1>5, <1>6, <1>7

(* When the count says so, all other objects of its span are free.           *)
LEMMA LastOneOut ==
  ASSUME FlInv, NEW t \in Threads, NEW o \in th[t].list, refcount[o[1]] = 1
  PROVE  /\ free \cap Of(o[1]) = Of(o[1]) \ {o}
         /\ Cardinality(free \cap Of(o[1])) = ObjectsPerSpan - 1
<1> DEFINE sp == o[1]
<1>1. sp \in Spans /\ InUse(sp) /\ o \in Of(sp) /\ o \notin free
  BY ObjectToRelease
<1>2. refcount[sp] = ObjectsPerSpan - Cardinality(free \cap Of(sp))
  BY <1>1 DEF FlInv, CountsInv
<1>3. ObjectsPerSpan \in Nat
  BY CentralAssumption
<1>4. IsFiniteSet(Of(sp)) /\ Cardinality(Of(sp)) = ObjectsPerSpan
  BY <1>1, OfSpan
<1>5. IsFiniteSet(free \cap Of(sp)) /\ Cardinality(free \cap Of(sp)) \in Nat
  BY <1>4, FS_Intersection, FS_CardinalityType
<1>6. Cardinality(free \cap Of(sp)) = ObjectsPerSpan - 1
  BY <1>2, <1>3, <1>5
<1>7. /\ IsFiniteSet(Of(sp) \ {o}) /\ Cardinality(Of(sp) \ {o}) = ObjectsPerSpan - 1
  BY <1>1, <1>4, FS_RemoveElement
<1>8. (free \cap Of(sp)) \in SUBSET (Of(sp) \ {o})
  BY <1>1
<1>9. free \cap Of(sp) = Of(sp) \ {o}
  BY <1>6, <1>7, <1>8, FS_Subset
<1> QED
  BY <1>6, <1>9

(* An object back in the list of a span that has others out.                 *)
LEMMA ReleaseOneConserves ==
  ASSUME FlInv, CfInv', NEW t \in Threads, th[t].pc = "release", NEW o \in th[t].list,
         refcount' = [refcount EXCEPT ![o[1]] = @ - 1],
         counter' = [counter EXCEPT ![th[t].at] = @ + 1],
         free' = free \cup {o},
         Set(t, [th[t] EXCEPT !.list = @ \ {o}]),
         UNCHANGED <<spans, numSpans, cache, heap, app>>
  PROVE  FlInv'
<1> DEFINE r == th[t]
           c == r.at
           sp == o[1]
           q == [r EXCEPT !.list = @ \ {o}]
<1>1. DOMAIN r = Fields /\ WholeCall(r) /\ ThInv /\ c \in Classes
  BY CallFacts
<1>2. /\ o \in ObjectsOf(c) /\ o \in Objects /\ sp \in Spans /\ InUse(sp) /\ o \in Of(sp)
      /\ \A l, y, j : Holds(l, y, j, o) <=> l = "list" /\ y = t /\ j = 0
      /\ o \notin free /\ \A d \in Classes : sp \in spans[d] => d = c
  BY ObjectToRelease
<1>3. /\ q.range = r.range /\ q.list = r.list \ {o} /\ q.cl = r.cl /\ q.at = c
      /\ q.span = r.span /\ q.pc = "release"
  BY <1>1 DEF Fields
<1>4. WholeCall(q)
  BY <1>1, <1>3 DEF WholeCall
<1>5. UNCHANGED slots
  BY DEF cache
<1>6. Set(t, q)
  OBVIOUS
<1> HIDE DEF q
<1>7. SpansOnce' /\ CallsWhole' /\ SlotsWhole'
  BY <1>1, <1>3, <1>4, <1>5, <1>6, SpansStay, CallsStay, SlotsStay DEF FlInv
<1>8. ListsInv'
  BY <1>2 DEF FlInv, ListsInv, Objects
<1>9. ObjectsOnce'
  <2>1. /\ \A u \in Threads : th'[u] = IF u = t THEN q ELSE th[u]
        /\ \A d, i, p : SlotHas(d, i, p)' <=> SlotHas(d, i, p)
    BY <1>1, <1>5, <1>6, OneCall DEF SlotHas, Used
  <2>2. GoesTo(o, "free", NoThread, 0)
    BY <1>2, <1>3, <2>1 DEF GoesTo, Holds
  <2>3. ASSUME NEW p \in Objects, p # o
        PROVE  Stays(p)
    BY <1>3, <2>1, <2>3 DEF Stays, Holds
  <2> QED
    BY <1>2, <2>2, <2>3, Moved DEF FlInv
<1>10. CountsInv'
  <2>1. /\ counter = [d \in Classes |-> Cardinality(free \cap ObjectsOf(d))]
        /\ numSpans = [d \in Classes |-> Cardinality(spans[d])]
        /\ refcount = [s \in Spans |->
             IF InUse(s) THEN ObjectsPerSpan - Cardinality(free \cap Of(s)) ELSE 0]
    BY DEF FlInv, CountsInv
  <2>2. /\ \A s : InUse(s)' <=> InUse(s)
        /\ \A d : ObjectsOf(d)' = ObjectsOf(d)
    BY DEF InUse, ObjectsOf, Objects
  <2>3. ASSUME NEW d \in Classes
        PROVE  counter'[d] = Cardinality(free' \cap ObjectsOf(d))
    <3>1. IsFiniteSet(free \cap ObjectsOf(d)) /\ Cardinality(free \cap ObjectsOf(d)) \in Nat
      BY ObjectsOfClass, FS_Intersection, FS_CardinalityType DEF FlInv
    <3>2. CASE d = c
      <4>1. free' \cap ObjectsOf(d) = (free \cap ObjectsOf(d)) \cup {o}
        BY <1>2, <3>2
      <4>2. Cardinality(free' \cap ObjectsOf(d)) = Cardinality(free \cap ObjectsOf(d)) + 1
        BY <1>2, <3>1, <4>1, FS_AddElement
      <4> QED
        BY <2>1, <3>2, <4>2
    <3>3. CASE d # c
      <4>1. o \notin ObjectsOf(d)
        BY <1>2, <3>3 DEF ObjectsOf
      <4>2. free' \cap ObjectsOf(d) = free \cap ObjectsOf(d)
        BY <4>1
      <4> QED
        BY <2>1, <3>3, <4>2
    <3> QED
      BY <3>2, <3>3
  <2>4. ASSUME NEW s \in Spans
        PROVE  refcount'[s] = IF InUse(s) THEN ObjectsPerSpan - Cardinality(free' \cap Of(s))
                              ELSE 0
    <3>1. IsFiniteSet(free \cap Of(s)) /\ Cardinality(free \cap Of(s)) \in Nat
      BY OfSpan, FS_Intersection, FS_CardinalityType
    <3>2. CASE s = sp
      <4>1. free' \cap Of(s) = (free \cap Of(s)) \cup {o}
        BY <1>2, <3>2
      <4>2. Cardinality(free' \cap Of(s)) = Cardinality(free \cap Of(s)) + 1
        BY <1>2, <3>1, <4>1, FS_AddElement
      <4>3. ObjectsPerSpan \in Nat
        BY CentralAssumption
      <4> QED
        BY <1>2, <2>1, <3>1, <3>2, <4>2, <4>3
    <3>3. CASE s # sp
      <4>1. free' \cap Of(s) = free \cap Of(s)
        BY <1>2, <3>3, OfSpan
      <4> QED
        BY <2>1, <3>3, <4>1
    <3> QED
      BY <3>2, <3>3
  <2>5. counter' = [d \in Classes |-> counter'[d]] /\ refcount' = [s \in Spans |-> refcount'[s]]
    BY <2>1
  <2>6. counter' = [d \in Classes |-> Cardinality(free' \cap ObjectsOf(d)')]
    BY <2>2, <2>3, <2>5
  <2>7. refcount' = [s \in Spans |->
          IF InUse(s)' THEN ObjectsPerSpan - Cardinality(free' \cap Of(s)) ELSE 0]
    BY <2>2, <2>4, <2>5
  <2> QED
    BY <2>1, <2>6, <2>7 DEF CountsInv, Of
<1> QED
  BY <1>7, <1>8, <1>9, <1>10 DEF FlInv

(* The last object that was out takes its span with it: what is left is of   *)
(* other spans.                                                              *)
LEMMA ReleaseLastConserves ==
  ASSUME FlInv, CfInv', NEW t \in Threads, th[t].pc = "release", NEW o \in th[t].list,
         refcount[o[1]] = 1,
         refcount' = [refcount EXCEPT ![o[1]] = @ - 1],
         counter' = [counter EXCEPT ![th[t].at] = @ + 1 - ObjectsPerSpan],
         spans' = [spans EXCEPT ![th[t].at] = @ \ {o[1]}],
         free' = free \ Of(o[1]),
         numSpans' = [numSpans EXCEPT ![th[t].at] = @ - 1],
         Set(t, [[th[t] EXCEPT !.list = @ \ {o}] EXCEPT !.pc = "delete", !.span = o[1]]),
         UNCHANGED <<cache, heap, app>>
  PROVE  FlInv'
<1> DEFINE r == th[t]
           c == r.at
           sp == o[1]
           q == [[r EXCEPT !.list = @ \ {o}] EXCEPT !.pc = "delete", !.span = sp]
<1>1. DOMAIN r = Fields /\ WholeCall(r) /\ ThInv /\ c \in Classes /\ SlotsInv
  BY CallFacts
<1>2. /\ o \in ObjectsOf(c) /\ o \in Objects /\ sp \in Spans /\ InUse(sp) /\ o \in Of(sp)
      /\ \A l, y, j : Holds(l, y, j, o) <=> l = "list" /\ y = t /\ j = 0
      /\ o \notin free /\ \A d \in Classes : sp \in spans[d] => d = c
      /\ sp \in spans[c]
  BY ObjectToRelease
<1>3. /\ q.range = r.range /\ q.list = r.list \ {o} /\ q.cl = r.cl /\ q.at = c
      /\ q.span = sp /\ q.pc = "delete"
  BY <1>1 DEF Fields
<1>4. UNCHANGED slots /\ spans \in [Classes -> SUBSET Spans]
  BY DEF cache, FlInv, ListsInv
<1>5. Set(t, q) /\ r.span = NoSpan
  BY <1>1 DEF WholeCall
<1> HIDE DEF q
<1>6. \A u \in Threads : th'[u] = IF u = t THEN q ELSE th[u]
  BY <1>1, <1>5, OneCall
<1>7. /\ free \cap Of(sp) = Of(sp) \ {o}
      /\ Cardinality(free \cap Of(sp)) = ObjectsPerSpan - 1
  BY LastOneOut
<1>8. ASSUME NEW p \in Of(sp), NEW l, NEW y, NEW j, Holds(l, y, j, p)
      PROVE  IF p = o THEN l = "list" /\ y = t ELSE l = "free"
  <2>1. CASE p = o
    BY <1>2, <1>8, <2>1
  <2>2. CASE p # o
    <3>1. Holds("free", NoThread, 0, p) /\ p \in Objects
      BY <1>2, <1>7, <2>2, OfSpan DEF Holds
    <3> QED
      BY <1>8, <2>2, <3>1 DEF FlInv, ObjectsOnce
  <2> QED
    BY <2>1, <2>2
<1>9. /\ \A d \in Classes : spans'[d] = spans[d] \ {sp}
      /\ \A d \in Classes : ObjectsOf(d)' = ObjectsOf(d) \ Of(sp)
      /\ \A s : InUse(s)' <=> InUse(s) /\ s # sp
  <2>1. \A d \in Classes : spans'[d] = spans[d] \ {sp}
    BY <1>1, <1>2, <1>4
  <2>2. \A d \in Classes : ObjectsOf(d)' = ObjectsOf(d) \ Of(sp)
    BY <1>2, <2>1, OfSpan DEF ObjectsOf, Objects
  <2>3. \A s : InUse(s)' <=> InUse(s) /\ s # sp
    BY <2>1 DEF InUse
  <2> QED
    BY <2>1, <2>2, <2>3
<1>10. ListsInv'
  <2>1. \A d \in Classes : IsFiniteSet(spans'[d])
    <3> SUFFICES ASSUME NEW d \in Classes
                 PROVE  IsFiniteSet(spans'[d])
      OBVIOUS
    <3>1. IsFiniteSet(spans[d])
      BY DEF FlInv, ListsInv
    <3>2. IsFiniteSet(spans[d] \ {sp})
      BY <3>1, FS_RemoveElement
    <3> QED
      BY <1>9, <3>2
  <2>2. spans' \in [Classes -> SUBSET Spans]
    BY <1>4, <1>1
  <2> QED
    BY <2>1, <2>2 DEF FlInv, ListsInv, Objects
<1>11. ObjectsOnce'
  <2>1. \A d, i, p : SlotHas(d, i, p)' <=> SlotHas(d, i, p)
    BY <1>4 DEF SlotHas, Used
  <2> SUFFICES ASSUME NEW p \in Objects
               PROVE  /\ \A k, x, i, l, y, j : Holds(k, x, i, p)' /\ Holds(l, y, j, p)' =>
                            k = l /\ x = y /\ i = j
                      /\ InUse(p[1])' <=> \E k, x, i : Holds(k, x, i, p)'
    BY DEF ObjectsOnce, Objects
  <2>2. CASE p \in Of(sp)
    <3>1. p[1] = sp
      BY <1>2, <2>2, OfSpan
    <3>2. \A l, y, j : Holds(l, y, j, p)' =>
            Holds(l, y, j, p) /\ l # "free" /\ (p = o => l # "list" \/ y # t)
      BY <1>3, <1>4, <1>6, <2>1, <2>2, CentralAssumption DEF Holds
    <3>3. \A l, y, j : ~Holds(l, y, j, p)'
      BY <1>8, <2>2, <3>2
    <3> QED
      BY <1>9, <3>1, <3>3
  <2>3. CASE p \notin Of(sp)
    <3>1. p[1] # sp /\ p # o
      BY <1>2, <2>3, OfSpan
    <3>2. \A l, y, j : Holds(l, y, j, p)' <=> Holds(l, y, j, p)
      BY <1>3, <1>4, <1>6, <2>1, <2>3, <3>1 DEF Holds
    <3> QED
      BY <1>9, <3>1, <3>2 DEF FlInv, ObjectsOnce
  <2> QED
    BY <2>2, <2>3
<1>12. SpansOnce'
  <2> SUFFICES ASSUME NEW s \in Spans
               PROVE  /\ \A k, x, l, y : Owns(k, x, s)' /\ Owns(l, y, s)' => k = l /\ x = y
                      /\ \E k, x : Owns(k, x, s)'
    BY DEF SpansOnce
  <2>1. /\ \A k, x, l, y : Owns(k, x, s) /\ Owns(l, y, s) => k = l /\ x = y
        /\ \E k, x : Owns(k, x, s)
    BY DEF FlInv, SpansOnce
  <2>2. CASE s = sp
    <3>1. Owns("class", c, s)
      BY <1>1, <1>2, <2>2 DEF Owns
    <3>2. \A k, x : Owns(k, x, s) => k = "class" /\ x = c
      BY <2>1, <3>1
    <3>3. \A k, x : Owns(k, x, s)' <=> k = "call" /\ x = t
      BY <1>3, <1>6, <1>9, <2>2, <3>2 DEF Owns
    <3> QED
      BY <3>3
  <2>3. CASE s # sp
    <3>1. \A k, x : Owns(k, x, s)' <=> Owns(k, x, s)
      BY <1>3, <1>5, <1>6, <1>9, <2>3, CentralAssumption DEF Owns
    <3> QED
      BY <2>1, <3>1
  <2> QED
    BY <2>2, <2>3
<1>13. CallsWhole'
  <2> SUFFICES ASSUME NEW u \in Threads
               PROVE  WholeCall(th[u])'
    BY DEF CallsWhole
  <2>1. WholeCall(th[u]) /\ th[u].cl \in Classes /\ th[u].at \in Classes
    BY CallFacts
  <2>2. ASSUME NEW p \in Of(sp)
        PROVE  p \notin th'[u].range /\ p \notin th'[u].list
    <3>1. ASSUME p \in th[u].range
          PROVE  FALSE
      <4>1. Holds("range", u, 0, p)
        BY <3>1 DEF Holds
      <4> QED
        BY <1>8, <4>1
    <3>2. ASSUME p \in th[u].list
          PROVE  p = o /\ u = t
      <4>1. Holds("list", u, 0, p)
        BY <3>2 DEF Holds
      <4> QED
        BY <1>8, <4>1
    <3> QED
      BY <1>3, <1>6, <3>1, <3>2
  <2>3. /\ th'[u].range = th[u].range /\ th'[u].list \subseteq th[u].list
        /\ th'[u].cl = th[u].cl /\ th'[u].at = th[u].at
    BY <1>3, <1>6
  <2>4. th[u].range \subseteq ObjectsOf(th[u].cl) /\ th[u].list \subseteq ObjectsOf(th[u].at)
    BY <2>1 DEF WholeCall
  <2>5. ASSUME NEW p, p \in th'[u].range \/ p \in th'[u].list
        PROVE  p \in Objects /\ p[1] # sp
    <3>1. p \in Objects /\ p \notin Of(sp)
      BY <2>2, <2>3, <2>4, <2>5 DEF ObjectsOf
    <3> QED
      BY <1>2, <3>1, OfSpan
  <2>6. th'[u].range \subseteq {p \in Objects : p[1] \in spans'[th'[u].cl]}
    BY <1>9, <2>1, <2>3, <2>4, <2>5 DEF ObjectsOf
  <2>7. th'[u].list \subseteq {p \in Objects : p[1] \in spans'[th'[u].at]}
    BY <1>9, <2>1, <2>3, <2>4, <2>5 DEF ObjectsOf
  <2>8. (th[u].range \subseteq ObjectsOf(th[u].cl) /\ th[u].list \subseteq ObjectsOf(th[u].at))'
    BY <2>6, <2>7 DEF ObjectsOf, Objects
  <2>9. CASE u = t
    <3>1. sp # NoSpan /\ th'[u] = q
      BY <1>2, <1>6, <2>9, CentralAssumption
    <3> QED
      BY <1>2, <1>3, <2>1, <2>8, <2>9, <3>1 DEF WholeCall
  <2>10. CASE u # t
    <3>1. th'[u] = th[u]
      BY <1>6, <2>10
    <3> QED
      BY <2>1, <2>8, <3>1 DEF WholeCall
  <2> QED
    BY <2>9, <2>10
<1>14. SlotsWhole'
  <2> SUFFICES ASSUME NEW d \in Classes, NEW i \in 1..Used(d)
               PROVE  slots[d][i] \subseteq ObjectsOf(d)' /\ Cardinality(slots[d][i]) = Batch[d]
    BY <1>4 DEF SlotsWhole, Used
  <2>1. slots[d][i] \subseteq ObjectsOf(d) /\ Cardinality(slots[d][i]) = Batch[d]
    BY DEF FlInv, SlotsWhole
  <2>2. ASSUME NEW p \in slots[d][i], p \in Of(sp)
        PROVE  FALSE
    <3>1. Holds("slot", d, i, p)
      BY DEF Holds, SlotHas
    <3> QED
      BY <1>8, <2>2, <3>1
  <2> QED
    BY <1>9, <2>1, <2>2
<1>15. CountsInv'
  <2>1. /\ counter = [d \in Classes |-> Cardinality(free \cap ObjectsOf(d))]
        /\ numSpans = [d \in Classes |-> Cardinality(spans[d])]
        /\ refcount = [s \in Spans |->
             IF InUse(s) THEN ObjectsPerSpan - Cardinality(free \cap Of(s)) ELSE 0]
    BY DEF FlInv, CountsInv
  <2>2. ObjectsPerSpan \in Nat
    BY CentralAssumption
  <2>3. ASSUME NEW d \in Classes
        PROVE  /\ counter'[d] = Cardinality(free' \cap ObjectsOf(d)')
               /\ numSpans'[d] = Cardinality(spans'[d])
    <3> DEFINE F == free \cap ObjectsOf(d)
    <3>1. IsFiniteSet(F) /\ Cardinality(F) \in Nat
      BY ObjectsOfClass, FS_Intersection, FS_CardinalityType DEF FlInv
    <3>2. IsFiniteSet(spans[d]) /\ Cardinality(spans[d]) \in Nat
      BY FS_CardinalityType DEF FlInv, ListsInv
    <3>3. free' \cap ObjectsOf(d)' = F \ Of(sp)
      BY <1>9
    <3>4. Cardinality(F \ Of(sp)) = Cardinality(F) - Cardinality(F \cap Of(sp))
      BY <3>1, FS_Difference
    <3>5. CASE d = c
      <4>1. F \cap Of(sp) = free \cap Of(sp)
        BY <1>2, <3>5, OfSpan DEF ObjectsOf
      <4>2. Cardinality(free' \cap ObjectsOf(d)') = Cardinality(F) + 1 - ObjectsPerSpan
        <5>1. Cardinality(F \cap Of(sp)) = ObjectsPerSpan - 1
          BY <1>7, <4>1
        <5>2. Cardinality(F \ Of(sp)) = Cardinality(F) + 1 - ObjectsPerSpan
          BY <2>2, <3>1, <3>4, <5>1
        <5> QED
          BY <3>3, <5>2
      <4>3. Cardinality(spans'[d]) = Cardinality(spans[d]) - 1
        BY <1>2, <1>9, <3>2, <3>5, FS_RemoveElement
      <4> QED
        BY <2>1, <3>5, <4>2, <4>3
    <3>6. CASE d # c
      <4>1. sp \notin spans[d]
        BY <1>2, <3>6
      <4>2. \A p \in ObjectsOf(d) : p \notin Of(sp)
        BY <1>2, <4>1, OfSpan DEF ObjectsOf
      <4>3. free' \cap ObjectsOf(d)' = F /\ spans'[d] = spans[d]
        <5>1. F \ Of(sp) = F
          BY <4>2
        <5>2. spans[d] \ {sp} = spans[d]
          BY <4>1
        <5> QED
          BY <1>9, <3>3, <5>1, <5>2
      <4> QED
        BY <2>1, <3>6, <4>3
    <3> QED
      BY <3>5, <3>6
  <2>4. ASSUME NEW s \in Spans
        PROVE  refcount'[s] = IF InUse(s)' THEN ObjectsPerSpan - Cardinality(free' \cap Of(s))
                              ELSE 0
    <3>1. CASE s = sp
      BY <1>2, <1>9, <2>1, <3>1
    <3>2. CASE s # sp
      <4>1. free' \cap Of(s) = free \cap Of(s)
        BY <1>2, <3>2, OfSpan
      <4> QED
        BY <1>9, <2>1, <3>2, <4>1
    <3> QED
      BY <3>1, <3>2
  <2>5. /\ counter' = [d \in Classes |-> counter'[d]]
        /\ refcount' = [s \in Spans |-> refcount'[s]]
        /\ numSpans' = [d \in Classes |-> numSpans'[d]]
    BY <2>1
  <2>6. counter' = [d \in Classes |-> Cardinality(free' \cap ObjectsOf(d)')]
    BY <2>3, <2>5
  <2>7. numSpans' = [d \in Classes |-> Cardinality(spans'[d])]
    BY <2>3, <2>5
  <2>8. refcount' = [s \in Spans |->
          IF InUse(s)' THEN ObjectsPerSpan - Cardinality(free' \cap Of(s)) ELSE 0]
    BY <2>4, <2>5
  <2> QED
    BY <2>6, <2>7, <2>8 DEF CountsInv, Of
<1> QED
  BY <1>10, <1>11, <1>12, <1>13, <1>14, <1>15 DEF FlInv

LEMMA ReleaseConserves ==
  ASSUME FlInv, CfInv', NEW t \in Threads, ReleaseToSpans(t)
  PROVE  FlInv'
<1>1. th[t].pc = "release" /\ UNCHANGED <<cache, heap, app>>
  BY DEF ReleaseToSpans
<1>2. PICK o \in th[t].list :
        /\ refcount' = [refcount EXCEPT ![o[1]] = @ - 1]
        /\ \/ /\ refcount[o[1]] = 1
              /\ counter' = [counter EXCEPT ![th[t].at] = @ + 1 - ObjectsPerSpan]
              /\ spans' = [spans EXCEPT ![th[t].at] = @ \ {o[1]}]
              /\ free' = free \ Of(o[1])
              /\ numSpans' = [numSpans EXCEPT ![th[t].at] = @ - 1]
              /\ Set(t, [[th[t] EXCEPT !.list = @ \ {o}] EXCEPT !.pc = "delete", !.span = o[1]])
           \/ /\ counter' = [counter EXCEPT ![th[t].at] = @ + 1]
              /\ free' = free \cup {o}
              /\ Set(t, [th[t] EXCEPT !.list = @ \ {o}])
              /\ UNCHANGED <<spans, numSpans>>
  BY DEF ReleaseToSpans
<1> QED
  BY <1>1, <1>2, ReleaseLastConserves, ReleaseOneConserves

---------------------------------------------------------------------------
(* FetchFromSpans, after Populate has linked a new span or without: t gets   *)
(* found, of what there is.                                                  *)
Fetched(t, c, new, avail, found) ==
  /\ (new = {} /\ th[t].span = NoSpan) \/ (new = {th[t].span} /\ th[t].span \in Spans)
  /\ th[t].range = {} /\ th[t].list = {}
  /\ avail = (free \cap ObjectsOf(c)) \cup UNION {Of(sp) : sp \in new}
  /\ found \subseteq avail
  /\ app' = app \cup found
  /\ free' = (free \cup avail) \ found
  /\ refcount' = [sp \in Spans |-> refcount[sp] + Cardinality(found \cap Of(sp))]
  /\ spans' = [spans EXCEPT ![c] = @ \cup new]
  /\ numSpans' = [numSpans EXCEPT ![c] = @ + Cardinality(new)]
  /\ counter' = [counter EXCEPT ![c] = @ + ObjectsPerSpan * Cardinality(new)
                                         - (Cardinality(app') - Cardinality(app))]
  /\ UNCHANGED <<slots, heap>>
  /\ \A u \in Threads : u # t => th'[u] = th[u]
  /\ th'[t].range = {} /\ th'[t].list = {} /\ th'[t].span = NoSpan /\ th'[t].pc = "idle"

LEMMA FetchConserves ==
  ASSUME FlInv, CfInv', NEW t \in Threads, NEW c \in Classes, NEW new, NEW avail, NEW found,
         Fetched(t, c, new, avail, found)
  PROVE  FlInv'
<1> USE DEF Fetched
<1> DEFINE U == UNION {Of(sp) : sp \in new}
<1>1. /\ spans \in [Classes -> SUBSET Spans] /\ \A d \in Classes : IsFiniteSet(spans[d])
      /\ free \subseteq Objects /\ app \subseteq Objects /\ IsFiniteSet(app)
  BY DEF FlInv, ListsInv
<1>2. ObjectsPerSpan \in Nat
  BY CentralAssumption
<1>3. /\ new \subseteq Spans /\ IsFiniteSet(new) /\ Cardinality(new) \in Nat
      /\ IsFiniteSet(U) /\ Cardinality(U) = ObjectsPerSpan * Cardinality(new)
      /\ U \subseteq Objects /\ \A p \in Objects : p \in U <=> p[1] \in new
  <2>1. CASE new = {}
    <3>1. U = {}
      BY <2>1
    <3>2. Cardinality(new) = 0 /\ IsFiniteSet(new) /\ Cardinality(U) = 0 /\ IsFiniteSet(U)
      BY <2>1, <3>1, FS_EmptySet
    <3>3. 0 = ObjectsPerSpan * 0
      BY <1>2
    <3> HIDE DEF U
    <3> QED
      BY <2>1, <3>1, <3>2, <3>3
  <2>2. CASE new = {th[t].span} /\ th[t].span \in Spans
    <3>1. U = Of(th[t].span)
      BY <2>2
    <3>2. Cardinality(new) = 1 /\ IsFiniteSet(new)
      BY <2>2, FS_Singleton
    <3>3. /\ IsFiniteSet(U) /\ Cardinality(U) = ObjectsPerSpan
          /\ U = {p \in Objects : p[1] = th[t].span}
      BY <2>2, <3>1, OfSpan
    <3>4. ObjectsPerSpan = ObjectsPerSpan * 1
      BY <1>2
    <3> HIDE DEF U
    <3> QED
      BY <2>2, <3>2, <3>3, <3>4
  <2> QED
    BY <2>1, <2>2
<1>4. ASSUME NEW sp \in new
      PROVE  ~InUse(sp) /\ \A k, x : Owns(k, x, sp) <=> k = "call" /\ x = t
  <2>1. Owns("call", t, sp) /\ sp \in Spans
    BY <1>3 DEF Owns
  <2>2. \A k, x : Owns(k, x, sp) <=> k = "call" /\ x = t
    BY <2>1 DEF FlInv, SpansOnce
  <2>3. ~InUse(sp)
    BY <2>2 DEF InUse, Owns
  <2> QED
    BY <2>2, <2>3
<1>5. ASSUME NEW p \in U
      PROVE  \A l, y, j : ~Holds(l, y, j, p)
  <2>1. p \in Objects /\ ~InUse(p[1])
    BY <1>3, <1>4
  <2> QED
    BY <2>1 DEF FlInv, ObjectsOnce
<1>6. /\ \A p \in U : p \notin free /\ p \notin app
      /\ \A p \in free : p \notin app
      /\ avail \subseteq Objects
  <2>1. \A p \in U : p \notin free /\ p \notin app
    BY <1>5 DEF Holds
  <2>2. ASSUME NEW p \in free, p \in app
        PROVE  FALSE
    <3>1. Holds("free", NoThread, 0, p) /\ Holds("app", NoThread, 0, p)
      BY <2>2 DEF Holds
    <3> QED
      BY <1>1, <3>1 DEF FlInv, ObjectsOnce
  <2> QED
    BY <1>1, <1>3, <2>1, <2>2
<1>7. IsFiniteSet(avail) /\ IsFiniteSet(found) /\ Cardinality(found) \in Nat
  <2>1. IsFiniteSet(free \cap ObjectsOf(c))
    BY ObjectsOfClass, FS_Intersection DEF FlInv
  <2>2. IsFiniteSet(avail)
    BY <1>3, <2>1, FS_Union
  <2> QED
    BY <2>2, FS_Subset, FS_CardinalityType
<1>8. /\ \A d \in Classes : spans'[d] = IF d = c THEN spans[c] \cup new ELSE spans[d]
      /\ \A s : InUse(s)' <=> InUse(s) \/ s \in new
      /\ spans' \in [Classes -> SUBSET Spans]
  <2>1. \A d \in Classes : spans'[d] = IF d = c THEN spans[c] \cup new ELSE spans[d]
    BY <1>1
  <2> QED
    BY <1>1, <1>3, <2>1 DEF InUse
<1>9. ListsInv'
  <2>1. IsFiniteSet(spans[c] \cup new) /\ IsFiniteSet(app \cup found)
    BY <1>1, <1>3, <1>7, FS_Union
  <2>2. \A d \in Classes : IsFiniteSet(spans'[d])
    BY <1>1, <1>8, <2>1
  <2> QED
    BY <1>1, <1>6, <1>8, <2>1, <2>2 DEF FlInv, ListsInv, Objects
<1> DEFINE Other(l) == l = "slot" \/ l = "range" \/ l = "list"
<1>10. /\ \A l, y, j, o : Holds(l, y, j, o)' <=>
            \/ Other(l) /\ Holds(l, y, j, o)
            \/ l = "app" /\ y = NoThread /\ j = 0 /\ o \in app'
            \/ l = "free" /\ y = NoThread /\ j = 0 /\ o \in free'
       /\ \A l, y, j, o : Holds(l, y, j, o) <=>
            \/ Other(l) /\ Holds(l, y, j, o)
            \/ l = "app" /\ y = NoThread /\ j = 0 /\ o \in app
            \/ l = "free" /\ y = NoThread /\ j = 0 /\ o \in free
  <2>1. \A d, i, p : SlotHas(d, i, p)' <=> SlotHas(d, i, p)
    BY DEF SlotHas, Used
  <2>2. \A u \in Threads : th'[u].range = th[u].range /\ th'[u].list = th[u].list
    OBVIOUS
  <2> QED
    BY <2>1, <2>2 DEF Holds
<1>11. ObjectsOnce'
  <2>1. ASSUME NEW p \in Objects, p \in avail
        PROVE  /\ InUse(p[1])'
               /\ p \in found => GoesTo(p, "app", NoThread, 0)
               /\ p \notin found => GoesTo(p, "free", NoThread, 0)
    <3>1. \A l, y, j : Holds(l, y, j, p) => l = "free"
      <4>1. CASE p \in U
        BY <1>5, <4>1
      <4>2. CASE p \in free
        <5>1. Holds("free", NoThread, 0, p)
          BY <4>2 DEF Holds
        <5> QED
          BY <5>1 DEF FlInv, ObjectsOnce
      <4> QED
        BY <2>1, <4>1, <4>2
    <3>2. p \notin app
      BY <1>6, <2>1
    <3>3. InUse(p[1])'
      <4>1. avail = (free \cap ObjectsOf(c)) \cup U
        OBVIOUS
      <4> HIDE DEF U
      <4>2. p[1] \in spans[c] \/ p[1] \in new
        BY <1>3, <2>1, <4>1 DEF ObjectsOf
      <4> QED
        BY <1>8, <4>2 DEF InUse
    <3>4. ASSUME p \in found
          PROVE  GoesTo(p, "app", NoThread, 0)
      BY <1>10, <3>1, <3>4 DEF GoesTo
    <3>5. ASSUME p \notin found
          PROVE  GoesTo(p, "free", NoThread, 0)
      BY <1>10, <2>1, <3>1, <3>2, <3>5 DEF GoesTo
    <3> QED
      BY <3>3, <3>4, <3>5
  <2>2. ASSUME NEW p \in Objects, p \notin avail
        PROVE  Stays(p) /\ (InUse(p[1])' <=> InUse(p[1]))
    <3>1. p[1] \notin new
      <4>1. U \subseteq avail
        OBVIOUS
      <4> HIDE DEF U
      <4> QED
        BY <1>3, <2>2, <4>1
    <3>2. Stays(p)
      BY <1>10, <2>2 DEF Stays
    <3> QED
      BY <1>8, <3>1, <3>2
  <2> QED
    BY <2>1, <2>2, Placed DEF FlInv
<1>12. SpansOnce'
  <2> SUFFICES ASSUME NEW s \in Spans
               PROVE  /\ \A k, x, l, y : Owns(k, x, s)' /\ Owns(l, y, s)' => k = l /\ x = y
                      /\ \E k, x : Owns(k, x, s)'
    BY DEF SpansOnce
  <2>1. s # NoSpan
    BY CentralAssumption
  <2>2. CASE s \in new
    <3>1. \A k, x : Owns(k, x, s)' <=> k = "class" /\ x = c
      BY <1>4, <1>8, <2>1, <2>2 DEF Owns
    <3> QED
      BY <3>1
  <2>3. CASE s \notin new
    <3>1. \A k, x : Owns(k, x, s)' <=> Owns(k, x, s)
      BY <1>8, <2>1, <2>3 DEF Owns
    <3> QED
      BY <3>1 DEF FlInv, SpansOnce
  <2> QED
    BY <2>2, <2>3
<1>13. CallsWhole'
  <2> SUFFICES ASSUME NEW u \in Threads
               PROVE  WholeCall(th[u])'
    BY DEF CallsWhole
  <2>1. WholeCall(th[u]) /\ th[u].cl \in Classes /\ th[u].at \in Classes
    BY CallFacts
  <2>2. CASE u = t
    BY <2>2 DEF WholeCall
  <2>3. CASE u # t
    <3>1. th'[u] = th[u]
      BY <2>3
    <3>2. /\ th'[u].range \subseteq {p \in Objects : p[1] \in spans'[th'[u].cl]}
          /\ th'[u].list \subseteq {p \in Objects : p[1] \in spans'[th'[u].at]}
      BY <1>8, <2>1, <3>1 DEF WholeCall, ObjectsOf
    <3>3. (th[u].range \subseteq ObjectsOf(th[u].cl) /\ th[u].list \subseteq ObjectsOf(th[u].at))'
      BY <3>2 DEF ObjectsOf, Objects
    <3> QED
      BY <2>1, <3>1, <3>3 DEF WholeCall
  <2> QED
    BY <2>2, <2>3
<1>14. SlotsWhole'
  <2>1. \A d \in Classes : ObjectsOf(d) \subseteq ObjectsOf(d)'
    BY <1>8 DEF ObjectsOf, Objects
  <2> QED
    BY <2>1 DEF FlInv, SlotsWhole, Used

<1>15. CountsInv'
  <2>1. /\ counter = [d \in Classes |-> Cardinality(free \cap ObjectsOf(d))]
        /\ numSpans = [d \in Classes |-> Cardinality(spans[d])]
        /\ refcount = [s \in Spans |->
             IF InUse(s) THEN ObjectsPerSpan - Cardinality(free \cap Of(s)) ELSE 0]
    BY DEF FlInv, CountsInv
  <2>2. avail = (free \cap ObjectsOf(c)) \cup U
    OBVIOUS
  <2> HIDE DEF U
  <2>3. Cardinality(app') - Cardinality(app) = Cardinality(found)
    <3>1. app \cap found = {}
      BY <1>6, <2>2
    <3>2. Cardinality(app \cup found) =
            Cardinality(app) + Cardinality(found) - Cardinality(app \cap found)
      BY <1>1, <1>7, FS_Union
    <3>3. Cardinality(app) \in Nat /\ Cardinality(app \cap found) = 0
      BY <1>1, <3>1, FS_CardinalityType, FS_EmptySet
    <3> QED
      BY <1>7, <3>2, <3>3
  <2>4. ASSUME NEW d \in Classes
        PROVE  /\ counter'[d] = Cardinality(free' \cap ObjectsOf(d)')
               /\ numSpans'[d] = Cardinality(spans'[d])
    <3>1. ObjectsOf(d)' = {p \in Objects : p[1] \in spans'[d]}
      BY DEF ObjectsOf, Objects
    <3>2. ObjectsOf(d) = {p \in Objects : p[1] \in spans[d]}
      BY DEF ObjectsOf
    <3>3. \A s \in new : s \notin spans[d]
      BY <1>4 DEF InUse
    <3>4. CASE d = c
      <4>1. free' \cap ObjectsOf(d)' = avail \ found
        BY <1>1, <1>3, <1>6, <1>8, <2>2, <3>1, <3>2, <3>4
      <4>2. Cardinality(avail \ found) = Cardinality(avail) - Cardinality(found)
        <5>1. avail \cap found = found
          OBVIOUS
        <5> QED
          BY <1>7, <5>1, FS_Difference
      <4>3. /\ IsFiniteSet(free \cap ObjectsOf(c)) /\ Cardinality(free \cap ObjectsOf(c)) \in Nat
        BY ObjectsOfClass, FS_Intersection, FS_CardinalityType DEF FlInv
      <4>4. Cardinality(avail) = counter[c] + ObjectsPerSpan * Cardinality(new)
        <5>1. (free \cap ObjectsOf(c)) \cap U = {}
          BY <1>6
        <5>2. Cardinality(avail) = Cardinality(free \cap ObjectsOf(c)) + Cardinality(U)
                                   - Cardinality((free \cap ObjectsOf(c)) \cap U)
          BY <1>3, <2>2, <4>3, FS_Union
        <5>3. Cardinality((free \cap ObjectsOf(c)) \cap U) = 0 /\ Cardinality(U) \in Nat
          BY <1>3, <5>1, FS_EmptySet, FS_CardinalityType
        <5>4. counter[c] = Cardinality(free \cap ObjectsOf(c))
          BY <2>1
        <5> QED
          BY <1>3, <4>3, <5>2, <5>3, <5>4
      <4>5. counter'[d] = counter[c] + ObjectsPerSpan * Cardinality(new) - Cardinality(found)
        BY <2>1, <2>3, <3>4
      <4>6. Cardinality(spans'[d]) = Cardinality(spans[c]) + Cardinality(new)
        <5>1. spans[c] \cap new = {}
          BY <3>3, <3>4
        <5>2. Cardinality(spans[c] \cup new) =
                Cardinality(spans[c]) + Cardinality(new) - Cardinality(spans[c] \cap new)
          BY <1>1, <1>3, FS_Union
        <5>3. Cardinality(spans[c]) \in Nat /\ Cardinality(spans[c] \cap new) = 0
          BY <1>1, <5>1, FS_CardinalityType, FS_EmptySet
        <5> QED
          BY <1>3, <1>8, <3>4, <5>2, <5>3
      <4>7. counter'[d] = Cardinality(free' \cap ObjectsOf(d)')
        <5>1. counter'[d] = Cardinality(avail) - Cardinality(found)
          <6>1. counter[c] \in Nat /\ ObjectsPerSpan * Cardinality(new) \in Nat
            BY <1>2, <1>3, <2>1, <4>3
          <6> QED
            BY <1>7, <4>4, <4>5, <6>1
        <5>2. Cardinality(free' \cap ObjectsOf(d)') = Cardinality(avail \ found)
          BY <4>1
        <5> QED
          BY <4>2, <5>1, <5>2
      <4>8. numSpans'[d] = numSpans[c] + Cardinality(new) /\ numSpans[c] = Cardinality(spans[c])
        BY <2>1, <3>4
      <4> QED
        BY <4>6, <4>7, <4>8
    <3>5. CASE d # c
      <4>1. \A s \in spans[d] : s \notin spans[c]
        <5>1. ASSUME NEW s \in spans[d], s \in spans[c]
              PROVE  FALSE
          <6>1. Owns("class", d, s) /\ Owns("class", c, s) /\ s \in Spans
            BY <1>1, <5>1 DEF Owns
          <6> QED
            BY <3>5, <6>1 DEF FlInv, SpansOnce
        <5> QED
          BY <5>1
      <4>2. free' \cap ObjectsOf(d)' = free \cap ObjectsOf(d)
        BY <1>3, <1>6, <1>8, <2>2, <3>1, <3>2, <3>3, <3>5, <4>1 DEF ObjectsOf
      <4> QED
        BY <1>8, <2>1, <3>5, <4>2
    <3> QED
      BY <3>4, <3>5
  <2>5. ASSUME NEW s \in Spans
        PROVE  refcount'[s] = IF InUse(s)' THEN ObjectsPerSpan - Cardinality(free' \cap Of(s))
                              ELSE 0
    <3>1. /\ IsFiniteSet(Of(s)) /\ Cardinality(Of(s)) = ObjectsPerSpan
          /\ Of(s) = {p \in Objects : p[1] = s}
      BY OfSpan
    <3>2. IsFiniteSet(found \cap Of(s)) /\ Cardinality(found \cap Of(s)) \in Nat
      BY <1>7, FS_Intersection, FS_CardinalityType
    <3>3. refcount'[s] = refcount[s] + Cardinality(found \cap Of(s))
      OBVIOUS
    <3>4. CASE s \in new
      <4>1. free' \cap Of(s) = Of(s) \ found
        BY <1>1, <1>3, <1>6, <2>2, <3>1, <3>4
      <4>2. Cardinality(Of(s) \ found) = ObjectsPerSpan - Cardinality(found \cap Of(s))
        <5>1. Of(s) \cap found = found \cap Of(s)
          OBVIOUS
        <5>2. Cardinality(Of(s) \ found) = Cardinality(Of(s)) - Cardinality(Of(s) \cap found)
          BY <3>1, FS_Difference
        <5> QED
          BY <3>1, <5>1, <5>2
      <4>3. refcount[s] = 0 /\ InUse(s)'
        BY <1>4, <1>8, <2>1, <3>4
      <4>4. refcount'[s] = Cardinality(found \cap Of(s))
        BY <3>2, <3>3, <4>3
      <4>5. Cardinality(free' \cap Of(s)) = ObjectsPerSpan - Cardinality(found \cap Of(s))
        BY <4>1, <4>2
      <4> QED
        BY <1>2, <3>2, <4>3, <4>4, <4>5
    <3>5. CASE s \notin new
      <4>1. free' \cap Of(s) = (free \cap Of(s)) \ found
        BY <1>1, <1>3, <1>6, <2>2, <3>1, <3>5
      <4>2. (free \cap Of(s)) \cap found = found \cap Of(s)
        BY <1>1, <1>3, <1>6, <2>2, <3>1, <3>5
      <4>3. IsFiniteSet(free \cap Of(s)) /\ Cardinality(free \cap Of(s)) \in Nat
        BY <3>1, FS_Intersection, FS_CardinalityType
      <4>4. Cardinality(free' \cap Of(s)) =
              Cardinality(free \cap Of(s)) - Cardinality(found \cap Of(s))
        <5>1. Cardinality((free \cap Of(s)) \ found) =
                Cardinality(free \cap Of(s)) - Cardinality((free \cap Of(s)) \cap found)
          BY <4>3, FS_Difference
        <5> QED
          BY <4>1, <4>2, <5>1
      <4>5. CASE InUse(s)
        BY <1>2, <1>8, <2>1, <3>2, <3>3, <4>3, <4>4, <4>5
      <4>6. CASE ~InUse(s)
        <5>1. \A p \in Of(s) : p \notin free
          <6>1. ASSUME NEW p \in Of(s), p \in free
                PROVE  FALSE
            <7>1. Holds("free", NoThread, 0, p) /\ p \in Objects /\ p[1] = s
              BY <3>1, <6>1 DEF Holds
            <7> QED
              BY <4>6, <7>1 DEF FlInv, ObjectsOnce
          <6> QED
            BY <6>1
        <5>2. found \cap Of(s) = {}
          BY <4>2, <5>1
        <5>3. Cardinality(found \cap Of(s)) = 0
          BY <5>2, FS_EmptySet
        <5> QED
          BY <1>8, <2>1, <3>3, <3>5, <4>6, <5>3
      <4> QED
        BY <4>5, <4>6
    <3> QED
      BY <3>4, <3>5
  <2>6. /\ counter' = [d \in Classes |-> counter'[d]]
        /\ numSpans' = [d \in Classes |-> numSpans'[d]]
        /\ refcount' = [s \in Spans |-> refcount'[s]]
    BY <2>1
  <2>7. counter' = [d \in Classes |-> Cardinality(free' \cap ObjectsOf(d)')]
    BY <2>4, <2>6
  <2>8. numSpans' = [d \in Classes |-> Cardinality(spans'[d])]
    BY <2>4, <2>6
  <2>9. refcount' = [s \in Spans |->
          IF InUse(s)' THEN ObjectsPerSpan - Cardinality(free' \cap Of(s)) ELSE 0]
    BY <2>5, <2>6
  <2> QED
    BY <2>7, <2>8, <2>9 DEF CountsInv, Of
<1> QED
  BY <1>9, <1>11, <1>12, <1>13, <1>14, <1>15 DEF FlInv

---------------------------------------------------------------------------
LEMMA PopulatedConserves ==
  ASSUME FlInv, CfInv', NEW t \in Threads, Populated(t)
  PROVE  FlInv'
<1> DEFINE r == th[t]
           c == r.cl
           new == IF r.span = NoSpan THEN {} ELSE {r.span}
           avail == (free \cap ObjectsOf(c)) \cup UNION {Of(sp) : sp \in new}
<1>1. WholeCall(r) /\ ThInv /\ c \in Classes /\ r.pc = "populated"
  BY CallFacts DEF Populated
<1>2. r.range = {} /\ r.list = {} /\ (r.span = NoSpan \/ r.span \in Spans)
  BY <1>1 DEF WholeCall
<1>3. PICK found \in SUBSET avail :
        /\ app' = app \cup found
        /\ free' = (free \cup avail) \ found
        /\ refcount' = [sp \in Spans |-> refcount[sp] + Cardinality(found \cap Of(sp))]
  BY DEF Populated, Fetch
<1>4. /\ Set(t, Idle) /\ UNCHANGED <<slots, heap>>
      /\ spans' = [spans EXCEPT ![c] = @ \cup new]
      /\ numSpans' = [numSpans EXCEPT ![c] = @ + Cardinality(new)]
      /\ counter' = [counter EXCEPT ![c] = @ + ObjectsPerSpan * Cardinality(new)
                                             - (Cardinality(app') - Cardinality(app))]
  BY DEF Populated, cache
<1>5. /\ \A u \in Threads : u # t => th'[u] = th[u]
      /\ th'[t] = Idle
  BY <1>1, <1>4, OneCall
<1>6. Idle.range = {} /\ Idle.list = {} /\ Idle.span = NoSpan /\ Idle.pc = "idle"
  BY DEF Idle
<1>7. (new = {} /\ r.span = NoSpan) \/ (new = {r.span} /\ r.span \in Spans)
  BY <1>2
<1>8. avail = (free \cap ObjectsOf(c)) \cup UNION {Of(sp) : sp \in new}
  OBVIOUS
<1> HIDE DEF new, avail
<1>9. Fetched(t, c, new, avail, found)
  BY <1>2, <1>3, <1>4, <1>5, <1>6, <1>7, <1>8 DEF Fetched
<1> QED
  BY <1>1, <1>9, FetchConserves

LEMMA RemoveConserves ==
  ASSUME FlInv, CfInv', NEW t \in Threads, RemoveRange(t)
  PROVE  FlInv'
<1> DEFINE r == th[t]
<1>1. WholeCall(r) /\ ThInv /\ SlotsInv /\ r.pc = "idle"
  BY CallFacts DEF RemoveRange
<1>2. r.range = {} /\ r.list = {} /\ r.span = NoSpan
  BY <1>1 DEF WholeCall
<1>3. PICK c \in Classes, n \in Nat : RemoveFromSlot(c, n) \/ RemoveFromSpans(t, c, n)
  BY CentralAssumption DEF RemoveRange
<1>4. UNCHANGED heap
  BY DEF RemoveRange
<1>5. CASE RemoveFromSlot(c, n)
  <2> DEFINE range == slots[c][Used(c)]
  <2>1. /\ slots[c] # <<>> /\ slots' = [slots EXCEPT ![c] = SubSeq(@, 1, Len(@) - 1)]
        /\ app' = app \cup range /\ UNCHANGED <<lists, th>> /\ UNCHANGED <<spans, free, th>>
    BY <1>5 DEF RemoveFromSlot, lists
  <2>2. /\ SlotsWhole'
        /\ \A d \in Classes : \A i, o : SlotHas(d, i, o)' <=>
             SlotHas(d, i, o) /\ ~(d = c /\ i = Used(c))
        /\ Used(c) \in 1..Used(c)
    BY <1>1, <2>1, Popped DEF FlInv
  <2>3. range \subseteq ObjectsOf(c)
    BY <2>2 DEF FlInv, SlotsWhole
  <2>4. app' \subseteq Objects /\ IsFiniteSet(app')
    <3>1. IsFiniteSet(ObjectsOf(c)) /\ ObjectsOf(c) \subseteq Objects
      BY ObjectsOfClass DEF FlInv
    <3>2. IsFiniteSet(range) /\ IsFiniteSet(app) /\ app \subseteq Objects
      BY <2>3, <3>1, FS_Subset DEF FlInv, ListsInv
    <3>3. IsFiniteSet(app \cup range)
      BY <3>2, FS_Union
    <3> QED
      BY <2>1, <2>3, <3>1, <3>2, <3>3
  <2>5. (ListsInv /\ CountsInv)'
    BY <1>4, <2>1, <2>4, ListsStay DEF FlInv
  <2>6. SpansOnce' /\ CallsWhole'
    BY <1>4, <2>1 DEF FlInv, SpansOnce, Owns, CallsWhole, WholeCall, ObjectsOf, Objects
  <2>7. ASSUME NEW o \in Objects, o \in range
        PROVE  InUse(o[1]) /\ GoesTo(o, "app", NoThread, 0)
    <3>1. Holds("slot", c, Used(c), o)
      BY <2>2, <2>7 DEF Holds, SlotHas
    <3>2. \A l, y, j : Holds(l, y, j, o) => l = "slot" /\ y = c /\ j = Used(c)
      BY <3>1 DEF ObjectsOnce, FlInv
    <3>3. GoesTo(o, "app", NoThread, 0)
      BY <2>1, <2>2, <2>7, <3>2 DEF GoesTo, Holds
    <3> QED
      BY <3>1, <3>3 DEF ObjectsOnce, FlInv
  <2>8. ASSUME NEW o \in Objects, o \notin range
        PROVE  Stays(o)
    <3>1. \A d \in Classes : \A i : SlotHas(d, i, o)' <=> SlotHas(d, i, o)
      BY <2>2, <2>8 DEF SlotHas
    <3> QED
      BY <2>1, <2>8, <3>1 DEF Stays, Holds
  <2>9. ObjectsOnce'
    BY <2>1, <2>7, <2>8, Moved DEF FlInv
  <2> QED
    BY <2>2, <2>5, <2>6, <2>9 DEF FlInv
<1>6. CASE RemoveFromSpans(t, c, n)
  <2> DEFINE avail == free \cap ObjectsOf(c)
             q == [Idle EXCEPT !.pc = "populate", !.cl = c, !.n = n]
  <2>1. CASE avail = {}
    <3>1. Set(t, q) /\ UNCHANGED <<lists, slots, heap, app>>
      BY <1>4, <1>6, <2>1 DEF RemoveFromSpans
    <3>2. q.range = {} /\ q.list = {} /\ q.span = NoSpan /\ q.pc = "populate"
      BY DEF Idle
    <3> HIDE DEF q
    <3>3. WholeCall(q)
      BY <3>2 DEF WholeCall
    <3> QED
      BY <1>2, <3>1, <3>2, <3>3, CallGoesOn
  <2>2. CASE avail # {}
    <3>1. /\ Fetch(c, n, avail) /\ UNCHANGED <<spans, numSpans, th, slots>>
          /\ counter' = [counter EXCEPT ![c] = @ - (Cardinality(app') - Cardinality(app))]
      BY <1>6, <2>2 DEF RemoveFromSpans
    <3>2. PICK found \in SUBSET avail :
            /\ app' = app \cup found
            /\ free' = (free \cup avail) \ found
            /\ refcount' = [sp \in Spans |-> refcount[sp] + Cardinality(found \cap Of(sp))]
      BY <3>1 DEF Fetch
    <3>3. avail = (free \cap ObjectsOf(c)) \cup UNION {Of(sp) : sp \in {}}
      OBVIOUS
    <3>4. /\ counter = [d \in Classes |-> Cardinality(free \cap ObjectsOf(d))]
          /\ numSpans = [d \in Classes |-> Cardinality(spans[d])]
          /\ spans \in [Classes -> SUBSET Spans]
      BY DEF FlInv, ListsInv, CountsInv
    <3>5. IsFiniteSet(avail) /\ Cardinality(avail) \in Nat
      BY ObjectsOfClass, FS_Intersection, FS_CardinalityType DEF FlInv
    <3>6. Cardinality(app) \in Nat /\ Cardinality(app') \in Nat
      <4>1. IsFiniteSet(found) /\ IsFiniteSet(app)
        BY <3>5, FS_Subset DEF FlInv, ListsInv
      <4>2. IsFiniteSet(app \cup found)
        BY <4>1, FS_Union
      <4> QED
        BY <3>2, <4>1, <4>2, FS_CardinalityType
    <3> HIDE DEF avail
    <3>7. Cardinality({}) = 0
      BY FS_EmptySet
    <3>8. numSpans' = [numSpans EXCEPT ![c] = @ + Cardinality({})]
      <4>1. numSpans[c] \in Nat
        BY <3>4, FS_CardinalityType DEF FlInv, ListsInv
      <4>2. numSpans[c] + Cardinality({}) = numSpans[c]
        BY <3>7, <4>1
      <4> QED
        BY <3>1, <3>4, <4>2
    <3>9. counter' = [counter EXCEPT ![c] = @ + ObjectsPerSpan * Cardinality({})
                                              - (Cardinality(app') - Cardinality(app))]
      <4>1. counter[c] \in Nat /\ ObjectsPerSpan \in Nat
        BY <3>4, <3>5, CentralAssumption DEF avail
      <4>2. counter[c] + ObjectsPerSpan * Cardinality({}) - (Cardinality(app') - Cardinality(app))
              = counter[c] - (Cardinality(app') - Cardinality(app))
        BY <3>6, <3>7, <4>1
      <4> QED
        BY <3>1, <4>2
    <3>10. spans' = [spans EXCEPT ![c] = @ \cup {}]
      BY <3>1, <3>4
    <3>11. /\ \A u \in Threads : u # t => th'[u] = th[u]
           /\ th'[t].range = {} /\ th'[t].list = {} /\ th'[t].span = NoSpan /\ th'[t].pc = "idle"
      BY <1>1, <1>2, <3>1
    <3>12. Fetched(t, c, {}, avail, found)
      BY <1>2, <1>4, <3>1, <3>2, <3>3, <3>8, <3>9, <3>10, <3>11 DEF Fetched
    <3> QED
      BY <3>12, FetchConserves
  <2> QED
    BY <2>1, <2>2
<1> QED
  BY <1>3, <1>5, <1>6

LEMMA NextFlInv == FlInv /\ [CfNext]_cfVars => FlInv'
<1> SUFFICES ASSUME FlInv, [CfNext]_cfVars
             PROVE  FlInv'
  OBVIOUS
<1>1. CfInv'
  BY NextCfInv DEF FlInv
<1>2. CASE UNCHANGED cfVars
  <2>1. UNCHANGED <<lists, cache, heap, app, th>>
    BY <1>2 DEF cfVars
  <2>2. UNCHANGED <<spans, free, refcount, numSpans, counter, slots, heap, app, th>>
    BY <2>1 DEF lists, cache
  <2> QED
    BY <1>1, <2>2 DEF FlInv, ListsInv, ObjectsOnce, Holds, SlotHas, Used, SpansOnce, Owns,
       CallsWhole, WholeCall, SlotsWhole, CountsInv, ObjectsOf, Objects, Of, InUse
<1>3. ASSUME NEW t \in Threads, InsertRange(t) \/ RemoveRange(t) \/ Step(t)
      PROVE  FlInv'
  BY <1>1, <1>3, InsertConserves, RemoveConserves, EvictConserves, ShrinkConserves,
     RelockConserves, ReleaseConserves, ReleasedConserves, HeapConserves, PopulatedConserves
     DEF Step
<1> QED
  BY <1>2, <1>3 DEF CfNext

---------------------------------------------------------------------------
(* The inductive invariant: places, wholeness and counts, none of which is   *)
(* one without the others.                                                   *)
THEOREM FlInvariant == CfSpec => []FlInv
<1>1. CfInit => FlInv
  BY InitFlInv
<1>2. FlInv /\ [CfNext]_cfVars => FlInv'
  BY NextFlInv
<1> QED
  BY <1>1, <1>2, PTL DEF CfSpec

(* A set that has x alone, or nothing.                                       *)
LEMMA OneOrNone ==
  ASSUME NEW S, NEW x, \A y \in S : y = x
  PROVE  Cardinality(S) = IF x \in S THEN 1 ELSE 0
<1>1. CASE x \in S
  <2>1. S = {x}
    BY <1>1
  <2> QED
    BY <1>1, <2>1, FS_Singleton
<1>2. CASE x \notin S
  <2>1. S = {}
    BY <1>2
  <2> QED
    BY <1>2, <2>1, FS_EmptySet
<1> QED
  BY <1>1, <1>2

(* An object is where it is, and in none of the four other places.           *)
LEMMA OnePlace ==
  ASSUME ObjectsOnce, NEW o \in Objects
  PROVE  Places(o) = IF InUse(o[1]) THEN 1 ELSE 0
<1> DEFINE S == {c \in Classes : \E i \in 1..Used(c) : o \in slots[c][i]}
           R == {t \in Threads : o \in th[t].range}
           L == {t \in Threads : o \in th[t].list}
<1>1. /\ \A c : c \in S <=> \E i : Holds("slot", c, i, o)
      /\ \A t : t \in R <=> Holds("range", t, 0, o)
      /\ \A t : t \in L <=> Holds("list", t, 0, o)
      /\ o \in app <=> Holds("app", NoThread, 0, o)
      /\ o \in free <=> Holds("free", NoThread, 0, o)
  BY DEF Holds, SlotHas
<1>2. Places(o) = Cardinality(S) + Cardinality(R) + Cardinality(L)
                  + (IF o \in app THEN 1 ELSE 0) + (IF o \in free THEN 1 ELSE 0)
  BY DEF Places
<1>3. /\ \A k, x, i, l, y, j : Holds(k, x, i, o) /\ Holds(l, y, j, o) => k = l /\ x = y /\ i = j
      /\ InUse(o[1]) <=> \E k, x, i : Holds(k, x, i, o)
  BY DEF ObjectsOnce
<1>4. \A k, x, i : Holds(k, x, i, o) => k \in {"slot", "range", "list", "app", "free"}
  BY DEF Holds
<1> HIDE DEF S, R, L
<1>5. CASE InUse(o[1])
  <2>1. PICK k, x, i : Holds(k, x, i, o)
    BY <1>3, <1>5
  <2>2. /\ \A c \in S : k = "slot" /\ c = x
        /\ \A t \in R : k = "range" /\ t = x
        /\ \A t \in L : k = "list" /\ t = x
        /\ o \in app => k = "app"
        /\ o \in free => k = "free"
    BY <1>1, <1>3, <2>1
  <2>3. /\ x \in S <=> k = "slot"
        /\ x \in R <=> k = "range"
        /\ x \in L <=> k = "list"
        /\ o \in app <=> k = "app"
        /\ o \in free <=> k = "free"
    <3>1. /\ k = "range" => i = 0 /\ x \in R
          /\ k = "list" => i = 0 /\ x \in L
          /\ k = "app" => o \in app
          /\ k = "free" => o \in free
      BY <1>1, <2>1 DEF Holds
    <3>2. k = "slot" => x \in S
      BY <1>1, <2>1
    <3> QED
      BY <2>2, <3>1, <3>2
  <2>4. /\ Cardinality(S) = IF k = "slot" THEN 1 ELSE 0
        /\ Cardinality(R) = IF k = "range" THEN 1 ELSE 0
        /\ Cardinality(L) = IF k = "list" THEN 1 ELSE 0
    <3>1. Cardinality(S) = IF k = "slot" THEN 1 ELSE 0
      BY <2>2, <2>3, OneOrNone
    <3>2. Cardinality(R) = IF k = "range" THEN 1 ELSE 0
      BY <2>2, <2>3, OneOrNone
    <3>3. Cardinality(L) = IF k = "list" THEN 1 ELSE 0
      BY <2>2, <2>3, OneOrNone
    <3> QED
      BY <3>1, <3>2, <3>3
  <2> QED
    BY <1>2, <1>4, <1>5, <2>1, <2>3, <2>4
<1>6. CASE ~InUse(o[1])
  <2>1. S = {} /\ R = {} /\ L = {} /\ o \notin app /\ o \notin free
    BY <1>1, <1>3, <1>6
  <2>2. Cardinality({}) = 0
    BY FS_EmptySet
  <2> QED
    BY <1>2, <1>6, <2>1, <2>2
<1> QED
  BY <1>5, <1>6

LEMMA OneOwner ==
  ASSUME SpansOnce, NEW sp \in Spans
  PROVE  Cardinality({c \in Classes : sp \in spans[c]}) + (IF sp \in heap THEN 1 ELSE 0)
         + Cardinality({t \in Threads : th[t].span = sp}) = 1
<1> DEFINE C == {c \in Classes : sp \in spans[c]}
           T == {t \in Threads : th[t].span = sp}
<1>1. /\ \A c : c \in C <=> Owns("class", c, sp)
      /\ \A t : t \in T <=> Owns("call", t, sp)
      /\ sp \in heap <=> Owns("heap", NoThread, sp)
  BY DEF Owns
<1>2. /\ \A k, x, l, y : Owns(k, x, sp) /\ Owns(l, y, sp) => k = l /\ x = y
      /\ \E k, x : Owns(k, x, sp)
  BY DEF SpansOnce
<1>3. \A k, x : Owns(k, x, sp) =>
        k \in {"class", "heap", "call"} /\ (k = "heap" => x = NoThread)
  BY DEF Owns
<1> HIDE DEF C, T
<1>4. PICK k, x : Owns(k, x, sp)
  BY <1>2
<1>5. /\ \A c \in C : k = "class" /\ c = x
      /\ \A t \in T : k = "call" /\ t = x
      /\ x \in C <=> k = "class"
      /\ x \in T <=> k = "call"
      /\ sp \in heap <=> k = "heap"
  BY <1>1, <1>2, <1>3, <1>4
<1>6. Cardinality(C) = IF k = "class" THEN 1 ELSE 0
  BY <1>5, OneOrNone
<1>7. Cardinality(T) = IF k = "call" THEN 1 ELSE 0
  BY <1>5, OneOrNone
<1>8. Cardinality(C) + (IF sp \in heap THEN 1 ELSE 0) + Cardinality(T) = 1
  BY <1>3, <1>4, <1>5, <1>6, <1>7
<1> QED
  BY <1>8 DEF C, T

(* Through slots, lists half released, thread caches and the page heap, with *)
(* locks given up in the middle: every object of every span is in exactly    *)
(* one place, and nothing of a span that the page heap has is in any.        *)
THEOREM ObjectsAlwaysConserved == CfSpec => []ObjectsAreConserved
<1>1. FlInv => ObjectsAreConserved
  BY OnePlace, OneOwner DEF FlInv, SlotsWhole, ObjectsAreConserved
<1> QED
  BY <1>1, FlInvariant, PTL

(* What length() and OverheadBytes report is what there is, and the count of *)
(* a span that of its objects that are out: never less, or it would go back  *)
(* to the page heap while some are in use.                                   *)
THEOREM CountersAlwaysExact == CfSpec => []CountersAreExact
<1>1. FlInv => CountersAreExact
  BY DEF FlInv, CountsInv, CountersAreExact
<1> QED
  BY <1>1, FlInvariant, PTL
=============================================================================
