--------------------------- MODULE CentralFreeList ---------------------------
(***************************************************************************)
(* The central free lists of TCMalloc (gperftools-2.0/src/                  *)
(* central_freelist.cc), one for each size class: ranges of objects come    *)
(* from the thread caches and go to them, through a few slots that keep     *)
(* whole ranges or through the lists of the spans.  Classes take slots from *)
(* each other.  Each has its own lock, and everything that is done under it *)
(* may have to give it up: to lock another class, or to call the page heap. *)
(*                                                                         *)
(* A span here has ObjectsPerSpan objects for any class; what a thread      *)
(* cache or the application has is app.                                     *)
(***************************************************************************)
EXTENDS Integers, Sequences, FiniteSets

CONSTANTS
  Threads, NoThread,
  Classes,
  Spans, NoSpan,    (* what the page heap has                               *)
  ObjectsPerSpan,
  Batch,            (* num_objects_to_move, by class                        *)
  InitialCache,     (* cache_size_, by class, when the story begins         *)
  MaxCache,         (* max_cache_size_, by class                            *)
  MaxCalls          (* bound on InsertRange and RemoveRange                 *)

ASSUME CentralAssumption ==
  /\ NoThread \notin Threads /\ NoSpan \notin Spans /\ Classes # {}
  /\ ObjectsPerSpan \in Nat \ {0} /\ MaxCalls \in Nat
  /\ Batch \in [Classes -> Nat \ {0}]
  /\ InitialCache \in [Classes -> Nat] /\ MaxCache \in [Classes -> Nat]
  /\ \A c \in Classes : InitialCache[c] <= MaxCache[c]

(* kNumClasses of them; the sum of all slots means nothing otherwise.        *)
ASSUME FiniteAssumption == IsFiniteSet(Threads) /\ IsFiniteSet(Classes)

Objects == Spans \X (1..ObjectsPerSpan)
Of(sp) == {sp} \X (1..ObjectsPerSpan)

VARIABLES
  lock,       (* lock_: who has it                                          *)
  spans,      (* nonempty_ and empty_: the spans of each class              *)
  free,       (* the objects on the spans' lists                            *)
  refcount,   (* of each span                                               *)
  numSpans, counter,
  slots,      (* tc_slots_, the first used_slots_ of them                   *)
  cacheSize,
  heap,       (* the page heap                                              *)
  app,        (* the objects in thread caches or in use                     *)
  th,         (* the calls                                                  *)
  calls

lists == <<spans, free, refcount, numSpans, counter>>
cache == <<slots, cacheSize>>
cfVars == <<lock, lists, cache, heap, app, th, calls>>

Idle == [pc |-> "idle", cl |-> CHOOSE c \in Classes : TRUE, n |-> 0,
         range |-> {},      (* to be inserted, or what RemoveRange has found *)
         list |-> {},       (* to be released to the spans of class at       *)
         at |-> CHOOSE c \in Classes : TRUE,
         force |-> FALSE, evicted |-> FALSE, span |-> NoSpan]

CfInit ==
  /\ lock = [c \in Classes |-> NoThread]
  /\ spans = [c \in Classes |-> {}]
  /\ free = {}
  /\ refcount = [sp \in Spans |-> 0]
  /\ numSpans = [c \in Classes |-> 0]
  /\ counter = [c \in Classes |-> 0]
  /\ slots = [c \in Classes |-> <<>>]
  /\ cacheSize = InitialCache
  /\ heap = Spans
  /\ app = {}
  /\ th = [t \in Threads |-> Idle]
  /\ calls = 0

---------------------------------------------------------------------------
Used(c) == Len(slots[c])
ObjectsOf(c) == {o \in Objects : o[1] \in spans[c]}
Set(t, r) == th' = [th EXCEPT ![t] = r]
Take(c, t) == lock[c] = NoThread /\ lock' = [lock EXCEPT ![c] = t]
Drop(c) == lock' = [lock EXCEPT ![c] = NoThread]
Keep(c, range) == slots' = [slots EXCEPT ![c] = Append(@, range)]

(* InsertRange goes on to ReleaseListToSpans.                                *)
Releasing(r) == [r EXCEPT !.pc = "release", !.list = r.range, !.range = {}, !.at = r.cl]

(* InsertRange with a slot to put the range in.                              *)
InsertInSlot(t, c, range) ==
  /\ lock[c] = NoThread
  /\ Cardinality(range) = Batch[c] /\ Used(c) < cacheSize[c]
  /\ Keep(c, range)
  /\ UNCHANGED <<lock, cacheSize, th>>

(* InsertRange without: MakeCacheSpace tries to get one from another class,  *)
(* unless this one has as many as it may, or the range is of another length. *)
InsertElsewhere(t, c, range) ==
  LET r == [Idle EXCEPT !.cl = c, !.range = range]
  IN /\ Cardinality(range) = Batch[c] => Used(c) >= cacheSize[c]
     /\ Take(c, t)
     /\ Set(t, IF Cardinality(range) = Batch[c] /\ cacheSize[c] # MaxCache[c]
               THEN [r EXCEPT !.pc = "evict"] ELSE Releasing(r))
     /\ UNCHANGED cache

InsertRange(t) ==
  /\ th[t].pc = "idle"
  /\ calls < MaxCalls
  /\ \E c \in Classes : \E range \in SUBSET (app \cap ObjectsOf(c)) :
       /\ Cardinality(range) \in 1..Batch[c]
       /\ InsertInSlot(t, c, range) \/ InsertElsewhere(t, c, range)
       /\ app' = app \ range
  /\ calls' = calls + 1
  /\ UNCHANGED <<lists, heap>>

---------------------------------------------------------------------------
EvictBug(t) ==   (* waits for the victim's lock with its own in hand              *)
  LET r == th[t]
  IN /\ r.pc = "evict"
     /\ \E v \in Classes :
          IF \/ v = r.cl \/ cacheSize[v] = 0
             \/ (~r.force /\ Used(v) = cacheSize[v])
          THEN Set(t, IF r.force THEN Releasing(r) ELSE [r EXCEPT !.force = TRUE])
          ELSE Set(t, [r EXCEPT !.pc = "shrink", !.at = v])
     /\ UNCHANGED <<lock, lists, cache, heap, app, calls>>

(* EvictRandomSizeClass: the counter that names the victim is shared by all  *)
(* without a lock, so it may be any; ShrinkCache first looks at the victim   *)
(* without its lock.  With the lock of its own class in hand, the thread     *)
(* gives up this one before it waits for that one.                           *)
Evict(t) ==
  LET r == th[t]
  IN /\ r.pc = "evict"
     /\ \E v \in Classes :
          IF \/ v = r.cl \/ cacheSize[v] = 0
             \/ (~r.force /\ Used(v) = cacheSize[v])
          THEN /\ Set(t, IF r.force THEN Releasing(r) ELSE [r EXCEPT !.force = TRUE])
               /\ UNCHANGED lock
          ELSE /\ Set(t, [r EXCEPT !.pc = "shrink", !.at = v])
               /\ Drop(r.cl)
     /\ UNCHANGED <<lists, cache, heap, app, calls>>

ShrinkBug(t) ==   (* releases the range of the first slot                         *)
  LET r == th[t]
      v == r.at
      full == Used(v) = cacheSize[v]
      done == [r EXCEPT !.pc = "relock"]
  IN /\ r.pc = "shrink"
     /\ lock[v] = NoThread
     /\ IF cacheSize[v] = 0 \/ (full /\ ~r.force)
        THEN Set(t, [done EXCEPT !.evicted = FALSE]) /\ UNCHANGED <<lock, cache>>
        ELSE /\ cacheSize' = [cacheSize EXCEPT ![v] = @ - 1]
             /\ IF full
                THEN /\ Take(v, t)
                     /\ slots' = [slots EXCEPT ![v] = SubSeq(@, 1, Len(@) - 1)]
                     /\ Set(t, [r EXCEPT !.pc = "release", !.evicted = TRUE,
                                         !.list = slots[v][1]])
                ELSE Set(t, [done EXCEPT !.evicted = TRUE]) /\ UNCHANGED <<lock, slots>>
     /\ UNCHANGED <<lists, heap, app, calls>>

ShrinkKeepsBug(t) ==   (* the victim keeps a slot that it does not use          *)
  LET r == th[t]
      v == r.at
      full == Used(v) = cacheSize[v]
      done == [r EXCEPT !.pc = "relock"]
  IN /\ r.pc = "shrink"
     /\ lock[v] = NoThread
     /\ IF cacheSize[v] = 0 \/ (full /\ ~r.force)
        THEN Set(t, [done EXCEPT !.evicted = FALSE]) /\ UNCHANGED <<lock, cache>>
        ELSE IF full
        THEN /\ Take(v, t)
             /\ cacheSize' = [cacheSize EXCEPT ![v] = @ - 1]
             /\ slots' = [slots EXCEPT ![v] = SubSeq(@, 1, Len(@) - 1)]
             /\ Set(t, [r EXCEPT !.pc = "release", !.evicted = TRUE,
                                 !.list = slots[v][Used(v)]])
        ELSE Set(t, [done EXCEPT !.evicted = TRUE]) /\ UNCHANGED <<lock, cache>>
     /\ UNCHANGED <<lists, heap, app, calls>>

(* ShrinkCache with the victim's lock: it may have changed since.  A slot is *)
(* given away, with its range released to the spans if it was in use.        *)
Shrink(t) ==
  LET r == th[t]
      v == r.at
      full == Used(v) = cacheSize[v]
      done == [r EXCEPT !.pc = "relock"]
  IN /\ r.pc = "shrink"
     /\ lock[v] = NoThread
     /\ IF cacheSize[v] = 0 \/ (full /\ ~r.force)
        THEN Set(t, [done EXCEPT !.evicted = FALSE]) /\ UNCHANGED <<lock, cache>>
        ELSE /\ cacheSize' = [cacheSize EXCEPT ![v] = @ - 1]
             /\ IF full
                THEN /\ Take(v, t)
                     /\ slots' = [slots EXCEPT ![v] = SubSeq(@, 1, Len(@) - 1)]
                     /\ Set(t, [r EXCEPT !.pc = "release", !.evicted = TRUE,
                                         !.list = slots[v][Used(v)]])
                ELSE Set(t, [done EXCEPT !.evicted = TRUE]) /\ UNCHANGED <<lock, slots>>
     /\ UNCHANGED <<lists, heap, app, calls>>

RelockBug(t) ==   (* grows without a second look at its size *)
  LET r == th[t]
      c == r.cl
  IN /\ r.pc = "relock"
     /\ lock[c] = NoThread
     /\ IF r.evicted
        THEN /\ cacheSize' = [cacheSize EXCEPT ![c] = @ + 1]
             /\ Keep(c, r.range)
             /\ Set(t, Idle)
             /\ UNCHANGED lock
        ELSE /\ Take(c, t)
             /\ Set(t, IF r.evicted \/ r.force THEN Releasing(r)
                       ELSE [r EXCEPT !.pc = "evict", !.force = TRUE])
             /\ UNCHANGED cache
     /\ UNCHANGED <<lists, heap, app, calls>>

(* Back in MakeCacheSpace with its own lock: with a slot won, this class may *)
(* have got its last one meanwhile; without, the victim of a second try may  *)
(* be full.                                                                  *)
Relock(t) ==
  LET r == th[t]
      c == r.cl
  IN /\ r.pc = "relock"
     /\ lock[c] = NoThread
     /\ IF r.evicted /\ cacheSize[c] < MaxCache[c]
        THEN /\ cacheSize' = [cacheSize EXCEPT ![c] = @ + 1]
             /\ Keep(c, r.range)
             /\ Set(t, Idle)
             /\ UNCHANGED lock
        ELSE /\ Take(c, t)
             /\ Set(t, IF r.evicted \/ r.force THEN Releasing(r)
                       ELSE [r EXCEPT !.pc = "evict", !.force = TRUE])
             /\ UNCHANGED cache
     /\ UNCHANGED <<lists, heap, app, calls>>

---------------------------------------------------------------------------
ReleaseToSpansBug(t) ==   (* the objects of a deleted span still count            *)
  LET r == th[t]
      c == r.at
  IN /\ r.pc = "release"
     /\ \E o \in r.list :
          LET sp == o[1]
              rest == [r EXCEPT !.list = @ \ {o}]
          IN /\ refcount' = [refcount EXCEPT ![sp] = @ - 1]
             /\ counter' = [counter EXCEPT ![c] = @ + 1]
             /\ IF refcount[sp] = 1
                THEN /\ spans' = [spans EXCEPT ![c] = @ \ {sp}]
                     /\ free' = free \ Of(sp)
                     /\ numSpans' = [numSpans EXCEPT ![c] = @ - 1]
                     /\ Drop(c)
                     /\ Set(t, [rest EXCEPT !.pc = "delete", !.span = sp])
                ELSE /\ free' = free \cup {o}
                     /\ Set(t, rest)
                     /\ UNCHANGED <<lock, spans, numSpans>>
     /\ UNCHANGED <<cache, heap, app, calls>>

(* ReleaseToSpans: one object of the list, whose order is the caller's.  The *)
(* last one that a span has out takes the span with it.                      *)
ReleaseToSpans(t) ==
  LET r == th[t]
      c == r.at
  IN /\ r.pc = "release"
     /\ \E o \in r.list :
          LET sp == o[1]
              rest == [r EXCEPT !.list = @ \ {o}]
          IN /\ refcount' = [refcount EXCEPT ![sp] = @ - 1]
             /\ IF refcount[sp] = 1
                THEN /\ counter' = [counter EXCEPT ![c] = @ + 1 - ObjectsPerSpan]
                     /\ spans' = [spans EXCEPT ![c] = @ \ {sp}]
                     /\ free' = free \ Of(sp)
                     /\ numSpans' = [numSpans EXCEPT ![c] = @ - 1]
                     /\ Drop(c)
                     /\ Set(t, [rest EXCEPT !.pc = "delete", !.span = sp])
                ELSE /\ counter' = [counter EXCEPT ![c] = @ + 1]
                     /\ free' = free \cup {o}
                     /\ Set(t, rest)
                     /\ UNCHANGED <<lock, spans, numSpans>>
     /\ UNCHANGED <<cache, heap, app, calls>>

(* PageHeap::Delete, without the lock of the class.                          *)
DeleteSpan(t) ==
  /\ th[t].pc = "delete"
  /\ heap' = heap \cup {th[t].span}
  /\ Set(t, [th[t] EXCEPT !.pc = "deleted", !.span = NoSpan])
  /\ UNCHANGED <<lock, lists, cache, app, calls>>

LockAfterDelete(t) ==
  /\ th[t].pc = "deleted"
  /\ Take(th[t].at, t)
  /\ Set(t, [th[t] EXCEPT !.pc = "release"])
  /\ UNCHANGED <<lists, cache, heap, app, calls>>

(* The list is released: InsertRange returns, or ShrinkCache does.           *)
Released(t) ==
  /\ th[t].pc = "release"
  /\ th[t].list = {}
  /\ Drop(th[t].at)
  /\ Set(t, IF th[t].range = {} THEN Idle ELSE [th[t] EXCEPT !.pc = "relock"])
  /\ UNCHANGED <<lists, cache, heap, app, calls>>

---------------------------------------------------------------------------
(* FetchFromSpans, up to n times, from the spans of c.                       *)
Fetch(c, n, avail) ==
  \E found \in SUBSET avail :
    /\ Cardinality(found) = IF Cardinality(avail) < n THEN Cardinality(avail) ELSE n
    /\ app' = app \cup found
    /\ free' = (free \cup avail) \ found
    /\ refcount' = [sp \in Spans |-> refcount[sp] + Cardinality(found \cap Of(sp))]

(* RemoveRange of a whole batch, from a slot.                                *)
RemoveFromSlot(c, n) ==
  /\ n = Batch[c] /\ slots[c] # <<>>
  /\ app' = app \cup slots[c][Used(c)]
  /\ slots' = [slots EXCEPT ![c] = SubSeq(@, 1, Len(@) - 1)]
  /\ UNCHANGED <<lists, th>>

(* RemoveRange from the spans: without an object there, Populate asks the    *)
(* page heap for a span, without the lock.                                   *)
RemoveFromSpans(t, c, n) ==
  LET avail == free \cap ObjectsOf(c)
  IN /\ n = Batch[c] => slots[c] = <<>>
     /\ IF avail = {}
        THEN /\ Set(t, [Idle EXCEPT !.pc = "populate", !.cl = c, !.n = n])
             /\ UNCHANGED <<lists, app>>
        ELSE /\ Fetch(c, n, avail)
             /\ counter' = [counter EXCEPT
                              ![c] = @ - (Cardinality(app') - Cardinality(app))]
             /\ UNCHANGED <<spans, numSpans, th>>
     /\ UNCHANGED slots

RemoveRange(t) ==
  /\ th[t].pc = "idle"
  /\ calls < MaxCalls
  /\ \E c \in Classes : \E n \in 1..Batch[c] :
       /\ lock[c] = NoThread
       /\ RemoveFromSlot(c, n) \/ RemoveFromSpans(t, c, n)
  /\ calls' = calls + 1
  /\ UNCHANGED <<lock, cacheSize, heap>>

(* PageHeap::New, which span is of no consequence: it is this thread's       *)
(* alone, until it is on a list.                                             *)
NewSpan(t) ==
  /\ th[t].pc = "populate"
  /\ IF heap = {} THEN Set(t, [th[t] EXCEPT !.pc = "populated"]) /\ UNCHANGED heap
     ELSE LET sp == CHOOSE sp \in heap : TRUE
          IN /\ heap' = heap \ {sp}
             /\ Set(t, [th[t] EXCEPT !.pc = "populated", !.span = sp])
  /\ UNCHANGED <<lock, lists, cache, app, calls>>

(* The end of Populate and of RemoveRange, with the lock: others may have    *)
(* brought objects back, or taken none, and without a span the call may      *)
(* still find some.                                                          *)
Populated(t) ==
  LET r == th[t]
      c == r.cl
      new == IF r.span = NoSpan THEN {} ELSE {r.span}
      avail == (free \cap ObjectsOf(c)) \cup UNION {Of(sp) : sp \in new}
  IN /\ r.pc = "populated"
     /\ lock[c] = NoThread
     /\ spans' = [spans EXCEPT ![c] = @ \cup new]
     /\ numSpans' = [numSpans EXCEPT ![c] = @ + Cardinality(new)]
     /\ Fetch(c, r.n, avail)
     /\ counter' = [counter EXCEPT
                      ![c] = @ + ObjectsPerSpan * Cardinality(new)
                               - (Cardinality(app') - Cardinality(app))]
     /\ Set(t, Idle)
     /\ UNCHANGED <<lock, cache, heap, calls>>

---------------------------------------------------------------------------
Step(t) ==
  \/ Evict(t) \/ Shrink(t) \/ Relock(t)
  \/ ReleaseToSpans(t) \/ DeleteSpan(t) \/ LockAfterDelete(t) \/ Released(t)
  \/ NewSpan(t) \/ Populated(t)

CfNext == \E t \in Threads : InsertRange(t) \/ RemoveRange(t) \/ Step(t)
CfSpec == CfInit /\ [][CfNext]_cfVars

(* Threads are scheduled; with the bound on calls, a lock that is given up   *)
(* is not taken by others for ever.                                          *)
CfFairSpec == CfSpec /\ \A t \in Threads : WF_cfVars(Step(t))

---------------------------------------------------------------------------
(* Where a thread is in its call, and what it has then.                      *)
Holding == {"evict", "release"}
HeldBy(r) == IF r.pc = "evict" THEN r.cl ELSE r.at

(* The assertions of ShrinkCache and InsertRange: each class uses no more    *)
(* slots than it has, and has no more than it may (central_freelist.cc:198), *)
(* also after its size has changed while the lock was given up.              *)
SlotsFit == \A c \in Classes : Used(c) <= cacheSize[c] /\ cacheSize[c] <= MaxCache[c]

(* Every object of every span is in exactly one place, and nothing of a span *)
(* that the page heap has, or that is on its way to or from it, is anywhere; *)
(* a slot keeps a whole batch of objects of its own class.                   *)
Places(o) ==
  Cardinality({c \in Classes : \E i \in 1..Used(c) : o \in slots[c][i]})
  + Cardinality({t \in Threads : o \in th[t].range}) + Cardinality({t \in Threads : o \in th[t].list})
  + (IF o \in app THEN 1 ELSE 0) + (IF o \in free THEN 1 ELSE 0)
InUse(sp) == \E c \in Classes : sp \in spans[c]
ObjectsAreConserved ==
  /\ \A o \in Objects : Places(o) = IF InUse(o[1]) THEN 1 ELSE 0
  /\ \A sp \in Spans :
       Cardinality({c \in Classes : sp \in spans[c]}) + (IF sp \in heap THEN 1 ELSE 0)
       + Cardinality({t \in Threads : th[t].span = sp}) = 1
  /\ \A c \in Classes : \A i \in 1..Used(c) :
       slots[c][i] \subseteq ObjectsOf(c) /\ Cardinality(slots[c][i]) = Batch[c]

(* What length() and OverheadBytes report is what there is, though the lock  *)
(* is given up in the middle of a release: the counters of each class and    *)
(* the reference counts of the spans.                                        *)
CountersAreExact ==
  /\ \A c \in Classes : /\ counter[c] = Cardinality(free \cap ObjectsOf(c))
                        /\ numSpans[c] = Cardinality(spans[c])
  /\ \A sp \in Spans :
       InUse(sp) => refcount[sp] = ObjectsPerSpan - Cardinality(free \cap Of(sp))

(* The slots of classes of these sizes, and the calls that have won one and  *)
(* not yet added it to their class.                                          *)
SlotsOf(size) == UNION {{c} \X (1..size[c]) : c \in Classes}
Evicted == {t \in Threads : th[t].evicted}

(* Slots move from class to class and are never made: with those won but not *)
(* yet added, there are never more than at the start (central_freelist.cc:63 *)
(* bounds the memory of all of them by it).                                  *)
SlotsAreNotMade ==
  Cardinality(SlotsOf(cacheSize)) + Cardinality(Evicted) <= Cardinality(SlotsOf(InitialCache))

(* No thread ever holds the locks of two size classes, which have no order   *)
(* (central_freelist.cc:205).                                                *)
OneLockAtATime ==
  \A c, d \in Classes : lock[c] = lock[d] /\ lock[c] # NoThread => c = d

(* Every call returns, though calls on two classes may want to shrink each   *)
(* other's cache at once.                                                    *)
CallsReturn == \A t \in Threads : th[t].pc # "idle" ~> th[t].pc = "idle"
=============================================================================
