-------------------------- MODULE SkipListProofs --------------------------
(***************************************************************************)
(* For any keys, heights and number of iterators: the links of a skip list  *)
(* are chains at every level while Insert stores them one by one, nobody    *)
(* loads a link that was not stored, and the unlocked searches implement    *)
(* the ordered set.                                                         *)
(***************************************************************************)
EXTENDS SkipList, TLAPS

(* x is a place at level i from which a search for target may go on.         *)
Before(x, i, target) == x \in {Head} \cup linked[i] /\ x < target

(* Insert's prev[i]: the link to be cut.                                     *)
Cut(i) == Before(wr.prev[i], i, wr.key) /\ wr.key < next[wr.prev[i]][i]

(* A node is linked bottom up, and not above max_height_.                    *)
Nested ==
  /\ \A i, j \in Levels : i <= j => linked[j] \subseteq linked[i]
  /\ \A i \in Levels : max_height <= i => linked[i] = {}

WriterInv ==
  /\ wr.pc # "idle" => wr.key \in Keys
  /\ wr.pc \in {"find", "allocate"} => wr.key \notin linked[0]
  /\ wr.pc = "find" => /\ Before(wr.x, wr.level, wr.key)
                       /\ wr.level < max_height
                       /\ \A i \in Levels : wr.level < i /\ i < max_height => Cut(i)
  /\ wr.pc = "allocate" => \A i \in Levels : i < max_height => Cut(i)
  /\ wr.pc \in {"init", "publish"} =>
       /\ wr.level < wr.height
       /\ wr.height <= max_height
       /\ \A i \in Levels : /\ wr.key \in linked[i] <=> i < wr.level
                            /\ wr.level <= i /\ i < wr.height => Cut(i)
  /\ wr.pc = "publish" =>
       next[wr.key][wr.level] = next[wr.prev[wr.level]][wr.level]

ReaderInv ==
  \A r \in Readers :
    /\ rd[r].node \in linked[0] \cup {Null}
    /\ rd[r].mode # "none" => Before(rd[r].x, rd[r].level, rd[r].target)
    /\ rd[r].mode = "geq" => rd[r].target \in Keys

SlInv ==
  /\ SlTypeOK
  /\ LevelsAreChains
  /\ Nested
  /\ WriterInv
  /\ ReaderInv

---------------------------------------------------------------------------
LEMMA InitInv == SlInit => SlInv
  <1> USE MaxKeyAssumption, MaxHeightAssumption
          DEF SlInit, Keys, Head, Null, Garbage, Nodes, Levels
  <1> SUFFICES ASSUME SlInit PROVE SlInv
    OBVIOUS
  <1>1. SlTypeOK
    BY DEF SlTypeOK, Insertion, Iterator, NotInserting, NoSearch
  <1>2. LevelsAreChains
    BY DEF LevelsAreChains, Chain, Set!IsCeiling, Set!Null
  <1>3. Nested
    BY DEF Nested
  <1>4. WriterInv
    BY DEF WriterInv, NotInserting
  <1>5. ReaderInv
    BY DEF ReaderInv, NoSearch
  <1>6. QED
    BY <1>1, <1>2, <1>3, <1>4, <1>5 DEF SlInv

(* The writer's search: only its own locals change, and the list does not.   *)
LEMMA BeginInsertInv ==
  ASSUME SlInv, NEW k \in Keys, BeginInsert(k)
  PROVE  SlInv'
  <1> USE MaxKeyAssumption, MaxHeightAssumption
          DEF SlInv, BeginInsert, Keys, Head, Null, Garbage, Nodes, Levels
  <1>1. SlTypeOK'
    <2>1. max_height - 1 \in Levels /\ Head \in Nodes /\ 0 \in 0..MaxHeight
      BY DEF SlTypeOK, Insertion, Iterator
    <2>2. wr' = [pc |-> "find", key |-> k, height |-> 0, level |-> max_height - 1,
                 x |-> Head, prev |-> [i \in Levels |-> Head]]
      BY DEF NotInserting
    <2> HIDE DEF Levels, Nodes, Head, Keys
    <2>3. wr' \in Insertion
      BY <2>1, <2>2 DEF Insertion
    <2>4. QED
      BY <2>3 DEF SlTypeOK
  <1>2. LevelsAreChains' /\ Nested' /\ ReaderInv'
    BY DEF LevelsAreChains, Chain, Nested, ReaderInv, Before, Set!IsCeiling
  <1>3. WriterInv'
    BY DEF SlTypeOK, Insertion, Iterator, WriterInv, NotInserting, Before, Cut
  <1>4. QED
    BY <1>1, <1>2, <1>3

LEMMA FindRightInv ==
  ASSUME SlInv, FindRight
  PROVE  SlInv'
  <1> USE MaxKeyAssumption, MaxHeightAssumption
          DEF SlInv, FindRight, Keys, Head, Null, Garbage, Nodes, Levels
  <1> DEFINE n == next[wr.x][wr.level]
  <1>1. n \in linked[wr.level] /\ n < wr.key /\ n \in Keys
    BY DEF SlTypeOK, Insertion, Iterator, LevelsAreChains, Chain, WriterInv, Before, Set!IsCeiling, Set!Null
  <1>2. SlTypeOK'
    BY <1>1 DEF SlTypeOK, Insertion, Iterator
  <1>3. LevelsAreChains' /\ Nested' /\ ReaderInv'
    BY DEF LevelsAreChains, Chain, Nested, ReaderInv, Before, Set!IsCeiling
  <1>4. WriterInv'
    BY <1>1 DEF SlTypeOK, Insertion, Iterator, WriterInv, Before, Cut
  <1>5. QED
    BY <1>2, <1>3, <1>4

LEMMA FindDownInv ==
  ASSUME SlInv, FindDown
  PROVE  SlInv'
  <1>l. PICK l \in Levels : l = wr.level
    BY DEF SlInv, SlTypeOK, Insertion
  <1>0. /\ wr.key \in Keys /\ l \in Levels /\ l \in Nat /\ l < max_height
        /\ wr.x \in {Head} \cup linked[l] /\ wr.x < wr.key /\ wr.x \in Nodes
        /\ wr.key <= next[wr.x][l] /\ wr.key \notin linked[0]
        /\ wr.prev \in [Levels -> Nodes]
    BY <1>l DEF FindDown, SlInv, SlTypeOK, Insertion, WriterInv, Before, Levels
  <1>1. wr' = [wr EXCEPT !.prev = [@ EXCEPT ![l] = wr.x],
                         !.pc = IF l = 0 THEN "allocate" ELSE "find",
                         !.level = IF l = 0 THEN 0 ELSE l - 1]
    BY <1>l DEF FindDown
  <1>2. SlTypeOK'
    <2>1. (IF l = 0 THEN 0 ELSE l - 1) \in Levels
      BY <1>0, MaxHeightAssumption DEF Levels
    <2>2. [wr.prev EXCEPT ![l] = wr.x] \in [Levels -> Nodes]
      BY <1>0
    <2>3. wr' \in Insertion
      BY <1>1, <2>1, <2>2 DEF SlInv, SlTypeOK, Insertion
    <2>4. QED
      BY <2>3 DEF SlInv, SlTypeOK, FindDown
  <1>3. LevelsAreChains' /\ Nested' /\ ReaderInv'
    BY DEF SlInv, FindDown, LevelsAreChains, Chain, Nested, ReaderInv, Before, Set!IsCeiling
  <1>4. /\ wr'.key = wr.key /\ wr'.x = wr.x
        /\ wr'.prev = [wr.prev EXCEPT ![l] = wr.x]
        /\ wr'.pc = IF l = 0 THEN "allocate" ELSE "find"
        /\ wr'.level = IF l = 0 THEN 0 ELSE l - 1
    BY <1>1 DEF SlInv, SlTypeOK, Insertion
  <1>5. Cut(l)'
    <2>1. wr.key \notin linked[l]
      BY <1>0, MaxHeightAssumption DEF SlInv, Nested, Levels
    <2>2. Set!IsCeiling(next[wr.x][l], wr.x + 1, linked[l])
      BY <1>0 DEF SlInv, LevelsAreChains, Chain
    <2>3. wr.key # next[wr.x][l]
      BY <1>0, <2>1, <2>2, MaxKeyAssumption DEF Set!IsCeiling, Set!Null, Keys
    <2>4. next[wr.x][l] \in Nat /\ wr.key \in Nat
      BY <1>0, MaxKeyAssumption DEF SlInv, SlTypeOK, Keys, Garbage
    <2>5. wr.key < next[wr.x][l]
      BY <1>0, <2>3, <2>4
    <2>6. wr'.prev[l] = wr.x
      BY <1>0, <1>4
    <2>7. QED
      BY <1>0, <1>4, <2>5, <2>6 DEF Cut, Before, FindDown
  <1>6. \A i \in Levels : l < i /\ i < max_height => Cut(i)'
    <2> SUFFICES ASSUME NEW i \in Levels, l < i, i < max_height PROVE Cut(i)'
      OBVIOUS
    <2>1. Cut(i)
      BY <1>l DEF SlInv, WriterInv, FindDown
    <2>2. i # l /\ wr'.prev[i] = wr.prev[i]
      BY <1>0, <1>4 DEF Levels
    <2>3. QED
      BY <1>4, <2>1, <2>2 DEF Cut, Before, FindDown
  <1>7. WriterInv'
    <2>1. l # 0 => linked[l] \subseteq linked[l - 1] /\ l - 1 \in Levels
      BY <1>0, MaxHeightAssumption DEF SlInv, Nested, Levels
    <2>2. l # 0 => Before(wr.x, l - 1, wr.key)
      BY <1>0, <2>1 DEF Before
    <2>3. \A i \in Levels : l <= i /\ i < max_height => Cut(i)'
      BY <1>0, <1>5, <1>6 DEF Levels
    <2>4. CASE l = 0
      <3>1. wr'.pc = "allocate"
        BY <1>4, <2>4
      <3>2. \A i \in Levels : i < max_height => Cut(i)'
        BY <2>3, <2>4 DEF Levels
      <3>3. QED
        BY <1>0, <1>4, <3>1, <3>2 DEF WriterInv, FindDown
    <2>5. CASE l # 0
      <3>1. wr'.pc = "find" /\ wr'.level = l - 1
        BY <1>4, <2>5
      <3>2. \A i \in Levels : wr'.level < i /\ i < max_height => Cut(i)'
        BY <1>0, <2>3, <3>1 DEF Levels
      <3>3. Before(wr.x, wr.level, wr.key)'
        BY <1>4, <2>2, <2>5, <3>1 DEF Before, FindDown
      <3>4. max_height \in Nat /\ l - 1 < max_height
        BY <1>0, MaxHeightAssumption DEF SlInv, SlTypeOK
      <3>5. QED
        BY <1>0, <1>4, <3>1, <3>2, <3>3, <3>4 DEF WriterInv, FindDown, Before
    <2>6. QED
      BY <2>4, <2>5
  <1>8. QED
    BY <1>2, <1>3, <1>7 DEF SlInv

LEMMA AllocateInv ==
  ASSUME SlInv, NEW h \in 1..MaxHeight, Allocate(h)
  PROVE  SlInv'
  <1> DEFINE prev == [i \in Levels |-> IF max_height <= i THEN Head ELSE wr.prev[i]]
  <1>0. /\ wr.key \in Keys /\ wr.key \notin linked[0] /\ wr.prev \in [Levels -> Nodes]
        /\ max_height \in Nat /\ max_height' \in Nat /\ h \in Nat
        /\ max_height <= max_height' /\ h <= max_height'
    BY MaxHeightAssumption DEF Allocate, SlInv, SlTypeOK, Insertion, WriterInv
  <1>1. wr' = [wr EXCEPT !.pc = "init", !.height = h, !.level = 0, !.prev = prev]
    BY DEF Allocate
  <1>2. SlTypeOK'
    <2>1. prev \in [Levels -> Nodes]
      BY <1>0 DEF Nodes
    <2>2. h \in 0..MaxHeight /\ 0 \in Levels
      BY MaxHeightAssumption DEF Levels
    <2> HIDE DEF prev
    <2>3. wr' \in Insertion
      BY <1>1, <2>1, <2>2 DEF SlInv, SlTypeOK, Insertion
    <2>4. max_height' \in 1..MaxHeight /\ stale' \subseteq 1..max_height'
      BY MaxHeightAssumption DEF Allocate, SlInv, SlTypeOK
    <2>5. QED
      BY <2>3, <2>4 DEF Allocate, SlInv, SlTypeOK
  <1>3. LevelsAreChains' /\ ReaderInv'
    BY DEF SlInv, Allocate, LevelsAreChains, Chain, ReaderInv, Before, Set!IsCeiling
  <1>4. Nested'
    BY <1>0 DEF SlInv, Allocate, Nested, Levels
  <1>5. /\ wr'.key = wr.key /\ wr'.prev = prev /\ wr'.pc = "init"
        /\ wr'.height = h /\ wr'.level = 0
    BY <1>1 DEF SlInv, SlTypeOK, Insertion
  <1>6. \A i \in Levels : Cut(i)'
    <2> SUFFICES ASSUME NEW i \in Levels PROVE Cut(i)'
      OBVIOUS
    <2>1. i \in Nat
      BY DEF Levels
    <2>2. CASE i < max_height
      <3>1. Cut(i)
        BY <2>2 DEF SlInv, WriterInv, Allocate
      <3>2. wr'.prev[i] = wr.prev[i]
        BY <1>0, <1>5, <2>1, <2>2
      <3>3. QED
        BY <1>5, <3>1, <3>2 DEF Cut, Before, Allocate
    <2>3. CASE max_height <= i
      <3>1. linked[i] = {}
        BY <2>3 DEF SlInv, Nested
      <3>2. next[Head][i] = Null
        BY <3>1 DEF SlInv, LevelsAreChains, Chain, Set!IsCeiling, Set!Null, Null
      <3>3. wr'.prev[i] = Head
        BY <1>5, <2>3
      <3>4. Head < wr.key /\ wr.key < Null
        BY <1>0, MaxKeyAssumption DEF Head, Keys, Null
      <3>5. QED
        BY <1>5, <3>2, <3>3, <3>4 DEF Cut, Before, Allocate
    <2>4. QED
      BY <1>0, <2>1, <2>2, <2>3
  <1>7. WriterInv'
    <2>1. \A i \in Levels : wr.key \notin linked[i] /\ i \in Nat /\ ~(i < 0)
      BY <1>0, MaxHeightAssumption DEF SlInv, Nested, Levels
    <2>2. 0 < h
      OBVIOUS
    <2>3. QED
      BY <1>0, <1>5, <1>6, <2>1, <2>2 DEF WriterInv, Allocate
  <1>8. QED
    BY <1>2, <1>3, <1>4, <1>7 DEF SlInv

(* The new node's own link: the node is not linked at that level, so that    *)
(* nobody else's links or loads change.                                      *)
LEMMA InitLinkInv ==
  ASSUME SlInv, InitLink
  PROVE  SlInv'
  <1>l. PICK l \in Levels : l = wr.level
    BY DEF SlInv, SlTypeOK, Insertion
  <1>k. PICK k \in Keys : k = wr.key
    BY DEF SlInv, WriterInv, InitLink
  <1>p. PICK p \in Nodes : p = wr.prev[l]
    BY DEF SlInv, SlTypeOK, Insertion
  <1>0. /\ k \notin linked[l] /\ l < wr.height /\ Cut(l) /\ k \in Nodes /\ l \in Nat
        /\ wr' = [wr EXCEPT !.pc = "publish"] /\ k # Head
        /\ next' = [next EXCEPT ![k] = [@ EXCEPT ![l] = next[p][l]]]
    BY <1>l, <1>k, <1>p, MaxKeyAssumption
       DEF InitLink, SlInv, SlTypeOK, Insertion, WriterInv, Nodes, Keys, Head, Levels
  <1>1. SlTypeOK'
    <2>1. next' \in [Nodes -> [Levels -> 0..Garbage]]
      BY <1>0 DEF SlInv, SlTypeOK
    <2>2. wr' \in Insertion
      BY <1>0 DEF SlInv, SlTypeOK, Insertion
    <2>3. QED
      BY <2>1, <2>2 DEF InitLink, SlInv, SlTypeOK
  <1>2. \A i \in Levels : \A n \in {Head} \cup linked[i] : next'[n][i] = next[n][i]
    <2> SUFFICES ASSUME NEW i \in Levels, NEW n \in {Head} \cup linked[i]
                 PROVE  next'[n][i] = next[n][i]
      OBVIOUS
    <2>1. n \in Nodes
      BY DEF SlInv, SlTypeOK, Nodes
    <2>2. n # k \/ i # l
      BY <1>0
    <2>3. QED
      BY <1>0, <2>1, <2>2 DEF SlInv, SlTypeOK
  <1>3. LevelsAreChains'
    BY <1>2 DEF SlInv, InitLink, LevelsAreChains, Chain, Set!IsCeiling
  <1>4. Nested' /\ ReaderInv'
    BY DEF SlInv, InitLink, Nested, ReaderInv, Before
  <1>5. /\ wr'.key = wr.key /\ wr'.prev = wr.prev /\ wr'.pc = "publish"
        /\ wr'.height = wr.height /\ wr'.level = wr.level
    BY <1>0 DEF SlInv, SlTypeOK, Insertion
  <1>6. \A i \in Levels : l <= i /\ i < wr.height => Cut(i)'
    <2> SUFFICES ASSUME NEW i \in Levels, l <= i, i < wr.height PROVE Cut(i)'
      OBVIOUS
    <2>1. Cut(i)
      BY <1>l DEF SlInv, WriterInv, InitLink
    <2>2. next'[wr.prev[i]][i] = next[wr.prev[i]][i]
      BY <1>2, <2>1 DEF Cut, Before
    <2>3. QED
      BY <1>5, <2>1, <2>2 DEF Cut, Before, InitLink
  <1>7. next'[k][l] = next'[p][l]
    <2>1. next'[p][l] = next[p][l]
      BY <1>0, <1>2, <1>p DEF Cut, Before
    <2>2. QED
      BY <1>0, <2>1 DEF SlInv, SlTypeOK
  <1>8. WriterInv'
    BY <1>l, <1>k, <1>p, <1>0, <1>5, <1>6, <1>7 DEF SlInv, InitLink, WriterInv
  <1>9. QED
    BY <1>1, <1>3, <1>4, <1>8 DEF SlInv

(* The link that is cut goes to the new node, whose own goes where the cut   *)
(* link went.                                                                *)
LEMMA PublishInv ==
  ASSUME SlInv, Publish
  PROVE  SlInv'
  <1>l. PICK l \in Levels : l = wr.level
    BY DEF SlInv, SlTypeOK, Insertion
  <1>k. PICK k \in Keys : k = wr.key
    BY DEF SlInv, WriterInv, Publish
  <1>p. PICK p \in Nodes : p = wr.prev[l]
    BY DEF SlInv, SlTypeOK, Insertion
  <1>h. PICK h \in 0..MaxHeight : h = wr.height
    BY DEF SlInv, SlTypeOK, Insertion
  <1>0. /\ k \notin linked[l] /\ l < h /\ h <= max_height /\ k \in Nodes
        /\ p \in {Head} \cup linked[l] /\ p < k /\ k < next[p][l]
        /\ next[k][l] = next[p][l]
        /\ next' = [next EXCEPT ![p] = [@ EXCEPT ![l] = k]]
        /\ linked' = [linked EXCEPT ![l] = @ \cup {k}]
        /\ l \in Nat /\ k \in Nat /\ p \in Nat /\ h \in Nat /\ next[p][l] \in Nat
        /\ max_height \in Nat
    BY <1>l, <1>k, <1>p, <1>h, MaxKeyAssumption, MaxHeightAssumption
       DEF Publish, SlInv, SlTypeOK, Insertion, WriterInv, Cut, Before, Nodes, Keys,
           Head, Levels, Garbage
  <1>1. SlTypeOK'
    <2>1. next' \in [Nodes -> [Levels -> 0..Garbage]]
      <3>1. k \in 0..Garbage
        BY MaxKeyAssumption DEF Keys, Garbage
      <3>2. QED
        BY <1>0, <3>1 DEF SlInv, SlTypeOK
    <2>2. linked' \in [Levels -> SUBSET Keys]
      BY <1>0 DEF SlInv, SlTypeOK
    <2>3. wr' \in Insertion
      <3>1. CASE l + 1 = h
        <4>1. NotInserting \in Insertion
          BY MaxHeightAssumption DEF NotInserting, Insertion, Levels, Nodes
        <4>2. QED
          BY <1>l, <1>h, <3>1, <4>1 DEF Publish
      <3>2. CASE l + 1 # h
        <4>1. l + 1 \in Levels
          BY <1>0, <3>2, MaxHeightAssumption DEF Levels
        <4>2. wr' = [wr EXCEPT !.pc = "init", !.level = l + 1]
          BY <1>l, <1>h, <3>2 DEF Publish
        <4>3. QED
          BY <4>1, <4>2 DEF SlInv, SlTypeOK, Insertion
      <3>3. QED
        BY <3>1, <3>2
    <2>4. QED
      BY <2>1, <2>2, <2>3 DEF Publish, SlInv, SlTypeOK
  <1>2. \A i \in Levels : /\ linked'[i] = IF i = l THEN linked[l] \cup {k} ELSE linked[i]
                          /\ linked[i] \subseteq Keys
    BY <1>0 DEF SlInv, SlTypeOK
  <1>3. \A n \in Nodes, i \in Levels :
          next'[n][i] = IF n = p /\ i = l THEN k ELSE next[n][i]
    BY <1>0 DEF SlInv, SlTypeOK
  <1>4. LevelsAreChains'
    <2> SUFFICES ASSUME NEW i \in Levels, NEW n \in {Head} \cup linked'[i]
                 PROVE  Set!IsCeiling(next'[n][i], n + 1, linked'[i])
      BY DEF LevelsAreChains, Chain, Set!IsCeiling
    <2>0. n \in Nodes /\ n \in Nat
      BY <1>0, <1>2, MaxKeyAssumption DEF Nodes, Keys, Head
    <2>1. \A m \in {Head} \cup linked[i] : Set!IsCeiling(next[m][i], m + 1, linked[i])
      BY DEF SlInv, LevelsAreChains, Chain
    <2>2. CASE i # l
      BY <1>2, <1>3, <2>0, <2>1, <2>2 DEF Set!IsCeiling
    <2>k. \A m \in linked[i] : m \in Nat
      BY <1>2, MaxKeyAssumption DEF Keys
    <2>3. CASE i = l /\ n = p
      <3>1. Set!IsCeiling(next[p][l], p + 1, linked[l])
        BY <1>0, <2>1, <2>3
      <3>2. next'[n][i] = k /\ linked'[i] = linked[l] \cup {k}
        BY <1>2, <1>3, <2>0, <2>3
      <3>3. QED
        BY <1>0, <2>3, <2>k, <3>1, <3>2 DEF Set!IsCeiling
    <2>4. CASE i = l /\ n = k
      <3>1. Set!IsCeiling(next[p][l], p + 1, linked[l])
        BY <1>0, <2>1, <2>4
      <3>2. next'[n][i] = next[p][l] /\ linked'[i] = linked[l] \cup {k}
        BY <1>0, <1>2, <1>3, <2>0, <2>4
      <3>3. QED
        BY <1>0, <2>4, <2>k, <3>1, <3>2 DEF Set!IsCeiling
    <2>5. CASE i = l /\ n # p /\ n # k
      <3>1. /\ n \in {Head} \cup linked[l] /\ next'[n][l] = next[n][l]
            /\ linked'[i] = linked[l] \cup {k}
        BY <1>2, <1>3, <2>0, <2>5
      <3>2. Set!IsCeiling(next[n][l], n + 1, linked[l])
        BY <2>1, <2>5, <3>1
      <3>3. Set!IsCeiling(next[p][l], p + 1, linked[l])
        BY <1>0, <2>1, <2>5
      <3>4. next[n][l] \in Nat
        BY <2>0, MaxKeyAssumption DEF SlInv, SlTypeOK, Garbage
      <3>5. n + 1 <= k => next[n][l] <= k
        <4> SUFFICES ASSUME n + 1 <= k PROVE next[n][l] <= k
          OBVIOUS
        <4>1. n < p
          <5>1. CASE n = Head
            BY <1>0, <2>0, <2>5, <5>1 DEF Head
          <5>2. CASE n \in linked[l]
            BY <1>0, <2>0, <2>5, <3>3, <5>2 DEF Set!IsCeiling
          <5>3. QED
            BY <3>1, <5>1, <5>2
        <4>2. p \in linked[l]
          BY <1>0, <2>0, <4>1 DEF Head
        <4>3. QED
          BY <1>0, <2>0, <3>2, <3>4, <4>1, <4>2 DEF Set!IsCeiling
      <3>6. QED
        BY <1>0, <2>0, <2>5, <2>k, <3>1, <3>2, <3>4, <3>5 DEF Set!IsCeiling
    <2>6. QED
      BY <2>2, <2>3, <2>4, <2>5
  <1>5. Nested'
    <2>1. \A i \in Levels : /\ i < l => k \in linked[i]
                            /\ i \in Nat
      BY <1>l, <1>k DEF SlInv, WriterInv, Publish, Levels
    <2>2. \A i, j \in Levels : i <= j => linked'[j] \subseteq linked'[i]
      BY <1>0, <1>2, <2>1 DEF SlInv, Nested
    <2>3. \A i \in Levels : max_height <= i => linked'[i] = {}
      BY <1>0, <1>2, <2>1 DEF SlInv, Nested
    <2>4. QED
      BY <2>2, <2>3 DEF Nested, Publish
  <1>6. ReaderInv'
    <2>1. \A i \in Levels : linked[i] \subseteq linked'[i]
      BY <1>2
    <2>2. 0 \in Levels /\ \A r \in Readers : rd[r].level \in Levels
      BY MaxHeightAssumption DEF SlInv, SlTypeOK, Iterator, Levels
    <2>3. QED
      BY <2>1, <2>2 DEF SlInv, ReaderInv, Before, Publish
  <1>7. WriterInv'
    <2>1. CASE l + 1 = h
      BY <1>l, <1>h, <2>1 DEF Publish, WriterInv, NotInserting
    <2>2. CASE l + 1 # h
      <3>1. wr' = [wr EXCEPT !.pc = "init", !.level = l + 1]
        BY <1>l, <1>h, <2>2 DEF Publish
      <3>2. /\ wr'.key = k /\ wr'.prev = wr.prev /\ wr'.pc = "init"
            /\ wr'.height = h /\ wr'.level = l + 1
        BY <1>k, <1>h, <3>1 DEF SlInv, SlTypeOK, Insertion
      <3>3. \A i \in Levels : l + 1 <= i /\ i < h => Cut(i)'
        <4> SUFFICES ASSUME NEW i \in Levels, l + 1 <= i, i < h PROVE Cut(i)'
          OBVIOUS
        <4>1. i \in Nat /\ i # l /\ l <= i
          BY <1>0 DEF Levels
        <4>2. Cut(i)
          BY <1>l, <1>h, <4>1 DEF SlInv, WriterInv, Publish
        <4>3. wr.prev[i] \in Nodes
          BY DEF SlInv, SlTypeOK, Insertion
        <4>4. next'[wr.prev[i]][i] = next[wr.prev[i]][i] /\ linked'[i] = linked[i]
          BY <1>2, <1>3, <4>1, <4>3
        <4>5. QED
          BY <1>k, <3>2, <4>2, <4>4 DEF Cut, Before
      <3>4. \A i \in Levels : k \in linked'[i] <=> i < l + 1
        <4>1. \A i \in Levels : i \in Nat /\ (k \in linked[i] <=> i < l)
          BY <1>l, <1>k DEF SlInv, WriterInv, Publish, Levels
        <4>2. QED
          BY <1>0, <1>2, <4>1
      <3>5. l + 1 < h /\ h <= max_height' /\ max_height' = max_height
        BY <1>0, <2>2 DEF Publish
      <3>6. QED
        BY <3>2, <3>3, <3>4, <3>5 DEF WriterInv
    <2>3. QED
      BY <2>1, <2>2
  <1>8. QED
    BY <1>1, <1>4, <1>5, <1>6, <1>7 DEF SlInv

---------------------------------------------------------------------------
(* The iterators, one at a time, do not change the list.                     *)
LEMMA IteratorInv ==
  ASSUME SlInv, NEW r \in Readers, NEW it \in Iterator,
         rd' = [rd EXCEPT ![r] = it], UNCHANGED <<next, max_height, stale, linked, wr>>,
         it.node \in linked[0] \cup {Null},
         it.mode # "none" => Before(it.x, it.level, it.target),
         it.mode = "geq" => it.target \in Keys
  PROVE  SlInv'
  <1>1. SlTypeOK'
    BY DEF SlInv, SlTypeOK
  <1>2. LevelsAreChains' /\ Nested' /\ WriterInv'
    BY DEF SlInv, LevelsAreChains, Chain, Nested, WriterInv, Cut, Before, Set!IsCeiling
  <1>3. \A q \in Readers : rd'[q] = IF q = r THEN it ELSE rd[q]
    BY DEF SlInv, SlTypeOK
  <1>4. ReaderInv'
    BY <1>3 DEF SlInv, ReaderInv, Before
  <1>5. QED
    BY <1>1, <1>2, <1>4 DEF SlInv

(* What a load from a linked node, or from the head, returns.                *)
LEMMA Load ==
  ASSUME SlInv, NEW i \in Levels, NEW x \in {Head} \cup linked[i]
  PROVE  /\ next[x][i] \in linked[i] \cup {Null}
         /\ next[x][i] \in Nat /\ x \in Nat /\ x < next[x][i]
         /\ \A k \in linked[i] : k \in Nat /\ (x < k => next[x][i] <= k)
         /\ next[x][i] \in Keys \cup {Null} /\ x \in Nodes
         /\ i > 0 => i - 1 \in Levels /\ linked[i] \subseteq linked[i - 1]
  <1>1. linked[i] \subseteq Keys /\ x \in Nodes
    BY DEF SlInv, SlTypeOK, Nodes
  <1>2. Set!IsCeiling(next[x][i], x + 1, linked[i])
    BY DEF SlInv, LevelsAreChains, Chain
  <1>3. x \in Nat /\ Null \in Nat /\ \A k \in Keys : k \in Nat
    BY <1>1, MaxKeyAssumption DEF Nodes, Head, Keys, Null
  <1>4. Set!Null = Null
    BY DEF Set!Null, Null
  <1>5. next[x][i] \in linked[i] \cup {Null}
    BY <1>2, <1>4 DEF Set!IsCeiling
  <1>6. i > 0 => i - 1 \in Levels /\ linked[i] \subseteq linked[i - 1]
    BY MaxHeightAssumption DEF SlInv, Nested, Levels
  <1>7. QED
    BY <1>1, <1>2, <1>3, <1>5, <1>6 DEF Set!IsCeiling

(* Where an iterator's search is.                                            *)
LEMMA Searching ==
  ASSUME SlInv, NEW r \in Readers, rd[r].mode # "none"
  PROVE  /\ rd[r] \in Iterator /\ rd[r].level \in Levels /\ rd[r].level \in Nat
         /\ rd[r].x \in {Head} \cup linked[rd[r].level]
         /\ rd[r].x < rd[r].target /\ rd[r].target \in Nat
         /\ rd[r].target \in Keys \cup {Null}
         /\ rd[r].node \in linked[0] \cup {Null}
         /\ rd[r].mode \in {"geq", "less"}
         /\ rd[r].mode = "geq" => rd[r].target \in Keys
  BY MaxKeyAssumption
     DEF SlInv, SlTypeOK, Iterator, ReaderInv, Before, Levels, Keys, Null

LEMMA BeginSearchInv ==
  ASSUME SlInv, NEW r \in Readers, NEW mode \in {"geq", "less"},
         NEW target \in Keys \cup {Null}, mode = "geq" => target \in Keys,
         BeginSearch(r, mode, target)
  PROVE  SlInv'
  <1>1. PICK h \in stale \cup {max_height} :
          rd' = [rd EXCEPT ![r] = [rd[r] EXCEPT !.mode = mode, !.target = target,
                                                !.x = Head, !.level = h - 1]]
    BY DEF BeginSearch
  <1> DEFINE it == [rd[r] EXCEPT !.mode = mode, !.target = target,
                                 !.x = Head, !.level = h - 1]
  <1>2. h - 1 \in Levels
    BY MaxHeightAssumption DEF SlInv, SlTypeOK, Levels
  <1>3. Head < target
    BY MaxKeyAssumption DEF Head, Keys, Null
  <1>4. /\ it \in Iterator /\ it.node = rd[r].node /\ it.mode = mode
        /\ it.target = target /\ it.x = Head /\ it.level = h - 1
    BY <1>2 DEF SlInv, SlTypeOK, Iterator, Nodes
  <1>5. it.node \in linked[0] \cup {Null}
    BY <1>4 DEF SlInv, ReaderInv
  <1>6. Before(it.x, it.level, it.target)
    BY <1>3, <1>4 DEF Before
  <1>7. QED
    BY <1>1, <1>4, <1>5, <1>6, IteratorInv DEF BeginSearch

LEMMA SearchRightInv ==
  ASSUME SlInv, NEW r \in Readers, SearchRight(r)
  PROVE  SlInv'
  <1> DEFINE x == rd[r].x
             i == rd[r].level
             it == [rd[r] EXCEPT !.x = next[x][i]]
  <1>1. rd[r].mode # "none" /\ next[x][i] < rd[r].target /\ rd' = [rd EXCEPT ![r] = it]
    BY DEF SearchRight
  <1>2. next[x][i] \in linked[i] /\ next[x][i] \in Nodes
    BY <1>1, Searching, Load, MaxKeyAssumption DEF Keys, Null, Nodes
  <1>3. /\ it \in Iterator /\ it.node = rd[r].node /\ it.mode = rd[r].mode
        /\ it.target = rd[r].target /\ it.x = next[x][i] /\ it.level = i
    BY <1>2 DEF SlInv, SlTypeOK, Iterator
  <1>4. Before(it.x, it.level, it.target)
    BY <1>1, <1>2, <1>3 DEF Before
  <1>5. QED
    BY <1>1, <1>3, <1>4, Searching, IteratorInv DEF SearchRight

LEMMA SearchDownInv ==
  ASSUME SlInv, NEW r \in Readers, SearchDown(r)
  PROVE  SlInv'
  <1> DEFINE x == rd[r].x
             i == rd[r].level
             it == [rd[r] EXCEPT !.level = i - 1]
  <1>1. rd[r].mode # "none" /\ i > 0 /\ rd' = [rd EXCEPT ![r] = it]
    BY DEF SearchDown
  <1>2. i - 1 \in Levels /\ linked[i] \subseteq linked[i - 1]
    BY <1>1, Searching, Load
  <1>3. /\ it \in Iterator /\ it.node = rd[r].node /\ it.mode = rd[r].mode
        /\ it.target = rd[r].target /\ it.x = x /\ it.level = i - 1
    BY <1>2 DEF SlInv, SlTypeOK, Iterator
  <1>4. Before(it.x, it.level, it.target)
    BY <1>1, <1>2, <1>3, Searching DEF Before
  <1>5. QED
    BY <1>1, <1>3, <1>4, Searching, IteratorInv DEF SearchDown

LEMMA EndSearchInv ==
  ASSUME SlInv, NEW r \in Readers, EndSearch(r)
  PROVE  SlInv'
  <1> DEFINE x == rd[r].x
             n == IF rd[r].mode = "geq" THEN next[x][0] ELSE IF x = Head THEN Null ELSE x
             it == [NoSearch EXCEPT !.node = n]
  <1>1. /\ rd[r].mode # "none" /\ rd[r].level = 0 /\ rd' = [rd EXCEPT ![r] = it]
        /\ UNCHANGED <<next, max_height, stale, linked, wr>>
    BY DEF EndSearch
  <1>2. n \in linked[0] \cup {Null} /\ linked[0] \subseteq Keys
    BY <1>1, Searching, Load, MaxHeightAssumption DEF SlInv, SlTypeOK, Levels
  <1>3. it \in Iterator /\ it.node = n /\ it.mode = "none"
    BY <1>2, MaxHeightAssumption DEF NoSearch, Iterator, Nodes, Levels
  <1>4. QED
    BY <1>1, <1>2, <1>3, IteratorInv

LEMMA MoveAfterInv ==
  ASSUME SlInv, NEW r \in Readers, NEW n \in {Head} \cup linked[0], MoveAfter(r, n)
  PROVE  SlInv'
  <1> DEFINE it == [rd[r] EXCEPT !.node = next[n][0]]
  <1>1. /\ rd[r].mode = "none" /\ rd' = [rd EXCEPT ![r] = it]
        /\ UNCHANGED <<next, max_height, stale, linked, wr>>
    BY DEF MoveAfter
  <1>2. next[n][0] \in linked[0] \cup {Null} /\ next[n][0] \in Keys \cup {Null}
    BY Load, MaxHeightAssumption DEF Levels
  <1>3. it \in Iterator /\ it.node = next[n][0] /\ it.mode = "none"
    BY <1>1, <1>2 DEF SlInv, SlTypeOK, Iterator
  <1>4. QED
    BY <1>1, <1>2, <1>3, IteratorInv

LEMMA ReaderStepInv ==
  ASSUME SlInv, NEW r \in Readers, Reader(r)
  PROVE  SlInv'
  <1>1. CASE Seek(r)
    BY <1>1, BeginSearchInv DEF Seek
  <1>2. CASE SeekToLast(r)
    BY <1>2, BeginSearchInv DEF SeekToLast
  <1>3. CASE Prev(r)
    <2>1. rd[r].node \in Keys \cup {Null}
      BY DEF SlInv, SlTypeOK, Iterator
    <2>2. QED
      BY <1>3, <2>1, BeginSearchInv DEF Prev
  <1>4. CASE SeekToFirst(r)
    BY <1>4, MoveAfterInv DEF SeekToFirst
  <1>5. CASE Next(r)
    BY <1>5, MoveAfterInv DEF Next, SlInv, ReaderInv
  <1>6. CASE SearchRight(r) \/ SearchDown(r) \/ EndSearch(r)
    BY <1>6, SearchRightInv, SearchDownInv, EndSearchInv
  <1>7. QED
    BY <1>1, <1>2, <1>3, <1>4, <1>5, <1>6 DEF Reader

LEMMA NextInv == SlInv /\ [SlNext]_slVars => SlInv'
  <1> SUFFICES ASSUME SlInv, [SlNext]_slVars PROVE SlInv'
    OBVIOUS
  <1>1. CASE Insert
    BY <1>1, BeginInsertInv, FindRightInv, FindDownInv, AllocateInv, InitLinkInv, PublishInv
       DEF Insert
  <1>2. CASE \E r \in Readers : Reader(r)
    BY <1>2, ReaderStepInv
  <1>3. CASE UNCHANGED slVars
    BY <1>3 DEF slVars, SlInv, SlTypeOK, LevelsAreChains, Chain, Nested, WriterInv,
                ReaderInv, Cut, Before, Set!IsCeiling
  <1>4. QED
    BY <1>1, <1>2, <1>3 DEF SlNext

(* The inductive invariant: it relates what the writer has found and stored  *)
(* so far to the links that the searches follow.                             *)
THEOREM SkipListInvariant == SlSpec => []SlInv
  BY InitInv, NextInv, PTL DEF SlSpec

(* At every level the links visit the published nodes, all of them, in       *)
(* order, whatever Insert has stored so far.                                 *)
THEOREM ChainsAlways == SlSpec => []LevelsAreChains
  <1>1. SlInv => LevelsAreChains
    BY DEF SlInv
  <1>2. QED
    BY <1>1, SkipListInvariant, PTL

(* No search and no iterator ever loads a link that was not stored.          *)
THEOREM NoWildLoadAlways == SlSpec => []NoWildLoad
  <1>1. SlInv => NoWildLoad
    <2> SUFFICES ASSUME SlInv PROVE NoWildLoad
      OBVIOUS
    <2>0. Garbage \notin Keys \cup {Null} /\ 0 \in Levels
      BY MaxKeyAssumption, MaxHeightAssumption DEF Garbage, Keys, Null, Levels
    <2>1. wr.pc = "find" => next[wr.x][wr.level] # Garbage
      <3>1. wr.level \in Levels
        BY DEF SlInv, SlTypeOK, Insertion
      <3>2. wr.pc = "find" => wr.x \in {Head} \cup linked[wr.level]
        BY DEF SlInv, WriterInv, Before
      <3>3. QED
        BY <2>0, <3>1, <3>2, Load
    <2>2. \A r \in Readers : rd[r].mode # "none" => next[rd[r].x][rd[r].level] # Garbage
      BY <2>0, Load, Searching
    <2>3. \A r \in Readers : rd[r].node # Null => next[rd[r].node][0] # Garbage
      BY <2>0, Load DEF SlInv, ReaderInv
    <2>4. QED
      BY <2>1, <2>2, <2>3 DEF NoWildLoad
  <1>2. QED
    BY <1>1, SkipListInvariant, PTL

---------------------------------------------------------------------------
(* Every step is a step of the ordered set, or none.                         *)
LEMMA PublishAdds ==
  ASSUME SlInv, Publish
  PROVE  Set!Add \/ UNCHANGED Set!osVars
  <1>1. wr.level \in Levels /\ linked' = [linked EXCEPT ![wr.level] = @ \cup {wr.key}]
        /\ rd' = rd /\ wr.key \in Keys /\ 0 \in Levels
    BY MaxHeightAssumption DEF Publish, SlInv, SlTypeOK, Insertion, WriterInv, Levels
  <1>2. CASE wr.level = 0
    <2>1. linked'[0] = linked[0] \cup {wr.key}
      BY <1>1, <1>2 DEF SlInv, SlTypeOK
    <2>2. wr.key \notin linked[0]
      BY <1>1, <1>2 DEF SlInv, WriterInv, Publish
    <2>3. QED
      BY <1>1, <2>1, <2>2 DEF Set!Add, Set!Keys, Keys
  <1>3. CASE wr.level # 0
    <2>1. linked'[0] = linked[0]
      BY <1>1, <1>3 DEF SlInv, SlTypeOK
    <2>2. QED
      BY <1>1, <2>1 DEF Set!osVars
  <1>4. QED
    BY <1>2, <1>3

LEMMA BeginSearchCalls ==
  ASSUME SlInv, NEW r \in Readers, NEW mode \in {"geq", "less"},
         NEW target \in Keys \cup {Null}, BeginSearch(r, mode, target)
  PROVE  Set!CallSearch(r)
  <1> DEFINE c == [mode |-> mode, target |-> target]
             calls == [q \in Readers |-> CallOf(rd[q])]
  <1>1. PICK h \in stale \cup {max_height} :
          rd' = [rd EXCEPT ![r] = [rd[r] EXCEPT !.mode = mode, !.target = target,
                                                !.x = Head, !.level = h - 1]]
    BY DEF BeginSearch
  <1>2. rd[r] \in Iterator /\ \A q \in Readers \ {r} : rd'[q] = rd[q]
    BY <1>1 DEF SlInv, SlTypeOK
  <1>3. rd'[r].mode = mode /\ rd'[r].target = target /\ rd'[r].node = rd[r].node
    BY <1>1, <1>2 DEF SlInv, SlTypeOK, Iterator
  <1>4. CallOf(rd[r]) = [mode |-> "none", target |-> Null]
    BY DEF CallOf, BeginSearch
  <1>5. CallOf(rd[r])' = c
    BY <1>3 DEF CallOf
  <1>6. calls' = [calls EXCEPT ![r] = c]
    BY <1>2, <1>5 DEF CallOf
  <1>7. [q \in Readers |-> rd[q].node]' = [q \in Readers |-> rd[q].node]
    BY <1>2, <1>3
  <1>8. c \in Set!Call \ {Set!NoCall}
    BY DEF Set!Call, Set!NoCall, Set!Modes, Set!Keys, Set!Null, Keys, Null
  <1>9. QED
    BY <1>4, <1>6, <1>7, <1>8
       DEF Set!CallSearch, Set!NoCall, Set!Null, Null, BeginSearch

(* A step of a search that only moves it.                                    *)
LEMMA SearchMoves ==
  ASSUME SlInv, NEW r \in Readers, SearchRight(r) \/ SearchDown(r)
  PROVE  UNCHANGED Set!osVars
  <1>1. rd[r] \in Iterator /\ \A q \in Readers \ {r} : rd'[q] = rd[q]
    BY DEF SlInv, SlTypeOK, SearchRight, SearchDown
  <1>2. rd'[r].mode = rd[r].mode /\ rd'[r].target = rd[r].target
        /\ rd'[r].node = rd[r].node
    BY <1>1 DEF SlInv, SlTypeOK, Iterator, SearchRight, SearchDown
  <1>3. [q \in Readers |-> CallOf(rd[q])]' = [q \in Readers |-> CallOf(rd[q])]
    BY <1>1, <1>2 DEF CallOf
  <1>4. [q \in Readers |-> rd[q].node]' = [q \in Readers |-> rd[q].node]
    BY <1>1, <1>2
  <1>5. QED
    BY <1>3, <1>4 DEF Set!osVars, SearchRight, SearchDown

(* The last load of a search is the instant at which it sees the set: there  *)
(* is no key between the place it has reached and the node it loads.         *)
LEMMA EndSearchAnswers ==
  ASSUME SlInv, NEW r \in Readers, EndSearch(r)
  PROVE  Set!AnswerSearch(r)
  <1> DEFINE x == rd[r].x
             t == rd[r].target
             n == IF rd[r].mode = "geq" THEN next[x][0] ELSE x
             it == [NoSearch EXCEPT !.node = IF rd[r].mode = "geq" THEN next[x][0]
                                             ELSE IF x = Head THEN Null ELSE x]
             calls == [q \in Readers |-> CallOf(rd[q])]
             nodes == [q \in Readers |-> rd[q].node]
  <1>1. /\ rd[r].mode # "none" /\ rd[r].level = 0 /\ rd' = [rd EXCEPT ![r] = it]
        /\ t <= next[x][0] /\ linked' = linked
    BY DEF EndSearch
  <1>2. /\ x \in {Head} \cup linked[0] /\ x < t /\ t \in Nat
        /\ rd[r].mode \in {"geq", "less"} /\ 0 \in Levels
    BY <1>1, Searching
  <1>3. /\ next[x][0] \in linked[0] \cup {Null} /\ next[x][0] \in Nat /\ x \in Nat
        /\ \A k \in linked[0] : k \in Nat /\ (x < k => next[x][0] <= k)
        /\ next[x][0] \in Keys \cup {Null} /\ x \in Nodes
    BY <1>2, Load
  <1>4. CASE rd[r].mode = "geq"
    <2>1. Set!IsCeiling(next[x][0], t, linked[0])
      BY <1>1, <1>2, <1>3 DEF Set!IsCeiling, Set!Null, Null
    <2>2. it.node = next[x][0] /\ it.mode = "none"
      BY <1>4 DEF NoSearch
    <2>3. \A q \in Readers : rd'[q] = IF q = r THEN it ELSE rd[q]
      BY <1>1 DEF SlInv, SlTypeOK
    <2>4. nodes' = [nodes EXCEPT ![r] = next[x][0]]
      BY <2>2, <2>3
    <2>5. CallOf(it) = Set!NoCall
      BY <2>2 DEF CallOf, Set!NoCall, Set!Null, Null
    <2>6. calls' = [calls EXCEPT ![r] = Set!NoCall]
      <3>1. \A q \in Readers : CallOf(rd[q])' = IF q = r THEN CallOf(it) ELSE CallOf(rd[q])
        BY <2>3 DEF CallOf
      <3>2. QED
        BY <2>5, <3>1
    <2>7. calls[r].mode = "geq" /\ calls[r].target = t /\ calls[r] # Set!NoCall
      BY <1>4 DEF CallOf, Set!NoCall
    <2>8. next[x][0] \in 0..Set!Null
      BY <1>3, MaxKeyAssumption DEF Set!Null, Keys, Null
    <2> HIDE DEF calls, nodes, x, t, it
    <2>9. \E m \in 0..Set!Null :
            /\ calls[r].mode = "geq"
            /\ Set!IsCeiling(m, calls[r].target, linked[0])
            /\ nodes' = [nodes EXCEPT ![r] = m]
      BY <2>1, <2>4, <2>7, <2>8
    <2>10. QED
      BY <1>1, <2>6, <2>7, <2>9 DEF Set!AnswerSearch, calls, nodes
  <1>5. CASE rd[r].mode = "less"
    <2> DEFINE v == IF x = Head THEN Null ELSE x
    <2>1. Set!IsLower(x, t, linked[0])
      BY <1>1, <1>2, <1>3 DEF Set!IsLower, Set!Head, Head
    <2>2. it.node = v /\ it.mode = "none"
      BY <1>5 DEF NoSearch
    <2>3. \A q \in Readers : rd'[q] = IF q = r THEN it ELSE rd[q]
      BY <1>1 DEF SlInv, SlTypeOK
    <2>4. nodes' = [nodes EXCEPT ![r] = v]
      BY <2>2, <2>3
    <2>5. CallOf(it) = Set!NoCall
      BY <2>2 DEF CallOf, Set!NoCall, Set!Null, Null
    <2>6. calls' = [calls EXCEPT ![r] = Set!NoCall]
      <3>1. \A q \in Readers : CallOf(rd[q])' = IF q = r THEN CallOf(it) ELSE CallOf(rd[q])
        BY <2>3 DEF CallOf
      <3>2. QED
        BY <2>5, <3>1
    <2>7. calls[r].mode = "less" /\ calls[r].target = t /\ calls[r] # Set!NoCall
      BY <1>5 DEF CallOf, Set!NoCall
    <2>8. x \in 0..Set!Null
      BY <1>3, MaxKeyAssumption DEF Set!Null, Keys, Nodes, Head
    <2>v. v = IF x = Set!Head THEN Set!Null ELSE x
      BY DEF Set!Head, Head, Set!Null, Null
    <2> HIDE DEF calls, nodes, x, t, it, v
    <2>9. \E m \in 0..Set!Null :
            /\ calls[r].mode = "less"
            /\ Set!IsLower(m, calls[r].target, linked[0])
            /\ nodes' = [nodes EXCEPT ![r] = IF m = Set!Head THEN Set!Null ELSE m]
      BY <2>1, <2>4, <2>7, <2>8, <2>v
    <2>10. QED
      BY <1>1, <2>6, <2>7, <2>9 DEF Set!AnswerSearch, calls, nodes
  <1>6. QED
    BY <1>2, <1>4, <1>5

LEMMA MoveAfterMoves ==
  ASSUME SlInv, NEW r \in Readers, NEW n \in {Head} \cup linked[0], MoveAfter(r, n)
  PROVE  Set!MoveAfter(r, n)
  <1> DEFINE it == [rd[r] EXCEPT !.node = next[n][0]]
             m == next[n][0]
  <1>1. rd[r].mode = "none" /\ rd' = [rd EXCEPT ![r] = it] /\ linked' = linked
    BY DEF MoveAfter
  <1>2. Set!IsCeiling(m, n + 1, linked[0]) /\ m \in Keys \cup {Null}
    BY Load, MaxHeightAssumption DEF SlInv, LevelsAreChains, Chain, Levels
  <1>3. it.mode = rd[r].mode /\ it.target = rd[r].target /\ it.node = m
    BY DEF SlInv, SlTypeOK, Iterator
  <1>4. \A q \in Readers : rd'[q] = IF q = r THEN it ELSE rd[q]
    BY <1>1 DEF SlInv, SlTypeOK
  <1>5. [q \in Readers |-> CallOf(rd[q])]' = [q \in Readers |-> CallOf(rd[q])]
    BY <1>3, <1>4 DEF CallOf
  <1>6. [q \in Readers |-> rd[q].node]' = [[q \in Readers |-> rd[q].node] EXCEPT ![r] = m]
    BY <1>3, <1>4
  <1>7. CallOf(rd[r]) = Set!NoCall
    BY <1>1 DEF CallOf, Set!NoCall, Set!Null, Null
  <1>8. Set!Keys \cup {Set!Null} = Keys \cup {Null}
    BY DEF Set!Keys, Set!Null, Keys, Null
  <1>9. QED
    BY <1>1, <1>2, <1>5, <1>6, <1>7, <1>8 DEF Set!MoveAfter

LEMMA ReaderMoves ==
  ASSUME SlInv, NEW r \in Readers, Reader(r)
  PROVE  Set!OsNext \/ UNCHANGED Set!osVars
  <1>1. CASE Seek(r) \/ SeekToLast(r) \/ Prev(r)
    <2>1. rd[r].node \in Keys \cup {Null}
      BY DEF SlInv, SlTypeOK, Iterator
    <2>2. Set!CallSearch(r)
      BY <1>1, <2>1, BeginSearchCalls DEF Seek, SeekToLast, Prev
    <2>3. QED
      BY <2>2 DEF Set!OsNext
  <1>2. CASE SearchRight(r) \/ SearchDown(r)
    BY <1>2, SearchMoves
  <1>3. CASE EndSearch(r)
    BY <1>3, EndSearchAnswers DEF Set!OsNext
  <1>4. CASE SeekToFirst(r)
    <2>1. Set!MoveAfter(r, Set!Head)
      BY <1>4, MoveAfterMoves DEF SeekToFirst, Set!Head, Head
    <2>2. QED
      BY <2>1 DEF Set!OsNext
  <1>5. CASE Next(r)
    <2>1. rd[r].node \in linked[0] /\ rd[r].node # Null
      BY <1>5 DEF Next, SlInv, ReaderInv
    <2>2. PICK n \in linked[0] : n = rd[r].node
      BY <2>1
    <2>3. MoveAfter(r, n)
      BY <1>5, <2>2 DEF Next, MoveAfter
    <2>4. Set!MoveAfter(r, n)
      BY <2>3, MoveAfterMoves
    <2>5. [q \in Readers |-> rd[q].node][r] = n /\ n # Set!Null
      BY <2>1, <2>2 DEF Set!Null, Null
    <2>6. QED
      BY <2>4, <2>5 DEF Set!OsNext, Set!MoveAfter
  <1>6. QED
    BY <1>1, <1>2, <1>3, <1>4, <1>5 DEF Reader

(* The skip list implements the ordered set: each movement of an iterator,   *)
(* however many unlocked loads it makes among the stores of Insert, is one   *)
(* movement in the set as it is at one instant.                              *)
THEOREM SkipListImplementsOrderedSet == SlSpec => ImplementsOrderedSet
  <1>1. SlInit => Set!OsInit
    <2> SUFFICES ASSUME SlInit PROVE Set!OsInit
      OBVIOUS
    <2>1. 0 \in Levels
      BY MaxHeightAssumption DEF Levels
    <2>2. linked[0] = {}
      BY <2>1 DEF SlInit
    <2>3. \A r \in Readers : CallOf(rd[r]) = Set!NoCall /\ rd[r].node = Set!Null
      BY DEF SlInit, CallOf, NoSearch, Set!NoCall, Set!Null, Null
    <2>4. QED
      BY <2>2, <2>3 DEF Set!OsInit
  <1>2. SlInv /\ [SlNext]_slVars => [Set!OsNext]_(Set!osVars)
    <2> SUFFICES ASSUME SlInv, [SlNext]_slVars
                 PROVE  Set!OsNext \/ UNCHANGED Set!osVars
      OBVIOUS
    <2>1. CASE Insert
      <3>1. CASE Publish
        BY <3>1, PublishAdds DEF Set!OsNext
      <3>2. CASE ~Publish
        BY <2>1, <3>2 DEF Insert, BeginInsert, FindRight, FindDown, Allocate, InitLink,
                          Set!osVars
      <3>3. QED
        BY <3>1, <3>2
    <2>2. CASE \E r \in Readers : Reader(r)
      BY <2>2, ReaderMoves
    <2>3. CASE UNCHANGED slVars
      BY <2>3 DEF slVars, Set!osVars, CallOf
    <2>4. QED
      BY <2>1, <2>2, <2>3 DEF SlNext
  <1>3. QED
    BY <1>1, <1>2, SkipListInvariant, PTL DEF SlSpec, ImplementsOrderedSet, Set!OsSpec
=============================================================================
