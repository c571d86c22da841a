------------------------------ MODULE SkipList ------------------------------
(***************************************************************************)
(* The skip list under a memtable (leveldb-1.9.0/db/skiplist.h): one writer *)
(* at a time inserts, readers search and iterate without any lock, one      *)
(* pointer load at a time.  A node is named by its key; nodes are never     *)
(* freed.  Stores to a node's own links and to max_height_ have no barrier: *)
(* a reader may load any earlier value of max_height_, and the links of a   *)
(* node that nobody has published are garbage until they are stored.        *)
(***************************************************************************)
EXTENDS Naturals

CONSTANTS
  MaxKey,     (* the keys are 1..MaxKey, in the comparator's order           *)
  MaxHeight,  (* kMaxHeight                                                 *)
  Readers     (* iterators, each of a thread of its own                     *)

ASSUME MaxKeyAssumption == MaxKey \in Nat
ASSUME MaxHeightAssumption == MaxHeight \in Nat \ {0}

VARIABLES
  next,        (* Node::next_, by node and level                            *)
  max_height,  (* max_height_                                               *)
  stale,       (* the values max_height_ has had before                     *)
  linked,      (* the nodes published at each level                         *)
  wr,          (* the writer: Insert's locals                               *)
  rd           (* the iterators and the locals of their searches            *)

slVars == <<next, max_height, stale, linked, wr, rd>>

Keys == 1..MaxKey
Head == 0
Null == MaxKey + 1      (* "NULL n is considered infinite"                  *)
Garbage == MaxKey + 2   (* memory of the arena that nobody has stored to    *)
Nodes == {Head} \cup Keys
Levels == 0..(MaxHeight - 1)

NotInserting ==
  [pc |-> "idle", key |-> Null, height |-> 0, level |-> 0, x |-> Head,
   prev |-> [i \in Levels |-> Head]]
NoSearch == [mode |-> "none", target |-> Null, x |-> Head, level |-> 0, node |-> Null]

Insertion ==
  [pc : {"idle", "find", "allocate", "init", "publish"}, key : Keys \cup {Null},
   height : 0..MaxHeight, level : Levels, x : Nodes, prev : [Levels -> Nodes]]
Iterator ==
  [mode : {"none", "geq", "less"}, target : Keys \cup {Null}, x : Nodes,
   level : Levels, node : Keys \cup {Null}]

SlTypeOK ==
  /\ next \in [Nodes -> [Levels -> 0..Garbage]]
  /\ max_height \in 1..MaxHeight
  /\ stale \subseteq 1..max_height
  /\ linked \in [Levels -> SUBSET Keys]
  /\ wr \in Insertion
  /\ rd \in [Readers -> Iterator]

SlInit ==
  /\ next = [n \in Nodes |-> [i \in Levels |-> IF n = Head THEN Null ELSE Garbage]]
  /\ max_height = 1
  /\ stale = {}
  /\ linked = [i \in Levels |-> {}]
  /\ wr = NotInserting
  /\ rd = [r \in Readers |-> NoSearch]

(* Insert begins: it is called under external synchronization, never with a  *)
(* key that is in the list.                                                  *)
BeginInsert(k) ==
  /\ wr.pc = "idle"
  /\ k \notin linked[0]
  /\ wr' = [NotInserting EXCEPT !.pc = "find", !.key = k, !.level = max_height - 1]
  /\ UNCHANGED <<next, max_height, stale, linked, rd>>

(* FindGreaterOrEqual, one load: to the right while the next node is before  *)
(* the key, else down, noting where.                                         *)
FindRight ==
  /\ wr.pc = "find"
  /\ next[wr.x][wr.level] < wr.key
  /\ wr' = [wr EXCEPT !.x = next[wr.x][wr.level]]
  /\ UNCHANGED <<next, max_height, stale, linked, rd>>

(* Mutant: the search ends one level too early.                              *)
FindDownBug ==
  /\ wr.pc = "find"
  /\ wr.key <= next[wr.x][wr.level]
  /\ wr' = [wr EXCEPT !.prev = [@ EXCEPT ![wr.level] = wr.x],
                      !.pc = IF wr.level <= 1 THEN "allocate" ELSE "find",
                      !.level = IF wr.level = 0 THEN 0 ELSE wr.level - 1]
  /\ UNCHANGED <<next, max_height, stale, linked, rd>>

FindDown ==
  /\ wr.pc = "find"
  /\ wr.key <= next[wr.x][wr.level]
  /\ wr' = [wr EXCEPT !.prev = [@ EXCEPT ![wr.level] = wr.x],
                      !.pc = IF wr.level = 0 THEN "allocate" ELSE "find",
                      !.level = IF wr.level = 0 THEN 0 ELSE wr.level - 1]
  /\ UNCHANGED <<next, max_height, stale, linked, rd>>

(* The new node, of a random height; above the old maximum its predecessor   *)
(* is the head.                                                              *)
Allocate(h) ==
  /\ wr.pc = "allocate"
  /\ wr' = [wr EXCEPT !.pc = "init", !.height = h, !.level = 0,
                      !.prev = [i \in Levels |->
                                  IF max_height <= i THEN Head ELSE wr.prev[i]]]
  /\ IF h > max_height
     THEN max_height' = h /\ stale' = stale \cup {max_height}
     ELSE UNCHANGED <<max_height, stale>>
  /\ UNCHANGED <<next, linked, rd>>

(* Mutant: the new node's own link is left out.                             *)
InitLinkBug ==
  /\ wr.pc = "init"
  /\ wr' = [wr EXCEPT !.pc = "publish"]
  /\ UNCHANGED <<next, max_height, stale, linked, rd>>

(* NoBarrier_SetNext of the new node, then SetNext of its predecessor.       *)
InitLink ==
  /\ wr.pc = "init"
  /\ next' = [next EXCEPT ![wr.key][wr.level] = next[wr.prev[wr.level]][wr.level]]
  /\ wr' = [wr EXCEPT !.pc = "publish"]
  /\ UNCHANGED <<max_height, stale, linked, rd>>

Publish ==
  /\ wr.pc = "publish"
  /\ next' = [next EXCEPT ![wr.prev[wr.level]][wr.level] = wr.key]
  /\ linked' = [linked EXCEPT ![wr.level] = @ \cup {wr.key}]
  /\ wr' = IF wr.level + 1 = wr.height THEN NotInserting
           ELSE [wr EXCEPT !.pc = "init", !.level = wr.level + 1]
  /\ UNCHANGED <<max_height, stale, rd>>

(* A search begins at the head, at the level of some value of max_height_:   *)
(* FindGreaterOrEqual for Seek and Contains, FindLessThan for Prev and, with *)
(* a target after every key, FindLast for SeekToLast.                        *)
BeginSearch(r, mode, target) ==
  /\ rd[r].mode = "none"
  /\ \E h \in stale \cup {max_height} :
       rd' = [rd EXCEPT ![r] = [@ EXCEPT !.mode = mode, !.target = target,
                                         !.x = Head, !.level = h - 1]]
  /\ UNCHANGED <<next, max_height, stale, linked, wr>>

Seek(r) == \E k \in Keys : BeginSearch(r, "geq", k)
SeekToLast(r) == BeginSearch(r, "less", Null)
Prev(r) == rd[r].node # Null /\ BeginSearch(r, "less", rd[r].node)

SearchRight(r) ==
  /\ rd[r].mode # "none"
  /\ next[rd[r].x][rd[r].level] < rd[r].target
  /\ rd' = [rd EXCEPT ![r] = [@ EXCEPT !.x = next[rd[r].x][rd[r].level]]]
  /\ UNCHANGED <<next, max_height, stale, linked, wr>>

SearchDown(r) ==
  /\ rd[r].mode # "none"
  /\ rd[r].level > 0
  /\ rd[r].target <= next[rd[r].x][rd[r].level]
  /\ rd' = [rd EXCEPT ![r] = [@ EXCEPT !.level = rd[r].level - 1]]
  /\ UNCHANGED <<next, max_height, stale, linked, wr>>

(* Mutant: the answer is taken on the way down to the last level.            *)
EndSearchBug(r) ==
  /\ rd[r].mode # "none"
  /\ rd[r].target <= next[rd[r].x][rd[r].level]
  /\ rd' = [rd EXCEPT ![r] =
              [NoSearch EXCEPT !.node = IF rd[r].mode = "geq" THEN next[rd[r].x][rd[r].level]
                                        ELSE IF rd[r].x = Head THEN Null
                                        ELSE rd[r].x]]
  /\ UNCHANGED <<next, max_height, stale, linked, wr>>

EndSearch(r) ==
  /\ rd[r].mode # "none"
  /\ rd[r].level = 0
  /\ rd[r].target <= next[rd[r].x][0]
  /\ rd' = [rd EXCEPT ![r] =
              [NoSearch EXCEPT !.node = IF rd[r].mode = "geq" THEN next[rd[r].x][0]
                                        ELSE IF rd[r].x = Head THEN Null
                                        ELSE rd[r].x]]
  /\ UNCHANGED <<next, max_height, stale, linked, wr>>

(* SeekToFirst and Next are one load.                                        *)
MoveAfter(r, n) ==
  /\ rd[r].mode = "none"
  /\ rd' = [rd EXCEPT ![r] = [@ EXCEPT !.node = next[n][0]]]
  /\ UNCHANGED <<next, max_height, stale, linked, wr>>

SeekToFirst(r) == MoveAfter(r, Head)
Next(r) == rd[r].node # Null /\ MoveAfter(r, rd[r].node)

Insert ==
  \/ \E k \in Keys : BeginInsert(k)
  \/ FindRight \/ FindDown \/ InitLink \/ Publish
  \/ \E h \in 1..MaxHeight : Allocate(h)

Reader(r) ==
  \/ Seek(r) \/ SeekToLast(r) \/ Prev(r) \/ SeekToFirst(r) \/ Next(r)
  \/ SearchRight(r) \/ SearchDown(r) \/ EndSearch(r)

SlNext == Insert \/ \E r \in Readers : Reader(r)

SlSpec == SlInit /\ [][SlNext]_slVars

---------------------------------------------------------------------------
(* The set that the list stands for is what is linked at its lowest level:   *)
(* every movement of an iterator, made of many unlocked loads while Insert   *)
(* stores, is a movement in that set as it is at the last load.              *)
CallOf(it) ==
  [mode |-> it.mode, target |-> IF it.mode = "none" THEN Null ELSE it.target]

Set == INSTANCE OrderedSet WITH
  set <- linked[0],
  call <- [r \in Readers |-> CallOf(rd[r])],
  cursor <- [r \in Readers |-> rd[r].node]

ImplementsOrderedSet == Set!OsSpec

(* At each level the links from the head visit exactly the nodes published   *)
(* there, in order: Insert has left out, doubled or lost none.               *)
Chain(i) ==
  \A n \in {Head} \cup linked[i] : Set!IsCeiling(next[n][i], n + 1, linked[i])
LevelsAreChains == \A i \in Levels : Chain(i)

(* Nobody loads a link that was not stored: neither the searches, which have *)
(* come down from another level or have been overtaken by an Insert, nor an  *)
(* iterator that stands on a node.                                           *)
NoWildLoad ==
  /\ wr.pc = "find" => next[wr.x][wr.level] # Garbage
  /\ \A r \in Readers :
       /\ rd[r].mode # "none" => next[rd[r].x][rd[r].level] # Garbage
       /\ rd[r].node # Null => next[rd[r].node][0] # Garbage
=============================================================================
