----------------------------- MODULE OrderedSet -----------------------------
(***************************************************************************)
(* What a memtable's index promises its readers                            *)
(* (leveldb-1.9.0/db/skiplist.h): a set of keys that one writer adds to,    *)
(* and iterators whose every movement sees the set as it is at one instant  *)
(* between its call and its return.  SkipList is shown to implement it.     *)
(***************************************************************************)
EXTENDS Naturals

CONSTANTS MaxKey, Readers

VARIABLES
  set,     (* the keys that can be found                                    *)
  call,    (* the search each iterator is in, or NoCall                     *)
  cursor   (* the key each iterator is at, or Null                          *)

osVars == <<set, call, cursor>>

Keys == 1..MaxKey
Head == 0           (* before every key                                     *)
Null == MaxKey + 1  (* after every key                                      *)

Modes == {"geq", "less"}
NoCall == [mode |-> "none", target |-> Null]
Call == [mode : Modes, target : Keys \cup {Null}] \cup {NoCall}

(* n is the first key of S at or after t, or Null if there is none.          *)
IsCeiling(n, t, S) ==
  /\ n \in S \cup {Null}
  /\ t <= n
  /\ \A k \in S : t <= k => n <= k

(* n is the last key of S before t, or Head if there is none.                *)
IsLower(n, t, S) ==
  /\ n \in S \cup {Head}
  /\ n < t
  /\ \A k \in S : k < t => k <= n

OsInit ==
  /\ set = {}
  /\ call = [r \in Readers |-> NoCall]
  /\ cursor = [r \in Readers |-> Null]

Add ==
  /\ \E k \in Keys \ set : set' = set \cup {k}
  /\ UNCHANGED <<call, cursor>>

(* Seek, SeekToLast or Prev is called.                                       *)
CallSearch(r) ==
  /\ call[r] = NoCall
  /\ \E c \in Call \ {NoCall} : call' = [call EXCEPT ![r] = c]
  /\ UNCHANGED <<set, cursor>>

AnswerSearch(r) ==
  /\ call[r] # NoCall
  /\ \E n \in 0..Null :
       \/ /\ call[r].mode = "geq"
          /\ IsCeiling(n, call[r].target, set)
          /\ cursor' = [cursor EXCEPT ![r] = n]
       \/ /\ call[r].mode = "less"
          /\ IsLower(n, call[r].target, set)
          /\ cursor' = [cursor EXCEPT ![r] = IF n = Head THEN Null ELSE n]
  /\ call' = [call EXCEPT ![r] = NoCall]
  /\ UNCHANGED set

(* SeekToFirst and Next take one step.                                       *)
MoveAfter(r, n) ==
  /\ call[r] = NoCall
  /\ \E m \in Keys \cup {Null} :
       /\ IsCeiling(m, n + 1, set)
       /\ cursor' = [cursor EXCEPT ![r] = m]
  /\ UNCHANGED <<set, call>>

OsNext ==
  \/ Add
  \/ \E r \in Readers :
       \/ CallSearch(r) \/ AnswerSearch(r) \/ MoveAfter(r, Head)
       \/ cursor[r] # Null /\ MoveAfter(r, cursor[r])

OsSpec == OsInit /\ [][OsNext]_osVars
=============================================================================
