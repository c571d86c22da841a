---------------------------- MODULE AtomicStore ----------------------------
(***************************************************************************)
(* What DB promises its clients (leveldb-1.9.0/include/leveldb/db.h): a     *)
(* store in which a batch takes effect at one instant between the call of   *)
(* Write and its return, or not at all if Write reports an error, and in    *)
(* which a Get sees the store as it was at one instant: that of its         *)
(* snapshot, or one between its call and its return.  WriteQueue is shown   *)
(* to implement it.                                                         *)
(***************************************************************************)
EXTENDS Naturals, Sequences, FiniteSets

CONSTANTS Clients, Readers, Keys, Batches,
          Values   (* what a batch puts; every call has its own             *)

VARIABLES
  hist,    (* the batches that have taken effect, in order                  *)
  wcall,   (* each client's call of Write                                   *)
  rcall    (* each reader's Get                                             *)

storeVars == <<hist, wcall, rcall>>

NoWrite == [pc |-> "idle", keys |-> <<>>, val |-> 0]
NoRead == [pc |-> "idle", key |-> 0, view |-> 0, got |-> 0]

StoreInit ==
  /\ hist = <<>>
  /\ wcall = [t \in Clients |-> NoWrite]
  /\ rcall = [r \in Readers |-> NoRead]

(* The value of key k after the first n batches; 0 is "not found".           *)
ValueAt(k, n) ==
  LET puts == {i \in 1..n : \E j \in DOMAIN hist[i].keys : hist[i].keys[j] = k}
  IN IF puts = {} THEN 0
     ELSE hist[CHOOSE i \in puts : \A j \in puts : j <= i].val

(* A store that has failed for good rejects the call at once; one that has   *)
(* nothing to wait for may accept it at once.                                *)
CallsWrite(t) ==
  /\ wcall[t].pc = "idle"
  /\ \E b \in Batches, v \in Values, status \in {"pending", "ok", "failed"} :
       /\ wcall' = [wcall EXCEPT ![t] = [pc |-> status, keys |-> b, val |-> v]]
       /\ hist' = IF status = "ok" THEN Append(hist, [keys |-> b, val |-> v])
                                   ELSE hist
  /\ UNCHANGED rcall

(* Several pending batches may take effect together, in some order.          *)
Orders(S) ==
  {o \in UNION {[1..n -> S] : n \in 1..Cardinality(S)} :
     \A i, j \in DOMAIN o : o[i] = o[j] => i = j}

Pending == {t \in Clients : wcall[t].pc = "pending"}

TakesEffect ==
  /\ \E o \in Orders(Pending) :
       /\ hist' = hist \o [i \in DOMAIN o |-> [keys |-> wcall[o[i]].keys,
                                               val |-> wcall[o[i]].val]]
       /\ wcall' = [t \in Clients |->
                      IF \E i \in DOMAIN o : o[i] = t
                      THEN [wcall[t] EXCEPT !.pc = "ok"] ELSE wcall[t]]
  /\ UNCHANGED rcall

Fails ==
  /\ \E S \in (SUBSET Pending) \ {{}} :
       wcall' = [t \in Clients |->
                   IF t \in S THEN [wcall[t] EXCEPT !.pc = "failed"] ELSE wcall[t]]
  /\ UNCHANGED <<hist, rcall>>

WriteReturns(t) ==
  /\ wcall[t].pc \in {"ok", "failed"}
  /\ wcall' = [wcall EXCEPT ![t] = NoWrite]
  /\ UNCHANGED <<hist, rcall>>

TakesSnapshot(r) ==
  /\ rcall[r].pc = "idle"
  /\ rcall' = [rcall EXCEPT ![r].pc = "snapshot", ![r].view = Len(hist)]
  /\ UNCHANGED <<hist, wcall>>

Reads(r) ==
  /\ rcall[r].pc \in {"idle", "snapshot"}
  /\ \E k \in Keys :
       rcall' = [rcall EXCEPT
                   ![r].pc = "reading", ![r].key = k,
                   ![r].view = IF rcall[r].pc = "idle" THEN Len(hist) ELSE @]
  /\ UNCHANGED <<hist, wcall>>

Answers(r) ==
  /\ rcall[r].pc = "reading"
  /\ rcall' = [rcall EXCEPT ![r].pc = "got",
                            ![r].got = ValueAt(rcall[r].key, rcall[r].view)]
  /\ UNCHANGED <<hist, wcall>>

ReadReturns(r) ==
  /\ rcall[r].pc = "got"
  /\ rcall' = [rcall EXCEPT ![r] = NoRead]
  /\ UNCHANGED <<hist, wcall>>

StoreNext ==
  \/ \E t \in Clients : CallsWrite(t) \/ WriteReturns(t)
  \/ TakesEffect \/ Fails
  \/ \E r \in Readers : TakesSnapshot(r) \/ Reads(r) \/ Answers(r) \/ ReadReturns(r)

StoreSpec == StoreInit /\ [][StoreNext]_storeVars
=============================================================================
