--------------------------- MODULE DfaCacheProofs ---------------------------
(* For every automaton, memory budget and number of threads: no search is    *)
(* left with a dangling State*, because one that has a State* holds the      *)
(* cache lock, one way or the other, and a reset is done by the only one     *)
(* that does; and a search finds what the automaton defines, unless the      *)
(* firstbyte that it was given is not the only way out of its start state.   *)
EXTENDS DfaCache, FiniteSetTheorems, WellFoundedInduction, TLAPS

Fields == {"pc", "text", "kind", "earliest", "start", "firstbyte", "s", "p", "resetp",
           "lastmatch", "forward", "dangling", "failed"}
IsSearch(r) == r = [f \in Fields |-> r[f]]

(* What a step makes of a search: it runs or returns, and what it has does   *)
(* not dangle for it.                                                        *)
GoesOn(r, q) == IsSearch(q) /\ q.pc \in {"run", "return"} /\ q.dangling = r.dangling

Inside == {"analyze", "run", "compute", "compute end", "return"} \cup Upgrading

LocksInv ==
  /\ readers \subseteq Threads
  /\ writer \in Threads \cup {NoThread}
  /\ writer # NoThread => readers = {}

SearchInv(t) ==
  /\ IsSearch(th[t])
  /\ th[t].pc \in Inside \cup Resetting \cup {"idle"}
  /\ th[t].pc \in Inside => t \in readers \/ t = writer
  /\ th[t].pc \in Resetting => t \notin readers /\ t # writer
  /\ th[t].pc = "idle" => th[t].s = Null
  /\ ~th[t].dangling

DfInv ==
  /\ LocksInv
  /\ th = [t \in Threads |-> th[t]]
  /\ \A t \in Threads : SearchInv(t)

---------------------------------------------------------------------------
(* What the helpers make of a search.                                        *)
LEMMA ReturnGoesOn ==
  ASSUME NEW r, IsSearch(r)
  PROVE  /\ GoesOn(r, Return(r)) /\ Return(r).pc = "return"
         /\ \A why : GoesOn(r, Fail(r, why))
<1>1. DOMAIN r = Fields
  BY DEF IsSearch
<1>2. GoesOn(r, Return(r)) /\ Return(r).pc = "return"
  BY <1>1 DEF Return, GoesOn, IsSearch, Fields
<1>3. ASSUME NEW why
      PROVE  GoesOn(r, Fail(r, why))
  BY <1>1, <1>2 DEF Fail, Return, GoesOn, IsSearch, Fields
<1> QED
  BY <1>2, <1>3

LEMMA HelpersGoOn ==
  ASSUME NEW r, IsSearch(r)
  PROVE  /\ \A i : GoesOn(r, Started(r, i))
         /\ \A ns : GoesOn(r, Advance(r, ns)) /\ GoesOn(r, Finish(r, ns))
                   /\ GoesOn(r, Onward(r, ns))
<1>1. DOMAIN r = Fields
  BY DEF IsSearch
<1>2. ASSUME NEW i
      PROVE  GoesOn(r, Started(r, i))
  BY <1>1, ReturnGoesOn DEF Started, Return, GoesOn, IsSearch, Fields
<1>3. ASSUME NEW ns
      PROVE  GoesOn(r, Advance(r, ns))
  <2> DEFINE q == [r EXCEPT !.pc = "run", !.s = ns,
                            !.lastmatch = IF ns \in Matching THEN r.p - 1 ELSE @]
  <2>1. GoesOn(r, q)
    BY <1>1 DEF GoesOn, IsSearch, Fields
  <2>2. GoesOn(r, Return(q))
    BY <2>1, ReturnGoesOn DEF GoesOn
  <2>3. GoesOn(r, [Return(r) EXCEPT !.lastmatch = Len(r.text)])
    BY <1>1, ReturnGoesOn DEF GoesOn, IsSearch, Fields
  <2> QED
    BY <2>1, <2>2, <2>3, ReturnGoesOn DEF Advance
<1>4. ASSUME NEW ns
      PROVE  GoesOn(r, Finish(r, ns))
  <2> DEFINE q == [r EXCEPT !.lastmatch =
                     IF ns = Full \/ ns \in Matching THEN Len(r.text) ELSE @]
  <2>1. IsSearch(q) /\ q.dangling = r.dangling
    BY <1>1 DEF IsSearch, Fields
  <2>2. GoesOn(q, Return(q))
    BY <2>1, ReturnGoesOn
  <2> QED
    BY <2>1, <2>2 DEF GoesOn, Finish
<1> QED
  BY <1>2, <1>3, <1>4 DEF Onward

---------------------------------------------------------------------------
LEMMA IdleIsSearch ==
  /\ IsSearch(Idle) /\ DOMAIN Idle = Fields
  /\ Idle.pc = "idle" /\ Idle.s = Null /\ ~Idle.dangling
<1>1. DOMAIN Idle = Fields
  BY DEF Idle, Fields
<1>2. Idle.pc = "idle" /\ Idle.s = Null /\ ~Idle.dangling
  BY DEF Idle
<1>3. IsSearch(Idle)
  BY <1>1 DEF Idle, IsSearch
<1> QED
  BY <1>1, <1>2, <1>3

LEMMA InitDfInv == DfaInit => DfInv
<1> SUFFICES ASSUME DfaInit
             PROVE  DfInv
  OBVIOUS
<1>1. LocksInv
  BY DEF DfaInit, LocksInv
<1>2. ASSUME NEW t \in Threads
      PROVE  SearchInv(t)
  BY IdleIsSearch DEF DfaInit, SearchInv, Inside, Upgrading, Resetting
<1> QED
  BY <1>1, <1>2 DEF DfaInit, DfInv

(* A thread that keeps its locks and goes on disturbs nobody.                *)
LEMMA GoingOn ==
  ASSUME DfInv, NEW t \in Threads, th[t].pc \in Inside, NEW q, Set(t, q),
         IsSearch(q), q.pc \in Inside, q.dangling = th[t].dangling,
         UNCHANGED <<readers, writer>>
  PROVE  DfInv'
<1>1. LocksInv'
  BY DEF DfInv, LocksInv
<1>2. th' = [u \in Threads |-> IF u = t THEN q ELSE th[u]]
  BY DEF Set, DfInv
<1>3. ASSUME NEW u \in Threads
      PROVE  SearchInv(u)'
  <2>1. CASE u = t
    BY <2>1, <1>2 DEF DfInv, SearchInv, Inside, Upgrading, Resetting
  <2>2. CASE u # t
    BY <2>2, <1>2 DEF DfInv, SearchInv
  <2> QED
    BY <2>1, <2>2
<1> QED
  BY <1>1, <1>2, <1>3 DEF DfInv

(* Whatever it is for, a reset lets its search go on.                        *)
LEMMA ResetsGoOn ==
  ASSUME DfInv, NEW t \in Threads,
         ResetAndAnalyze(t) \/ ResetInLoop(t) \/ ResetAtEnd(t)
  PROVE  \E r, pc, resetting :
           /\ Locked(t, pc, resetting) /\ pc \in Upgrading /\ resetting \in Resetting
           /\ Emptied(t, r) /\ GoesOn(th[t], r)
<1>1. IsSearch(th[t]) /\ DOMAIN th[t] = Fields
  BY DEF DfInv, SearchInv, IsSearch
<1>2. CASE ResetAndAnalyze(t)
  <2>1. PICK a : Emptied(t, IF a.ok THEN Started(th[t], a.info) ELSE Fail(th[t], "dfatal"))
    BY <1>2 DEF ResetAndAnalyze
  <2>2. PICK r : Emptied(t, r) /\ r \in {Started(th[t], a.info), Fail(th[t], "dfatal")}
    BY <2>1
  <2>3. GoesOn(th[t], r)
    BY <2>2, <1>1, HelpersGoOn, ReturnGoesOn
  <2> QED
    BY <1>2, <2>2, <2>3 DEF ResetAndAnalyze, Upgrading, Resetting
<1>3. CASE ResetInLoop(t)
  <2> DEFINE b == [th[t] EXCEPT !.pc = "compute"]
  <2>1. PICK r, ns : Emptied(t, r) /\ r \in {Fail(b, "dfatal"), Onward(b, ns)}
    BY <1>3 DEF ResetInLoop
  <2>2. IsSearch(b) /\ b.dangling = th[t].dangling
    BY <1>1 DEF IsSearch, Fields
  <2>3. GoesOn(b, r)
    <3> HIDE DEF b
    <3> QED
      BY <2>1, <2>2, HelpersGoOn, ReturnGoesOn
  <2>4. GoesOn(th[t], r)
    BY <2>2, <2>3 DEF GoesOn
  <2> QED
    BY <1>3, <2>1, <2>4 DEF ResetInLoop, Upgrading, Resetting
<1>4. CASE ResetAtEnd(t)
  <2> DEFINE b == [th[t] EXCEPT !.pc = "compute end"]
  <2>1. PICK r, ns : Emptied(t, r) /\ r \in {Fail(b, "dfatal"), Onward(b, ns)}
    BY <1>4 DEF ResetAtEnd
  <2>2. IsSearch(b) /\ b.dangling = th[t].dangling
    BY <1>1 DEF IsSearch, Fields
  <2>3. GoesOn(b, r)
    <3> HIDE DEF b
    <3> QED
      BY <2>1, <2>2, HelpersGoOn, ReturnGoesOn
  <2>4. GoesOn(th[t], r)
    BY <2>2, <2>3 DEF GoesOn
  <2> QED
    BY <1>4, <2>1, <2>4 DEF ResetAtEnd, Upgrading, Resetting
<1> QED
  BY <1>2, <1>3, <1>4

(* The one that resets is alone: without readers, and as the only writer.    *)
LEMMA Alone ==
  ASSUME DfInv, NEW t \in Threads, NEW r, NEW pc \in Upgrading, NEW resetting \in Resetting,
         Locked(t, pc, resetting), Emptied(t, r), GoesOn(th[t], r)
  PROVE  DfInv'
<1>1. readers = {} /\ writer \in {t, NoThread} /\ readers' = readers /\ writer' = t
  BY DfaAssumption DEF Locked, DfInv, LocksInv
<1>2. LocksInv'
  BY <1>1 DEF LocksInv
<1>3. ASSUME NEW u \in Threads, u # t
      PROVE  ~HasState(th[u]) /\ th[u].pc \notin Inside
  BY <1>3, <1>1, DfaAssumption DEF DfInv, SearchInv, HasState, Inside
<1>4. th' = [u \in Threads |-> IF u = t THEN r
                               ELSE [th[u] EXCEPT !.dangling = HasState(th[u])]]
  BY DEF Emptied
<1>5. ASSUME NEW u \in Threads
      PROVE  SearchInv(u)'
  <2>1. CASE u = t
    BY <2>1, <1>1, <1>4 DEF GoesOn, SearchInv, DfInv, Inside, Resetting
  <2>2. CASE u # t
    <3>1. IsSearch(th[u]) /\ DOMAIN th[u] = Fields
      BY DEF DfInv, SearchInv, IsSearch
    <3>2. th'[u] = [th[u] EXCEPT !.dangling = HasState(th[u])]
      BY <1>4, <2>2
    <3>3. /\ IsSearch(th'[u]) /\ ~th'[u].dangling
          /\ th'[u].pc = th[u].pc /\ th'[u].s = th[u].s
      BY <3>1, <3>2, <2>2, <1>3 DEF IsSearch, Fields
    <3> QED
      BY <3>3, <2>2, <1>1, <1>3 DEF DfInv, SearchInv
  <2> QED
    BY <2>1, <2>2
<1> QED
  BY <1>2, <1>4, <1>5 DEF DfInv

LEMMA DfaStep ==
  ASSUME DfInv, [DfaNext]_dfaVars
  PROVE  DfInv'
<1>1. ASSUME NEW t \in Threads, Search(t)
      PROVE  DfInv'
  <2>1. LocksInv'
    BY <1>1 DEF Search, DfInv, LocksInv
  <2>2. PICK q : /\ IsSearch(q) /\ q.pc = "analyze" /\ ~q.dangling
                 /\ th' = [u \in Threads |-> IF u = t THEN q ELSE th[u]]
    <3>1. PICK x \in Texts, k \in Kinds, e \in BOOLEAN, f \in BOOLEAN :
            Set(t, [Idle EXCEPT !.pc = "analyze", !.text = x, !.kind = k, !.earliest = e,
                                !.forward = f])
      BY <1>1 DEF Search
    <3> DEFINE q == [Idle EXCEPT !.pc = "analyze", !.text = x, !.kind = k,
                                 !.earliest = e, !.forward = f]
    <3>2. IsSearch(q) /\ q.pc = "analyze" /\ ~q.dangling
      BY IdleIsSearch DEF IsSearch, Fields
    <3>3. th' = [u \in Threads |-> IF u = t THEN q ELSE th[u]]
      BY <3>1 DEF Set, DfInv
    <3> QED
      BY <3>2, <3>3
  <2>3. ASSUME NEW u \in Threads
        PROVE  SearchInv(u)'
    <3>1. CASE u = t
      BY <3>1, <1>1, <2>2 DEF Search, DfInv, SearchInv, Inside, Upgrading, Resetting
    <3>2. CASE u # t
      BY <3>2, <1>1, <2>2 DEF Search, DfInv, SearchInv, LocksInv
    <3> QED
      BY <3>1, <3>2
  <2> QED
    BY <2>1, <2>2, <2>3 DEF DfInv
<1>2. ASSUME NEW t \in Threads, Analyze(t)
      PROVE  DfInv'
  <2>1. IsSearch(th[t]) /\ th[t].pc \in Inside
    BY <1>2 DEF Analyze, DfInv, SearchInv, Inside
  <2>2. DOMAIN th[t] = Fields
    BY <2>1 DEF IsSearch
  <2>3. PICK a : Set(t, IF a.ok THEN Started(th[t], a.info)
                        ELSE [th[t] EXCEPT !.pc = "upgrade"])
    BY <1>2 DEF Analyze
  <2>4. CASE a.ok
    BY <2>1, <2>3, <2>4, <1>2, HelpersGoOn, GoingOn DEF Analyze, GoesOn, Inside
  <2>5. CASE ~a.ok
    <3> DEFINE q == [th[t] EXCEPT !.pc = "upgrade"]
    <3>1. IsSearch(q) /\ q.pc \in Inside /\ q.dangling = th[t].dangling
      BY <2>1, <2>2 DEF IsSearch, Fields, Inside, Upgrading
    <3>2. Set(t, q)
      BY <2>3, <2>5
    <3> QED
      BY <2>1, <3>1, <3>2, <1>2, GoingOn DEF Analyze
  <2> QED
    BY <2>4, <2>5
<1>3. ASSUME NEW t \in Threads, ReadByte(t)
      PROVE  DfInv'
  <2> DEFINE k == Skipped(th[t])
             r == [th[t] EXCEPT !.p = k + 1]
             c == th[t].text[k + 1]
  <2>1. IsSearch(th[t]) /\ DOMAIN th[t] = Fields /\ th[t].pc \in Inside
    BY <1>3 DEF ReadByte, DfInv, SearchInv, Inside, IsSearch
  <2>2. IsSearch(r) /\ DOMAIN r = Fields /\ r.dangling = th[t].dangling
    BY <2>1 DEF IsSearch, Fields
  <2> DEFINE q == IF graph.next[r.s][c] = Null THEN [r EXCEPT !.pc = "compute"]
                  ELSE Advance(r, graph.next[r.s][c])
  <2>3. Set(t, q)
    BY <1>3 DEF ReadByte
  <2>4. IsSearch(q) /\ q.pc \in Inside /\ q.dangling = r.dangling
    <3>1. LET q1 == [r EXCEPT !.pc = "compute"]
          IN IsSearch(q1) /\ q1.pc \in Inside /\ q1.dangling = r.dangling
      BY <2>2 DEF IsSearch, Fields, Inside
    <3> HIDE DEF r
    <3>2. GoesOn(r, Advance(r, graph.next[r.s][c]))
      BY <2>2, HelpersGoOn
    <3> QED
      BY <3>1, <3>2 DEF GoesOn, Inside
  <2> HIDE DEF q, r
  <2> QED
    BY <2>1, <2>2, <2>3, <2>4, <1>3, GoingOn DEF ReadByte
<1>4. ASSUME NEW t \in Threads, ReadEnd(t)
      PROVE  DfInv'
  <2> DEFINE r == [th[t] EXCEPT !.p = Len(th[t].text)]
  <2>1. IsSearch(th[t]) /\ DOMAIN th[t] = Fields /\ th[t].pc \in Inside
    BY <1>4 DEF ReadEnd, DfInv, SearchInv, Inside, IsSearch
  <2>2. IsSearch(r) /\ DOMAIN r = Fields /\ r.dangling = th[t].dangling
    BY <2>1 DEF IsSearch, Fields
  <2>3. PICK q : Set(t, q) /\ q = IF graph.next[r.s][LastByte[r.text]] = Null
                                   THEN [r EXCEPT !.pc = "compute end"]
                                   ELSE Finish(r, graph.next[r.s][LastByte[r.text]])
    <3>1. Set(t, IF graph.next[r.s][LastByte[r.text]] = Null
                 THEN [r EXCEPT !.pc = "compute end"]
                 ELSE Finish(r, graph.next[r.s][LastByte[r.text]]))
      BY <1>4, Zenon DEF ReadEnd
    <3> HIDE DEF r
    <3> QED
      BY <3>1
  <2>4. IsSearch(q) /\ q.pc \in Inside /\ q.dangling = r.dangling
    <3>1. LET q1 == [r EXCEPT !.pc = "compute end"]
          IN IsSearch(q1) /\ q1.pc \in Inside /\ q1.dangling = r.dangling
      BY <2>2 DEF IsSearch, Fields, Inside
    <3> HIDE DEF r
    <3>2. GoesOn(r, Finish(r, graph.next[r.s][LastByte[r.text]]))
      BY <2>2, HelpersGoOn
    <3> QED
      BY <2>3, <3>1, <3>2 DEF GoesOn, Inside
  <2> QED
    BY <2>1, <2>2, <2>3, <2>4, <1>4, GoingOn DEF ReadEnd
<1>5. ASSUME NEW t \in Threads, Compute(t)
      PROVE  DfInv'
  <2> DEFINE r == th[t]
             q1 == [r EXCEPT !.pc = "upgrade byte", !.resetp = r.p]
             q2 == [r EXCEPT !.pc = "upgrade end"]
  <2>1. IsSearch(r) /\ DOMAIN r = Fields /\ r.pc \in Inside
    BY <1>5 DEF Compute, DfInv, SearchInv, Inside, IsSearch
  <2>2. PICK ns : Set(t, IF ns # Null THEN Onward(r, ns)
                         ELSE IF TooSlow(r) THEN Fail(r, "slow")
                         ELSE IF r.pc = "compute" THEN q1 ELSE q2)
    BY <1>5 DEF Compute
  <2>3. UNCHANGED <<readers, writer>>
    BY <1>5 DEF Compute
  <2>4. IsSearch(q1) /\ q1.pc \in Inside /\ q1.dangling = r.dangling
    BY <2>1 DEF IsSearch, Fields, Inside, Upgrading
  <2>5. IsSearch(q2) /\ q2.pc \in Inside /\ q2.dangling = r.dangling
    BY <2>1 DEF IsSearch, Fields, Inside, Upgrading
  <2>6. GoesOn(r, Onward(r, ns)) /\ GoesOn(r, Fail(r, "slow"))
    BY <2>1, HelpersGoOn, ReturnGoesOn
  <2>7. PICK q : Set(t, q) /\ q \in {Onward(r, ns), Fail(r, "slow"), q1, q2}
    BY <2>2
  <2>8. IsSearch(q) /\ q.pc \in Inside /\ q.dangling = r.dangling
    <3> HIDE DEF q1, q2
    <3> QED
      BY <2>4, <2>5, <2>6, <2>7 DEF GoesOn, Inside
  <2> QED
    BY <2>1, <2>3, <2>7, <2>8, GoingOn
<1>6. ASSUME NEW t \in Threads, GiveUpReading(t)
      PROVE  DfInv'
  <2> DEFINE q == [th[t] EXCEPT !.pc = ResetFor(th[t].pc)]
  <2>1. IsSearch(th[t]) /\ DOMAIN th[t] = Fields /\ th[t].pc \in Upgrading
    BY <1>6 DEF GiveUpReading, DfInv, SearchInv, IsSearch
  <2>2. IsSearch(q) /\ q.pc \in Resetting /\ q.dangling = th[t].dangling
    BY <2>1 DEF IsSearch, Fields, ResetFor, Upgrading, Resetting
  <2>3. th' = [u \in Threads |-> IF u = t THEN q ELSE th[u]]
    BY <1>6 DEF GiveUpReading, Set, DfInv
  <2>4. readers' = readers \ {t} /\ writer' = writer /\ t # writer
    BY <1>6 DEF GiveUpReading
  <2>5. LocksInv'
    BY <2>4 DEF DfInv, LocksInv
  <2>6. ASSUME NEW u \in Threads
        PROVE  SearchInv(u)'
    <3> HIDE DEF q
    <3>1. CASE u = t
      BY <3>1, <2>2, <2>3, <2>4 DEF DfInv, SearchInv, Inside, Upgrading, Resetting
    <3>2. CASE u # t
      BY <3>2, <2>3, <2>4 DEF DfInv, SearchInv
    <3> QED
      BY <3>1, <3>2
  <2> QED
    BY <2>3, <2>5, <2>6 DEF DfInv
<1>7. ASSUME NEW t \in Threads, SearchReturns(t)
      PROVE  DfInv'
  <2>1. th' = [u \in Threads |-> IF u = t THEN Idle ELSE th[u]]
    BY <1>7 DEF SearchReturns, Set, DfInv
  <2>2. LocksInv'
    BY <1>7 DEF SearchReturns, DfInv, LocksInv
  <2>3. ASSUME NEW u \in Threads
        PROVE  SearchInv(u)'
    <3>1. CASE u = t
      BY <3>1, <2>1, IdleIsSearch DEF SearchInv, Inside, Upgrading, Resetting
    <3>2. CASE u # t
      <4>1. th'[u] = th[u]
        BY <3>2, <2>1
      <4>2. (u \in readers \/ u = writer) => (u \in readers' \/ u = writer')
        BY <3>2, <1>7 DEF SearchReturns
      <4>3. (u \notin readers /\ u # writer) => (u \notin readers' /\ u # writer')
        BY <1>7, DfaAssumption DEF SearchReturns
      <4> QED
        BY <4>1, <4>2, <4>3 DEF DfInv, SearchInv
    <3> QED
      BY <3>1, <3>2
  <2> QED
    BY <2>1, <2>2, <2>3 DEF DfInv
<1>8. ASSUME NEW t \in Threads, ResetAndAnalyze(t) \/ ResetInLoop(t) \/ ResetAtEnd(t)
      PROVE  DfInv'
  <2>1. PICK r, pc, resetting :
          /\ Locked(t, pc, resetting) /\ pc \in Upgrading /\ resetting \in Resetting
          /\ Emptied(t, r) /\ GoesOn(th[t], r)
    BY <1>8, ResetsGoOn
  <2> QED
    BY <2>1, Alone
<1> QED
  <2>1. ASSUME UNCHANGED dfaVars
        PROVE  DfInv'
    BY <2>1 DEF dfaVars, DfInv, LocksInv, SearchInv
  <2> QED
    BY <2>1, <1>1, <1>2, <1>3, <1>4, <1>5, <1>6, <1>7, <1>8 DEF DfaNext, Step

THEOREM DfaInvariant == DfaSpec => []DfInv
<1>1. DfaInit => DfInv
  BY InitDfInv
<1>2. DfInv /\ [DfaNext]_dfaVars => DfInv'
  BY DfaStep
<1> QED
  BY <1>1, <1>2, PTL DEF DfaSpec

(* No search is left with a pointer to a state that a reset has freed, for   *)
(* any automaton, budget and threads.                                        *)
THEOREM NoDanglingStateAlways == DfaSpec => []NoDanglingState
<1>1. DfInv => NoDanglingState
  BY DEF DfInv, SearchInv, NoDanglingState
<1> QED
  BY <1>1, DfaInvariant, PTL

---------------------------------------------------------------------------
(* Numbers: what replaces induction below.                                   *)
LEMMA NatWF ==
  ASSUME NEW R, R = {ss \in Nat \X Nat : ss[1] < ss[2]}
  PROVE  IsWellFoundedOn(R, Nat)
BY NatLessThanWellFounded, Zenon DEF OpToRel

LEMMA LeastNat ==
  ASSUME NEW T \in SUBSET Nat, T # {}
  PROVE  \E x \in T : \A y \in T : x <= y
<1> PICK R : R = {ss \in Nat \X Nat : ss[1] < ss[2]}
  OBVIOUS
<1>1. IsWellFoundedOn(R, Nat)
  BY NatWF
<1>2. PICK x \in T : \A y \in T : ~(<<y, x>> \in R)
  BY <1>1, WFMin, Zenon
<1>3. \A y \in T : y < x => <<y, x>> \in R
  OBVIOUS
<1>4. ASSUME NEW y \in T
      PROVE  x <= y
  <2>1. ~(y < x)
    BY <1>2, <1>3
  <2> QED
    BY <2>1
<1> QED
  BY <1>4

---------------------------------------------------------------------------
(* The path of a text: where it starts and how it goes on.                   *)
ByteOf(x, i) == IF i <= Len(x) THEN x[i] ELSE LastByte[x]
AfterByte(x, s, i) == IF s \in Special THEN s ELSE Delta[s][ByteOf(x, i)]
IsPath(f, x, k, m) ==
  /\ f = [i \in 0..m |-> f[i]]
  /\ f[0] = StartOf[k]
  /\ \A i \in 1..m : f[i] = AfterByte(x, f[i - 1], i)

LEMMA PathsExist ==
  ASSUME NEW x \in Seq(Bytes), NEW k \in Kinds, NEW m \in Nat
  PROVE  \E f : IsPath(f, x, k, m)
<1> DEFINE Bad == {j \in Nat : ~\E f : IsPath(f, x, k, j)}
<1> SUFFICES ASSUME Bad # {}
             PROVE  FALSE
  OBVIOUS
<1>1. PICK j \in Bad : \A i \in Bad : j <= i
  <2>1. Bad \in SUBSET Nat
    OBVIOUS
  <2> HIDE DEF Bad
  <2> QED
    BY <2>1, LeastNat
<1>2. j # 0
  <2> DEFINE f == [i \in 0..0 |-> StartOf[k]]
  <2>1. IsPath(f, x, k, 0)
    BY DEF IsPath
  <2> QED
    BY <2>1
<1>3. j - 1 \in Nat /\ j - 1 \notin Bad
  BY <1>1, <1>2
<1>4. PICK f : IsPath(f, x, k, j - 1)
  BY <1>3
<1> DEFINE h == [i \in 0..j |-> IF i < j THEN f[i] ELSE AfterByte(x, f[j - 1], j)]
<1>5. h[0] = StartOf[k]
  BY <1>2, <1>4 DEF IsPath
<1>6. ASSUME NEW i \in 1..j
      PROVE  h[i] = AfterByte(x, h[i - 1], i)
  <2>1. h[i - 1] = f[i - 1]
    OBVIOUS
  <2>2. CASE i < j
    <3>1. i \in 1..(j - 1) /\ h[i] = f[i]
      BY <2>2, <1>3
    <3>2. f[i] = AfterByte(x, f[i - 1], i)
      BY <3>1, <1>4 DEF IsPath
    <3> QED
      BY <2>1, <3>1, <3>2
  <2>3. CASE i = j
    BY <2>1, <2>3
  <2> QED
    BY <2>2, <2>3
<1>7. IsPath(h, x, k, j)
  BY <1>5, <1>6 DEF IsPath
<1> QED
  BY <1>7

LEMMA PathIs ==
  ASSUME NEW x \in Seq(Bytes), NEW k \in Kinds
  PROVE  IsPath(Path(x, k), x, k, Len(x) + 1)
<1> DEFINE n == Len(x)
           Def(S) == [i \in 0..(n + 1) |->
                        IF i = 0 THEN StartOf[k]
                        ELSE IF S[i - 1] \in Special THEN S[i - 1]
                        ELSE Delta[S[i - 1]][IF i <= n THEN x[i] ELSE LastByte[x]]]
<1>1. n \in Nat
  OBVIOUS
<1>2. PICK f : IsPath(f, x, k, n + 1)
  BY <1>1, PathsExist
<1>3. f = Def(f)
  <2>1. /\ f = [i \in 0..(n + 1) |-> f[i]]
        /\ f[0] = StartOf[k]
        /\ \A i \in 1..(n + 1) : f[i] = AfterByte(x, f[i - 1], i)
    BY <1>2 DEF IsPath
  <2>2. ASSUME NEW i \in 0..(n + 1)
        PROVE  f[i] = Def(f)[i]
    <3>1. CASE i = 0
      BY <2>1, <3>1
    <3>2. CASE i # 0
      <4>1. i \in 1..(n + 1)
        BY <1>1, <3>2
      <4> QED
        BY <2>1, <3>2, <4>1 DEF AfterByte, ByteOf
    <3> QED
      BY <3>1, <3>2
  <2>3. Def(f) = [i \in 0..(n + 1) |-> Def(f)[i]]
    OBVIOUS
  <2> HIDE DEF Def
  <2> QED
    BY <2>1, <2>2, <2>3
<1> DEFINE P == Path(x, k)
<1>4. P = CHOOSE S : S = Def(S)
  BY DEF Path
<1>5. P = Def(P)
  BY <1>3, <1>4
<1>6. \A i \in 0..(n + 1) : P[i] = Def(P)[i]
  BY <1>5
<1> HIDE DEF P
<1>7. P[0] = StartOf[k]
  BY <1>1, <1>6
<1>8. ASSUME NEW i \in 1..(n + 1)
      PROVE  P[i] = AfterByte(x, P[i - 1], i)
  BY <1>1, <1>6 DEF AfterByte, ByteOf
<1>9. P = [i \in 0..(n + 1) |-> P[i]]
  BY <1>5
<1> QED
  BY <1>7, <1>8, <1>9 DEF IsPath, P

(* The special states are never left.                                        *)
LEMMA SpecialIsForEver ==
  ASSUME NEW x \in Seq(Bytes), NEW k \in Kinds, NEW i \in 0..(Len(x) + 1),
         Path(x, k)[i] \in Special
  PROVE  \A j \in i..(Len(x) + 1) : Path(x, k)[j] = Path(x, k)[i]
<1> DEFINE S == Path(x, k)
           n == Len(x)
           Bad == {j \in i..(n + 1) : S[j] # S[i]}
<1>1. n \in Nat
  OBVIOUS
<1>2. IsPath(S, x, k, n + 1)
  BY PathIs
<1> SUFFICES ASSUME Bad # {}
             PROVE  FALSE
  OBVIOUS
<1>3. PICK j \in Bad : \A l \in Bad : j <= l
  <2>1. Bad \in SUBSET Nat
    BY <1>1
  <2> HIDE DEF Bad
  <2> QED
    BY <2>1, LeastNat
<1> HIDE DEF S
<1>4. j \in 1..(n + 1) /\ j - 1 \in i..(n + 1)
  BY <1>1, <1>3
<1>5. S[j - 1] = S[i]
  BY <1>3, <1>4
<1>6. S[j] = AfterByte(x, S[j - 1], j)
  BY <1>2, <1>4 DEF IsPath
<1> QED
  BY <1>3, <1>5, <1>6 DEF AfterByte, S

---------------------------------------------------------------------------
(* What a search has seen when i bytes are behind it: the last match, or the *)
(* first, with which it would have returned.                                 *)
Seen(x, k, earliest, last, i) ==
  /\ last = -1 => \A j \in 1..i : Path(x, k)[j] \notin Matching
  /\ last # -1 => /\ last + 1 \in 1..i /\ last \in Nat
                  /\ Path(x, k)[last + 1] \in Matching
                  /\ \A j \in (last + 2)..i : Path(x, k)[j] \notin Matching
  /\ earliest => last = -1

Ends(x, k) ==
  {i - 1 : i \in {j \in 1..(Len(x) + 1) : Path(x, k)[j] \in Matching}}
  \cup (IF Path(x, k)[Len(x) + 1] = Full THEN {Len(x)} ELSE {})

LEMMA TheAnswer ==
  ASSUME NEW x \in Seq(Bytes), NEW k \in Kinds, NEW e \in BOOLEAN,
         Path(x, k)[0] # Full
  PROVE  /\ Ends(x, k) \in SUBSET (0..Len(x))
         /\ Ends(x, k) = {} => Answer(x, k, e) = -1
         /\ \A m \in Ends(x, k) :
              e /\ (\A j \in Ends(x, k) : m <= j) => Answer(x, k, e) = m
         /\ \A m \in Ends(x, k) :
              ~e /\ (\A j \in Ends(x, k) : m >= j) => Answer(x, k, e) = m
<1>1. Len(x) \in Nat
  OBVIOUS
<1>2. Ends(x, k) \in SUBSET (0..Len(x))
  BY <1>1 DEF Ends
<1>3. Answer(x, k, e) =
        IF Ends(x, k) = {} THEN -1
        ELSE IF e THEN CHOOSE i \in Ends(x, k) : \A j \in Ends(x, k) : i <= j
        ELSE CHOOSE i \in Ends(x, k) : \A j \in Ends(x, k) : i >= j
  BY DEF Answer, Ends
<1> DEFINE E == Ends(x, k)
<1>4. E \in SUBSET Int
  BY <1>1, <1>2
<1> HIDE DEF E
<1>5. ASSUME NEW m \in E, \A j \in E : m <= j
      PROVE  (CHOOSE i \in E : \A j \in E : i <= j) = m
  <2>1. PICK c \in E : /\ c = CHOOSE i \in E : \A j \in E : i <= j
                       /\ \A j \in E : c <= j
    BY <1>5
  <2>2. c <= m /\ m <= c
    BY <1>5, <2>1
  <2>3. c \in Int /\ m \in Int
    BY <1>4
  <2>4. c = m
    BY <2>2, <2>3
  <2> QED
    BY <2>1, <2>4
<1>6. ASSUME NEW m \in E, \A j \in E : m >= j
      PROVE  (CHOOSE i \in E : \A j \in E : i >= j) = m
  <2>1. PICK c \in E : /\ c = CHOOSE i \in E : \A j \in E : i >= j
                       /\ \A j \in E : c >= j
    BY <1>6
  <2>2. c >= m /\ m >= c
    BY <1>6, <2>1
  <2>3. c \in Int /\ m \in Int
    BY <1>4
  <2>4. c = m
    BY <2>2, <2>3
  <2> QED
    BY <2>1, <2>4
<1> QED
  BY <1>2, <1>3, <1>5, <1>6 DEF E

(* The search that meets the dead state, or a state that is no match at the  *)
(* end of the text, has seen it all.                                         *)
LEMMA NothingMore ==
  ASSUME NEW x \in Seq(Bytes), NEW k \in Kinds, NEW e \in BOOLEAN, NEW last,
         Path(x, k)[0] # Full, NEW i \in 1..(Len(x) + 1), Seen(x, k, e, last, i - 1),
         \A j \in i..(Len(x) + 1) : Path(x, k)[j] \notin Matching \cup {Full}
  PROVE  Answer(x, k, e) = last
<1> DEFINE S == Path(x, k)
           n == Len(x)
<1>1. n \in Nat
  OBVIOUS
<1>2. S[n + 1] # Full
  BY <1>1
<1>3. Ends(x, k) = {j - 1 : j \in {l \in 1..(n + 1) : S[l] \in Matching}}
  BY <1>2 DEF Ends
<1>4. CASE last = -1
  <2>1. \A j \in 1..(n + 1) : S[j] \notin Matching
    <3> SUFFICES ASSUME NEW j \in 1..(n + 1)
                 PROVE  S[j] \notin Matching
      OBVIOUS
    <3>1. CASE j <= i - 1
      BY <1>1, <1>4, <3>1 DEF Seen
    <3>2. CASE j >= i
      BY <1>1, <3>2
    <3> QED
      BY <1>1, <3>1, <3>2
  <2>2. Ends(x, k) = {}
    BY <1>3, <2>1
  <2> QED
    BY <1>4, <2>2, TheAnswer
<1>5. CASE last # -1
  <2>1. /\ last + 1 \in 1..(i - 1) /\ last \in Nat /\ S[last + 1] \in Matching /\ ~e
        /\ \A j \in (last + 2)..(i - 1) : S[j] \notin Matching
    BY <1>5 DEF Seen
  <2>2. last + 1 \in 1..(n + 1)
    BY <1>1, <2>1
  <2>3. last = (last + 1) - 1
    BY <2>1
  <2>4. last \in Ends(x, k)
    <3> HIDE DEF S
    <3> QED
      BY <1>3, <2>1, <2>2, <2>3
  <2>5. ASSUME NEW l \in 1..(n + 1), S[l] \in Matching
        PROVE  last >= l - 1
    <3>1. ~(l >= i)
      BY <1>1, <2>5
    <3>2. ~(l >= last + 2)
      BY <1>1, <2>1, <2>5, <3>1
    <3> QED
      BY <1>1, <2>1, <3>2
  <2>6. \A j \in Ends(x, k) : last >= j
    BY <1>3, <2>5
  <2> QED
    BY <2>1, <2>4, <2>6, TheAnswer
<1> QED
  BY <1>4, <1>5

LEMMA SpecialsDiffer ==
  /\ Dead # Full /\ Dead # Null /\ Full # Null
  /\ Dead \notin DStates /\ Full \notin DStates /\ Null \notin DStates
  /\ Dead \notin Matching /\ Full \notin Matching /\ Matching \subseteq DStates
<1>1. ASSUME Dead = Full \/ Dead = Null \/ Full = Null
      PROVE  FALSE
  <2>1. PICK a, b : {Dead, Full, Null} = {a} \cup {b}
    BY <1>1
  <2>2. IsFiniteSet({a}) /\ Cardinality({a}) = 1
    BY FS_Singleton
  <2>3. Cardinality({a} \cup {b}) <= 2
    BY <2>2, FS_AddElement
  <2>4. Cardinality({Dead, Full, Null}) = 3
    BY DfaAssumption
  <2> QED
    BY <2>1, <2>3, <2>4
<1> QED
  BY <1>1, DfaAssumption DEF Special

(* The dead state.                                                           *)
LEMMA DeadAnswers ==
  ASSUME NEW x \in Seq(Bytes), NEW k \in Kinds, NEW e \in BOOLEAN, NEW last,
         Path(x, k)[0] # Full, NEW i \in 1..(Len(x) + 1), Seen(x, k, e, last, i - 1),
         Path(x, k)[i] = Dead
  PROVE  Answer(x, k, e) = last
<1>1. Dead \notin Matching \cup {Full}
  BY SpecialsDiffer
<1>2. i \in 0..(Len(x) + 1)
  OBVIOUS
<1>3. \A j \in i..(Len(x) + 1) : Path(x, k)[j] = Dead
  BY <1>2, SpecialIsForEver DEF Special
<1> QED
  BY <1>1, <1>3, NothingMore

(* The full-match state: the rest of the text matches.                       *)
LEMMA FullAnswers ==
  ASSUME NEW x \in Seq(Bytes), NEW k \in Kinds, NEW e \in BOOLEAN, NEW last,
         Path(x, k)[0] # Full, NEW i \in 1..(Len(x) + 1), Seen(x, k, e, last, i - 1),
         Path(x, k)[i] = Full
  PROVE  Answer(x, k, e) = Len(x)
<1> DEFINE S == Path(x, k)
           n == Len(x)
<1>1. n \in Nat /\ i \in 0..(n + 1)
  OBVIOUS
<1>2. \A j \in i..(n + 1) : S[j] = Full
  BY <1>1, SpecialIsForEver DEF Special
<1>3. S[n + 1] = Full /\ n \in Ends(x, k)
  BY <1>1, <1>2 DEF Ends
<1>4. CASE ~e
  BY <1>1, <1>3, <1>4, TheAnswer
<1>5. CASE e
  <2>1. ASSUME NEW j \in 1..(n + 1)
        PROVE  S[j] \notin Matching
    <3>1. CASE j <= i - 1
      BY <1>1, <1>5, <2>1, <3>1 DEF Seen
    <3>2. CASE j >= i
      BY <1>1, <1>2, <2>1, <3>2, SpecialsDiffer
    <3> QED
      BY <1>1, <2>1, <3>1, <3>2
  <2>2. Ends(x, k) = {n}
    BY <1>3, <2>1 DEF Ends
  <2>3. n \in Ends(x, k) /\ \A j \in Ends(x, k) : n <= j
    BY <1>1, <2>2
  <2> QED
    BY <1>5, <2>3, TheAnswer
<1> QED
  BY <1>4, <1>5

(* The first match, for a search that wants it; and a match at the end.      *)
LEMMA MatchAnswers ==
  ASSUME NEW x \in Seq(Bytes), NEW k \in Kinds, NEW e \in BOOLEAN, NEW last,
         Path(x, k)[0] # Full, NEW i \in 1..(Len(x) + 1), Seen(x, k, e, last, i - 1),
         Path(x, k)[i] \in Matching, e \/ i = Len(x) + 1
  PROVE  Answer(x, k, e) = i - 1
<1> DEFINE S == Path(x, k)
           n == Len(x)
<1>1. n \in Nat
  OBVIOUS
<1>2. i - 1 \in Ends(x, k)
  BY DEF Ends
<1>3. CASE ~e
  BY <1>1, <1>2, <1>3, TheAnswer
<1>4. CASE e
  <2>1. ASSUME NEW j \in 1..(n + 1), S[j] \in Matching
        PROVE  i - 1 <= j - 1
    BY <1>1, <1>4, <2>1 DEF Seen
  <2>2. \A j \in Ends(x, k) : i - 1 <= j
    BY <1>1, <2>1 DEF Ends
  <2> QED
    BY <1>2, <1>4, <2>2, TheAnswer
<1> QED
  BY <1>3, <1>4

(* A start state that decides the search.                                    *)
LEMMA StartAnswers ==
  ASSUME NEW x \in Seq(Bytes), NEW k \in Kinds, NEW e \in BOOLEAN
  PROVE  /\ StartOf[k] = Dead => Answer(x, k, e) = -1
         /\ StartOf[k] = Full => Answer(x, k, e) = IF e THEN 0 ELSE Len(x)
<1>1. Path(x, k)[0] = StartOf[k]
  BY PathIs DEF IsPath
<1>2. CASE StartOf[k] = Dead
  <2>1. 0 \in 0..(Len(x) + 1) /\ 1 \in 1..(Len(x) + 1)
    OBVIOUS
  <2>2. Path(x, k)[1] = Dead
    BY <1>1, <1>2, <2>1, SpecialIsForEver DEF Special
  <2>3. Seen(x, k, e, -1, 1 - 1)
    BY DEF Seen
  <2>4. Answer(x, k, e) = -1
    BY <1>1, <1>2, <2>1, <2>2, <2>3, DeadAnswers, SpecialsDiffer
  <2> QED
    BY <1>2, <2>4, SpecialsDiffer
<1>3. CASE StartOf[k] = Full
  BY <1>1, <1>3, SpecialsDiffer DEF Answer
<1> QED
  BY <1>2, <1>3, SpecialsDiffer

---------------------------------------------------------------------------
(* The graph is part of the automaton, its arrows stay inside the cache, and *)
(* the budget is what the cache leaves, or was set to -1 when it ran out.    *)
Symbols == Bytes \cup {EndText}
GraphOK(g) ==
  /\ g = [cache |-> g.cache, budget |-> g.budget, next |-> g.next]
  /\ g.cache \subseteq DStates /\ IsFiniteSet(g.cache)
  /\ g.budget \in {-1, Capacity - Cardinality(g.cache)}
  /\ g.next \in [DStates -> [Symbols -> DStates \cup Special \cup {Null}]]
  /\ \A s \in DStates, c \in Symbols :
       g.next[s][c] # Null =>
         s \in g.cache /\ g.next[s][c] = Delta[s][c] /\ Has(g, g.next[s][c])

(* What start_ says, and that what it says firstbyte is leads out.           *)
LeadsOut(k, b) == StartOf[k] \in DStates /\ Delta[StartOf[k]][b] # StartOf[k]
InfoOK(g, i) ==
  /\ i = [k \in Kinds |-> [start |-> i[k].start, firstbyte |-> i[k].firstbyte]]
  /\ \A k \in Kinds :
       /\ i[k].start \in {Null, StartOf[k]}
       /\ i[k].firstbyte \in Bytes \cup {FbUnknown, FbMany, FbNone}
       /\ i[k].firstbyte # FbUnknown => i[k].start = StartOf[k] /\ Has(g, StartOf[k])
       /\ i[k].firstbyte \in Bytes => LeadsOut(k, i[k].firstbyte)

(* h is g with more in it.                                                   *)
Extends(g, h) == GraphOK(h) /\ g.cache \subseteq h.cache

LEMMA BudgetIsInt ==
  ASSUME NEW g, GraphOK(g)
  PROVE  g.budget \in Int /\ Cardinality(g.cache) \in Nat
<1>1. Cardinality(g.cache) \in Nat
  BY FS_CardinalityType DEF GraphOK
<1> QED
  BY <1>1, DfaAssumption DEF GraphOK

LEMMA DeltaType ==
  ASSUME NEW s \in DStates, NEW c \in Symbols
  PROVE  Delta[s][c] \in DStates \cup Special /\ Delta[s][c] # Null
BY DfaAssumption, SpecialsDiffer DEF Symbols, Special

LEMMA EmptyGraphOK ==
  GraphOK(EmptyGraph) /\ EmptyGraph.budget = Capacity /\ EmptyGraph.cache = {}
<1>1. EmptyGraph.budget = Capacity /\ EmptyGraph.cache = {}
  BY DEF EmptyGraph
<1>2. EmptyGraph.next = [s \in DStates |-> [c \in Symbols |-> Null]]
  BY DEF EmptyGraph, Symbols
<1>3. IsFiniteSet({}) /\ Cardinality({}) = 0
  BY FS_EmptySet
<1>4. EmptyGraph = [cache |-> EmptyGraph.cache, budget |-> EmptyGraph.budget,
                    next |-> EmptyGraph.next]
  BY DEF EmptyGraph
<1> QED
  BY <1>1, <1>2, <1>3, <1>4, DfaAssumption DEF GraphOK

LEMMA NoInfoOK ==
  ASSUME NEW g
  PROVE  InfoOK(g, NoInfo) /\ \A k \in Kinds : NoInfo[k].firstbyte = FbUnknown
<1>1. \A k \in Kinds : NoInfo[k].firstbyte = FbUnknown /\ NoInfo[k].start = Null
  BY DEF NoInfo
<1>2. NoInfo = [k \in Kinds |-> [start |-> NoInfo[k].start,
                                 firstbyte |-> NoInfo[k].firstbyte]]
  BY DEF NoInfo
<1> QED
  BY <1>1, <1>2, DfaAssumption DEF InfoOK, FbUnknown, Bytes

(* CachedState adds the state, if there is room for it.                      *)
LEMMA CachedStateAdds ==
  ASSUME NEW g, GraphOK(g), NEW s \in DStates
  PROVE  /\ Extends(g, CachedState(g, s))
         /\ CachedState(g, s).next = g.next
         /\ CachedState(g, s).cache \in {g.cache, g.cache \cup {s}}
         /\ g.budget >= 1 => /\ s \in CachedState(g, s).cache
                             /\ CachedState(g, s).budget >= g.budget - 1
<1> DEFINE h == CachedState(g, s)
<1>1. g.budget \in Int /\ Cardinality(g.cache) \in Nat
  BY BudgetIsInt
<1>2. CASE s \in g.cache
  <2>1. h = g
    BY <1>2 DEF CachedState
  <2> QED
    BY <1>1, <1>2, <2>1 DEF Extends
<1>3. CASE s \notin g.cache /\ g.budget < 1
  <2>1. h = [cache |-> g.cache, budget |-> -1, next |-> g.next]
    BY <1>3 DEF CachedState, GraphOK
  <2>2. h.cache = g.cache /\ h.budget = -1 /\ h.next = g.next
    BY <2>1
  <2>3. GraphOK(h)
    <3> HIDE DEF h
    <3> QED
      BY <2>1, <2>2 DEF GraphOK, Has
  <2> QED
    BY <1>1, <1>3, <2>2, <2>3 DEF Extends
<1>4. CASE s \notin g.cache /\ g.budget >= 1
  <2>0. h = [g EXCEPT !.budget = @ - 1, !.cache = @ \cup {s}]
    BY <1>1, <1>4 DEF CachedState
  <2>1. h = [cache |-> g.cache \cup {s}, budget |-> g.budget - 1, next |-> g.next]
    <3> HIDE DEF h
    <3> QED
      BY <2>0 DEF GraphOK
  <2>2. h.cache = g.cache \cup {s} /\ h.budget = g.budget - 1 /\ h.next = g.next
    BY <2>1
  <2>3. IsFiniteSet(h.cache) /\ Cardinality(h.cache) = Cardinality(g.cache) + 1
    <3>1. IsFiniteSet(g.cache)
      BY DEF GraphOK
    <3>2. /\ IsFiniteSet(g.cache \cup {s})
          /\ Cardinality(g.cache \cup {s}) = Cardinality(g.cache) + 1
      BY <1>4, <3>1, FS_AddElement
    <3> HIDE DEF h
    <3> QED
      BY <2>2, <3>2
  <2>4. h.budget = Capacity - Cardinality(h.cache)
    BY <1>1, <1>4, <2>2, <2>3, DfaAssumption DEF GraphOK
  <2>5. GraphOK(h)
    <3> HIDE DEF h
    <3> QED
      BY <2>1, <2>2, <2>3, <2>4 DEF GraphOK, Has
  <2> QED
    BY <1>1, <1>4, <2>2, <2>5 DEF Extends
<1> QED
  BY <1>1, <1>2, <1>3, <1>4

(* RunStateOnByte leaves either the arrow or no memory.                      *)
LEMMA RunStateAdds ==
  ASSUME NEW g, GraphOK(g), NEW s \in g.cache, NEW c \in Symbols
  PROVE  /\ Extends(g, RunStateOnByte(g, s, c))
         /\ RunStateOnByte(g, s, c).next[s][c] \in {Null, Delta[s][c]}
         /\ g.budget >= 1 => RunStateOnByte(g, s, c).next[s][c] = Delta[s][c]
<1> DEFINE ns == Delta[s][c]
           h == IF ns \in Special THEN g ELSE CachedState(g, ns)
           r == RunStateOnByte(g, s, c)
<1>1. s \in DStates /\ ns \in DStates \cup Special
  BY DeltaType DEF GraphOK
<1>2. /\ GraphOK(h) /\ g.cache \subseteq h.cache /\ h.next = g.next
      /\ g.budget >= 1 => Has(h, ns)
  <2>1. CASE ns \in Special
    BY <2>1 DEF Has
  <2>2. CASE ns \notin Special
    BY <1>1, <2>2, CachedStateAdds DEF Has, Extends
  <2> QED
    BY <2>1, <2>2
<1>3. r = IF g.next[s][c] # Null THEN g
          ELSE IF Has(h, ns) THEN [h EXCEPT !.next[s][c] = ns] ELSE h
  BY DEF RunStateOnByte
<1>4. g.next[s][c] \in {Null, ns}
  BY <1>1 DEF GraphOK
<1> HIDE DEF h, ns, r
<1>5. CASE g.next[s][c] # Null
  BY <1>3, <1>4, <1>5 DEF Extends, r, ns
<1>6. CASE g.next[s][c] = Null /\ ~Has(h, ns)
  BY <1>2, <1>3, <1>6 DEF Extends, r, ns
<1>7. CASE g.next[s][c] = Null /\ Has(h, ns)
  <2>1. /\ h.next \in [DStates -> [Symbols -> DStates \cup Special \cup {Null}]]
        /\ h = [cache |-> h.cache, budget |-> h.budget, next |-> h.next]
    BY <1>2 DEF GraphOK
  <2>2. r = [h EXCEPT !.next[s][c] = ns]
    BY <1>3, <1>7
  <2>3. r = [cache |-> h.cache, budget |-> h.budget,
             next |-> [h.next EXCEPT ![s][c] = ns]]
    BY <2>1, <2>2
  <2>4. /\ r.cache = h.cache /\ r.budget = h.budget
        /\ r.next = [h.next EXCEPT ![s][c] = ns]
    BY <2>3
  <2>5. \A q \in DStates, d \in Symbols :
          r.next[q][d] = IF q = s /\ d = c THEN ns ELSE h.next[q][d]
    BY <1>1, <2>1, <2>4
  <2>6. r.next \in [DStates -> [Symbols -> DStates \cup Special \cup {Null}]]
    BY <1>1, <2>1, <2>4
  <2>7. GraphOK(r)
    <3>1. \A q \in DStates, d \in Symbols :
            r.next[q][d] # Null =>
              q \in r.cache /\ r.next[q][d] = Delta[q][d] /\ Has(r, r.next[q][d])
      BY <1>2, <1>7, <2>4, <2>5 DEF GraphOK, Has, ns
    <3> QED
      BY <1>2, <2>3, <2>4, <2>6, <3>1 DEF GraphOK
  <2>8. r.next[s][c] = ns
    BY <1>1, <2>5
  <2> QED
    BY <1>2, <2>4, <2>7, <2>8 DEF Extends, r, ns
<1> QED
  BY <1>2, <1>5, <1>6, <1>7 DEF r, ns

---------------------------------------------------------------------------
(* AnalyzeSearchHelper's loop, in parts: the states that the first i bytes   *)
(* add, the bytes among them that lead out, and the bytes it runs.           *)
Leaving(s, i) == {j \in 1..i : Delta[s][j] # s}
Added(g, s, i) == {Delta[s][j] : j \in 1..i} \ (g.cache \cup Special)
OutAt(g, s, i) == Delta[s][i] \in Added(g, s, i) /\ Cardinality(Added(g, s, i)) > g.budget
TwoAt(s, i) == Cardinality(Leaving(s, i)) = 2
Ran(g, s) == {i \in Bytes : /\ \A j \in 1..i : ~OutAt(g, s, j)
                            /\ \A j \in 1..(i - 1) : ~TwoAt(s, j)}
RanOut(g, s) == {i \in Ran(g, s) : Delta[s][i] # s}
NewOnes(g, s) == {Delta[s][i] : i \in Ran(g, s)} \ (g.cache \cup Special)

LEMMA LoopIs ==
  ASSUME NEW g, NEW s
  PROVE  LET L == FirstByteLoop(g, s)
         IN /\ L.ok <=> (Ran(g, s) = Bytes \/ \E i \in Ran(g, s) : TwoAt(s, i))
            /\ L.g.cache = g.cache \cup NewOnes(g, s)
            /\ L.g.budget = IF L.ok THEN g.budget - Cardinality(NewOnes(g, s)) ELSE -1
            /\ L.g.next = [g.next EXCEPT ![s] =
                             [c \in DOMAIN @ |->
                                IF c \in Ran(g, s) THEN Delta[s][c] ELSE @[c]]]
            /\ L.g = [cache |-> L.g.cache, budget |-> L.g.budget, next |-> L.g.next]
            /\ L.fb = IF RanOut(g, s) = {} THEN FbNone
                      ELSE IF Cardinality(RanOut(g, s)) = 1
                      THEN CHOOSE i \in RanOut(g, s) : TRUE ELSE FbMany
            /\ L.ok \in BOOLEAN
BY DEF FirstByteLoop, Leaving, Added, OutAt, TwoAt, Ran, RanOut, NewOnes

(* How many states a set of bytes leads to.                                  *)
LEMMA ImageIsFinite ==
  ASSUME NEW s, NEW B, IsFiniteSet(B)
  PROVE  IsFiniteSet({Delta[s][i] : i \in B})
<1> DEFINE T == {Delta[s][i] : i \in B}
           f == [i \in B |-> Delta[s][i]]
<1>1. f \in Surjection(B, T)
  BY DEF Surjection
<1> QED
  BY <1>1, FS_Surjection

LEMMA RanIsFinite ==
  ASSUME NEW g, NEW s, GraphOK(g)
  PROVE  /\ IsFiniteSet(Bytes) /\ IsFiniteSet(Ran(g, s)) /\ IsFiniteSet(RanOut(g, s))
         /\ IsFiniteSet(NewOnes(g, s)) /\ Cardinality(NewOnes(g, s)) \in Nat
         /\ NewOnes(g, s) \cap g.cache = {}
         /\ \A i \in Bytes : /\ IsFiniteSet(Leaving(s, i))
                             /\ IsFiniteSet(Added(g, s, i))
                             /\ Cardinality(Added(g, s, i)) \in Nat
<1>1. \A i \in Nat : IsFiniteSet(1..i)
  BY FS_Interval
<1>2. IsFiniteSet(Bytes)
  BY <1>1, DfaAssumption DEF Bytes
<1>3. IsFiniteSet(Ran(g, s))
  BY <1>2, FS_Subset DEF Ran
<1>4. IsFiniteSet(RanOut(g, s))
  BY <1>3, FS_Subset DEF RanOut
<1>5. IsFiniteSet(NewOnes(g, s))
  BY <1>3, ImageIsFinite, FS_Difference DEF NewOnes
<1>6. ASSUME NEW i \in Bytes
      PROVE  IsFiniteSet(Leaving(s, i)) /\ IsFiniteSet(Added(g, s, i))
  <2>1. IsFiniteSet(1..i)
    BY <1>1 DEF Bytes
  <2>2. IsFiniteSet(Leaving(s, i))
    BY <2>1, FS_Subset DEF Leaving
  <2>3. IsFiniteSet(Added(g, s, i))
    BY <2>1, ImageIsFinite, FS_Difference DEF Added
  <2> QED
    BY <2>2, <2>3
<1> QED
  BY <1>2, <1>3, <1>4, <1>5, <1>6, FS_CardinalityType DEF NewOnes

(* The bytes it runs are the first ones.                                     *)
LEMMA RanFirst ==
  ASSUME NEW g, NEW s, NEW i \in Ran(g, s), NEW j \in 1..i
  PROVE  j \in Ran(g, s)
<1>1. i \in Bytes /\ i \in Nat /\ j \in Bytes
  BY DfaAssumption DEF Ran, Bytes
<1>2. \A l \in 1..j : l \in 1..i
  BY <1>1
<1>3. \A l \in 1..(j - 1) : l \in 1..(i - 1)
  BY <1>1
<1> QED
  BY <1>1, <1>2, <1>3 DEF Ran

(* It does not finish only because a byte finds no memory while fewer than   *)
(* two lead out.                                                             *)
LEMMA NotOkBecause ==
  ASSUME NEW g, NEW s, ~FirstByteLoop(g, s).ok
  PROVE  \E b \in Bytes : OutAt(g, s, b) /\ \A j \in 1..(b - 1) : ~TwoAt(s, j)
<1>1. Ran(g, s) # Bytes /\ \A i \in Ran(g, s) : ~TwoAt(s, i)
  BY LoopIs
<1> DEFINE Left == Bytes \ Ran(g, s)
<1>2. Left # {}
  BY <1>1 DEF Ran
<1>3. PICK b \in Left : \A i \in Left : b <= i
  <2>1. Left \in SUBSET Nat
    BY DEF Bytes
  <2> HIDE DEF Left
  <2> QED
    BY <1>2, <2>1, LeastNat
<1>4. b \in Bytes /\ b \in Nat /\ b \in 1..b
  BY <1>3 DEF Bytes
<1>5. \A j \in 1..(b - 1) : j \in Ran(g, s)
  <2>1. \A j \in 1..(b - 1) : j \in Bytes /\ ~(b <= j)
    BY <1>4, DfaAssumption DEF Bytes
  <2> QED
    BY <1>3, <2>1
<1>6. \A j \in 1..(b - 1) : ~TwoAt(s, j)
  BY <1>1, <1>5
<1>7. PICK j \in 1..b : OutAt(g, s, j)
  BY <1>3, <1>4, <1>6 DEF Ran
<1>8. j = b
  <2>1. CASE j \in 1..(b - 1)
    <3>1. j \in Ran(g, s) /\ j \in 1..j
      BY <1>5, <2>1
    <3> QED
      BY <1>7, <3>1 DEF Ran
  <2> QED
    BY <1>4, <1>7, <2>1
<1> QED
  BY <1>4, <1>6, <1>7, <1>8

LEMMA TwoStatesSuffice ==
  ASSUME NEW g, NEW s \in g.cache, GraphOK(g), g.budget >= 2
  PROVE  FirstByteLoop(g, s).ok
<1> SUFFICES ASSUME ~FirstByteLoop(g, s).ok
             PROVE  FALSE
  BY LoopIs
<1>1. PICK b \in Bytes : OutAt(g, s, b) /\ \A j \in 1..(b - 1) : ~TwoAt(s, j)
  BY NotOkBecause
<1>2. b \in Nat
  BY DEF Bytes
<1> DEFINE A == Added(g, s, b)
           B == Leaving(s, b)
<1>3. IsFiniteSet(A) /\ Cardinality(A) \in Nat /\ Cardinality(A) > 2
  BY <1>1, RanIsFinite, BudgetIsInt DEF OutAt
<1>4. \A a \in A : \E j \in B : a = Delta[s][j]
  BY DEF Added, Leaving
<1>5. B \subseteq 1..b
  BY DEF Leaving
<1>6. ASSUME NEW a, NEW c, A \subseteq {a} \cup {c}
      PROVE  FALSE
  <2>1. IsFiniteSet({a}) /\ Cardinality({a}) = 1
    BY FS_Singleton
  <2>2. IsFiniteSet({a} \cup {c}) /\ Cardinality({a} \cup {c}) \in {1, 2}
    BY <2>1, FS_AddElement
  <2>3. Cardinality(A) <= Cardinality({a} \cup {c})
    BY <1>6, <2>2, FS_Subset
  <2> QED
    BY <1>3, <2>2, <2>3
<1>7. PICK j1 \in B : \A j \in B : j1 <= j
  <2>1. B # {}
    BY <1>4, <1>6
  <2>2. B \in SUBSET Nat
    BY <1>2, <1>5
  <2> HIDE DEF B
  <2> QED
    BY <2>1, <2>2, LeastNat
<1>8. PICK j2 \in B \ {j1} : \A j \in B \ {j1} : j2 <= j
  <2>1. B \ {j1} # {}
    <3>1. ASSUME B \subseteq {j1}
          PROVE  FALSE
      <4>1. A \subseteq {Delta[s][j1]} \cup {Delta[s][j1]}
        BY <1>4, <3>1
      <4> QED
        BY <1>6, <4>1
    <3> QED
      BY <3>1
  <2>2. B \ {j1} \in SUBSET Nat
    BY <1>2, <1>5
  <2> HIDE DEF B
  <2> QED
    BY <2>1, <2>2, LeastNat
<1>9. PICK j3 \in B : j3 # j1 /\ j3 # j2
  <2>1. ASSUME B \subseteq {j1, j2}
        PROVE  FALSE
    <3>1. A \subseteq {Delta[s][j1]} \cup {Delta[s][j2]}
      BY <1>4, <2>1
    <3> QED
      BY <1>6, <3>1
  <2> QED
    BY <2>1
<1>10. /\ j1 \in 1..b /\ j2 \in 1..b /\ j3 \in 1..b
       /\ j1 < j2 /\ j2 < j3
  <2>1. j1 \in 1..b /\ j2 \in 1..b /\ j3 \in 1..b /\ j1 # j2
    BY <1>5, <1>7, <1>8, <1>9
  <2>2. j1 <= j2 /\ j2 <= j3
    BY <1>7, <1>8, <1>9
  <2> QED
    BY <1>2, <1>9, <2>1, <2>2
<1>11. Leaving(s, j2) = {j1} \cup {j2}
  <2>1. Leaving(s, j2) = {j \in B : j <= j2}
    BY <1>2, <1>10 DEF Leaving
  <2> HIDE DEF B
  <2>2. \A j \in B : j <= j2 => j \in {j1, j2}
    BY <1>2, <1>5, <1>8, <1>10
  <2> QED
    BY <1>7, <1>8, <1>10, <2>1, <2>2
<1>12. Cardinality({j1} \cup {j2}) = 2
  <2>1. IsFiniteSet({j1}) /\ Cardinality({j1}) = 1
    BY FS_Singleton
  <2>2. j2 \notin {j1}
    BY <1>10
  <2>3. Cardinality({j1} \cup {j2}) = Cardinality({j1}) + 1
    BY <2>1, <2>2, FS_AddElement
  <2> QED
    BY <2>1, <2>3
<1>13. TwoAt(s, j2)
  BY <1>11, <1>12 DEF TwoAt
<1>14. j2 \in 1..(b - 1)
  BY <1>2, <1>10
<1> QED
  BY <1>1, <1>13, <1>14

(* What the loop makes of the graph, and what it finds.                      *)
LEMMA LoopAdds ==
  ASSUME NEW g, NEW s \in g.cache, GraphOK(g)
  PROVE  Extends(g, FirstByteLoop(g, s).g)
<1> DEFINE L == FirstByteLoop(g, s)
           h == L.g
           N == NewOnes(g, s)
<1>1. s \in DStates /\ g.cache \subseteq DStates /\ IsFiniteSet(g.cache)
  BY DEF GraphOK
<1>2. /\ IsFiniteSet(N) /\ Cardinality(N) \in Nat /\ N \cap g.cache = {}
  BY RanIsFinite
<1>3. g.budget \in Int /\ Cardinality(g.cache) \in Nat
  BY BudgetIsInt
<1>4. /\ h.cache = g.cache \cup N
      /\ h.budget = IF L.ok THEN g.budget - Cardinality(N) ELSE -1
      /\ h.next = [g.next EXCEPT ![s] =
                     [c \in DOMAIN @ |-> IF c \in Ran(g, s) THEN Delta[s][c] ELSE @[c]]]
      /\ h = [cache |-> h.cache, budget |-> h.budget, next |-> h.next]
  BY LoopIs
<1>5. Ran(g, s) \subseteq Bytes /\ Bytes \subseteq Symbols
  BY DEF Ran, Symbols
<1>6. N \subseteq DStates
  BY <1>1, <1>5, DeltaType DEF NewOnes
<1>7. /\ IsFiniteSet(g.cache \cup N)
      /\ Cardinality(g.cache \cup N) = Cardinality(g.cache) + Cardinality(N)
  <2>1. /\ IsFiniteSet(g.cache \cup N)
        /\ Cardinality(g.cache \cup N) =
             Cardinality(g.cache) + Cardinality(N) - Cardinality(g.cache \cap N)
    BY <1>1, <1>2, FS_Union
  <2>2. Cardinality(g.cache \cap N) = 0
    BY <1>2, FS_EmptySet
  <2> QED
    BY <1>2, <1>3, <2>1, <2>2
<1>8. ASSUME g.budget = -1
      PROVE  N = {}
  <2>1. ASSUME NEW i \in Ran(g, s), Delta[s][i] \in N
        PROVE  FALSE
    <3>1. i \in Bytes /\ i \in 1..i /\ ~OutAt(g, s, i)
      BY <2>1, DfaAssumption DEF Ran, Bytes
    <3>2. Delta[s][i] \in Added(g, s, i)
      BY <2>1, <3>1 DEF NewOnes, Added
    <3>3. Cardinality(Added(g, s, i)) \in Nat
      BY <3>1, RanIsFinite
    <3> QED
      BY <1>8, <3>1, <3>2, <3>3 DEF OutAt
  <2> QED
    BY <2>1 DEF NewOnes
<1>9. h.budget \in {-1, Capacity - Cardinality(h.cache)}
  <2>1. CASE g.budget = -1
    <3>1. Cardinality(N) = 0
      BY <1>8, <2>1, FS_EmptySet
    <3> HIDE DEF L, N
    <3> QED
      BY <1>4, <2>1, <3>1
  <2>2. CASE g.budget = Capacity - Cardinality(g.cache)
    <3> HIDE DEF L, N
    <3> QED
      BY <1>2, <1>3, <1>4, <1>7, <2>2, DfaAssumption
  <2> QED
    BY <2>1, <2>2 DEF GraphOK
<1>10. g.next \in [DStates -> [Symbols -> DStates \cup Special \cup {Null}]]
  BY DEF GraphOK
<1>11. \A q \in DStates, c \in Symbols :
         h.next[q][c] = IF q = s /\ c \in Ran(g, s) THEN Delta[s][c] ELSE g.next[q][c]
  <2> HIDE DEF h
  <2> QED
    BY <1>1, <1>4, <1>10
<1>12. h.next \in [DStates -> [Symbols -> DStates \cup Special \cup {Null}]]
  <2> DEFINE row == [c \in Symbols |->
                       IF c \in Ran(g, s) THEN Delta[s][c] ELSE g.next[s][c]]
  <2>1. row \in [Symbols -> DStates \cup Special \cup {Null}]
    BY <1>1, <1>10, DeltaType
  <2>2. h.next = [g.next EXCEPT ![s] = row]
    <3> HIDE DEF h
    <3> QED
      BY <1>1, <1>4, <1>10
  <2> HIDE DEF h, row
  <2> QED
    BY <1>1, <1>10, <2>1, <2>2
<1>13. ASSUME NEW q \in DStates, NEW c \in Symbols, h.next[q][c] # Null
       PROVE  q \in h.cache /\ h.next[q][c] = Delta[q][c] /\ Has(h, h.next[q][c])
  <2>1. CASE q = s /\ c \in Ran(g, s)
    <3>1. Delta[s][c] \in g.cache \cup N \cup Special
      BY <2>1 DEF NewOnes
    <3> HIDE DEF h, N
    <3> QED
      BY <1>4, <1>11, <2>1, <3>1 DEF Has
  <2>2. CASE ~(q = s /\ c \in Ran(g, s))
    <3> HIDE DEF h, N
    <3> QED
      BY <1>4, <1>11, <1>13, <2>2 DEF GraphOK, Has
  <2> QED
    BY <2>1, <2>2
<1>14. GraphOK(h)
  <2> HIDE DEF h, N
  <2> QED
    BY <1>1, <1>4, <1>6, <1>7, <1>9, <1>12, <1>13 DEF GraphOK
<1> QED
  BY <1>4, <1>14 DEF Extends

LEMMA LoopFinds ==
  ASSUME NEW g, NEW s, GraphOK(g)
  PROVE  LET L == FirstByteLoop(g, s)
         IN /\ L.fb \in Bytes \cup {FbMany, FbNone}
            /\ L.fb \in Bytes => Delta[s][L.fb] # s
            /\ L.ok /\ L.fb \in Bytes => \A b \in Bytes \ {L.fb} : Delta[s][b] = s
<1> DEFINE L == FirstByteLoop(g, s)
           out == RanOut(g, s)
<1>1. /\ L.ok <=> (Ran(g, s) = Bytes \/ \E i \in Ran(g, s) : TwoAt(s, i))
      /\ L.fb = IF out = {} THEN FbNone
                ELSE IF Cardinality(out) = 1 THEN CHOOSE i \in out : TRUE ELSE FbMany
  BY LoopIs
<1>2. out \subseteq Bytes /\ IsFiniteSet(out)
  BY RanIsFinite DEF RanOut, Ran
<1>3. L.fb \in out \cup {FbMany, FbNone}
  BY <1>1
<1>4. \A i \in Bytes : i # FbMany /\ i # FbNone
  BY DEF Bytes, FbMany, FbNone
<1>5. L.fb \in Bytes => Delta[s][L.fb] # s
  BY <1>3, <1>4 DEF RanOut
<1>6. ASSUME L.ok, L.fb \in Bytes, NEW b \in Bytes \ {L.fb}
      PROVE  Delta[s][b] = s
  <2>1. Cardinality(out) = 1 /\ L.fb \in out
    BY <1>1, <1>2, <1>3, <1>4, <1>6
  <2>2. out = {L.fb}
    BY <1>2, <2>1, FS_Singleton
  <2>3. \A i \in Ran(g, s) : ~TwoAt(s, i)
    <3>1. ASSUME NEW i \in Ran(g, s), TwoAt(s, i)
          PROVE  FALSE
      <4>1. Leaving(s, i) \subseteq out
        BY RanFirst DEF Leaving, RanOut
      <4>2. Cardinality(Leaving(s, i)) <= Cardinality(out)
        BY <1>2, <4>1, FS_Subset
      <4> QED
        BY <2>1, <3>1, <4>2 DEF TwoAt
    <3> QED
      BY <3>1
  <2>4. Ran(g, s) = Bytes
    BY <1>1, <1>6, <2>3
  <2> QED
    BY <1>6, <2>2, <2>4 DEF RanOut
<1> QED
  BY <1>2, <1>3, <1>5, <1>6

(* Without a bound on memory it finishes.                                    *)
EnoughMemory == IsFiniteSet(DStates) /\ Cardinality(DStates) <= Capacity

LEMMA EnoughSuffices ==
  ASSUME NEW g, NEW s \in g.cache, GraphOK(g), EnoughMemory, g.budget # -1
  PROVE  FirstByteLoop(g, s).ok /\ FirstByteLoop(g, s).g.budget >= 0
<1>1. /\ s \in DStates /\ g.cache \subseteq DStates /\ IsFiniteSet(g.cache)
      /\ g.budget = Capacity - Cardinality(g.cache)
  BY DEF GraphOK
<1>2. /\ Cardinality(g.cache) \in Nat /\ Cardinality(DStates) \in Nat
      /\ Cardinality(DStates) <= Capacity /\ Capacity \in Nat
  BY BudgetIsInt, FS_CardinalityType, DfaAssumption DEF EnoughMemory
<1>3. ASSUME NEW A, IsFiniteSet(A), A \subseteq DStates, A \cap g.cache = {}
      PROVE  Cardinality(A) \in Nat /\ Cardinality(A) <= g.budget
  <2>1. Cardinality(g.cache \cup A) =
          Cardinality(g.cache) + Cardinality(A) - Cardinality(g.cache \cap A)
    BY <1>1, <1>3, FS_Union
  <2>2. Cardinality(g.cache \cap A) = 0 /\ Cardinality(A) \in Nat
    BY <1>3, FS_EmptySet, FS_CardinalityType
  <2>3. Cardinality(g.cache \cup A) <= Cardinality(DStates)
    BY <1>1, <1>3, FS_Subset DEF EnoughMemory
  <2>4. Cardinality(g.cache \cup A) = Cardinality(g.cache) + Cardinality(A)
    BY <1>2, <2>1, <2>2
  <2> QED
    BY <1>1, <1>2, <2>2, <2>3, <2>4
<1>4. FirstByteLoop(g, s).ok
  <2>1. ASSUME ~FirstByteLoop(g, s).ok
        PROVE  FALSE
    <3>1. PICK b \in Bytes : OutAt(g, s, b)
      BY <2>1, NotOkBecause
    <3>2. 1..b \subseteq Symbols
      BY DfaAssumption DEF Bytes, Symbols
    <3>3. Added(g, s, b) \subseteq DStates /\ Added(g, s, b) \cap g.cache = {}
      BY <1>1, <3>2, DeltaType DEF Added
    <3>4. IsFiniteSet(Added(g, s, b))
      BY RanIsFinite
    <3>5. /\ Cardinality(Added(g, s, b)) \in Nat
          /\ Cardinality(Added(g, s, b)) <= g.budget
      BY <1>3, <3>3, <3>4
    <3> QED
      BY <1>1, <1>2, <3>1, <3>5 DEF OutAt
  <2> QED
    BY <2>1
<1>5. /\ Cardinality(NewOnes(g, s)) \in Nat
      /\ Cardinality(NewOnes(g, s)) <= g.budget
  <2>1. Ran(g, s) \subseteq Symbols
    BY DEF Ran, Symbols
  <2>2. NewOnes(g, s) \subseteq DStates
    BY <1>1, <2>1, DeltaType DEF NewOnes
  <2> QED
    BY <1>3, <2>2, RanIsFinite
<1>6. FirstByteLoop(g, s).g.budget = g.budget - Cardinality(NewOnes(g, s))
  BY <1>4, LoopIs
<1> QED
  BY <1>1, <1>2, <1>4, <1>5, <1>6

(* What start_ says of a byte is right when no other byte leads out.         *)
OnlyWayOut(k, b) == b \in Bytes => \A c \in Bytes \ {b} : ~LeadsOut(k, c)
InfoRight(i) == \A k \in Kinds : OnlyWayOut(k, i[k].firstbyte)

AnalysisCases(g, i, k) ==
  LET start == StartOf[k]
      h == IF start \in Special THEN g ELSE CachedState(g, start)
      a == Analysis(g, i, k)
  IN \/ i[k].firstbyte # FbUnknown /\ a = [g |-> g, info |-> i, ok |-> TRUE]
     \/ /\ i[k].firstbyte = FbUnknown /\ ~Has(h, start)
        /\ a = [g |-> h, info |-> [i EXCEPT ![k].start = Null], ok |-> FALSE]
     \/ /\ i[k].firstbyte = FbUnknown /\ start \in Special
        /\ a = [g |-> h, ok |-> TRUE,
                info |-> [i EXCEPT ![k] = [start |-> start, firstbyte |-> FbNone]]]
     \/ /\ i[k].firstbyte = FbUnknown /\ start \notin Special /\ start \in h.cache
        /\ a = [g |-> FirstByteLoop(h, start).g, ok |-> FirstByteLoop(h, start).ok,
                info |-> [i EXCEPT ![k] = [start |-> start,
                                           firstbyte |-> FirstByteLoop(h, start).fb]]]

LEMMA AnalysisHasCases ==
  ASSUME NEW g, NEW i, NEW k
  PROVE  AnalysisCases(g, i, k)
<1> DEFINE start == StartOf[k]
           h == IF start \in Special THEN g ELSE CachedState(g, start)
           loop == FirstByteLoop(h, start)
           a == Analysis(g, i, k)
<1>1. a = IF i[k].firstbyte # FbUnknown THEN [g |-> g, info |-> i, ok |-> TRUE]
          ELSE IF ~Has(h, start)
          THEN [g |-> h, info |-> [i EXCEPT ![k].start = Null], ok |-> FALSE]
          ELSE IF start \in Special
          THEN [g |-> h, ok |-> TRUE,
                info |-> [i EXCEPT ![k] = [start |-> start, firstbyte |-> FbNone]]]
          ELSE [g |-> loop.g, ok |-> loop.ok,
                info |-> [i EXCEPT ![k] = [start |-> start, firstbyte |-> loop.fb]]]
  BY DEF Analysis
<1>2. Has(h, start) /\ start \notin Special => start \in h.cache
  BY DEF Has
<1> HIDE DEF start, h, loop, a
<1>3. \/ i[k].firstbyte # FbUnknown /\ a = [g |-> g, info |-> i, ok |-> TRUE]
      \/ /\ i[k].firstbyte = FbUnknown /\ ~Has(h, start)
         /\ a = [g |-> h, info |-> [i EXCEPT ![k].start = Null], ok |-> FALSE]
      \/ /\ i[k].firstbyte = FbUnknown /\ start \in Special
         /\ a = [g |-> h, ok |-> TRUE,
                 info |-> [i EXCEPT ![k] = [start |-> start, firstbyte |-> FbNone]]]
      \/ /\ i[k].firstbyte = FbUnknown /\ start \notin Special /\ start \in h.cache
         /\ a = [g |-> loop.g, ok |-> loop.ok,
                 info |-> [i EXCEPT ![k] = [start |-> start, firstbyte |-> loop.fb]]]
  BY <1>1, <1>2
<1> QED
  BY <1>3 DEF AnalysisCases, start, h, loop, a

(* One entry of start_ is written, and it is right.                          *)
LEMMA InfoWritten ==
  ASSUME NEW g, NEW h, NEW i, InfoOK(g, i), Extends(g, h), NEW k \in Kinds, NEW s, NEW f,
         s \in {Null, StartOf[k]}, f \in Bytes \cup {FbUnknown, FbMany, FbNone},
         f # FbUnknown => s = StartOf[k] /\ Has(h, StartOf[k]),
         f \in Bytes => LeadsOut(k, f)
  PROVE  LET j == [i EXCEPT ![k] = [start |-> s, firstbyte |-> f]]
         IN /\ InfoOK(h, j) /\ j[k].firstbyte = f
            /\ \A l \in Kinds \ {k} : j[l] = i[l]
<1> DEFINE j == [i EXCEPT ![k] = [start |-> s, firstbyte |-> f]]
<1>1. /\ j[k] = [start |-> s, firstbyte |-> f]
      /\ \A l \in Kinds \ {k} : j[l] = i[l]
      /\ j = [l \in Kinds |-> j[l]]
  BY DEF InfoOK
<1>2. \A l \in Kinds : i[l] = [start |-> i[l].start, firstbyte |-> i[l].firstbyte]
  BY DEF InfoOK
<1> HIDE DEF j
<1>3. j[k].start = s /\ j[k].firstbyte = f
  BY <1>1
<1>4. \A l \in Kinds : j[l] = [start |-> j[l].start, firstbyte |-> j[l].firstbyte]
  BY <1>1, <1>2, <1>3
<1>5. ASSUME NEW l \in Kinds
      PROVE  /\ j[l].start \in {Null, StartOf[l]}
             /\ j[l].firstbyte \in Bytes \cup {FbUnknown, FbMany, FbNone}
             /\ j[l].firstbyte # FbUnknown => j[l].start = StartOf[l] /\ Has(h, StartOf[l])
             /\ j[l].firstbyte \in Bytes => LeadsOut(l, j[l].firstbyte)
  <2>1. CASE l = k
    BY <1>3, <2>1
  <2>2. CASE l # k
    BY <1>1, <2>2 DEF InfoOK, Extends, Has
  <2> QED
    BY <2>1, <2>2
<1>6. j = [l \in Kinds |-> [start |-> j[l].start, firstbyte |-> j[l].firstbyte]]
  BY <1>1, <1>4
<1>7. InfoOK(h, j)
  BY <1>5, <1>6 DEF InfoOK
<1> QED
  BY <1>1, <1>3, <1>7 DEF j

LEMMA InfoStays ==
  ASSUME NEW g, NEW h, NEW i, InfoOK(g, i), Extends(g, h)
  PROVE  InfoOK(h, i)
BY DEF InfoOK, Extends, Has

LEMMA AnalysisAdds ==
  ASSUME NEW g, NEW i, NEW k \in Kinds, GraphOK(g), InfoOK(g, i)
  PROVE  LET a == Analysis(g, i, k)
         IN /\ Extends(g, a.g) /\ InfoOK(a.g, a.info) /\ a.ok \in BOOLEAN
            /\ a.ok => a.info[k].firstbyte # FbUnknown
            /\ g.budget >= 3 => a.ok
<1> DEFINE start == StartOf[k]
           h == IF start \in Special THEN g ELSE CachedState(g, start)
           loop == FirstByteLoop(h, start)
           a == Analysis(g, i, k)
<1>1. g.budget \in Int
  BY BudgetIsInt
<1>2. start \in DStates \cup Special
  BY DfaAssumption
<1>3. /\ Extends(g, h)
      /\ g.budget >= 1 => Has(h, start)
      /\ g.budget >= 3 => h.budget >= 2
  <2>1. CASE start \in Special
    BY <1>1, <2>1 DEF Extends, Has
  <2>2. CASE start \notin Special
    <3>1. /\ Extends(g, h)
          /\ g.budget >= 1 => start \in h.cache /\ h.budget >= g.budget - 1
      BY <1>2, <2>2, CachedStateAdds
    <3>2. h.budget \in Int
      BY <3>1, BudgetIsInt DEF Extends
    <3> HIDE DEF h
    <3> QED
      BY <1>1, <3>1, <3>2 DEF Has
  <2> QED
    BY <2>1, <2>2
<1>4. CASE /\ i[k].firstbyte # FbUnknown
           /\ a = [g |-> g, info |-> i, ok |-> TRUE]
  <2>1. a.g = g /\ a.info = i /\ a.ok = TRUE
    BY <1>4
  <2> HIDE DEF a
  <2>2. Extends(g, a.g) /\ InfoOK(a.g, a.info) /\ a.ok /\ a.info[k].firstbyte # FbUnknown
    BY <1>4, <2>1 DEF Extends
  <2> QED
    BY <2>1, <2>2 DEF a
<1>5. CASE /\ i[k].firstbyte = FbUnknown /\ ~Has(h, start)
           /\ a = [g |-> h, info |-> [i EXCEPT ![k].start = Null], ok |-> FALSE]
  <2>1. i[k] = [start |-> i[k].start, firstbyte |-> FbUnknown]
    BY <1>5 DEF InfoOK
  <2>2. [i EXCEPT ![k].start = Null] = [i EXCEPT ![k] = [start |-> Null,
                                                        firstbyte |-> FbUnknown]]
    <3>1. [i[k] EXCEPT !.start = Null] = [start |-> Null, firstbyte |-> FbUnknown]
      BY <2>1
    <3>2. i = [l \in Kinds |-> i[l]]
      BY DEF InfoOK
    <3> QED
      BY <3>1, <3>2
  <2>3. FbUnknown \notin Bytes
    BY DEF Bytes, FbUnknown
  <2>4. InfoOK(h, [i EXCEPT ![k] = [start |-> Null, firstbyte |-> FbUnknown]])
    BY <1>3, <2>3, InfoWritten
  <2>5. a.g = h /\ a.info = [i EXCEPT ![k].start = Null] /\ a.ok = FALSE
    BY <1>5
  <2>6. ~(g.budget >= 3)
    BY <1>1, <1>3, <1>5
  <2> HIDE DEF a, h
  <2>7. Extends(g, a.g) /\ InfoOK(a.g, a.info) /\ ~a.ok
    BY <1>3, <2>2, <2>4, <2>5
  <2> QED
    BY <2>5, <2>6, <2>7 DEF a
<1>6. CASE /\ i[k].firstbyte = FbUnknown /\ start \in Special
           /\ a = [g |-> h, ok |-> TRUE,
                   info |-> [i EXCEPT ![k] = [start |-> start, firstbyte |-> FbNone]]]
  <2>1. FbNone \notin Bytes /\ FbNone # FbUnknown
    BY DEF Bytes, FbNone, FbUnknown
  <2>2. Has(h, start)
    BY <1>6 DEF Has
  <2> DEFINE j == [i EXCEPT ![k] = [start |-> start, firstbyte |-> FbNone]]
  <2>3. InfoOK(h, j) /\ j[k].firstbyte = FbNone
    BY <1>3, <2>1, <2>2, InfoWritten
  <2>4. a.g = h /\ a.info = j /\ a.ok = TRUE
    BY <1>6
  <2> HIDE DEF a, h, j
  <2>5. Extends(g, a.g) /\ InfoOK(a.g, a.info) /\ a.ok /\ a.info[k].firstbyte # FbUnknown
    BY <1>3, <2>1, <2>3, <2>4
  <2> QED
    BY <2>4, <2>5 DEF a
<1>7. CASE /\ i[k].firstbyte = FbUnknown /\ start \notin Special /\ start \in h.cache
           /\ a = [g |-> loop.g, ok |-> loop.ok,
                   info |-> [i EXCEPT ![k] = [start |-> start, firstbyte |-> loop.fb]]]
  <2>1. GraphOK(h)
    BY <1>3 DEF Extends
  <2>2. Extends(h, loop.g)
    <3> HIDE DEF h
    <3> QED
      BY <1>7, <2>1, LoopAdds
  <2>3. /\ loop.fb \in Bytes \cup {FbMany, FbNone}
        /\ loop.fb \in Bytes => Delta[start][loop.fb] # start
    <3> HIDE DEF h
    <3> QED
      BY <2>1, LoopFinds
  <2>4. FbMany # FbUnknown /\ FbNone # FbUnknown /\ FbUnknown \notin Bytes
    BY DEF Bytes, FbNone, FbMany, FbUnknown
  <2>5. h.budget >= 2 => loop.ok
    <3> HIDE DEF h
    <3> QED
      BY <1>7, <2>1, TwoStatesSuffice
  <2>6. loop.ok \in BOOLEAN
    BY LoopIs
  <2>7. Extends(g, loop.g) /\ Has(loop.g, start)
    <3> HIDE DEF h, loop
    <3> QED
      BY <1>3, <1>7, <2>2 DEF Extends, Has
  <2> DEFINE j == [i EXCEPT ![k] = [start |-> start, firstbyte |-> loop.fb]]
  <2>8. InfoOK(loop.g, j) /\ j[k].firstbyte = loop.fb
    <3>1. start \in DStates
      BY <1>2, <1>7
    <3> HIDE DEF loop
    <3> QED
      BY <2>3, <2>7, <3>1, InfoWritten DEF LeadsOut
  <2>9. a.g = loop.g /\ a.info = j /\ a.ok = loop.ok
    BY <1>7
  <2> HIDE DEF a, h, loop, j
  <2>10. /\ Extends(g, a.g) /\ InfoOK(a.g, a.info) /\ a.ok \in BOOLEAN
         /\ a.info[k].firstbyte # FbUnknown
         /\ g.budget >= 3 => a.ok
    BY <1>3, <2>3, <2>4, <2>5, <2>6, <2>7, <2>8, <2>9
  <2> QED
    BY <2>10 DEF a
<1>8. AnalysisCases(g, i, k)
  BY AnalysisHasCases
<1> QED
  BY <1>4, <1>5, <1>6, <1>7, <1>8 DEF AnalysisCases

(* With enough memory nothing ever runs out, and what start_ says is right.  *)
LEMMA NeverOut ==
  ASSUME NEW g, GraphOK(g), EnoughMemory, g.budget # -1
  PROVE  /\ g.budget >= 0
         /\ \A s \in DStates : s \notin g.cache => g.budget >= 1
<1>1. /\ g.cache \subseteq DStates /\ IsFiniteSet(g.cache) /\ IsFiniteSet(DStates)
      /\ g.budget = Capacity - Cardinality(g.cache) /\ Cardinality(DStates) <= Capacity
  BY DEF GraphOK, EnoughMemory
<1>2. /\ Cardinality(g.cache) \in Nat /\ Cardinality(DStates) \in Nat /\ Capacity \in Nat
      /\ Cardinality(g.cache) <= Cardinality(DStates)
      /\ Cardinality(g.cache) = Cardinality(DStates) => g.cache = DStates
  BY <1>1, FS_CardinalityType, FS_Subset, DfaAssumption
<1> QED
  BY <1>1, <1>2

LEMMA CachedStateEnough ==
  ASSUME NEW g, GraphOK(g), NEW s \in DStates, EnoughMemory, g.budget # -1
  PROVE  CachedState(g, s).budget # -1 /\ s \in CachedState(g, s).cache
<1>1. g.budget \in Int /\ g.budget >= 0
  BY BudgetIsInt, NeverOut
<1>2. CASE s \in g.cache
  BY <1>2 DEF CachedState
<1>3. CASE s \notin g.cache
  <2>1. g.budget >= 1
    BY <1>3, NeverOut
  <2>2. /\ s \in CachedState(g, s).cache /\ CachedState(g, s).budget >= g.budget - 1
        /\ GraphOK(CachedState(g, s))
    BY <2>1, CachedStateAdds DEF Extends
  <2>3. CachedState(g, s).budget \in Int
    BY <2>2, BudgetIsInt
  <2> QED
    BY <1>1, <2>1, <2>2, <2>3
<1> QED
  BY <1>2, <1>3

LEMMA RunStateEnough ==
  ASSUME NEW g, GraphOK(g), NEW s \in g.cache, NEW c \in Symbols, EnoughMemory,
         g.budget # -1
  PROVE  RunStateOnByte(g, s, c).budget # -1
<1> DEFINE ns == Delta[s][c]
           h == IF ns \in Special THEN g ELSE CachedState(g, ns)
           r == RunStateOnByte(g, s, c)
<1>1. s \in DStates /\ ns \in DStates \cup Special
  BY DeltaType DEF GraphOK
<1>2. GraphOK(h) /\ h.budget # -1
  BY <1>1, CachedStateAdds, CachedStateEnough DEF Extends
<1>3. r \in {g, h, [h EXCEPT !.next[s][c] = ns]}
  BY DEF RunStateOnByte
<1>4. [h EXCEPT !.next[s][c] = ns].budget = h.budget
  <2>1. h = [cache |-> h.cache, budget |-> h.budget, next |-> h.next]
    BY <1>2 DEF GraphOK
  <2> HIDE DEF h
  <2> QED
    BY <2>1
<1> HIDE DEF h, r
<1> QED
  BY <1>2, <1>3, <1>4 DEF r

LEMMA AnalysisEnough ==
  ASSUME NEW g, NEW i, NEW k \in Kinds, GraphOK(g), InfoOK(g, i), EnoughMemory,
         g.budget # -1, InfoRight(i)
  PROVE  LET a == Analysis(g, i, k)
         IN a.g.budget # -1 /\ InfoRight(a.info)
<1> DEFINE start == StartOf[k]
           h == IF start \in Special THEN g ELSE CachedState(g, start)
           loop == FirstByteLoop(h, start)
           a == Analysis(g, i, k)
<1>1. start \in DStates \cup Special
  BY DfaAssumption
<1>2. GraphOK(h) /\ h.budget # -1 /\ Has(h, start)
  BY <1>1, CachedStateAdds, CachedStateEnough DEF Extends, Has
<1>3. ASSUME NEW f, OnlyWayOut(k, f)
      PROVE  InfoRight([i EXCEPT ![k] = [start |-> start, firstbyte |-> f]])
  <2> DEFINE j == [i EXCEPT ![k] = [start |-> start, firstbyte |-> f]]
  <2>1. j[k].firstbyte = f /\ \A l \in Kinds \ {k} : j[l] = i[l]
    BY DEF InfoOK
  <2> HIDE DEF j
  <2>2. \A l \in Kinds : OnlyWayOut(l, j[l].firstbyte)
    BY <1>3, <2>1 DEF InfoRight
  <2> QED
    BY <2>2 DEF InfoRight, j
<1>4. CASE a = [g |-> g, info |-> i, ok |-> TRUE]
  BY <1>4
<1>5. CASE /\ start \in Special
           /\ a = [g |-> h, ok |-> TRUE,
                   info |-> [i EXCEPT ![k] = [start |-> start, firstbyte |-> FbNone]]]
  <2>1. OnlyWayOut(k, FbNone)
    BY DEF OnlyWayOut, Bytes, FbNone
  <2>2. InfoRight([i EXCEPT ![k] = [start |-> start, firstbyte |-> FbNone]])
    BY <1>3, <2>1
  <2>3. /\ a.g = h
        /\ a.info = [i EXCEPT ![k] = [start |-> start, firstbyte |-> FbNone]]
    BY <1>5
  <2> HIDE DEF a, h
  <2>4. a.g.budget # -1 /\ InfoRight(a.info)
    BY <1>2, <2>2, <2>3
  <2> QED
    BY <2>4 DEF a
<1>6. CASE /\ start \notin Special /\ start \in h.cache
           /\ a = [g |-> loop.g, ok |-> loop.ok,
                   info |-> [i EXCEPT ![k] = [start |-> start, firstbyte |-> loop.fb]]]
  <2>1. loop.ok /\ loop.g.budget >= 0
    <3> HIDE DEF h
    <3> QED
      BY <1>2, <1>6, EnoughSuffices
  <2>2. loop.ok /\ loop.fb \in Bytes => \A b \in Bytes \ {loop.fb} : Delta[start][b] = start
    <3> HIDE DEF h
    <3> QED
      BY <1>2, LoopFinds
  <2>3. OnlyWayOut(k, loop.fb)
    <3> HIDE DEF h, loop
    <3> QED
      BY <2>1, <2>2 DEF OnlyWayOut, LeadsOut
  <2>4. InfoRight([i EXCEPT ![k] = [start |-> start, firstbyte |-> loop.fb]])
    BY <1>3, <2>3
  <2>5. /\ a.g = loop.g
        /\ a.info = [i EXCEPT ![k] = [start |-> start, firstbyte |-> loop.fb]]
    BY <1>6
  <2> HIDE DEF a, h, loop
  <2>6. a.g.budget # -1 /\ InfoRight(a.info)
    BY <2>1, <2>4, <2>5
  <2> QED
    BY <2>6 DEF a
<1>7. AnalysisCases(g, i, k)
  BY AnalysisHasCases
<1> QED
  BY <1>2, <1>4, <1>5, <1>6, <1>7 DEF AnalysisCases

(* What a reset in the loop leaves: the two states that are restored and,    *)
(* in room for three, the arrow.                                             *)
Restored(start, s, c) ==
  LET h == CachedState(CachedState(EmptyGraph, start), s)
  IN IF {start, s} \subseteq h.cache THEN RunStateOnByte(h, s, c) ELSE h
RestoredAtEnd(s, c) ==
  LET h == CachedState(EmptyGraph, s)
  IN IF s \in h.cache THEN RunStateOnByte(h, s, c) ELSE h

(* The graph g has the states that a search goes on with, or no arrow.       *)
Resumes(g, need, s, c) ==
  /\ GraphOK(g)
  /\ g.next[s][c] # Null => need \subseteq g.cache /\ g.next[s][c] = Delta[s][c]
  /\ Capacity >= 3 => g.next[s][c] # Null
  /\ EnoughMemory => g.budget # -1

LEMMA RestoredResumes ==
  ASSUME NEW start \in DStates, NEW s \in DStates, NEW c \in Symbols
  PROVE  Resumes(Restored(start, s, c), {start, s}, s, c)
<1> DEFINE e == EmptyGraph
           f == CachedState(e, start)
           h == CachedState(f, s)
           g == Restored(start, s, c)
<1>1. GraphOK(e) /\ e.budget = Capacity /\ Capacity \in Nat
  BY EmptyGraphOK, DfaAssumption
<1>2. /\ Extends(e, f) /\ f.next = e.next /\ f.budget \in Int
      /\ Capacity >= 3 => start \in f.cache /\ f.budget >= 2
  <2>1. /\ Extends(e, f) /\ f.next = e.next
        /\ Capacity >= 1 => start \in f.cache /\ f.budget >= Capacity - 1
    BY <1>1, CachedStateAdds
  <2>2. f.budget \in Int
    BY <2>1, BudgetIsInt DEF Extends
  <2> HIDE DEF f
  <2> QED
    BY <1>1, <2>1, <2>2
<1>3. /\ Extends(f, h) /\ h.next = f.next /\ h.budget \in Int
      /\ Capacity >= 3 => {start, s} \subseteq h.cache /\ h.budget >= 1
  <2>1. /\ Extends(f, h) /\ h.next = f.next
        /\ f.budget >= 1 => s \in h.cache /\ h.budget >= f.budget - 1
    <3> HIDE DEF f
    <3> QED
      BY <1>2, CachedStateAdds DEF Extends
  <2>2. h.budget \in Int
    BY <2>1, BudgetIsInt DEF Extends
  <2> HIDE DEF f, h
  <2> QED
    BY <1>2, <2>1, <2>2 DEF Extends
<1>4. EnoughMemory => h.budget # -1
  <2>1. EnoughMemory => f.budget # -1
    BY <1>1, CachedStateEnough
  <2> HIDE DEF f
  <2> QED
    BY <1>2, <2>1, CachedStateEnough DEF Extends
<1>5. g = IF {start, s} \subseteq h.cache THEN RunStateOnByte(h, s, c) ELSE h
  BY DEF Restored
<1>6. h.next[s][c] = Null
  <2>1. e.next[s][c] = Null
    BY DEF EmptyGraph, Symbols
  <2> HIDE DEF e, f, h
  <2> QED
    BY <1>2, <1>3, <2>1
<1>7. CASE {start, s} \subseteq h.cache
  <2>1. /\ Extends(h, g) /\ g.next[s][c] \in {Null, Delta[s][c]}
        /\ h.budget >= 1 => g.next[s][c] = Delta[s][c]
    <3> HIDE DEF f, h
    <3> QED
      BY <1>3, <1>5, <1>7, RunStateAdds DEF Extends
  <2>2. EnoughMemory => g.budget # -1
    <3> HIDE DEF f, h
    <3> QED
      BY <1>3, <1>4, <1>5, <1>7, RunStateEnough DEF Extends
  <2>3. Delta[s][c] # Null
    BY DeltaType
  <2> HIDE DEF f, h, g
  <2>4. Resumes(g, {start, s}, s, c)
    BY <1>3, <1>7, <2>1, <2>2, <2>3 DEF Resumes, Extends
  <2> QED
    BY <2>4 DEF g
<1>8. CASE ~({start, s} \subseteq h.cache)
  <2> HIDE DEF f, h, g
  <2>1. Resumes(g, {start, s}, s, c)
    BY <1>3, <1>4, <1>5, <1>6, <1>8 DEF Resumes, Extends
  <2> QED
    BY <2>1 DEF g
<1> QED
  BY <1>7, <1>8

LEMMA RestoredAtEndResumes ==
  ASSUME NEW s \in DStates, NEW c \in Symbols
  PROVE  Resumes(RestoredAtEnd(s, c), {s}, s, c)
<1> DEFINE e == EmptyGraph
           h == CachedState(e, s)
           g == RestoredAtEnd(s, c)
<1>1. GraphOK(e) /\ e.budget = Capacity /\ Capacity \in Nat
  BY EmptyGraphOK, DfaAssumption
<1>2. /\ Extends(e, h) /\ h.next = e.next
      /\ Capacity >= 1 => s \in h.cache /\ h.budget >= Capacity - 1
  BY <1>1, CachedStateAdds
<1>3. h.budget \in Int
  BY <1>2, BudgetIsInt DEF Extends
<1>4. EnoughMemory => h.budget # -1
  BY <1>1, CachedStateEnough
<1>5. g = IF s \in h.cache THEN RunStateOnByte(h, s, c) ELSE h
  BY DEF RestoredAtEnd
<1>6. h.next[s][c] = Null
  <2>1. e.next[s][c] = Null
    BY DEF EmptyGraph, Symbols
  <2> HIDE DEF e, h
  <2> QED
    BY <1>2, <2>1
<1> HIDE DEF h
<1>7. CASE s \in h.cache
  <2>1. /\ Extends(h, g) /\ g.next[s][c] \in {Null, Delta[s][c]}
        /\ h.budget >= 1 => g.next[s][c] = Delta[s][c]
    BY <1>1, <1>2, <1>5, <1>7, RunStateAdds DEF Extends
  <2>2. EnoughMemory => g.budget # -1
    BY <1>1, <1>2, <1>4, <1>5, <1>7, RunStateEnough DEF Extends
  <2>3. Delta[s][c] # Null
    BY <1>1, DeltaType
  <2> HIDE DEF g
  <2>4. Resumes(g, {s}, s, c)
    BY <1>1, <1>2, <1>3, <1>7, <2>1, <2>2, <2>3 DEF Resumes, Extends
  <2> QED
    BY <2>4 DEF g
<1>8. CASE s \notin h.cache
  <2> HIDE DEF g
  <2>1. Resumes(g, {s}, s, c)
    BY <1>1, <1>2, <1>4, <1>5, <1>6, <1>8 DEF Resumes, Extends
  <2> QED
    BY <2>1 DEF g
<1> QED
  BY <1>7, <1>8

---------------------------------------------------------------------------
(* What one search knows: where it is in the text, in which states, and what *)
(* it has seen; all of it if the byte it skips to is the only way out.       *)
OnByte == {"compute", "upgrade byte", "reset byte"}
AtEnd == {"compute end", "upgrade end", "reset end"}
Loop == {"run"} \cup OnByte \cup AtEnd
Choosing == {"analyze", "upgrade", "reset"}

Asked(r) == r.text \in Texts /\ r.kind \in Kinds /\ r.earliest \in BOOLEAN
InStates(r) == r.start = StartOf[r.kind] /\ r.start \in DStates /\ r.s \in DStates

(* It is in r.s when i bytes of the text are behind it.                      *)
Stands(r, i) ==
  OnlyWayOut(r.kind, r.firstbyte) =>
    /\ r.s = Path(r.text, r.kind)[i]
    /\ Seen(r.text, r.kind, r.earliest, r.lastmatch, i)

(* It is about to take the byte at p, or the one after the text.             *)
Takes(r) == Asked(r) /\ InStates(r) /\ r.p \in 1..Len(r.text) /\ Stands(r, r.p - 1)
TakesEnd(r) == Asked(r) /\ InStates(r) /\ r.p = Len(r.text) /\ Stands(r, r.p)
Between(r) == Asked(r) /\ InStates(r) /\ r.p \in 0..Len(r.text) /\ Stands(r, r.p)

Chooses(r) ==
  Asked(r) /\ r.s = Null /\ r.p = 0 /\ r.lastmatch = -1 /\ r.firstbyte = FbUnknown
Returns(r) ==
  /\ Asked(r) /\ r.s = Null /\ r.p \in 0..Len(r.text)
  /\ OnlyWayOut(r.kind, r.firstbyte) /\ r.failed = "no" =>
       r.lastmatch = Answer(r.text, r.kind, r.earliest)

Knows(r) ==
  /\ r.pc = "idle" => r.s = Null /\ r.p = 0 /\ r.text = <<>>
  /\ r.pc \in Choosing => Chooses(r)
  /\ r.pc = "run" => Between(r)
  /\ r.pc \in OnByte => Takes(r)
  /\ r.pc \in AtEnd => TakesEnd(r)
  /\ r.pc = "return" => Returns(r)

(* Where it uses them, its states are in the cache.                          *)
InCache(r, g) == r.pc \in Loop \ Resetting => {r.start, r.s} \subseteq g.cache

Whole(r, g) == IsSearch(r) /\ Knows(r) /\ InCache(r, g)

(* What a failure is.                                                        *)
FailsWell(r) == r.failed # "dfatal" /\ (r.failed = "slow" => BailWhenSlow)

LEMMA TextIs ==
  ASSUME NEW r, Asked(r)
  PROVE  /\ r.text \in Seq(Bytes) /\ Len(r.text) \in Nat
         /\ \A i \in 1..Len(r.text) : r.text[i] \in Bytes /\ r.text[i] \in Symbols
         /\ LastByte[r.text] \in Symbols
<1>1. r.text \in Seq(Bytes) /\ LastByte[r.text] \in Symbols
  BY DfaAssumption DEF Asked, Symbols
<1> QED
  BY <1>1 DEF Symbols

LEMMA PathSteps ==
  ASSUME NEW x \in Seq(Bytes), NEW k \in Kinds, NEW i \in 1..(Len(x) + 1),
         Path(x, k)[i - 1] \in DStates
  PROVE  Path(x, k)[i] = Delta[Path(x, k)[i - 1]][ByteOf(x, i)]
<1>1. Path(x, k)[i] = AfterByte(x, Path(x, k)[i - 1], i)
  BY PathIs DEF IsPath
<1> QED
  BY <1>1, SpecialsDiffer DEF AfterByte, Special

LEMMA PathStarts ==
  ASSUME NEW x \in Seq(Bytes), NEW k \in Kinds
  PROVE  Path(x, k)[0] = StartOf[k]
BY PathIs DEF IsPath

(* A search that returns as it is, with what it has seen.                    *)
LEMMA ReturnIs ==
  ASSUME NEW r, IsSearch(r)
  PROVE  /\ Return(r) = [[[r EXCEPT !.pc = "return"] EXCEPT !.start = Null] EXCEPT !.s = Null]
         /\ IsSearch(Return(r)) /\ Return(r).pc = "return" /\ Return(r).s = Null
         /\ \A f \in Fields \ {"pc", "start", "s"} : Return(r)[f] = r[f]
<1>1. DOMAIN r = Fields
  BY DEF IsSearch
<1>2. IsSearch(Return(r)) /\ Return(r).pc = "return" /\ Return(r).s = Null
  BY <1>1 DEF Return, IsSearch, Fields
<1>3. \A f \in Fields \ {"pc", "start", "s"} : Return(r)[f] = r[f]
  BY <1>1 DEF Return, Fields
<1> QED
  BY <1>2, <1>3 DEF Return

LEMMA FailsWhole ==
  ASSUME NEW r, NEW g, IsSearch(r), Asked(r), r.p \in 0..Len(r.text), NEW why, why # "no"
  PROVE  /\ Whole(Fail(r, why), g) /\ Fail(r, why).failed = why
         /\ Fail(r, why).pc = "return"
<1> DEFINE q == Fail(r, why)
           b == Return(r)
<1>1. IsSearch(b) /\ b.pc = "return" /\ b.s = Null /\ DOMAIN b = Fields
  BY ReturnIs DEF IsSearch
<1>2. \A f \in Fields \ {"pc", "start", "s"} : b[f] = r[f]
  BY ReturnIs
<1>3. q = [b EXCEPT !.failed = why]
  BY DEF Fail
<1> HIDE DEF q, b
<1>4. /\ IsSearch(q) /\ q.pc = "return" /\ q.s = Null /\ q.failed = why
      /\ q.text = b.text /\ q.kind = b.kind /\ q.earliest = b.earliest /\ q.p = b.p
  BY <1>1, <1>3 DEF IsSearch, Fields
<1>5. /\ b.text = r.text /\ b.kind = r.kind /\ b.earliest = r.earliest /\ b.p = r.p
  BY <1>2 DEF Fields
<1>6. Returns(q)
  BY <1>4, <1>5 DEF Returns, Asked
<1> QED
  BY <1>4, <1>6 DEF Whole, Knows, InCache, Loop, OnByte, AtEnd, Choosing, q

(* A search that returns with the right answer.                              *)
LEMMA AnswersWhole ==
  ASSUME NEW r, NEW g, IsSearch(r), Asked(r), r.p \in 0..Len(r.text), NEW l,
         OnlyWayOut(r.kind, r.firstbyte) => l = Answer(r.text, r.kind, r.earliest),
         NEW q, IsSearch(q), q.pc = "return", q.s = Null, q.lastmatch = l,
         \A f \in Fields \ {"pc", "start", "s", "lastmatch"} : q[f] = r[f]
  PROVE  Whole(q, g)
<1>1. /\ q.text = r.text /\ q.kind = r.kind /\ q.earliest = r.earliest /\ q.p = r.p
      /\ q.firstbyte = r.firstbyte
  BY DEF Fields
<1>2. Returns(q)
  BY <1>1 DEF Returns, Asked
<1> QED
  BY <1>2 DEF Whole, Knows, InCache, Loop, OnByte, AtEnd, Choosing

(* One more state is seen.                                                   *)
LEMMA SeenGrows ==
  ASSUME NEW x \in Seq(Bytes), NEW k, NEW e \in BOOLEAN, NEW l, NEW i \in Nat, i >= 1,
         Seen(x, k, e, l, i - 1), ~(e /\ Path(x, k)[i] \in Matching)
  PROVE  Seen(x, k, e, IF Path(x, k)[i] \in Matching THEN i - 1 ELSE l, i)
<1> DEFINE S == Path(x, k)
<1>1. CASE S[i] \in Matching
  <2>1. i - 1 # -1 /\ (i - 1) + 1 \in 1..i /\ i - 1 \in Nat /\ (i - 1) + 1 = i
    OBVIOUS
  <2>2. \A j \in ((i - 1) + 2)..i : FALSE
    OBVIOUS
  <2> QED
    BY <1>1, <2>1, <2>2 DEF Seen
<1>2. CASE S[i] \notin Matching
  <2>1. CASE l = -1
    <3>1. \A j \in 1..i : j \in 1..(i - 1) \/ j = i
      OBVIOUS
    <3> QED
      BY <1>2, <2>1, <3>1 DEF Seen
  <2>2. CASE l # -1
    <3>1. l + 1 \in 1..i /\ l \in Nat /\ S[l + 1] \in Matching /\ ~e
      BY <2>2 DEF Seen
    <3>2. \A j \in (l + 2)..i : j \in (l + 2)..(i - 1) \/ j = i
      BY <3>1
    <3> QED
      BY <1>2, <2>2, <3>1, <3>2 DEF Seen
  <2> QED
    BY <2>1, <2>2
<1> QED
  BY <1>1, <1>2

LEMMA AdvanceWhole ==
  ASSUME NEW r, NEW g, IsSearch(r), Takes(r), r.start \in g.cache, NEW ns,
         ns = Delta[r.s][r.text[r.p]], Has(g, ns)
  PROVE  Whole(Advance(r, ns), g) /\ Advance(r, ns).failed = r.failed
<1> DEFINE x == r.text
           k == r.kind
           e == r.earliest
           i == r.p
           ok == OnlyWayOut(r.kind, r.firstbyte)
<1>1. /\ x \in Seq(Bytes) /\ k \in Kinds /\ e \in BOOLEAN /\ Len(x) \in Nat
      /\ i \in 1..Len(x) /\ i \in Nat /\ i >= 1 /\ i \in 1..(Len(x) + 1)
      /\ r.p \in 0..Len(r.text) /\ Asked(r)
  BY TextIs DEF Takes, Asked
<1>2. r.start = StartOf[k] /\ StartOf[k] \in DStates /\ r.s \in DStates
  BY DEF Takes, InStates
<1>3. ok => r.s = Path(x, k)[i - 1] /\ Seen(x, k, e, r.lastmatch, i - 1)
  BY DEF Takes, Stands
<1>4. Path(x, k)[0] # Full
  BY <1>1, <1>2, PathStarts, SpecialsDiffer
<1>5. ok => Path(x, k)[i] = ns
  <2>1. ByteOf(x, i) = x[i]
    BY <1>1 DEF ByteOf
  <2> QED
    BY <1>1, <1>2, <1>3, <2>1, PathSteps
<1>6. DOMAIN r = Fields
  BY DEF IsSearch
<1> HIDE DEF x, k, e, i, ok
<1>7. CASE ns = Dead
  <2>1. ok => r.lastmatch = Answer(x, k, e)
    BY <1>1, <1>3, <1>4, <1>5, <1>7, DeadAnswers
  <2>2. Advance(r, ns) = Return(r)
    BY <1>7 DEF Advance
  <2>3. /\ Return(r).lastmatch = r.lastmatch /\ Return(r).failed = r.failed
        /\ \A f \in Fields \ {"pc", "start", "s", "lastmatch"} : Return(r)[f] = r[f]
    BY ReturnIs DEF Fields
  <2>4. Whole(Return(r), g)
    BY <1>1, <2>1, <2>3, ReturnIs, AnswersWhole DEF x, k, e, ok
  <2> QED
    BY <2>2, <2>3, <2>4
<1>8. CASE ns = Full
  <2> DEFINE q == [Return(r) EXCEPT !.lastmatch = Len(r.text)]
  <2>1. ok => Len(x) = Answer(x, k, e)
    BY <1>1, <1>3, <1>4, <1>5, <1>8, FullAnswers
  <2>2. Advance(r, ns) = q
    BY <1>8, SpecialsDiffer DEF Advance
  <2>3. IsSearch(Return(r)) /\ DOMAIN Return(r) = Fields
    BY ReturnIs DEF IsSearch
  <2>4. /\ IsSearch(q) /\ q.pc = "return" /\ q.s = Null /\ q.lastmatch = Len(r.text)
        /\ q.failed = Return(r).failed
        /\ \A f \in Fields \ {"pc", "start", "s", "lastmatch"} : q[f] = Return(r)[f]
    BY <2>3, ReturnIs DEF IsSearch, Fields
  <2>5. /\ Return(r).failed = r.failed
        /\ \A f \in Fields \ {"pc", "start", "s", "lastmatch"} : Return(r)[f] = r[f]
    BY ReturnIs DEF Fields
  <2> HIDE DEF q
  <2>6. \A f \in Fields \ {"pc", "start", "s", "lastmatch"} : q[f] = r[f]
    BY <2>4, <2>5
  <2>7. Whole(q, g)
    BY <1>1, <2>1, <2>4, <2>6, AnswersWhole DEF x, k, e, ok
  <2> QED
    BY <2>2, <2>4, <2>5, <2>7
<1>9. CASE ns \notin Special
  <2> DEFINE l == IF ns \in Matching THEN r.p - 1 ELSE r.lastmatch
             q == [r EXCEPT !.pc = "run", !.s = ns, !.lastmatch = l]
  <2>1. ns \in DStates /\ ns \in g.cache
    BY <1>1, <1>2, <1>9, TextIs, DeltaType DEF Has, x, i
  <2>2. Advance(r, ns) = IF ns \in Matching /\ r.earliest THEN Return(q) ELSE q
    BY <1>9 DEF Advance, Special
  <2>3. /\ IsSearch(q) /\ q.pc = "run" /\ q.s = ns /\ q.lastmatch = l
        /\ q.failed = r.failed
        /\ \A f \in Fields \ {"pc", "s", "lastmatch"} : q[f] = r[f]
    BY <1>6 DEF IsSearch, Fields
  <2> HIDE DEF q
  <2>4. /\ q.text = x /\ q.kind = k /\ q.earliest = e /\ q.p = i
        /\ q.firstbyte = r.firstbyte /\ q.start = r.start
    BY <2>3 DEF Fields, x, k, e, i
  <2>5. CASE ns \in Matching /\ r.earliest
    <3>1. ok => l = Answer(x, k, e)
      BY <1>1, <1>3, <1>4, <1>5, <2>5, MatchAnswers DEF i, e
    <3>2. IsSearch(Return(q)) /\ Return(q).pc = "return" /\ Return(q).s = Null
      BY <2>3, ReturnIs
    <3>3. \A f \in Fields \ {"pc", "start", "s"} : Return(q)[f] = q[f]
      BY <2>3, ReturnIs
    <3>4. Return(q).lastmatch = l /\ Return(q).failed = r.failed
      BY <2>3, <3>3 DEF Fields
    <3>5. \A f \in Fields \ {"pc", "start", "s", "lastmatch"} : Return(q)[f] = r[f]
      BY <2>3, <3>3
    <3> HIDE DEF l
    <3>6. Whole(Return(q), g)
      BY <1>1, <3>1, <3>2, <3>4, <3>5, AnswersWhole DEF x, k, e, ok
    <3> QED
      BY <2>2, <2>5, <3>4, <3>6
  <2>6. CASE ~(ns \in Matching /\ r.earliest)
    <3>1. ok => Seen(x, k, e, l, i)
      <4>1. ASSUME ok
            PROVE  Seen(x, k, e, l, i)
        <5>1. l = IF Path(x, k)[i] \in Matching THEN i - 1 ELSE r.lastmatch
          BY <1>5, <4>1 DEF i
        <5>2. ~(e /\ Path(x, k)[i] \in Matching)
          BY <1>5, <2>6, <4>1 DEF e
        <5>3. Seen(x, k, e, IF Path(x, k)[i] \in Matching THEN i - 1 ELSE r.lastmatch, i)
          BY <1>1, <1>3, <4>1, <5>2, SeenGrows
        <5> QED
          BY <5>1, <5>3
      <4> QED
        BY <4>1
    <3> HIDE DEF l
    <3>2. Stands(q, q.p)
      BY <1>5, <2>3, <2>4, <3>1 DEF Stands, ok, k
    <3>3. Asked(q) /\ InStates(q) /\ q.p \in 0..Len(q.text)
      BY <1>1, <1>2, <2>1, <2>3, <2>4 DEF Asked, InStates, x, k, e, i
    <3>4. Whole(q, g)
      BY <2>1, <2>3, <2>4, <3>2, <3>3
         DEF Whole, Knows, InCache, Between, Loop, OnByte, AtEnd, Choosing
    <3> QED
      BY <2>2, <2>3, <2>6, <3>4
  <2> QED
    BY <2>5, <2>6
<1> QED
  BY <1>7, <1>8, <1>9 DEF Special

LEMMA FinishWhole ==
  ASSUME NEW r, NEW g, IsSearch(r), TakesEnd(r), NEW ns, ns = Delta[r.s][LastByte[r.text]]
  PROVE  Whole(Finish(r, ns), g) /\ Finish(r, ns).failed = r.failed
<1> DEFINE x == r.text
           k == r.kind
           e == r.earliest
           n == Len(r.text)
           ok == OnlyWayOut(r.kind, r.firstbyte)
           l == IF ns = Full \/ ns \in Matching THEN n ELSE r.lastmatch
           b == [r EXCEPT !.lastmatch = l]
           q == Return(b)
<1>1. /\ x \in Seq(Bytes) /\ k \in Kinds /\ e \in BOOLEAN /\ n \in Nat /\ n = Len(x)
      /\ n + 1 \in 1..(Len(x) + 1) /\ (n + 1) - 1 = n /\ LastByte[r.text] \in Symbols
      /\ r.p = n /\ r.p \in 0..Len(r.text) /\ Asked(r)
  BY TextIs DEF TakesEnd, Asked
<1>2. r.start = StartOf[k] /\ StartOf[k] \in DStates /\ r.s \in DStates
  BY DEF TakesEnd, InStates
<1>3. ok => r.s = Path(x, k)[n] /\ Seen(x, k, e, r.lastmatch, n)
  BY <1>1 DEF TakesEnd, Stands
<1>4. Path(x, k)[0] # Full
  BY <1>1, <1>2, PathStarts, SpecialsDiffer
<1>5. ok => Path(x, k)[n + 1] = ns
  <2>1. ByteOf(x, n + 1) = LastByte[r.text]
    BY <1>1 DEF ByteOf
  <2>2. ok => Path(x, k)[(n + 1) - 1] \in DStates
    BY <1>1, <1>2, <1>3
  <2> HIDE DEF x, k, n, ok
  <2> QED
    BY <1>1, <1>3, <2>1, <2>2, PathSteps
<1>6. ns \in DStates \cup Special
  BY <1>1, <1>2, DeltaType
<1>7. Finish(r, ns) = q
  BY DEF Finish
<1>8. IsSearch(b) /\ b.lastmatch = l /\ \A f \in Fields \ {"lastmatch"} : b[f] = r[f]
  <2>1. DOMAIN r = Fields
    BY DEF IsSearch
  <2> QED
    BY <2>1 DEF IsSearch, Fields
<1> HIDE DEF b
<1>9. /\ IsSearch(q) /\ q.pc = "return" /\ q.s = Null
      /\ \A f \in Fields \ {"pc", "start", "s"} : q[f] = b[f]
  BY <1>8, ReturnIs
<1> HIDE DEF q
<1>10. q.lastmatch = l /\ \A f \in Fields \ {"pc", "start", "s", "lastmatch"} : q[f] = r[f]
  BY <1>8, <1>9 DEF Fields
<1>11. q.failed = r.failed
  BY <1>10 DEF Fields
<1>12. ASSUME ok
       PROVE  l = Answer(x, k, e)
  <2>1. Seen(x, k, e, r.lastmatch, (n + 1) - 1)
    BY <1>1, <1>3, <1>12
  <2>2. Path(x, k)[n + 1] = ns
    BY <1>5, <1>12
  <2> HIDE DEF x, k, e, n, ok
  <2>3. CASE ns = Full
    BY <1>1, <1>4, <2>1, <2>2, <2>3, FullAnswers
  <2>4. CASE ns \in Matching
    <3>1. n + 1 = Len(x) + 1
      BY <1>1
    <3> DEFINE i == n + 1
    <3>2. /\ i \in 1..(Len(x) + 1) /\ i = Len(x) + 1 /\ i - 1 = n
          /\ x \in Seq(Bytes) /\ k \in Kinds /\ e \in BOOLEAN
          /\ Path(x, k)[i] \in Matching /\ Seen(x, k, e, r.lastmatch, i - 1)
      BY <1>1, <2>1, <2>2, <2>4, <3>1
    <3> HIDE DEF i
    <3>3. Answer(x, k, e) = i - 1
      BY <1>4, <3>2, MatchAnswers
    <3> QED
      BY <2>4, <3>2, <3>3
  <2>5. CASE ns # Full /\ ns \notin Matching
    <3>1. \A j \in (n + 1)..(Len(x) + 1) : Path(x, k)[j] \notin Matching \cup {Full}
      BY <1>1, <2>2, <2>5
    <3> QED
      BY <1>1, <1>4, <2>1, <2>5, <3>1, NothingMore
  <2> QED
    BY <2>3, <2>4, <2>5
<1> HIDE DEF l
<1>13. Whole(q, g)
  BY <1>1, <1>9, <1>10, <1>12, AnswersWhole
<1> QED
  BY <1>7, <1>11, <1>13

(* The search begins in the start state, or is over.                         *)
LEMMA StartedWhole ==
  ASSUME NEW r, NEW g, NEW i, IsSearch(r), Chooses(r), InfoOK(g, i),
         i[r.kind].firstbyte # FbUnknown
  PROVE  /\ Whole(Started(r, i), g) /\ Started(r, i).failed = r.failed
         /\ Started(r, i).firstbyte \in {FbUnknown, i[r.kind].firstbyte}
         /\ Started(r, i).kind = r.kind
<1> DEFINE x == r.text
           k == r.kind
           e == r.earliest
           n == Len(r.text)
           s == i[r.kind].start
<1>1. /\ x \in Seq(Bytes) /\ k \in Kinds /\ e \in BOOLEAN /\ n \in Nat
      /\ r.p = 0 /\ r.p \in 0..n /\ Asked(r) /\ r.lastmatch = -1 /\ r.firstbyte = FbUnknown
  BY TextIs DEF Chooses, Asked
<1>2. s = StartOf[k] /\ Has(g, s) /\ s \in DStates \cup Special
  BY <1>1, DfaAssumption DEF InfoOK
<1>3. DOMAIN r = Fields
  BY DEF IsSearch
<1>4. /\ IsSearch(Return(r)) /\ Return(r).pc = "return" /\ Return(r).s = Null
      /\ \A f \in Fields \ {"pc", "start", "s"} : Return(r)[f] = r[f]
  BY ReturnIs
<1>5. /\ Return(r).lastmatch = -1 /\ Return(r).failed = r.failed
      /\ Return(r).firstbyte = FbUnknown /\ Return(r).kind = r.kind
      /\ \A f \in Fields \ {"pc", "start", "s", "lastmatch"} : Return(r)[f] = r[f]
  BY <1>1, <1>4 DEF Fields
<1>6. CASE s = Dead
  <2>1. Started(r, i) = Return(r)
    BY <1>6 DEF Started
  <2>2. Answer(x, k, e) = -1
    BY <1>1, <1>2, <1>6, StartAnswers
  <2>3. Whole(Return(r), g)
    BY <1>1, <1>4, <1>5, <2>2, AnswersWhole
  <2> QED
    BY <1>5, <2>1, <2>3
<1>7. CASE s = Full
  <2> DEFINE l == IF r.earliest THEN 0 ELSE n
             q == [Return(r) EXCEPT !.lastmatch = l]
  <2>1. Started(r, i) = q
    BY <1>7, SpecialsDiffer DEF Started
  <2>2. Answer(x, k, e) = l
    BY <1>1, <1>2, <1>7, StartAnswers
  <2>3. DOMAIN Return(r) = Fields
    BY <1>4 DEF IsSearch
  <2>4. /\ IsSearch(q) /\ q.pc = "return" /\ q.s = Null /\ q.lastmatch = l
        /\ q.failed = Return(r).failed /\ q.firstbyte = Return(r).firstbyte
        /\ q.kind = Return(r).kind
        /\ \A f \in Fields \ {"pc", "start", "s", "lastmatch"} : q[f] = Return(r)[f]
    BY <1>4, <2>3 DEF IsSearch, Fields
  <2> HIDE DEF q, l
  <2>5. \A f \in Fields \ {"pc", "start", "s", "lastmatch"} : q[f] = r[f]
    BY <1>5, <2>4
  <2>6. Whole(q, g)
    BY <1>1, <2>2, <2>4, <2>5, AnswersWhole
  <2> QED
    BY <1>5, <2>1, <2>4, <2>6
<1>8. CASE s \notin Special
  <2> DEFINE q == [r EXCEPT !.pc = "run", !.start = s, !.s = s,
                            !.firstbyte = i[r.kind].firstbyte]
  <2>1. Started(r, i) = q
    BY <1>8 DEF Started, Special
  <2>2. /\ IsSearch(q) /\ q.pc = "run" /\ q.s = s /\ q.start = s /\ q.failed = r.failed
        /\ q.firstbyte = i[r.kind].firstbyte /\ q.text = x /\ q.kind = k
        /\ q.earliest = e /\ q.p = 0 /\ q.lastmatch = -1
    BY <1>1, <1>3 DEF IsSearch, Fields
  <2> HIDE DEF q
  <2>3. s \in DStates /\ s \in g.cache
    BY <1>2, <1>8 DEF Has
  <2>4. Seen(x, k, e, -1, 0)
    BY DEF Seen
  <2>5. Path(x, k)[0] = s
    BY <1>1, <1>2, PathStarts
  <2>6. Stands(q, q.p)
    BY <2>2, <2>4, <2>5 DEF Stands
  <2>7. Asked(q) /\ InStates(q) /\ q.p \in 0..Len(q.text)
    BY <1>1, <1>2, <2>2, <2>3 DEF Asked, InStates
  <2>8. Whole(q, g)
    BY <2>2, <2>3, <2>6, <2>7
       DEF Whole, Knows, InCache, Between, Loop, OnByte, AtEnd, Choosing
  <2> QED
    BY <2>1, <2>2, <2>8
<1> QED
  BY <1>6, <1>7, <1>8 DEF Special

(* memchr passes only bytes on which the start state leads to itself, if     *)
(* firstbyte is the only way out.                                            *)
LEMMA SkippedIs ==
  ASSUME NEW r, Between(r)
  PROVE  Skipped(r) \in r.p..Len(r.text) /\ Stands(r, Skipped(r))
<1> DEFINE x == r.text
           k == r.kind
           e == r.earliest
           n == Len(r.text)
           p == r.p
           q == Skipped(r)
           ok == OnlyWayOut(r.kind, r.firstbyte)
           hits == {j \in (p + 1)..n : x[j] = r.firstbyte}
<1>1. /\ x \in Seq(Bytes) /\ k \in Kinds /\ e \in BOOLEAN /\ n \in Nat /\ n = Len(x)
      /\ p \in 0..n /\ \A i \in 1..n : x[i] \in Bytes
  BY TextIs DEF Between, Asked
<1>2. r.start = StartOf[k] /\ StartOf[k] \in DStates /\ r.s \in DStates
  BY DEF Between, InStates
<1>3. ok => r.s = Path(x, k)[p] /\ Seen(x, k, e, r.lastmatch, p)
  BY DEF Between, Stands
<1>4. CASE r.firstbyte \notin Bytes \/ r.s # r.start
  <2>1. q = p
    BY <1>4 DEF Skipped
  <2> QED
    BY <1>1, <1>3, <2>1 DEF Stands
<1>5. CASE r.firstbyte \in Bytes /\ r.s = r.start
  <2>1. q = IF hits = {} THEN n
            ELSE (CHOOSE j \in hits : \A l \in hits : j <= l) - 1
    BY <1>5 DEF Skipped
  <2>2. q \in p..n /\ \A j \in (p + 1)..q : x[j] # r.firstbyte
    <3>1. CASE hits = {}
      <4>1. q = n
        BY <2>1, <3>1
      <4> HIDE DEF q
      <4> QED
        BY <1>1, <3>1, <4>1
    <3>2. CASE hits # {}
      <4>1. hits \in SUBSET Nat
        BY <1>1
      <4>2. \E j \in hits : \A l \in hits : j <= l
        <5> HIDE DEF hits
        <5> QED
          BY <3>2, <4>1, LeastNat
      <4>3. PICK j \in hits : q = j - 1 /\ \A l \in hits : j <= l
        <5> DEFINE c == CHOOSE j \in hits : \A l \in hits : j <= l
        <5>1. c \in hits /\ \A l \in hits : c <= l
          BY <4>2
        <5>2. q = c - 1
          BY <2>1, <3>2
        <5> HIDE DEF c, hits, q
        <5> QED
          BY <5>1, <5>2
      <4>4. j \in (p + 1)..n
        BY <4>3
      <4>5. q \in p..n
        <5> HIDE DEF q
        <5> QED
          BY <1>1, <4>3, <4>4
      <4>6. ASSUME NEW m \in (p + 1)..q, x[m] = r.firstbyte
            PROVE  FALSE
        <5>1. m \in (p + 1)..n
          BY <1>1, <4>5, <4>6
        <5>2. m \in hits
          BY <4>6, <5>1
        <5>3. j <= m
          BY <4>3, <5>2
        <5> HIDE DEF q
        <5> QED
          BY <1>1, <4>3, <4>4, <4>6, <5>1, <5>3
      <4> QED
        BY <4>5, <4>6
    <3> QED
      BY <3>1, <3>2
  <2>3. ASSUME ok
        PROVE  r.s = Path(x, k)[q] /\ Seen(x, k, e, r.lastmatch, q)
    <3> DEFINE S == Path(x, k)
               Off == {j \in p..q : S[j] # r.s}
    <3> HIDE DEF q
    <3>1. \A b \in Bytes \ {r.firstbyte} : Delta[r.s][b] = r.s
      BY <1>2, <1>5, <2>3 DEF OnlyWayOut, LeadsOut
    <3>2. Off = {}
      <4> SUFFICES ASSUME Off # {}
                   PROVE  FALSE
        OBVIOUS
      <4>1. Off \in SUBSET Nat
        BY <1>1, <2>2
      <4>2. PICK j \in Off : \A l \in Off : j <= l
        <5> HIDE DEF Off
        <5> QED
          BY <4>1, LeastNat
      <4>3. j \in (p + 1)..q /\ j \in 1..n /\ j \in 1..(Len(x) + 1) /\ j - 1 \in p..q
        BY <1>1, <1>3, <2>2, <2>3, <4>2
      <4>4. S[j - 1] = r.s
        BY <4>2, <4>3
      <4>5. S[j] = Delta[r.s][ByteOf(x, j)]
        BY <1>1, <1>2, <4>3, <4>4, PathSteps
      <4>6. ByteOf(x, j) = x[j] /\ x[j] \in Bytes \ {r.firstbyte}
        BY <1>1, <2>2, <4>3 DEF ByteOf
      <4> QED
        BY <3>1, <4>2, <4>5, <4>6
    <3>3. \A j \in p..q : S[j] = r.s
      BY <3>2
    <3>4. r.s \notin Matching
      BY <1>1, <1>2, <1>5, DfaAssumption
    <3>5. Seen(x, k, e, r.lastmatch, q)
      <4>1. \A j \in (p + 1)..q : S[j] \notin Matching
        BY <1>1, <2>2, <3>3, <3>4
      <4>2. CASE r.lastmatch = -1
        <5>1. \A j \in 1..q : j \in 1..p \/ j \in (p + 1)..q
          BY <1>1, <2>2
        <5> QED
          BY <1>3, <2>3, <4>1, <4>2, <5>1 DEF Seen
      <4>3. CASE r.lastmatch # -1
        <5>1. /\ r.lastmatch + 1 \in 1..p /\ r.lastmatch \in Nat
              /\ S[r.lastmatch + 1] \in Matching /\ ~e
              /\ \A j \in (r.lastmatch + 2)..p : S[j] \notin Matching
          BY <1>3, <2>3, <4>3 DEF Seen
        <5>2. r.lastmatch + 1 \in 1..q
          BY <1>1, <2>2, <5>1
        <5>3. \A j \in (r.lastmatch + 2)..q :
                j \in (r.lastmatch + 2)..p \/ j \in (p + 1)..q
          BY <1>1, <2>2, <5>1
        <5> QED
          BY <4>1, <4>3, <5>1, <5>2, <5>3 DEF Seen
      <4> QED
        BY <4>2, <4>3
    <3>6. q \in p..q
      BY <1>1, <2>2
    <3> QED
      BY <3>3, <3>5, <3>6
  <2> QED
    BY <2>2, <2>3 DEF Stands
<1> QED
  BY <1>4, <1>5

---------------------------------------------------------------------------
(* What depends on the memory there is: with room for three states a search  *)
(* fails only because it is slow; and firstbyte is right if the analysis     *)
(* never stops halfway, or if it does no harm when it does.                  *)
OneWayOut ==
  \A k \in Kinds : \A b, c \in Bytes : LeadsOut(k, b) /\ LeadsOut(k, c) => b = c
HarmlessAnalysis == OneWayOut \/ EnoughMemory

Well(r) ==
  /\ Capacity >= 3 => FailsWell(r)
  /\ HarmlessAnalysis => OnlyWayOut(r.kind, r.firstbyte)
GraphWell(g, i) ==
  /\ EnoughMemory => g.budget # -1
  /\ HarmlessAnalysis => InfoRight(i)

DataInv ==
  /\ GraphOK(graph) /\ InfoOK(graph, info) /\ GraphWell(graph, info)
  /\ \A t \in Threads : Knows(th[t]) /\ InCache(th[t], graph) /\ Well(th[t])

LEMMA OneWayIsRight ==
  ASSUME NEW g, NEW i, InfoOK(g, i), OneWayOut
  PROVE  InfoRight(i)
BY DEF InfoOK, OneWayOut, InfoRight, OnlyWayOut

LEMMA AnalysisWell ==
  ASSUME NEW g, NEW i, NEW k \in Kinds, GraphOK(g), InfoOK(g, i), GraphWell(g, i)
  PROVE  GraphWell(Analysis(g, i, k).g, Analysis(g, i, k).info)
<1> DEFINE a == Analysis(g, i, k)
<1>1. InfoOK(a.g, a.info)
  BY AnalysisAdds
<1>2. EnoughMemory => a.g.budget # -1 /\ InfoRight(a.info)
  BY AnalysisEnough DEF GraphWell, HarmlessAnalysis
<1> HIDE DEF a
<1>3. OneWayOut => InfoRight(a.info)
  BY <1>1, OneWayIsRight
<1> QED
  BY <1>2, <1>3 DEF GraphWell, HarmlessAnalysis, a

LEMMA NoInfoWell == InfoRight(NoInfo)
<1>1. \A k \in Kinds : NoInfo[k].firstbyte = FbUnknown
  BY NoInfoOK
<1>2. FbUnknown \notin Bytes
  BY DEF Bytes, FbUnknown
<1> QED
  BY <1>1, <1>2 DEF InfoRight, OnlyWayOut

(* What does not depend on where the search is.                              *)
SameData(r, q) == \A f \in Fields \ {"pc", "resetp", "dangling"} : q[f] = r[f]

LEMMA SameDataKnows ==
  ASSUME NEW r, NEW q, SameData(r, q)
  PROVE  /\ Takes(r) => Takes(q)
         /\ TakesEnd(r) => TakesEnd(q)
         /\ Between(r) => Between(q)
         /\ Chooses(r) => Chooses(q)
         /\ Returns(r) => Returns(q)
         /\ Well(r) => Well(q)
         /\ r.start = q.start /\ r.s = q.s /\ r.text = q.text /\ r.p = q.p
<1>1. /\ q.text = r.text /\ q.kind = r.kind /\ q.earliest = r.earliest /\ q.start = r.start
      /\ q.firstbyte = r.firstbyte /\ q.s = r.s /\ q.p = r.p /\ q.lastmatch = r.lastmatch
      /\ q.failed = r.failed
  BY DEF SameData, Fields
<1>2. /\ Asked(r) => Asked(q)
      /\ InStates(r) => InStates(q)
      /\ \A i : Stands(r, i) => Stands(q, i)
  BY <1>1 DEF Asked, InStates, Stands
<1> QED
  BY <1>1, <1>2 DEF Takes, TakesEnd, Between, Chooses, Returns, Well, FailsWell

(* Where a search goes, what it was asked and how it failed stay the same.   *)
LEMMA HelpersKeep ==
  ASSUME NEW r, IsSearch(r)
  PROVE  /\ \A ns : Well(r) => Well(Advance(r, ns)) /\ Well(Finish(r, ns))
         /\ Well(r) /\ BailWhenSlow => Well(Fail(r, "slow"))
         /\ Well(r) /\ ~(Capacity >= 3) => Well(Fail(r, "dfatal"))
<1>1. DOMAIN r = Fields
  BY DEF IsSearch
<1> DEFINE Keeps(q) == q.kind = r.kind /\ q.firstbyte = r.firstbyte /\ q.failed = r.failed
<1>2. ASSUME NEW z, IsSearch(z)
      PROVE  /\ DOMAIN Return(z) = Fields /\ Return(z).kind = z.kind
             /\ Return(z).firstbyte = z.firstbyte /\ Return(z).failed = z.failed
  <2>1. \A f \in Fields \ {"pc", "start", "s"} : Return(z)[f] = z[f]
    BY <1>2, ReturnIs
  <2>2. DOMAIN Return(z) = Fields
    BY <1>2, ReturnIs DEF IsSearch
  <2> QED
    BY <2>1, <2>2 DEF Fields
<1>3. Keeps(Return(r)) /\ DOMAIN Return(r) = Fields
  BY <1>2
<1>4. ASSUME NEW ns
      PROVE  Keeps(Advance(r, ns)) /\ Keeps(Finish(r, ns))
  <2> DEFINE q == [r EXCEPT !.pc = "run", !.s = ns,
                            !.lastmatch = IF ns \in Matching THEN r.p - 1 ELSE @]
             d == [r EXCEPT !.lastmatch =
                     IF ns = Full \/ ns \in Matching THEN Len(r.text) ELSE @]
             f == [Return(r) EXCEPT !.lastmatch = Len(r.text)]
  <2>1. IsSearch(q) /\ Keeps(q) /\ IsSearch(d) /\ Keeps(d)
    BY <1>1 DEF IsSearch, Fields
  <2>2. Keeps(f)
    BY <1>3 DEF Fields
  <2>3. Advance(r, ns) \in {Return(r), f, Return(q), q} /\ Finish(r, ns) = Return(d)
    BY DEF Advance, Finish
  <2> HIDE DEF q, d, f
  <2>4. Keeps(Return(q)) /\ Keeps(Return(d))
    BY <2>1, <1>2
  <2> QED
    BY <1>3, <2>1, <2>2, <2>3, <2>4
<1>5. ASSUME NEW why
      PROVE  /\ Fail(r, why).kind = r.kind /\ Fail(r, why).firstbyte = r.firstbyte
             /\ Fail(r, why).failed = why
  BY <1>3 DEF Fail, Fields
<1> QED
  BY <1>4, <1>5 DEF Well, FailsWell

(* A step of one search that only adds to the graph.                         *)
LEMMA DataGoesOn ==
  ASSUME DataInv, NEW t \in Threads, NEW q,
         th' = [u \in Threads |-> IF u = t THEN q ELSE th[u]],
         Extends(graph, graph'), InfoOK(graph', info'), GraphWell(graph', info'),
         Whole(q, graph'), Well(q)
  PROVE  DataInv'
<1>1. ASSUME NEW u \in Threads
      PROVE  Knows(th'[u]) /\ InCache(th'[u], graph') /\ Well(th'[u])
  <2>1. CASE u = t
    BY <2>1 DEF Whole
  <2>2. CASE u # t
    <3>1. th'[u] = th[u]
      BY <2>2
    <3> QED
      BY <3>1 DEF DataInv, InCache, Extends
  <2> QED
    BY <2>1, <2>2
<1> QED
  BY <1>1 DEF DataInv, Extends

(* A reset, by the only search that has any state.                           *)
LEMMA DataAfterReset ==
  ASSUME DfInv, DataInv, NEW t \in Threads, NEW q, NEW pc, NEW resetting,
         Locked(t, pc, resetting), Emptied(t, q),
         GraphOK(graph'), InfoOK(graph', info'), GraphWell(graph', info'),
         Whole(q, graph'), Well(q)
  PROVE  DataInv'
<1>1. readers = {} /\ writer \in {t, NoThread}
  BY DfaAssumption DEF Locked, DfInv, LocksInv
<1>2. ASSUME NEW u \in Threads
      PROVE  Knows(th'[u]) /\ InCache(th'[u], graph') /\ Well(th'[u])
  <2>1. CASE u = t
    BY <2>1 DEF Whole, Emptied
  <2>2. CASE u # t
    <3> DEFINE d == [th[u] EXCEPT !.dangling = HasState(th[u])]
    <3>1. th'[u] = d
      BY <2>2 DEF Emptied
    <3>2. DOMAIN th[u] = Fields
      BY DEF DfInv, SearchInv, IsSearch
    <3>3. SameData(th[u], d) /\ d.pc = th[u].pc
      BY <3>2 DEF SameData, Fields
    <3>4. th[u].pc \notin Inside
      BY <2>2, <1>1, DfaAssumption DEF DfInv, SearchInv
    <3> HIDE DEF d
    <3>5. Knows(th[u]) /\ Well(th[u])
      BY DEF DataInv
    <3>6. Knows(d) /\ Well(d)
      BY <3>3, <3>5, SameDataKnows DEF Knows
    <3>7. InCache(d, graph')
      BY <3>3, <3>4 DEF InCache, Loop, OnByte, AtEnd, Inside, Upgrading, Resetting
    <3> QED
      BY <3>1, <3>6, <3>7
  <2> QED
    BY <2>1, <2>2
<1> QED
  BY <1>2 DEF DataInv

---------------------------------------------------------------------------
LEMMA InitDataInv == DfaInit => DataInv
<1> SUFFICES ASSUME DfaInit
             PROVE  DataInv
  OBVIOUS
<1>1. GraphOK(graph) /\ graph.budget = Capacity /\ InfoOK(graph, info)
  BY EmptyGraphOK, NoInfoOK DEF DfaInit
<1>2. GraphWell(graph, info)
  BY <1>1, NoInfoWell, DfaAssumption DEF GraphWell, DfaInit
<1>3. /\ Idle.text = <<>> /\ Idle.p = 0 /\ Idle.failed = "no" /\ Idle.firstbyte = FbUnknown
      /\ Idle.pc = "idle" /\ Idle.s = Null
  BY DEF Idle
<1>4. Well(Idle)
  BY <1>3 DEF Well, FailsWell, OnlyWayOut, Bytes, FbUnknown
<1>5. Knows(Idle) /\ InCache(Idle, graph)
  BY <1>3 DEF Knows, InCache, Loop, OnByte, AtEnd, Choosing
<1> QED
  BY <1>1, <1>2, <1>4, <1>5 DEF DataInv, DfaInit

LEMMA SearchData ==
  ASSUME DfInv, DataInv, NEW t \in Threads, Search(t)
  PROVE  DataInv'
<1>1. PICK x \in Texts, k \in Kinds, e \in BOOLEAN, f \in BOOLEAN :
        Set(t, [Idle EXCEPT !.pc = "analyze", !.text = x, !.kind = k, !.earliest = e,
                            !.forward = f])
  BY DEF Search
<1> DEFINE q == [Idle EXCEPT !.pc = "analyze", !.text = x, !.kind = k,
                             !.earliest = e, !.forward = f]
<1>2. /\ q.pc = "analyze" /\ q.text = x /\ q.kind = k /\ q.earliest = e
      /\ q.s = Null /\ q.p = 0 /\ q.lastmatch = -1 /\ q.firstbyte = FbUnknown
      /\ q.failed = "no" /\ IsSearch(q)
  <2>1. q = [f_ \in Fields |-> CASE f_ = "pc" -> "analyze" [] f_ = "text" -> x
                                 [] f_ = "kind" -> k [] f_ = "earliest" -> e
                                 [] f_ = "forward" -> f [] OTHER -> Idle[f_]]
    BY IdleIsSearch DEF Fields
  <2>2. /\ Idle.s = Null /\ Idle.p = 0 /\ Idle.lastmatch = -1
        /\ Idle.firstbyte = FbUnknown /\ Idle.failed = "no"
    BY DEF Idle
  <2> HIDE DEF q
  <2>3. /\ q.pc = "analyze" /\ q.text = x /\ q.kind = k /\ q.earliest = e
        /\ q.s = Idle.s /\ q.p = Idle.p /\ q.lastmatch = Idle.lastmatch
        /\ q.firstbyte = Idle.firstbyte /\ q.failed = Idle.failed
    BY <2>1 DEF Fields
  <2>4. IsSearch(q)
    BY <2>1 DEF IsSearch
  <2> QED
    BY <2>2, <2>3, <2>4
<1>3. th' = [u \in Threads |-> IF u = t THEN q ELSE th[u]]
  BY <1>1 DEF Set, DfInv
<1> HIDE DEF q
<1>4. Chooses(q)
  BY <1>2 DEF Chooses, Asked
<1>5. Well(q)
  BY <1>2 DEF Well, FailsWell, OnlyWayOut, Bytes, FbUnknown
<1>6. Whole(q, graph')
  BY <1>2, <1>4 DEF Whole, Knows, InCache, Loop, OnByte, AtEnd, Choosing
<1>7. Extends(graph, graph') /\ InfoOK(graph', info') /\ GraphWell(graph', info')
  BY DEF Search, DataInv, Extends
<1> QED
  BY <1>3, <1>5, <1>6, <1>7, DataGoesOn

(* The analysis, in the graph as it is and in an empty one.                  *)
LEMMA StartsWell ==
  ASSUME NEW r, NEW g, NEW i, IsSearch(r), Chooses(r), Well(r), InfoOK(g, i),
         GraphWell(g, i), i[r.kind].firstbyte # FbUnknown
  PROVE  Whole(Started(r, i), g) /\ Well(Started(r, i))
<1> DEFINE q == Started(r, i)
<1>1. /\ Whole(q, g) /\ q.failed = r.failed /\ q.kind = r.kind
      /\ q.firstbyte \in {FbUnknown, i[r.kind].firstbyte}
  BY StartedWhole
<1> HIDE DEF q
<1>2. r.kind \in Kinds
  BY DEF Chooses, Asked
<1>3. HarmlessAnalysis => OnlyWayOut(q.kind, q.firstbyte)
  <2>1. CASE q.firstbyte = FbUnknown
    BY <2>1 DEF OnlyWayOut, Bytes, FbUnknown
  <2>2. CASE q.firstbyte = i[r.kind].firstbyte
    BY <1>1, <1>2, <2>2 DEF GraphWell, InfoRight
  <2> QED
    BY <1>1, <2>1, <2>2
<1> QED
  BY <1>1, <1>3 DEF Well, FailsWell, q

LEMMA AnalyzeData ==
  ASSUME DfInv, DataInv, NEW t \in Threads, Analyze(t)
  PROVE  DataInv'
<1> DEFINE r == th[t]
           a == Analysis(graph, info, r.kind)
<1>1. IsSearch(r) /\ DOMAIN r = Fields /\ Chooses(r) /\ Well(r) /\ r.kind \in Kinds
  BY DEF Analyze, DfInv, SearchInv, IsSearch, DataInv, Knows, Choosing, Chooses, Asked
<1>2. GraphOK(graph) /\ InfoOK(graph, info) /\ GraphWell(graph, info)
  BY DEF DataInv
<1>3. /\ Extends(graph, a.g) /\ InfoOK(a.g, a.info) /\ GraphWell(a.g, a.info)
      /\ a.ok \in BOOLEAN /\ a.ok => a.info[r.kind].firstbyte # FbUnknown
  BY <1>1, <1>2, AnalysisAdds, AnalysisWell
<1>4. /\ graph' = a.g /\ info' = a.info
      /\ Set(t, IF a.ok THEN Started(r, a.info) ELSE [r EXCEPT !.pc = "upgrade"])
  BY DEF Analyze
<1> HIDE DEF a, r
<1>5. PICK q : /\ th' = [u \in Threads |-> IF u = t THEN q ELSE th[u]]
               /\ Whole(q, a.g) /\ Well(q)
  <2>1. CASE a.ok
    <3>1. Whole(Started(r, a.info), a.g) /\ Well(Started(r, a.info))
      BY <1>1, <1>3, <2>1, StartsWell
    <3>2. th' = [u \in Threads |-> IF u = t THEN Started(r, a.info) ELSE th[u]]
      BY <1>4, <2>1 DEF Set, DfInv
    <3> QED
      BY <3>1, <3>2
  <2>2. CASE ~a.ok
    <3> DEFINE q == [r EXCEPT !.pc = "upgrade"]
    <3>1. IsSearch(q) /\ q.pc = "upgrade" /\ SameData(r, q)
      BY <1>1 DEF IsSearch, SameData, Fields
    <3>2. th' = [u \in Threads |-> IF u = t THEN q ELSE th[u]]
      BY <1>4, <2>2 DEF Set, DfInv
    <3> HIDE DEF q
    <3>3. Chooses(q) /\ Well(q)
      BY <1>1, <3>1, SameDataKnows
    <3>4. Whole(q, a.g)
      BY <3>1, <3>3 DEF Whole, Knows, InCache, Loop, OnByte, AtEnd, Choosing
    <3> QED
      BY <3>2, <3>3, <3>4
  <2> QED
    BY <2>1, <2>2
<1> QED
  BY <1>3, <1>4, <1>5, DataGoesOn

(* Nothing happens to the graph, and one search goes on.                     *)
LEMMA DataOnlySearch ==
  ASSUME DfInv, DataInv, NEW t \in Threads, NEW q, Set(t, q),
         UNCHANGED <<graph, info>>, Whole(q, graph), Well(q)
  PROVE  DataInv'
<1>1. th' = [u \in Threads |-> IF u = t THEN q ELSE th[u]]
  BY DEF Set, DfInv
<1>2. Extends(graph, graph') /\ InfoOK(graph', info') /\ GraphWell(graph', info')
  BY DEF DataInv, Extends
<1> QED
  BY <1>1, <1>2, DataGoesOn

LEMMA ReadByteData ==
  ASSUME DfInv, DataInv, NEW t \in Threads, ReadByte(t)
  PROVE  DataInv'
<1> DEFINE r0 == th[t]
           k == Skipped(r0)
           r == [r0 EXCEPT !.p = k + 1]
           c == r0.text[k + 1]
           ns == graph.next[r.s][c]
<1>1. /\ IsSearch(r0) /\ DOMAIN r0 = Fields /\ Between(r0) /\ Well(r0) /\ r0.pc = "run"
      /\ {r0.start, r0.s} \subseteq graph.cache
  BY DEF ReadByte, DfInv, SearchInv, IsSearch, DataInv, Knows, InCache, Loop, Resetting
<1>2. /\ k < Len(r0.text) /\ UNCHANGED <<graph, info>>
      /\ Set(t, IF ns = Null THEN [r EXCEPT !.pc = "compute"] ELSE Advance(r, ns))
  BY DEF ReadByte
<1>3. k \in r0.p..Len(r0.text) /\ Stands(r0, k)
  BY <1>1, SkippedIs
<1>4. /\ Asked(r0) /\ InStates(r0) /\ Len(r0.text) \in Nat /\ r0.p \in 0..Len(r0.text)
      /\ \A i \in 1..Len(r0.text) : r0.text[i] \in Symbols
  BY <1>1, TextIs DEF Between
<1>5. k + 1 \in 1..Len(r0.text) /\ (k + 1) - 1 = k
  <2> HIDE DEF k, r0
  <2> QED
    BY <1>2, <1>3, <1>4
<1>6. /\ IsSearch(r) /\ DOMAIN r = Fields /\ r.p = k + 1 /\ r.pc = "run" /\ r.s = r0.s
      /\ r.start = r0.start /\ r.text = r0.text /\ r.kind = r0.kind
      /\ r.earliest = r0.earliest /\ r.firstbyte = r0.firstbyte
      /\ r.lastmatch = r0.lastmatch /\ r.failed = r0.failed
  BY <1>1 DEF IsSearch, Fields
<1> HIDE DEF r, k, r0
<1>7. Takes(r) /\ Well(r)
  <2>1. Stands(r, r.p - 1)
    BY <1>3, <1>5, <1>6 DEF Stands
  <2>2. Asked(r) /\ InStates(r) /\ r.p \in 1..Len(r.text)
    BY <1>4, <1>5, <1>6 DEF Asked, InStates
  <2> QED
    BY <1>1, <1>6, <2>1, <2>2 DEF Takes, Well, FailsWell
<1>8. c \in Symbols /\ r.s \in DStates /\ c = r.text[r.p]
  BY <1>4, <1>5, <1>6 DEF InStates
<1>9. CASE ns = Null
  <2> DEFINE q == [r EXCEPT !.pc = "compute"]
  <2>1. IsSearch(q) /\ q.pc = "compute" /\ SameData(r, q)
    BY <1>6 DEF IsSearch, SameData, Fields
  <2>2. Set(t, q)
    BY <1>2, <1>9
  <2> HIDE DEF q
  <2>3. Takes(q) /\ Well(q) /\ q.start = r.start /\ q.s = r.s
    BY <1>7, <2>1, SameDataKnows
  <2>4. Whole(q, graph)
    BY <1>1, <1>6, <2>1, <2>3 DEF Whole, Knows, InCache, Loop, OnByte, AtEnd, Choosing
  <2> QED
    BY <1>2, <2>2, <2>3, <2>4, DataOnlySearch
<1>10. CASE ns # Null
  <2>1. ns = Delta[r.s][r.text[r.p]] /\ Has(graph, ns)
    BY <1>8, <1>10 DEF DataInv, GraphOK
  <2>2. Set(t, Advance(r, ns))
    BY <1>2, <1>10
  <2>3. Whole(Advance(r, ns), graph)
    BY <1>1, <1>6, <1>7, <2>1, AdvanceWhole
  <2>4. Well(Advance(r, ns))
    BY <1>6, <1>7, HelpersKeep
  <2> QED
    BY <1>2, <2>2, <2>3, <2>4, DataOnlySearch
<1> QED
  BY <1>9, <1>10

LEMMA ReadEndData ==
  ASSUME DfInv, DataInv, NEW t \in Threads, ReadEnd(t)
  PROVE  DataInv'
<1> DEFINE r0 == th[t]
           n == Len(r0.text)
           r == [r0 EXCEPT !.p = n]
           ns == graph.next[r.s][LastByte[r.text]]
<1>1. /\ IsSearch(r0) /\ DOMAIN r0 = Fields /\ Between(r0) /\ Well(r0) /\ r0.pc = "run"
      /\ {r0.start, r0.s} \subseteq graph.cache
  BY DEF ReadEnd, DfInv, SearchInv, IsSearch, DataInv, Knows, InCache, Loop, Resetting
<1>2. /\ Skipped(r0) = n /\ UNCHANGED <<graph, info>>
      /\ Set(t, IF ns = Null THEN [r EXCEPT !.pc = "compute end"] ELSE Finish(r, ns))
  BY DEF ReadEnd
<1>3. Stands(r0, n) /\ Asked(r0) /\ InStates(r0) /\ LastByte[r0.text] \in Symbols
  BY <1>1, <1>2, SkippedIs, TextIs DEF Between
<1>4. /\ IsSearch(r) /\ DOMAIN r = Fields /\ r.p = n /\ r.pc = "run" /\ r.s = r0.s
      /\ r.start = r0.start /\ r.text = r0.text /\ r.kind = r0.kind
      /\ r.earliest = r0.earliest /\ r.firstbyte = r0.firstbyte
      /\ r.lastmatch = r0.lastmatch /\ r.failed = r0.failed
  BY <1>1 DEF IsSearch, Fields
<1> HIDE DEF r, r0
<1>5. TakesEnd(r) /\ Well(r)
  <2>1. Stands(r, r.p)
    BY <1>3, <1>4 DEF Stands
  <2>2. Asked(r) /\ InStates(r) /\ r.p = Len(r.text)
    BY <1>3, <1>4 DEF Asked, InStates
  <2> QED
    BY <1>1, <1>4, <2>1, <2>2 DEF TakesEnd, Well, FailsWell
<1>6. CASE ns = Null
  <2> DEFINE q == [r EXCEPT !.pc = "compute end"]
  <2>1. IsSearch(q) /\ q.pc = "compute end" /\ SameData(r, q)
    BY <1>4 DEF IsSearch, SameData, Fields
  <2>2. Set(t, q)
    BY <1>2, <1>6
  <2> HIDE DEF q
  <2>3. TakesEnd(q) /\ Well(q) /\ q.start = r.start /\ q.s = r.s
    BY <1>5, <2>1, SameDataKnows
  <2>4. Whole(q, graph)
    BY <1>1, <1>4, <2>1, <2>3 DEF Whole, Knows, InCache, Loop, OnByte, AtEnd, Choosing
  <2> QED
    BY <1>2, <2>2, <2>3, <2>4, DataOnlySearch
<1>7. CASE ns # Null
  <2>1. ns = Delta[r.s][LastByte[r.text]]
    BY <1>3, <1>4, <1>7 DEF DataInv, GraphOK, InStates
  <2>2. Set(t, Finish(r, ns))
    BY <1>2, <1>7
  <2>3. Whole(Finish(r, ns), graph)
    BY <1>4, <1>5, <2>1, FinishWhole
  <2>4. Well(Finish(r, ns))
    BY <1>4, <1>5, HelpersKeep
  <2> QED
    BY <1>2, <2>2, <2>3, <2>4, DataOnlySearch
<1> QED
  BY <1>6, <1>7

(* Whichever byte it was, the search goes on with the state it leads to.     *)
LEMMA OnwardWhole ==
  ASSUME NEW r, NEW g, IsSearch(r), Well(r),
         \/ r.pc = "compute" /\ Takes(r) /\ r.start \in g.cache
         \/ r.pc = "compute end" /\ TakesEnd(r),
         NEW ns, ns = Delta[r.s][ByteAt(r)], Has(g, ns)
  PROVE  Whole(Onward(r, ns), g) /\ Well(Onward(r, ns))
<1>1. CASE r.pc = "compute" /\ Takes(r) /\ r.start \in g.cache
  <2>1. ns = Delta[r.s][r.text[r.p]] /\ Onward(r, ns) = Advance(r, ns)
    BY <1>1 DEF ByteAt, Onward
  <2> QED
    BY <1>1, <2>1, AdvanceWhole, HelpersKeep
<1>2. CASE r.pc = "compute end" /\ TakesEnd(r)
  <2>1. ns = Delta[r.s][LastByte[r.text]] /\ Onward(r, ns) = Finish(r, ns)
    BY <1>2 DEF ByteAt, Onward
  <2> QED
    BY <1>2, <2>1, FinishWhole, HelpersKeep
<1> QED
  BY <1>1, <1>2

LEMMA TakesAsked ==
  ASSUME NEW r, Takes(r) \/ TakesEnd(r)
  PROVE  Asked(r) /\ r.p \in 0..Len(r.text) /\ InStates(r)
<1>1. Asked(r) /\ InStates(r)
  BY DEF Takes, TakesEnd
<1>2. Len(r.text) \in Nat
  BY <1>1, TextIs
<1> QED
  BY <1>1, <1>2 DEF Takes, TakesEnd

LEMMA ByteAtIs ==
  ASSUME NEW r, \/ r.pc = "compute" /\ Takes(r)
                \/ r.pc = "compute end" /\ TakesEnd(r)
  PROVE  ByteAt(r) \in Symbols /\ r.s \in DStates
<1>1. Asked(r) /\ InStates(r)
  BY TakesAsked
<1> QED
  BY <1>1, TextIs DEF ByteAt, Takes, InStates

LEMMA ComputeData ==
  ASSUME DfInv, DataInv, NEW t \in Threads, Compute(t)
  PROVE  DataInv'
<1> DEFINE r == th[t]
           g == RunStateOnByte(graph, r.s, ByteAt(r))
           ns == g.next[r.s][ByteAt(r)]
           q1 == [r EXCEPT !.pc = "upgrade byte", !.resetp = r.p]
           q2 == [r EXCEPT !.pc = "upgrade end"]
<1>1. /\ IsSearch(r) /\ DOMAIN r = Fields /\ Well(r)
      /\ \/ r.pc = "compute" /\ Takes(r)
         \/ r.pc = "compute end" /\ TakesEnd(r)
      /\ {r.start, r.s} \subseteq graph.cache
  BY DEF Compute, DfInv, SearchInv, IsSearch, DataInv, Knows, InCache, Loop, OnByte, AtEnd,
         Resetting
<1>2. /\ graph' = g /\ info' = info
      /\ Set(t, IF ns # Null THEN Onward(r, ns)
                ELSE IF TooSlow(r) THEN Fail(r, "slow")
                ELSE IF r.pc = "compute" THEN q1 ELSE q2)
  BY DEF Compute
<1>3. ByteAt(r) \in Symbols /\ r.s \in DStates
  BY <1>1, ByteAtIs
<1>4. /\ GraphOK(graph) /\ Extends(graph, g)
      /\ EnoughMemory => g.budget # -1
  BY <1>1, <1>3, RunStateAdds, RunStateEnough DEF DataInv, GraphWell
<1>5. ns # Null => ns = Delta[r.s][ByteAt(r)] /\ Has(g, ns)
  <2> HIDE DEF g
  <2> QED
    BY <1>3, <1>4 DEF Extends, GraphOK
<1>6. {r.start, r.s} \subseteq g.cache
  BY <1>1, <1>4 DEF Extends
<1>7. InfoOK(graph', info') /\ GraphWell(graph', info')
  BY <1>2, <1>4, InfoStays DEF DataInv, GraphWell
<1> HIDE DEF g, r
<1>8. PICK q : Set(t, q) /\ Whole(q, g) /\ Well(q)
  <2>1. CASE ns # Null
    <3>1. Whole(Onward(r, ns), g) /\ Well(Onward(r, ns))
      BY <1>1, <1>5, <1>6, <2>1, OnwardWhole
    <3> QED
      BY <1>2, <2>1, <3>1
  <2>2. CASE ns = Null /\ TooSlow(r)
    <3>1. BailWhenSlow
      BY <2>2 DEF TooSlow
    <3>2. Whole(Fail(r, "slow"), g) /\ Well(Fail(r, "slow"))
      BY <1>1, <3>1, TakesAsked, FailsWhole, HelpersKeep
    <3> QED
      BY <1>2, <2>2, <3>2
  <2>3. CASE ns = Null /\ ~TooSlow(r) /\ r.pc = "compute"
    <3>1. IsSearch(q1) /\ q1.pc = "upgrade byte" /\ SameData(r, q1)
      BY <1>1 DEF IsSearch, SameData, Fields
    <3>2. Set(t, q1)
      BY <1>2, <2>3
    <3> HIDE DEF q1
    <3>3. Takes(q1) /\ Well(q1) /\ q1.start = r.start /\ q1.s = r.s
      BY <1>1, <2>3, <3>1, SameDataKnows
    <3>4. Whole(q1, g)
      BY <1>6, <3>1, <3>3 DEF Whole, Knows, InCache, Loop, OnByte, AtEnd, Choosing
    <3> QED
      BY <3>2, <3>3, <3>4
  <2>4. CASE ns = Null /\ ~TooSlow(r) /\ r.pc # "compute"
    <3>1. IsSearch(q2) /\ q2.pc = "upgrade end" /\ SameData(r, q2)
      BY <1>1 DEF IsSearch, SameData, Fields
    <3>2. Set(t, q2)
      BY <1>2, <2>4
    <3> HIDE DEF q2
    <3>3. TakesEnd(q2) /\ Well(q2) /\ q2.start = r.start /\ q2.s = r.s
      BY <1>1, <2>4, <3>1, SameDataKnows
    <3>4. Whole(q2, g)
      BY <1>6, <3>1, <3>3 DEF Whole, Knows, InCache, Loop, OnByte, AtEnd, Choosing
    <3> QED
      BY <3>2, <3>3, <3>4
  <2> QED
    BY <2>1, <2>2, <2>3, <2>4
<1>9. th' = [u \in Threads |-> IF u = t THEN q ELSE th[u]]
  BY <1>8 DEF Set, DfInv
<1> QED
  BY <1>2, <1>4, <1>7, <1>8, <1>9, DataGoesOn

LEMMA GiveUpReadingData ==
  ASSUME DfInv, DataInv, NEW t \in Threads, GiveUpReading(t)
  PROVE  DataInv'
<1> DEFINE r == th[t]
           q == [r EXCEPT !.pc = ResetFor(r.pc)]
<1>1. IsSearch(r) /\ DOMAIN r = Fields /\ Well(r) /\ Knows(r) /\ r.pc \in Upgrading
  BY DEF GiveUpReading, DfInv, SearchInv, IsSearch, DataInv
<1>2. Set(t, q) /\ UNCHANGED <<graph, info>>
  BY DEF GiveUpReading
<1>3. IsSearch(q) /\ q.pc = ResetFor(r.pc) /\ SameData(r, q)
  BY <1>1 DEF IsSearch, SameData, Fields
<1> HIDE DEF q, r
<1>4. Well(q)
  BY <1>1, <1>3, SameDataKnows
<1>5. CASE r.pc = "upgrade"
  <2>1. q.pc = "reset" /\ Chooses(q)
    BY <1>1, <1>3, <1>5, SameDataKnows DEF ResetFor, Knows, Choosing
  <2> QED
    BY <1>2, <1>3, <1>4, <2>1, DataOnlySearch
       DEF Whole, Knows, InCache, Loop, OnByte, AtEnd, Choosing
<1>6. CASE r.pc = "upgrade byte"
  <2>1. q.pc = "reset byte" /\ Takes(q)
    BY <1>1, <1>3, <1>6, SameDataKnows DEF ResetFor, Knows, OnByte
  <2> QED
    BY <1>2, <1>3, <1>4, <2>1, DataOnlySearch
       DEF Whole, Knows, InCache, Loop, OnByte, AtEnd, Choosing, Resetting
<1>7. CASE r.pc = "upgrade end"
  <2>1. q.pc = "reset end" /\ TakesEnd(q)
    BY <1>1, <1>3, <1>7, SameDataKnows DEF ResetFor, Knows, AtEnd
  <2> QED
    BY <1>2, <1>3, <1>4, <2>1, DataOnlySearch
       DEF Whole, Knows, InCache, Loop, OnByte, AtEnd, Choosing, Resetting
<1> QED
  BY <1>1, <1>5, <1>6, <1>7 DEF Upgrading

LEMMA SearchReturnsData ==
  ASSUME DfInv, DataInv, NEW t \in Threads, SearchReturns(t)
  PROVE  DataInv'
<1>1. /\ Idle.text = <<>> /\ Idle.p = 0 /\ Idle.failed = "no" /\ Idle.firstbyte = FbUnknown
      /\ Idle.pc = "idle" /\ Idle.s = Null
  BY DEF Idle
<1>2. Well(Idle)
  BY <1>1 DEF Well, FailsWell, OnlyWayOut, Bytes, FbUnknown
<1>3. Whole(Idle, graph)
  BY <1>1, IdleIsSearch DEF Whole, Knows, InCache, Loop, OnByte, AtEnd, Choosing
<1> QED
  BY <1>2, <1>3, DataOnlySearch DEF SearchReturns

LEMMA ResetAndAnalyzeData ==
  ASSUME DfInv, DataInv, NEW t \in Threads, ResetAndAnalyze(t)
  PROVE  DataInv'
<1> DEFINE r == th[t]
           a == Analysis(EmptyGraph, NoInfo, r.kind)
           q == IF a.ok THEN Started(r, a.info) ELSE Fail(r, "dfatal")
<1>1. IsSearch(r) /\ Well(r) /\ Chooses(r) /\ Asked(r) /\ r.kind \in Kinds
  BY DEF ResetAndAnalyze, Locked, DfInv, SearchInv, DataInv, Knows, Choosing, Chooses, Asked
<1>2. /\ Locked(t, "upgrade", "reset") /\ graph' = a.g /\ info' = a.info /\ Emptied(t, q)
  BY DEF ResetAndAnalyze
<1>3. /\ GraphOK(EmptyGraph) /\ EmptyGraph.budget = Capacity /\ InfoOK(EmptyGraph, NoInfo)
      /\ GraphWell(EmptyGraph, NoInfo)
  BY EmptyGraphOK, NoInfoOK, NoInfoWell, DfaAssumption DEF GraphWell
<1>4. /\ GraphOK(a.g) /\ InfoOK(a.g, a.info) /\ GraphWell(a.g, a.info)
      /\ a.ok \in BOOLEAN /\ a.ok => a.info[r.kind].firstbyte # FbUnknown
      /\ Capacity >= 3 => a.ok
  BY <1>1, <1>3, AnalysisAdds, AnalysisWell DEF Extends
<1>5. r.p \in 0..Len(r.text)
  BY <1>1, TextIs DEF Chooses
<1> HIDE DEF a, r
<1>6. Whole(q, a.g) /\ Well(q)
  <2>1. CASE a.ok
    BY <1>1, <1>4, <2>1, StartsWell
  <2>2. CASE ~a.ok
    BY <1>1, <1>4, <1>5, <2>2, FailsWhole, HelpersKeep
  <2> QED
    BY <2>1, <2>2
<1> HIDE DEF q
<1> QED
  BY <1>2, <1>4, <1>6, DataAfterReset

(* What a reset in the loop does with the states it has restored.            *)
LEMMA ResumesWhole ==
  ASSUME NEW r, NEW g, IsSearch(r), Well(r),
         \/ r.pc = "compute" /\ Takes(r) /\ Resumes(g, {r.start, r.s}, r.s, ByteAt(r))
         \/ r.pc = "compute end" /\ TakesEnd(r) /\ Resumes(g, {r.s}, r.s, ByteAt(r))
  PROVE  LET ns == g.next[r.s][ByteAt(r)]
             q == IF ns = Null THEN Fail(r, "dfatal") ELSE Onward(r, ns)
         IN Whole(q, g) /\ Well(q)
<1> DEFINE ns == g.next[r.s][ByteAt(r)]
<1>1. ByteAt(r) \in Symbols /\ r.s \in DStates /\ Asked(r) /\ r.p \in 0..Len(r.text)
  BY ByteAtIs, TakesAsked
<1>2. GraphOK(g) /\ (Capacity >= 3 => ns # Null)
  BY DEF Resumes
<1>3. CASE ns = Null
  BY <1>1, <1>2, <1>3, FailsWhole, HelpersKeep
<1>4. CASE ns # Null
  <2>1. ns = Delta[r.s][ByteAt(r)] /\ Has(g, ns)
    BY <1>1, <1>2, <1>4 DEF GraphOK
  <2>2. \/ r.pc = "compute" /\ Takes(r) /\ r.start \in g.cache
        \/ r.pc = "compute end" /\ TakesEnd(r)
    BY <1>4 DEF Resumes
  <2>3. Whole(Onward(r, ns), g) /\ Well(Onward(r, ns))
    BY <2>1, <2>2, OnwardWhole
  <2> QED
    BY <1>4, <2>3
<1> QED
  BY <1>3, <1>4

LEMMA ResetInLoopData ==
  ASSUME DfInv, DataInv, NEW t \in Threads, ResetInLoop(t)
  PROVE  DataInv'
<1> DEFINE b == th[t]
           r == [b EXCEPT !.pc = "compute"]
           g == Restored(r.start, r.s, ByteAt(r))
           ns == g.next[r.s][ByteAt(r)]
           q == IF ns = Null THEN Fail(r, "dfatal") ELSE Onward(r, ns)
<1>1. IsSearch(b) /\ DOMAIN b = Fields /\ Well(b) /\ Takes(b)
  BY DEF ResetInLoop, Locked, DfInv, SearchInv, IsSearch, DataInv, Knows, OnByte
<1>2. /\ Locked(t, "upgrade byte", "reset byte") /\ graph' = g /\ info' = NoInfo
      /\ Emptied(t, q)
  BY DEF ResetInLoop, Restored
<1>3. IsSearch(r) /\ r.pc = "compute" /\ SameData(b, r)
  BY <1>1 DEF IsSearch, SameData, Fields
<1> HIDE DEF r, b
<1>4. Takes(r) /\ Well(r)
  BY <1>1, <1>3, SameDataKnows
<1>5. ByteAt(r) \in Symbols /\ r.start \in DStates /\ r.s \in DStates
  BY <1>3, <1>4, ByteAtIs, TakesAsked DEF InStates
<1>6. Resumes(g, {r.start, r.s}, r.s, ByteAt(r))
  BY <1>5, RestoredResumes
<1> HIDE DEF g
<1>7. Whole(q, g) /\ Well(q)
  BY <1>3, <1>4, <1>6, ResumesWhole
<1>8. GraphOK(graph') /\ InfoOK(graph', info') /\ GraphWell(graph', info')
  BY <1>2, <1>6, NoInfoOK, NoInfoWell DEF Resumes, GraphWell
<1> HIDE DEF q
<1> QED
  BY <1>2, <1>7, <1>8, DataAfterReset

LEMMA ResetAtEndData ==
  ASSUME DfInv, DataInv, NEW t \in Threads, ResetAtEnd(t)
  PROVE  DataInv'
<1> DEFINE b == th[t]
           r == [b EXCEPT !.pc = "compute end"]
           g == RestoredAtEnd(r.s, ByteAt(r))
           ns == g.next[r.s][ByteAt(r)]
           q == IF ns = Null THEN Fail(r, "dfatal") ELSE Onward(r, ns)
<1>1. IsSearch(b) /\ DOMAIN b = Fields /\ Well(b) /\ TakesEnd(b)
  BY DEF ResetAtEnd, Locked, DfInv, SearchInv, IsSearch, DataInv, Knows, AtEnd
<1>2. IsSearch(r) /\ r.pc = "compute end" /\ SameData(b, r)
  BY <1>1 DEF IsSearch, SameData, Fields
<1>3. /\ Locked(t, "upgrade end", "reset end") /\ graph' = g /\ info' = NoInfo
      /\ Emptied(t, q)
  BY DEF ResetAtEnd, RestoredAtEnd
<1> HIDE DEF r, b
<1>4. TakesEnd(r) /\ Well(r)
  BY <1>1, <1>2, SameDataKnows
<1>5. r.s \in DStates /\ ByteAt(r) \in Symbols
  BY <1>2, <1>4, ByteAtIs
<1>6. Resumes(g, {r.s}, r.s, ByteAt(r))
  BY <1>5, RestoredAtEndResumes
<1> HIDE DEF g
<1>7. Whole(q, g) /\ Well(q)
  BY <1>2, <1>4, <1>6, ResumesWhole
<1>8. GraphOK(graph') /\ InfoOK(graph', info') /\ GraphWell(graph', info')
  BY <1>3, <1>6, NoInfoOK, NoInfoWell DEF Resumes, GraphWell
<1> HIDE DEF q
<1> QED
  BY <1>3, <1>7, <1>8, DataAfterReset

LEMMA DataStep ==
  ASSUME DfInv, DataInv, [DfaNext]_dfaVars
  PROVE  DataInv'
<1>1. CASE UNCHANGED dfaVars
  BY <1>1 DEF dfaVars, DataInv
<1>2. ASSUME NEW t \in Threads, Search(t) \/ Step(t)
      PROVE  DataInv'
  BY <1>2, SearchData, AnalyzeData, ReadByteData, ReadEndData, ComputeData,
     GiveUpReadingData, SearchReturnsData, ResetAndAnalyzeData, ResetInLoopData,
     ResetAtEndData DEF Step
<1> QED
  BY <1>1, <1>2 DEF DfaNext

(* The graph, what start_ says and what every search knows of its text are   *)
(* what they should be.                                                      *)
THEOREM DataInvariant == DfaSpec => [](DfInv /\ DataInv)
<1>1. DfaInit => DfInv /\ DataInv
  BY InitDfInv, InitDataInv
<1>2. DfInv /\ DataInv /\ [DfaNext]_dfaVars => (DfInv /\ DataInv)'
  BY DfaStep, DataStep
<1> QED
  BY <1>1, <1>2, PTL DEF DfaSpec

(* Every part of the graph is of its kind, its arrows are the automaton's    *)
(* and stay inside the cache, and the budget is what the cache leaves.       *)
THEOREM DfTypeAlwaysOK == DfaSpec => []DfTypeOK
<1>1. ASSUME DfInv, DataInv
      PROVE  DfTypeOK
  <2>1. ASSUME NEW t \in Threads
        PROVE  th[t].s \in DStates \cup {Null} /\ th[t].p \in 0..Len(th[t].text)
    <3> DEFINE r == th[t]
    <3>1. Knows(r) /\ r.pc \in Inside \cup Resetting \cup {"idle"}
      BY <1>1 DEF DfInv, SearchInv, DataInv
    <3> HIDE DEF r
    <3>2. r.s \in DStates \cup {Null} /\ r.p \in 0..Len(r.text)
      <4>1. CASE r.pc = "idle"
        BY <3>1, <4>1 DEF Knows
      <4>2. CASE r.pc \in Choosing
        BY <3>1, <4>2, TextIs DEF Knows, Chooses
      <4>3. CASE r.pc = "run" \/ r.pc = "return"
        BY <3>1, <4>3 DEF Knows, Between, Returns, InStates
      <4>4. CASE r.pc \in OnByte \cup AtEnd
        BY <3>1, <4>4, TakesAsked DEF Knows, InStates
      <4> QED
        BY <3>1, <4>1, <4>2, <4>3, <4>4
           DEF Inside, Resetting, Upgrading, OnByte, AtEnd, Choosing
    <3> QED
      BY <3>2 DEF r
  <2> QED
    BY <1>1, <2>1 DEF DfTypeOK, DfInv, LocksInv, DataInv, GraphOK, InfoOK, Symbols
<1> QED
  BY <1>1, DataInvariant, PTL

(* With room for three states (the constructor sees to 20), restoring the    *)
(* states after a reset and analysing a start state in an empty cache do not *)
(* run out of memory: a search fails only because it is slow.                *)
THEOREM RestoresAlwaysSucceed ==
  ASSUME Capacity >= 3
  PROVE  DfaSpec => []RestoresSucceed
<1>1. DataInv => RestoresSucceed
  BY DEF DataInv, Well, FailsWell, RestoresSucceed
<1> QED
  BY <1>1, DataInvariant, PTL

(* A search that is given a firstbyte that is no way out, the only one, or   *)
(* none finds the match that the automaton defines, whatever the others do.  *)
ResultsAreRightOrFirstByteIsWrong ==
  \A t \in Threads :
    \/ ~OnlyWayOut(th[t].kind, th[t].firstbyte)
    \/ th[t].pc = "return" /\ th[t].failed = "no" =>
         th[t].lastmatch = Answer(th[t].text, th[t].kind, th[t].earliest)

THEOREM OnlyFirstByteMisleads == DfaSpec => []ResultsAreRightOrFirstByteIsWrong
<1>1. DataInv => ResultsAreRightOrFirstByteIsWrong
  BY DEF DataInv, Knows, Returns, ResultsAreRightOrFirstByteIsWrong
<1> QED
  BY <1>1, DataInvariant, PTL

(* Every result is right if no start state has two ways out, or if there is  *)
(* memory for all states, so that no analysis stops halfway.                 *)
THEOREM ResultsAlwaysRight ==
  ASSUME OneWayOut \/ EnoughMemory
  PROVE  DfaSpec => []ResultsAreRight
<1>1. DataInv => ResultsAreRight
  BY DEF DataInv, Knows, Returns, Well, HarmlessAnalysis, ResultsAreRight
<1> QED
  BY <1>1, DataInvariant, PTL
=============================================================================
