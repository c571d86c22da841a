------------------------------ MODULE DfaCache ------------------------------
(***************************************************************************)
(* The state cache of RE2's DFA (re2-20130115/re2/dfa.cc).  Threads search  *)
(* with one DFA and build its states as they need them: the graph is read   *)
(* without a lock, extended under mutex_, and thrown away, when it has used *)
(* up its memory, under cache_mutex_ held for writing, which a search that  *)
(* holds it for reading gets by giving it up first.                         *)
(*                                                                         *)
(* The regular expression is the automaton Delta that the unbounded cache   *)
(* would be; a State* is named by the state it points to, and what makes it *)
(* dangling is noted in the thread that holds it.                           *)
(***************************************************************************)
EXTENDS Integers, Sequences, FiniteSets

CONSTANTS
  Threads, NoThread,
  DStates,       (* the states: instruction lists with their flags          *)
  Matching,      (* those with kFlagMatch                                   *)
  NumBytes,      (* the byte classes are 1..NumBytes, and EndText           *)
  Delta,         (* what RunWorkqOnByte computes, by state and byte         *)
  StartOf,       (* the start state, by index into start_                   *)
  Dead, Full,    (* DeadState and FullMatchState                            *)
  Null,
  Texts,         (* what is searched, in the order it is read               *)
  LastByte,      (* the byte after each text: EndText if its context ends   *)
  Capacity,      (* state_budget_, in states; the constructor sees to 20    *)
  BytesPerState, (* 10: what makes a search too slow                        *)
  BailWhenSlow,  (* FLAGS_re2_dfa_bail_when_slow                            *)
  MaxSearches    (* bound on the calls of Search                            *)

Bytes == 1..NumBytes
EndText == NumBytes + 1
Special == {Dead, Full}
Kinds == DOMAIN StartOf

ASSUME DfaAssumption ==
  /\ DStates \cap ({Null} \cup Special) = {} /\ Cardinality({Dead, Full, Null}) = 3
  /\ NoThread \notin Threads
  /\ Matching \subseteq DStates
  /\ \A k \in Kinds : StartOf[k] \in (DStates \ Matching) \cup Special
  /\ Texts \subseteq Seq(Bytes) /\ LastByte \in [Texts -> Bytes \cup {EndText}]
  /\ Delta \in [DStates -> [Bytes \cup {EndText} -> DStates \cup Special]]
  /\ NumBytes \in Nat /\ Capacity \in Nat /\ BytesPerState \in Nat /\ MaxSearches \in Nat
  /\ BailWhenSlow \in BOOLEAN

FbUnknown == -1
FbMany == -2
FbNone == -3

VARIABLES
  graph,     (* state_cache_, the states' next_ and mem_budget_             *)
  info,      (* start_                                                      *)
  readers,   (* who holds cache_mutex_ for reading                          *)
  writer,    (* who holds it for writing                                    *)
  th,        (* the searches                                                *)
  searches   (* how many there have been                                    *)

dfaVars == <<graph, info, readers, writer, th, searches>>

EmptyGraphBug ==   (* room for a single state                                *)
  [cache |-> {}, budget |-> 1,
   next |-> [s \in DStates |-> [c \in Bytes \cup {EndText} |-> Null]]]

EmptyGraph ==
  [cache |-> {}, budget |-> Capacity,
   next |-> [s \in DStates |-> [c \in Bytes \cup {EndText} |-> Null]]]
NoInfo == [k \in Kinds |-> [start |-> Null, firstbyte |-> FbUnknown]]
Idle ==
  [pc |-> "idle", text |-> <<>>, kind |-> 0, earliest |-> FALSE, start |-> Null,
   firstbyte |-> FbUnknown, s |-> Null, p |-> 0, resetp |-> -1, lastmatch |-> -1,
   forward |-> TRUE, dangling |-> FALSE, failed |-> "no"]

DfaInit ==
  /\ graph = EmptyGraph
  /\ info = NoInfo
  /\ readers = {}
  /\ writer = NoThread
  /\ th = [t \in Threads |-> Idle]
  /\ searches = 0

---------------------------------------------------------------------------
(* Building the graph, always under mutex_: each returns the graph after it. *)

(* CachedState: the graph with s in it, or out of memory from then on.       *)
CachedState(g, s) ==
  IF s \in g.cache THEN g
  ELSE IF g.budget < 1 THEN [g EXCEPT !.budget = -1]
  ELSE [g EXCEPT !.budget = @ - 1, !.cache = @ \cup {s}]

Has(g, s) == s \in g.cache \cup Special

RunStateOnByteBug(g, s, c) ==   (* links to a state that was not allocated      *)
  LET ns == Delta[s][c]
      h == IF ns \in Special THEN g ELSE CachedState(g, ns)
  IN [h EXCEPT !.next[s][c] = ns]

(* RunStateOnByte: computes the arrow, unless someone already has.           *)
RunStateOnByte(g, s, c) ==
  LET ns == Delta[s][c]
      h == IF ns \in Special THEN g ELSE CachedState(g, ns)
  IN IF g.next[s][c] # Null THEN g
     ELSE IF Has(h, ns) THEN [h EXCEPT !.next[s][c] = ns] ELSE h

(* AnalyzeSearchHelper: runs the start state on the bytes in turn until two  *)
(* lead to another state or memory runs out, and publishes what it has found *)
(* about the byte that leads out of it either way.                           *)
FirstByteLoop(g, start) ==
  LET To(i) == Delta[start][i]
      New(i) == {To(j) : j \in 1..i} \ (g.cache \cup Special)
      TwoLeave(i) == Cardinality({j \in 1..i : To(j) # start}) = 2
      OutOfMemory(i) == To(i) \in New(i) /\ Cardinality(New(i)) > g.budget
      Run == {i \in Bytes : /\ \A j \in 1..i : ~OutOfMemory(j)
                            /\ \A j \in 1..(i - 1) : ~TwoLeave(j)}
      ok == Run = Bytes \/ \E i \in Run : TwoLeave(i)
      leaving == {i \in Run : To(i) # start}
      added == {To(i) : i \in Run} \ (g.cache \cup Special)
  IN [ok |-> ok,
      g |-> [cache |-> g.cache \cup added,
             budget |-> IF ok THEN g.budget - Cardinality(added) ELSE -1,
             next |-> [g.next EXCEPT ![start] =
                         [c \in DOMAIN @ |-> IF c \in Run THEN To(c) ELSE @[c]]]],
      fb |-> IF leaving = {} THEN FbNone
             ELSE IF Cardinality(leaving) = 1 THEN CHOOSE i \in leaving : TRUE
             ELSE FbMany]

Analysis(g, i, k) ==
  LET start == StartOf[k]
      h == IF start \in Special THEN g ELSE CachedState(g, start)
      loop == FirstByteLoop(h, start)
  IN IF i[k].firstbyte # FbUnknown THEN [g |-> g, info |-> i, ok |-> TRUE]
     ELSE IF ~Has(h, start)
     THEN [g |-> h, info |-> [i EXCEPT ![k].start = Null], ok |-> FALSE]
     ELSE IF start \in Special
     THEN [g |-> h, info |-> [i EXCEPT ![k] = [start |-> start, firstbyte |-> FbNone]],
           ok |-> TRUE]
     ELSE [g |-> loop.g, ok |-> loop.ok,
           info |-> [i EXCEPT ![k] = [start |-> start, firstbyte |-> loop.fb]]]

---------------------------------------------------------------------------
(* The search of one thread.                                                 *)
Set(t, r) == th' = [th EXCEPT ![t] = r]
Return(r) == [r EXCEPT !.pc = "return", !.start = Null, !.s = Null]
Fail(r, why) == [Return(r) EXCEPT !.failed = why]

(* Search: takes cache_mutex_ for reading.                                   *)
Search(t) ==
  /\ th[t].pc = "idle"
  /\ searches < MaxSearches
  /\ writer = NoThread
  /\ readers' = readers \cup {t}
  /\ \E x \in Texts, k \in Kinds, e \in BOOLEAN :
       \E f \in BOOLEAN :
         Set(t, [Idle EXCEPT !.pc = "analyze", !.text = x, !.kind = k, !.earliest = e,
                             !.forward = f])
  /\ searches' = searches + 1
  /\ UNCHANGED <<graph, info, writer>>

(* The search loop begins in the start state, unless that decides it.  A     *)
(* start state never has kFlagMatch.                                         *)
Started(r, i) ==
  LET s == i[r.kind].start
      n == Len(r.text)
  IN IF s = Dead THEN Return(r)
     ELSE IF s = Full THEN [Return(r) EXCEPT !.lastmatch = IF r.earliest THEN 0 ELSE n]
     ELSE [r EXCEPT !.pc = "run", !.start = s, !.s = s,
                    !.firstbyte = i[r.kind].firstbyte]

(* AnalyzeSearch, the first time: the quick check needs no lock.             *)
Analyze(t) ==
  /\ th[t].pc = "analyze"
  /\ \E a \in {Analysis(graph, info, th[t].kind)} :
       /\ graph' = a.g
       /\ info' = a.info
       /\ Set(t, IF a.ok THEN Started(th[t], a.info) ELSE [th[t] EXCEPT !.pc = "upgrade"])
  /\ UNCHANGED <<readers, writer, searches>>

(* What the loop does with the next state.                                   *)
Advance(r, ns) ==
  IF ns = Dead THEN Return(r)
  ELSE IF ns = Full THEN [Return(r) EXCEPT !.lastmatch = Len(r.text)]
  ELSE LET q == [r EXCEPT !.pc = "run", !.s = ns,
                          !.lastmatch = IF ns \in Matching THEN r.p - 1 ELSE @]
       IN IF ns \in Matching /\ r.earliest THEN Return(q) ELSE q

SkippedBug(r) ==   (* skips from any state                                    *)
  LET hits == {j \in (r.p + 1)..Len(r.text) : r.text[j] = r.firstbyte}
  IN IF r.firstbyte \notin Bytes THEN r.p
     ELSE IF hits = {} THEN Len(r.text)
     ELSE (CHOOSE j \in hits : \A l \in hits : j <= l) - 1

(* memchr: from the start state only firstbyte leads anywhere.               *)
Skipped(r) ==
  LET hits == {j \in (r.p + 1)..Len(r.text) : r.text[j] = r.firstbyte}
  IN IF r.firstbyte \notin Bytes \/ r.s # r.start THEN r.p
     ELSE IF hits = {} THEN Len(r.text)
     ELSE (CHOOSE j \in hits : \A l \in hits : j <= l) - 1

(* One byte of the text: the load of next_ takes no lock.                    *)
ReadByte(t) ==
  LET q == Skipped(th[t])
      c == th[t].text[q + 1]
      r == [th[t] EXCEPT !.p = q + 1]
  IN /\ th[t].pc = "run"
     /\ q < Len(th[t].text)
     /\ Set(t, IF graph.next[r.s][c] = Null THEN [r EXCEPT !.pc = "compute"]
               ELSE Advance(r, graph.next[r.s][c]))
     /\ UNCHANGED <<graph, info, readers, writer, searches>>

(* One more byte after the last, for a match that ends there.                *)
Finish(r, ns) ==
  Return([r EXCEPT !.lastmatch = IF ns = Full \/ ns \in Matching THEN Len(r.text) ELSE @])

ReadEnd(t) ==
  LET n == Len(th[t].text)
      r == [th[t] EXCEPT !.p = n]
      ns == graph.next[r.s][LastByte[r.text]]
  IN /\ th[t].pc = "run"
     /\ Skipped(th[t]) = n
     /\ Set(t, IF ns = Null THEN [r EXCEPT !.pc = "compute end"] ELSE Finish(r, ns))
     /\ UNCHANGED <<graph, info, readers, writer, searches>>

(* The byte the loop is at, and what it does with the state it leads to.     *)
ByteAt(r) == IF r.pc = "compute" THEN r.text[r.p] ELSE LastByte[r.text]
Onward(r, ns) == IF r.pc = "compute" THEN Advance(r, ns) ELSE Finish(r, ns)

(* The distance to the last reset is compared unsigned: a search that runs   *)
(* backward, with p below resetp, is never too slow.                         *)
TooSlow(r) ==
  /\ r.pc = "compute" /\ BailWhenSlow /\ r.resetp >= 0
  /\ r.forward
  /\ r.p - r.resetp < BytesPerState * Cardinality(graph.cache)

(* RunStateOnByteUnlocked; out of memory, the search gives up if it is slow, *)
(* else saves start and s and resets the cache, at once if it already has    *)
(* the lock for writing.                                                     *)
Compute(t) ==
  LET r == th[t]
  IN /\ r.pc \in {"compute", "compute end"}
     /\ \E g \in {RunStateOnByte(graph, r.s, ByteAt(r))} :
        \E ns \in {g.next[r.s][ByteAt(r)]} :
          /\ graph' = g
          /\ Set(t, IF ns # Null THEN Onward(r, ns)
                    ELSE IF TooSlow(r) THEN Fail(r, "slow")
                    ELSE IF r.pc = "compute"
                    THEN [r EXCEPT !.pc = "upgrade byte", !.resetp = r.p]
                    ELSE [r EXCEPT !.pc = "upgrade end"])
     /\ UNCHANGED <<info, readers, writer, searches>>

Upgrading == {"upgrade", "upgrade byte", "upgrade end"}
Resetting == {"reset", "reset byte", "reset end"}
ResetFor(pc) ==
  CASE pc = "upgrade" -> "reset" [] pc = "upgrade byte" -> "reset byte"
    [] pc = "upgrade end" -> "reset end"

GiveUpReadingBug(t) ==   (* an upgrade that keeps the read lock                  *)
  /\ th[t].pc \in Upgrading
  /\ t # writer
  /\ Set(t, [th[t] EXCEPT !.pc = ResetFor(th[t].pc)])
  /\ UNCHANGED <<graph, info, readers, writer, searches>>

(* LockForWriting: the lock is released on the way.                          *)
GiveUpReading(t) ==
  /\ th[t].pc \in Upgrading
  /\ t # writer
  /\ readers' = readers \ {t}
  /\ Set(t, [th[t] EXCEPT !.pc = ResetFor(th[t].pc)])
  /\ UNCHANGED <<graph, info, writer, searches>>

LockedBug(t, pc, resetting) ==   (* does not wait for the readers              *)
  /\ \/ th[t].pc = resetting /\ writer = NoThread
     \/ th[t].pc = pc /\ t = writer
  /\ writer' = t
  /\ UNCHANGED <<readers, searches>>

(* LockForWriting returns with the lock, at once if it was held for writing. *)
Locked(t, pc, resetting) ==
  /\ \/ th[t].pc = resetting /\ writer = NoThread /\ readers = {}
     \/ th[t].pc = pc /\ t = writer
  /\ writer' = t
  /\ UNCHANGED <<readers, searches>>

(* The cache is emptied, and the search goes on as r: whoever else still has *)
(* a State* now has a dangling one.                                          *)
HasState(r) == r.s # Null /\ r.pc \notin Resetting
Emptied(t, r) ==
  th' = [q \in Threads |-> IF q = t THEN r ELSE [th[q] EXCEPT !.dangling = HasState(th[q])]]

(* ResetCache in AnalyzeSearch, which analyses again.                        *)
ResetAndAnalyze(t) ==
  /\ Locked(t, "upgrade", "reset")
  /\ \E a \in {Analysis(EmptyGraph, NoInfo, th[t].kind)} :
       /\ graph' = a.g
       /\ info' = a.info
       /\ Emptied(t, IF a.ok THEN Started(th[t], a.info) ELSE Fail(th[t], "dfatal"))

(* ResetCache in the loop: start and s are restored, and s is run on its     *)
(* byte again.                                                               *)
ResetInLoop(t) ==
  LET r == [th[t] EXCEPT !.pc = "compute"]
  IN /\ Locked(t, "upgrade byte", "reset byte")
     /\ \E h \in {CachedState(CachedState(EmptyGraph, r.start), r.s)} :
        \E g \in {IF {r.start, r.s} \subseteq h.cache THEN RunStateOnByte(h, r.s, ByteAt(r))
                   ELSE h} :
          /\ graph' = g
          /\ Emptied(t, IF g.next[r.s][ByteAt(r)] = Null THEN Fail(r, "dfatal")
                        ELSE Onward(r, g.next[r.s][ByteAt(r)]))
     /\ info' = NoInfo

(* ResetCache after the last byte: only s is needed any more.                *)
ResetAtEnd(t) ==
  LET r == [th[t] EXCEPT !.pc = "compute end"]
  IN /\ Locked(t, "upgrade end", "reset end")
     /\ \E h \in {CachedState(EmptyGraph, r.s)} :
        \E g \in {IF r.s \in h.cache THEN RunStateOnByte(h, r.s, ByteAt(r)) ELSE h} :
          /\ graph' = g
          /\ Emptied(t, IF g.next[r.s][ByteAt(r)] = Null THEN Fail(r, "dfatal")
                        ELSE Onward(r, g.next[r.s][ByteAt(r)]))
     /\ info' = NoInfo

(* ~RWLocker, and Search returns.                                            *)
SearchReturns(t) ==
  /\ th[t].pc = "return"
  /\ readers' = readers \ {t}
  /\ writer' = IF writer = t THEN NoThread ELSE writer
  /\ Set(t, Idle)
  /\ UNCHANGED <<graph, info, searches>>

Step(t) ==
  \/ Analyze(t) \/ ReadByte(t) \/ ReadEnd(t) \/ Compute(t)
  \/ GiveUpReading(t) \/ SearchReturns(t)
  \/ ResetAndAnalyze(t) \/ ResetInLoop(t) \/ ResetAtEnd(t)

DfaNext == \E t \in Threads : Search(t) \/ Step(t)
DfaSpec == DfaInit /\ [][DfaNext]_dfaVars

(* Threads are scheduled, and no lock is withheld for ever.                  *)
DfaFairSpec == DfaSpec /\ \A t \in Threads : WF_dfaVars(Step(t))

---------------------------------------------------------------------------
(* What the search must find, from the automaton alone.                      *)

(* The states on the way: the start, then one for each byte and one for the  *)
(* byte after the text; the special states are never left.                   *)
Path(x, k) ==
  LET n == Len(x)
      S[i \in 0..(n + 1)] ==
        IF i = 0 THEN StartOf[k]
        ELSE IF S[i - 1] \in Special THEN S[i - 1]
        ELSE Delta[S[i - 1]][IF i <= n THEN x[i] ELSE LastByte[x]]
  IN S

(* A match is noticed one byte late; Full says that the rest matches.        *)
Answer(x, k, earliest) ==
  LET n == Len(x)
      S == Path(x, k)
      Ends == {i - 1 : i \in {j \in 1..(n + 1) : S[j] \in Matching}}
              \cup (IF S[n + 1] = Full THEN {n} ELSE {})
  IN IF S[0] = Full THEN IF earliest THEN 0 ELSE n
     ELSE IF Ends = {} THEN -1
     ELSE IF earliest THEN CHOOSE i \in Ends : \A j \in Ends : i <= j
     ELSE CHOOSE i \in Ends : \A j \in Ends : i >= j

---------------------------------------------------------------------------
(* Every search and every part of the graph is of its kind, arrows of the    *)
(* graph are the automaton's, start where and lead to what is in the cache,  *)
(* and the budget is what the cache leaves.                                  *)
DfTypeOK ==
  /\ graph.cache \subseteq DStates
  /\ graph.budget \in {-1, Capacity - Cardinality(graph.cache)}
  /\ \A s \in DStates, c \in Bytes \cup {EndText} :
       LET ns == graph.next[s][c]
       IN ns # Null => s \in graph.cache /\ ns = Delta[s][c] /\ Has(graph, ns)
  /\ \A k \in Kinds : info[k].start \in {Null, StartOf[k]}
                     /\ info[k].firstbyte \in Bytes \cup {FbUnknown, FbMany, FbNone}
  /\ readers \subseteq Threads
  /\ writer \in Threads \cup {NoThread}
  /\ \A t \in Threads : th[t].s \in DStates \cup {Null} /\ th[t].p \in 0..Len(th[t].text)

(* No search is left with a pointer to a state that another search's reset   *)
(* has freed (dfa.cc:1127: no other threads are accessing the cache).        *)
NoDanglingState == \A t \in Threads : ~th[t].dangling

(* Whatever the other searches built or threw away meanwhile, a search that  *)
(* does not fail finds the match the automaton defines.                      *)
ResultsAreRight ==
  \A t \in Threads :
    th[t].pc = "return" /\ th[t].failed = "no" =>
      th[t].lastmatch = Answer(th[t].text, th[t].kind, th[t].earliest)

(* Restoring the states and computing one arrow right after a reset cannot   *)
(* run out of memory (dfa.cc:1181: there is room for a couple of states), so *)
(* a search fails only because it is slow.                                   *)
RestoresSucceed ==
  \A t \in Threads : th[t].failed # "dfatal" /\ (th[t].failed = "slow" => BailWhenSlow)

(* Every search returns: nobody waits for ever for the cache lock that two   *)
(* searches want to upgrade at once.                                         *)
SearchesReturn == \A t \in Threads : th[t].pc # "idle" ~> th[t].pc = "idle"
=============================================================================
