-------------------------- MODULE CompactionProofs --------------------------
(* For any keys, levels, snapshots and sizes: reads of the tree find what was *)
(* written, as long as the inputs and outputs of every compaction are what    *)
(* the code takes them for (KeysStayWhole, InputsAreWhole); and that they     *)
(* are if nobody calls CompactRange and no compaction has a second output.    *)
EXTENDS Compaction, FiniteSetTheorems, WellFoundedInduction, TLAPS

---------------------------------------------------------------------------
(* Numbers: least and greatest elements.                                     *)
LEMMA NatWF ==
  ASSUME NEW R, R = {ss \in Nat \X Nat : ss[1] < ss[2]}
  PROVE  IsWellFoundedOn(R, Nat)
BY NatLessThanWellFounded, Zenon DEF OpToRel

LEMMA LeastNat ==
  ASSUME NEW T \in SUBSET Nat, T # {}
  PROVE  \E x \in T : \A y \in T : x <= y
<1> PICK R : R = {ss \in Nat \X Nat : ss[1] < ss[2]}
  OBVIOUS
<1>1. IsWellFoundedOn(R, Nat)
  BY NatWF
<1>2. PICK x \in T : \A y \in T : ~(<<y, x>> \in R)
  BY <1>1, WFMin, Zenon
<1>3. \A y \in T : y < x => <<y, x>> \in R
  OBVIOUS
<1>4. ASSUME NEW y \in T
      PROVE  x <= y
  <2>1. ~(y < x)
    BY <1>2, <1>3
  <2> QED
    BY <2>1
<1> QED
  BY <1>4

LEMMA MinIs ==
  ASSUME NEW S \in SUBSET Int, S # {}, NEW b \in Int, \A x \in S : b <= x
  PROVE  Min(S) \in S /\ \A y \in S : Min(S) <= y
<1> DEFINE T == {n \in Nat : b + n \in S}
<1>1. \A x \in S : x - b \in T /\ b + (x - b) = x
  OBVIOUS
<1>2. T # {} /\ T \in SUBSET Nat
  BY <1>1
<1>3. PICK n \in T : \A m \in T : n <= m
  <2> HIDE DEF T
  <2> QED
    BY <1>2, LeastNat
<1>4. b + n \in S /\ \A y \in S : b + n <= y
  BY <1>1, <1>3
<1> QED
  BY <1>4 DEF Min

LEMMA MaxIs ==
  ASSUME NEW S \in SUBSET Int, S # {}, NEW b \in Int, \A x \in S : x <= b
  PROVE  Max(S) \in S /\ \A y \in S : y <= Max(S)
<1> DEFINE T == {n \in Nat : b - n \in S}
<1>1. \A x \in S : b - x \in T /\ b - (b - x) = x
  OBVIOUS
<1>2. T # {} /\ T \in SUBSET Nat
  BY <1>1
<1>3. PICK n \in T : \A m \in T : n <= m
  <2> HIDE DEF T
  <2> QED
    BY <1>2, LeastNat
<1>4. b - n \in S /\ \A y \in S : y <= b - n
  BY <1>1, <1>3
<1>5. \E x \in S : \A y \in S : x >= y
  BY <1>4
<1>6. Max(S) \in S /\ \A y \in S : Max(S) >= y
  BY <1>5 DEF Max
<1> QED
  BY <1>6

---------------------------------------------------------------------------
(* Tables and their ranges of user keys.                                     *)
Entry == [key : UserKeys, seq : Nat \ {0}, del : BOOLEAN]
Table == [num : Nat, data : (SUBSET Entry) \ {{}}]

LEMMA KeysAreNumbers == MaxKey \in Nat /\ UserKeys = 1..MaxKey /\ UserKeys \subseteq Nat
  BY CompactionAssumption DEF UserKeys

LEMMA FileRange ==
  ASSUME NEW F \in SUBSET Table, F # {}
  PROVE  /\ Lo(F) \in UserKeys /\ Hi(F) \in UserKeys
         /\ \A e \in EntriesOf(F) : Lo(F) <= e.key /\ e.key <= Hi(F)
         /\ \E e \in EntriesOf(F) : e.key = Lo(F)
         /\ \E e \in EntriesOf(F) : e.key = Hi(F)
<1> DEFINE K == {e.key : e \in EntriesOf(F)}
<1>1. EntriesOf(F) \subseteq Entry /\ EntriesOf(F) # {}
  BY DEF EntriesOf, Table
<1>2. K # {} /\ K \subseteq UserKeys
  BY <1>1 DEF Entry
<1>3. /\ K \in SUBSET Int /\ MaxKey \in Int
      /\ \A x \in K : 1 <= x /\ x <= MaxKey
  BY <1>2, KeysAreNumbers
<1> HIDE DEF K
<1>4. Min(K) \in K /\ \A y \in K : Min(K) <= y
  BY <1>2, <1>3, MinIs
<1>5. Max(K) \in K /\ \A y \in K : y <= Max(K)
  BY <1>2, <1>3, MaxIs
<1>6. Lo(F) = Min(K) /\ Hi(F) = Max(K)
  BY DEF Lo, Hi, K
<1> QED
  BY <1>2, <1>4, <1>5, <1>6 DEF K

LEMMA OneFileRange ==
  ASSUME NEW f \in Table
  PROVE  /\ Lo({f}) \in UserKeys /\ Hi({f}) \in UserKeys
         /\ Lo({f}) \in Nat /\ Hi({f}) \in Nat /\ Lo({f}) <= Hi({f})
         /\ \A e \in f.data : Lo({f}) <= e.key /\ e.key <= Hi({f})
         /\ \E e \in f.data : e.key = Lo({f})
         /\ \E e \in f.data : e.key = Hi({f})
<1>1. EntriesOf({f}) = f.data /\ f.data \subseteq Entry
  BY DEF EntriesOf, Table
<1>2. /\ Lo({f}) \in UserKeys /\ Hi({f}) \in UserKeys
      /\ \A e \in f.data : Lo({f}) <= e.key /\ e.key <= Hi({f})
      /\ \E e \in f.data : e.key = Lo({f})
      /\ \E e \in f.data : e.key = Hi({f})
  BY <1>1, FileRange
<1> QED
  BY <1>2, KeysAreNumbers

(* The range of files reaches from the first of one to the last of another.  *)
LEMMA RangeOfFiles ==
  ASSUME NEW F \in SUBSET Table, F # {}
  PROVE  /\ Lo(F) \in Nat /\ Hi(F) \in Nat /\ Lo(F) <= Hi(F)
         /\ \A f \in F : Lo(F) <= Lo({f}) /\ Hi({f}) <= Hi(F)
         /\ \E f \in F : Lo({f}) = Lo(F)
         /\ \E f \in F : Hi({f}) = Hi(F)
<1>1. \A e : e \in EntriesOf(F) <=> \E f \in F : e \in f.data
  BY DEF EntriesOf
<1>2. /\ Lo(F) \in Nat /\ Hi(F) \in Nat
  BY FileRange, KeysAreNumbers
<1>3. \A f \in F : Lo(F) <= Lo({f}) /\ Hi({f}) <= Hi(F)
  <2> TAKE f \in F
  <2>1. PICK e \in f.data, h \in f.data : e.key = Lo({f}) /\ h.key = Hi({f})
    BY OneFileRange
  <2>2. e \in EntriesOf(F) /\ h \in EntriesOf(F)
    BY <1>1, <2>1
  <2>3. Lo(F) <= e.key
    BY <2>2, FileRange
  <2>4. h.key <= Hi(F)
    BY <2>2, FileRange
  <2> QED
    BY <2>1, <2>3, <2>4
<1>4. \E f \in F : Lo({f}) = Lo(F)
  <2>1. PICK e \in EntriesOf(F) : e.key = Lo(F)
    BY FileRange
  <2>2. PICK f \in F : e \in f.data
    BY <1>1
  <2>3. Lo({f}) <= e.key /\ Lo(F) <= Lo({f}) /\ Lo({f}) \in Nat
    BY <2>2, <1>3, OneFileRange
  <2>4. Lo({f}) = Lo(F)
    BY <1>2, <2>1, <2>3
  <2> QED
    BY <2>4
<1>5. \E f \in F : Hi({f}) = Hi(F)
  <2>1. PICK e \in EntriesOf(F) : e.key = Hi(F)
    BY FileRange
  <2>2. PICK f \in F : e \in f.data
    BY <1>1
  <2>3. e.key <= Hi({f}) /\ Hi({f}) <= Hi(F) /\ Hi({f}) \in Nat
    BY <2>2, <1>3, OneFileRange
  <2>4. Hi({f}) = Hi(F)
    BY <1>2, <2>1, <2>3
  <2> QED
    BY <2>4
<1>6. Lo(F) <= Hi(F)
  <2>1. PICK f \in F : Lo({f}) = Lo(F)
    BY <1>4
  <2>2. Lo({f}) <= Hi({f}) /\ Hi({f}) <= Hi(F) /\ Lo({f}) \in Nat /\ Hi({f}) \in Nat
    BY <1>3, OneFileRange
  <2> QED
    BY <1>2, <2>1, <2>2
<1> QED
  BY <1>2, <1>3, <1>4, <1>5, <1>6

---------------------------------------------------------------------------
(* The invariant.                                                            *)
Tables == UNION {EntriesOf(levels[l]) : l \in Level}
All == mem \cup imm \cup Tables
Views == snapshots \cup {last_sequence}
Newer(S, T) == \A e \in S, f \in T : e.seq > f.seq
Apart(f, g) == Hi({f}) < Lo({g}) \/ Hi({g}) < Lo({f})
Meets(f, lo, hi) == Hi({f}) >= lo /\ Lo({f}) <= hi

TypeInv ==
  /\ last_sequence \in Nat /\ next_file \in Nat
  /\ snapshots \in SUBSET Nat /\ \A s \in snapshots : s <= last_sequence
  /\ hist \in SUBSET Entry /\ IsFiniteSet(hist)
  /\ \A e \in hist : e.seq <= last_sequence
  /\ \A e, f \in hist : e.seq = f.seq => e = f
  /\ levels \in [Level -> SUBSET Table]
  /\ \A l \in Level : IsFiniteSet(levels[l])
  /\ mem \subseteq hist /\ imm \subseteq hist /\ Tables \subseteq hist

(* Time goes from the tables through imm to mem, and from one file of level  *)
(* 0 to the next.                                                            *)
AgeInv ==
  /\ Newer(mem, imm) /\ Newer(mem, Tables) /\ Newer(imm, Tables)
  /\ \A f \in levels[0] : f.num < next_file
  /\ \A f, g \in levels[0] : f # g =>
       \/ f.num < g.num /\ Newer(g.data, f.data)
       \/ g.num < f.num /\ Newer(f.data, g.data)

(* No user key is in two files of a level below the first.                   *)
LevelsAreApart ==
  \A l \in Level \ {0} : \A f, g \in levels[l] : f # g => Apart(f, g)

(* What the compaction in progress will drop: an entry that a newer one of   *)
(* the inputs hides from everybody, or a deletion marker that everybody sees *)
(* and that goes with all that it deletes.                                   *)
Lost == EntriesOf(comp.inputs) \ EntriesOf(comp.outputs)
Hides(p, d) == p.key = d.key /\ p.seq > d.seq /\ \A s \in Views : p.seq <= s
DeletesNothing(d) ==
  /\ d.del /\ \A s \in Views : d.seq <= s
  /\ \A e \in All : e.key = d.key /\ e.seq < d.seq => e \in Lost
DropsAreSafe ==
  \A d \in Lost : (\E p \in EntriesOf(comp.inputs) : Hides(p, d)) \/ DeletesNothing(d)

OutputsInOrder ==
  \A f, g \in comp.outputs : f # g =>
    \/ \A e \in f.data, h \in g.data : e.key <= h.key
    \/ \A e \in f.data, h \in g.data : h.key <= e.key

CompInv ==
  comp # NoComp =>
    /\ comp.level \in 0..(NumLevels - 2)
    /\ comp.inputs \subseteq levels[comp.level] \cup levels[comp.level + 1]
    /\ comp.inputs \cap levels[comp.level] # {}
    /\ comp.outputs \subseteq Table /\ IsFiniteSet(comp.outputs)
    /\ EntriesOf(comp.outputs) \subseteq EntriesOf(comp.inputs)
    /\ OutputsInOrder
    /\ \A f \in levels[comp.level + 1] \ comp.inputs :
         ~Meets(f, Lo(comp.inputs), Hi(comp.inputs))
    /\ DropsAreSafe

LsmInv ==
  /\ TypeInv /\ AgeInv /\ LevelsAreOrdered /\ LevelsAreApart /\ CompInv
  /\ IteratorsAreCorrect

---------------------------------------------------------------------------
LEMMA LevelNumbers ==
  /\ NumLevels \in Nat /\ NumLevels > 1 /\ 0 \in Level /\ Level \subseteq Nat
  /\ \A l \in 0..(NumLevels - 2) : l \in Level /\ l + 1 \in Level
  /\ \A l \in Level : l < NumLevels
  /\ \A l \in Nat : l < NumLevels => l \in Level
  BY CompactionAssumption DEF Level

LEMMA InTables ==
  /\ \A e : e \in Tables <=> \E l \in Level : \E f \in levels[l] : e \in f.data
  /\ \A F : \A e : e \in EntriesOf(F) <=> \E f \in F : e \in f.data
  BY DEF Tables, EntriesOf

LEMMA InTablesNext ==
  \A e : e \in Tables' <=> \E l \in Level : \E f \in levels'[l] : e \in f.data
  BY DEF Tables, EntriesOf

LEMMA NewestIs ==
  ASSUME NEW S \in SUBSET Entry, S # {}, NEW b \in Nat, \A e \in S : e.seq <= b
  PROVE  Newest(S) \in S /\ \A f \in S : f.seq <= Newest(S).seq
<1> DEFINE K == {e.seq : e \in S}
<1>1. K \in SUBSET Int /\ K # {} /\ b \in Int /\ \A x \in K : x <= b
  BY DEF Entry
<1> HIDE DEF K
<1>2. Max(K) \in K /\ \A y \in K : y <= Max(K)
  BY <1>1, MaxIs
<1>3. \E e \in S : \A f \in S : f.seq <= e.seq
  BY <1>2 DEF K
<1> QED
  BY <1>3 DEF Newest

LEMMA NewestIsThis ==
  ASSUME NEW S \in SUBSET Entry, NEW e \in S, \A f \in S : f.seq <= e.seq,
         \A f, g \in S : f.seq = g.seq => f = g
  PROVE  Newest(S) = e
<1>1. S # {} /\ e.seq \in Nat
  BY DEF Entry
<1>2. Newest(S) \in S /\ \A f \in S : f.seq <= Newest(S).seq
  BY <1>1, NewestIs
<1>3. Newest(S).seq = e.seq
  BY <1>1, <1>2 DEF Entry
<1> QED
  BY <1>2, <1>3

LEMMA VisibleOnly ==
  ASSUME NEW S, NEW k, NEW s
  PROVE  \A e : e \in Visible(S, k, s) <=> e \in S /\ e.key = k /\ e.seq <= s
  BY DEF Visible

LEMMA IteratorsDef ==
  IteratorsAreCorrect <=>
    \A k \in UserKeys, s \in Views :
      Answer(Newest(Visible(All, k, s))) = Answer(Newest(Visible(hist, k, s)))
  BY DEF IteratorsAreCorrect, Views, All, Tables

---------------------------------------------------------------------------
LEMMA InitLsmInv == LsmInit => LsmInv
<1> SUFFICES ASSUME LsmInit
             PROVE  LsmInv
  OBVIOUS
<1> USE DEF LsmInit
<1>1. Tables = {} /\ All = {}
  BY LevelNumbers DEF Tables, All, EntriesOf
<1>2. TypeInv
  BY <1>1, FS_EmptySet DEF TypeInv
<1>3. AgeInv
  BY <1>1, LevelNumbers DEF AgeInv, Newer
<1>4. LevelsAreOrdered /\ LevelsAreApart /\ CompInv
  BY DEF LevelsAreOrdered, LevelsAreApart, CompInv, EntriesOf
<1>5. IteratorsAreCorrect
  BY <1>1, IteratorsDef
<1> QED
  BY <1>2, <1>3, <1>4, <1>5 DEF LsmInv

(* What a step that changes neither levels nor the compaction leaves alone.  *)
LEMMA TreeUnchanged ==
  ASSUME UNCHANGED levels
  PROVE  /\ Tables' = Tables
         /\ LevelsAreOrdered => LevelsAreOrdered'
         /\ LevelsAreApart => LevelsAreApart'
  BY DEF Tables, LevelsAreOrdered, LevelsAreApart, Apart

LEMMA CompUnchanged ==
  ASSUME CompInv, UNCHANGED <<levels, comp>>, comp # NoComp,
         \A s \in Views' : \E r \in Views : \A n \in Nat : n <= r => n <= s,
         \A e \in All' : e \in All \/ \A d \in Lost : ~(e.seq < d.seq),
         comp.inputs \subseteq Table
  PROVE  CompInv'
<1>1. Lost' = Lost /\ comp' = comp /\ levels' = levels
  BY DEF Lost
<1>2. ASSUME NEW d \in Lost
      PROVE  d.seq \in Nat
  BY <1>2, InTables DEF Lost, Table, Entry
<1>3. ASSUME NEW p \in EntriesOf(comp.inputs)
      PROVE  p.seq \in Nat
  BY <1>3, InTables DEF Table, Entry
<1>4. DropsAreSafe'
  <2> SUFFICES ASSUME NEW d \in Lost
               PROVE  \/ \E p \in EntriesOf(comp.inputs) : Hides(p, d)'
                      \/ DeletesNothing(d)'
    BY <1>1 DEF DropsAreSafe, Hides, DeletesNothing
  <2>1. CASE \E p \in EntriesOf(comp.inputs) : Hides(p, d)
    <3>1. PICK p \in EntriesOf(comp.inputs) : Hides(p, d)
      BY <2>1
    <3>2. Hides(p, d)'
      BY <1>3, <3>1 DEF Hides
    <3> QED
      BY <3>2
  <2>2. CASE DeletesNothing(d)
    <3>1. \A s \in Views' : d.seq <= s
      BY <1>2, <2>2 DEF DeletesNothing
    <3>2. \A e \in All' : e.key = d.key /\ e.seq < d.seq => e \in Lost'
      BY <1>1, <2>2 DEF DeletesNothing
    <3> QED
      BY <2>2, <3>1, <3>2 DEF DeletesNothing
  <2> QED
    BY <2>1, <2>2 DEF CompInv, DropsAreSafe
<1> QED
  BY <1>1, <1>4 DEF CompInv, OutputsInOrder, Meets

LEMMA AllInHist ==
  ASSUME TypeInv
  PROVE  /\ All \subseteq hist /\ hist \subseteq Entry
         /\ \A e \in hist : e.seq <= last_sequence /\ e.seq \in Nat /\ e.seq > 0 /\ e.key \in UserKeys
         /\ Views \subseteq Nat /\ last_sequence \in Nat
         /\ \A s \in Views : s <= last_sequence
BY DEF TypeInv, All, Views, Entry

LEMMA IteratorsUnchanged ==
  ASSUME IteratorsAreCorrect, All' = All, hist' = hist, Views' \subseteq Views
  PROVE  IteratorsAreCorrect'
<1>1. \A k \in UserKeys, s \in Views' :
        Answer(Newest(Visible(All', k, s))) = Answer(Newest(Visible(hist', k, s)))
  BY IteratorsDef
<1> QED
  BY <1>1 DEF IteratorsAreCorrect, Views, All, Tables

---------------------------------------------------------------------------
(* Writes and snapshots.                                                     *)
LEMMA WriteKeepsInv ==
  ASSUME LsmInv, NEW k \in UserKeys, NEW del \in BOOLEAN, Write(k, del)
  PROVE  LsmInv'
<1> DEFINE e == [key |-> k, seq |-> last_sequence + 1, del |-> del]
<1> USE AllInHist DEF LsmInv
<1>1. /\ last_sequence' = last_sequence + 1
      /\ mem' = mem \cup {e} /\ hist' = hist \cup {e}
      /\ UNCHANGED <<imm, levels, next_file, snapshots, comp>>
  BY DEF Write
<1>2. e \in Entry /\ e.seq = last_sequence + 1 /\ e.key = k
  BY DEF Entry, TypeInv
<1> HIDE DEF e
<1>3. Tables' = Tables /\ LevelsAreOrdered' /\ LevelsAreApart'
  BY <1>1, TreeUnchanged
<1>4. All' = All \cup {e}
  BY <1>1, <1>3 DEF All
<1>5. \A g \in hist : g.seq <= last_sequence /\ g.seq < e.seq /\ g # e
  BY <1>2
<1>6. TypeInv'
  <2>1. IsFiniteSet(hist')
    BY <1>1, FS_AddElement DEF TypeInv
  <2>2. last_sequence' \in Nat /\ next_file' \in Nat /\ snapshots' \in SUBSET Nat
        /\ \A s \in snapshots' : s <= last_sequence'
    BY <1>1 DEF TypeInv
  <2>3. hist' \in SUBSET Entry /\ \A g \in hist' : g.seq <= last_sequence'
    BY <1>1, <1>2, <1>5
  <2>4. \A f, g \in hist' : f.seq = g.seq => f = g
    BY <1>1, <1>2, <1>5 DEF TypeInv
  <2>5. /\ levels' \in [Level -> SUBSET Table]
        /\ \A l \in Level : IsFiniteSet(levels'[l])
        /\ mem' \subseteq hist' /\ imm' \subseteq hist' /\ Tables' \subseteq hist'
    BY <1>1, <1>3 DEF TypeInv
  <2> QED
    BY <2>1, <2>2, <2>3, <2>4, <2>5 DEF TypeInv
<1>7. AgeInv'
  <2>1. imm \subseteq hist /\ Tables \subseteq hist
    BY DEF TypeInv
  <2>2. Newer(mem', imm') /\ Newer(mem', Tables') /\ Newer(imm', Tables')
    BY <1>1, <1>3, <1>5, <2>1 DEF AgeInv, Newer
  <2> QED
    BY <1>1, <2>2 DEF AgeInv, Newer
<1>8. CompInv'
  <2>1. CASE comp = NoComp
    BY <1>1, <2>1 DEF CompInv
  <2>2. CASE comp # NoComp
    <3>1. \A s \in Views' : \E r \in Views : \A n \in Nat : n <= r => n <= s
      BY <1>1 DEF Views
    <3>2. comp.level + 1 \in Level /\ comp.level \in Level
      BY <2>2, LevelNumbers DEF CompInv
    <3>3. comp.inputs \subseteq Table
      BY <2>2, <3>2 DEF CompInv, TypeInv
    <3>4. Lost \subseteq Tables
      BY <2>2, <3>2, InTables DEF Lost, CompInv
    <3>5. \A d \in Lost : d \in hist
      BY <3>4 DEF TypeInv
    <3>6. \A g \in All' : g \in All \/ \A d \in Lost : ~(g.seq < d.seq)
      BY <1>2, <1>4, <1>5, <3>5
    <3> QED
      BY <1>1, <2>2, <3>1, <3>3, <3>6, CompUnchanged
  <2> QED
    BY <2>1, <2>2
<1>9. IteratorsAreCorrect'
  <2> SUFFICES ASSUME NEW j \in UserKeys, NEW s \in Views'
               PROVE  Answer(Newest(Visible(All', j, s))) = Answer(Newest(Visible(hist', j, s)))
    BY DEF IteratorsAreCorrect, Views, All, Tables
  <2>1. CASE s \in snapshots
    <3>1. s \in Views /\ s <= last_sequence /\ s \in Nat
      BY <2>1 DEF Views
    <3>2. Visible(All', j, s) = Visible(All, j, s) /\ Visible(hist', j, s) = Visible(hist, j, s)
      BY <1>1, <1>2, <1>4, <3>1 DEF Visible
    <3> QED
      BY <3>1, <3>2, IteratorsDef
  <2>2. CASE s = last_sequence + 1 /\ j # k
    <3>1. \A g \in hist : g.seq <= last_sequence /\ g.seq <= last_sequence + 1
      OBVIOUS
    <3>2. Visible(hist', j, s) = Visible(hist, j, last_sequence)
      BY <1>1, <1>2, <2>2, <3>1 DEF Visible
    <3>3. Visible(All', j, s) = Visible(All, j, last_sequence)
      BY <1>2, <1>4, <2>2, <3>1 DEF Visible
    <3> QED
      BY <3>2, <3>3, IteratorsDef DEF Views
  <2>3. CASE s = last_sequence + 1 /\ j = k
    <3>1. hist' \subseteq Entry /\ All' \subseteq hist' /\ e \in All'
          /\ \A f, g \in hist' : f.seq = g.seq => f = g
      BY <1>1, <1>4, <1>6 DEF TypeInv
    <3>2. \A g \in hist' : g.seq <= e.seq
      BY <1>1, <1>2, <1>5
    <3>3. e.key = j /\ e.seq <= s
      BY <1>2, <2>3
    <3>4. Newest(Visible(hist', j, s)) = e
      <4> DEFINE V == Visible(hist', j, s)
      <4>1. e \in V /\ V \subseteq hist'
        BY <3>1, <3>3 DEF Visible
      <4> HIDE DEF V
      <4>2. Newest(V) = e
        BY <3>1, <3>2, <4>1, NewestIsThis
      <4> QED
        BY <4>2 DEF V
    <3>5. Newest(Visible(All', j, s)) = e
      <4> DEFINE V == Visible(All', j, s)
      <4>1. e \in V /\ V \subseteq hist'
        BY <3>1, <3>3 DEF Visible
      <4> HIDE DEF V
      <4>2. Newest(V) = e
        BY <3>1, <3>2, <4>1, NewestIsThis
      <4> QED
        BY <4>2 DEF V
    <3> QED
      BY <3>4, <3>5
  <2> QED
    BY <1>1, <2>1, <2>2, <2>3 DEF Views
<1> QED
  BY <1>3, <1>6, <1>7, <1>8, <1>9

LEMMA CompKept ==
  ASSUME LsmInv, UNCHANGED <<levels, comp>>, Views' \subseteq Views, All' = All
  PROVE  CompInv'
<1>1. CASE comp = NoComp
  BY <1>1 DEF CompInv
<1>2. CASE comp # NoComp
  <2>1. comp.level + 1 \in Level /\ comp.level \in Level
    BY <1>2, LevelNumbers DEF CompInv, LsmInv
  <2>2. comp.inputs \subseteq Table
    BY <1>2, <2>1 DEF CompInv, TypeInv, LsmInv
  <2>3. \A s \in Views' : \E r \in Views : \A n \in Nat : n <= r => n <= s
    OBVIOUS
  <2> QED
    BY <1>2, <2>2, <2>3, CompUnchanged DEF LsmInv
<1> QED
  BY <1>1, <1>2

LEMMA SnapshotsKeepInv ==
  ASSUME LsmInv, GetSnapshot \/ ReleaseSnapshot
  PROVE  LsmInv'
<1> USE DEF LsmInv
<1>1. /\ Views' \subseteq Views
      /\ UNCHANGED <<mem, imm, levels, next_file, last_sequence, comp, hist>>
  BY DEF GetSnapshot, ReleaseSnapshot, Views
<1>2. Tables' = Tables /\ LevelsAreOrdered' /\ LevelsAreApart' /\ All' = All
  BY <1>1, TreeUnchanged DEF All
<1>3. TypeInv'
  <2>1. snapshots' \in SUBSET Nat /\ \A s \in snapshots' : s <= last_sequence
    BY <1>1, AllInHist DEF Views
  <2> QED
    BY <1>1, <1>2, <2>1 DEF TypeInv
<1>4. AgeInv'
  BY <1>1, <1>2 DEF AgeInv, Newer
<1>5. CompInv'
  BY <1>1, <1>2, CompKept
<1>6. IteratorsAreCorrect'
  BY <1>1, <1>2, IteratorsUnchanged
<1> QED
  BY <1>2, <1>3, <1>4, <1>5, <1>6

LEMMA SwitchKeepsInv ==
  ASSUME LsmInv, SwitchMemTable
  PROVE  LsmInv'
<1> USE DEF LsmInv
<1>1. /\ imm = {} /\ imm' = mem /\ mem' = {}
      /\ UNCHANGED <<levels, next_file, last_sequence, snapshots, comp, hist>>
  BY DEF SwitchMemTable
<1>2. Tables' = Tables /\ LevelsAreOrdered' /\ LevelsAreApart' /\ All' = All /\ Views' = Views
  BY <1>1, TreeUnchanged DEF All, Views
<1>3. TypeInv'
  BY <1>1, <1>2 DEF TypeInv
<1>4. AgeInv'
  BY <1>1, <1>2 DEF AgeInv, Newer
<1>5. CompInv'
  BY <1>1, <1>2, CompKept
<1>6. IteratorsAreCorrect'
  BY <1>1, <1>2, IteratorsUnchanged
<1> QED
  BY <1>2, <1>3, <1>4, <1>5, <1>6

---------------------------------------------------------------------------
(* A memtable becomes a table, of any level that its keys leave free.        *)
LEMMA FreeLevel ==
  ASSUME NEW lo, NEW hi, NEW n \in MemTableLevels(lo, hi)
  PROVE  /\ n \in Level /\ n \in Nat
         /\ n > 0 => \A l \in 0..n : \A g \in levels[l] : ~Meets(g, lo, hi)
<1>1. /\ n \in 0..MaxMemCompactLevel
      /\ \A l \in 0..n : n > 0 => Overlapping(l, lo, hi) = {}
  BY DEF MemTableLevels
<1>2. n \in Level /\ n \in Nat
  BY <1>1, CompactionAssumption DEF Level
<1>3. ASSUME n > 0, NEW l \in 0..n, NEW g \in levels[l], Meets(g, lo, hi)
      PROVE  FALSE
  BY <1>1, <1>3 DEF Meets, Overlapping
<1> QED
  BY <1>2, <1>3

LEMMA FlushKeepsInv ==
  ASSUME LsmInv, CompactMemTable, InputsAreWhole
  PROVE  LsmInv'
<1> USE AllInHist, LevelNumbers DEF LsmInv
<1> DEFINE f == [num |-> next_file, data |-> imm]
<1>1. PICK n \in MemTableLevels(Lo({f}), Hi({f})) :
        levels' = [levels EXCEPT ![n] = @ \cup {f}]
  BY DEF CompactMemTable
<1>2. /\ next_file' = next_file + 1 /\ imm' = {} /\ imm # {}
      /\ UNCHANGED <<mem, last_sequence, snapshots, comp, hist>>
  BY DEF CompactMemTable
<1>3. f.num = next_file /\ f.data = imm
  OBVIOUS
<1>4. f \in Table
  BY <1>2 DEF TypeInv, Table
<1> HIDE DEF f
<1>5. /\ n \in Level /\ n \in Nat
      /\ n > 0 => \A l \in 0..n : \A g \in levels[l] : ~Meets(g, Lo({f}), Hi({f}))
  BY <1>1, FreeLevel
<1>6. /\ levels \in [Level -> SUBSET Table]
      /\ \A l \in Level : levels'[l] = IF l = n THEN levels[l] \cup {f} ELSE levels[l]
  BY <1>1, <1>5 DEF TypeInv
<1>7. ASSUME NEW e
      PROVE  e \in Tables' <=> e \in Tables \/ e \in imm
  <2>1. e \in Tables' <=> \E l \in Level : \E g \in levels'[l] : e \in g.data
    BY InTablesNext, Zenon
  <2> QED
    BY <2>1, <1>3, <1>5, <1>6, InTables
<1>8. Tables' = Tables \cup imm /\ All' = All /\ Views' = Views
  <2>1. Tables' = Tables \cup imm
    BY <1>7
  <2> QED
    BY <1>2, <2>1 DEF All, Views
<1>9. \A l \in Level : \A g \in levels[l] : g \in Table /\ g.data \subseteq Tables
  BY <1>6, InTables
<1>10. TypeInv'
  <2>1. next_file' \in Nat
    BY <1>2 DEF TypeInv
  <2>2. levels' \in [Level -> SUBSET Table]
    BY <1>1, <1>4, <1>6 DEF TypeInv
  <2>4. \A l \in Level : IsFiniteSet(levels'[l])
    <3>1. \A l \in Level : IsFiniteSet(levels[l])
      BY DEF TypeInv
    <3>2. IsFiniteSet(levels[n] \cup {f})
      BY <1>5, <3>1, FS_AddElement
    <3> QED
      BY <1>6, <3>1, <3>2, Zenon
  <2>3. mem' \subseteq hist' /\ imm' \subseteq hist' /\ Tables' \subseteq hist'
    BY <1>2, <1>8 DEF TypeInv
  <2> QED
    BY <1>2, <2>1, <2>2, <2>3, <2>4 DEF TypeInv
<1>11. AgeInv'
  <2>1. Newer(mem', imm') /\ Newer(mem', Tables') /\ Newer(imm', Tables')
    BY <1>2, <1>8 DEF AgeInv, Newer
  <2>2. \A g \in levels'[0] : g.num < next_file'
    <3>1. \A g \in levels[0] : g.num < next_file /\ g.num \in Nat
      BY <1>9 DEF AgeInv, Table
    <3>2. next_file \in Nat /\ next_file' = next_file + 1
      BY <1>2 DEF TypeInv
    <3>3. \A g \in levels'[0] : g \in levels[0] \/ g = f
      BY <1>6
    <3> QED
      BY <1>3, <3>1, <3>2, <3>3
  <2>3. \A g \in levels[0] : g.num < f.num /\ Newer(f.data, g.data)
    BY <1>3, <1>9 DEF AgeInv, Newer
  <2>4. \A h, g \in levels'[0] : h # g =>
          \/ h.num < g.num /\ Newer(g.data, h.data)
          \/ g.num < h.num /\ Newer(h.data, g.data)
    BY <1>6, <2>3 DEF AgeInv
  <2> QED
    BY <2>1, <2>2, <2>4 DEF AgeInv, Newer
<1>12. LevelsAreOrdered'
  <2> SUFFICES ASSUME NEW l \in Level, NEW m \in Level, l < m,
                      NEW g \in levels'[l], NEW h \in levels'[m],
                      NEW d \in g.data, NEW e \in h.data, d.key = e.key
               PROVE  d.seq > e.seq
    BY DEF LevelsAreOrdered, EntriesOf
  <2>1. CASE g \in levels[l] /\ h \in levels[m]
    BY <2>1 DEF LevelsAreOrdered, EntriesOf
  <2>2. CASE h = f /\ m = n
    <3>a. l \in Nat /\ n \in Nat /\ l < n
      BY <1>5, <2>2
    <3>1. n > 0 /\ l \in 0..n /\ l # n
      BY <3>a
    <3>0. g \in levels[l] /\ g \in Table
      BY <1>6, <1>9, <3>1
    <3>2. ~Meets(g, Lo({f}), Hi({f}))
      BY <1>5, <3>0, <3>1
    <3>3. Lo({g}) <= d.key /\ d.key <= Hi({g}) /\ Lo({g}) \in Nat /\ Hi({g}) \in Nat
      BY <3>0, OneFileRange
    <3>4. Lo({f}) <= d.key /\ d.key <= Hi({f}) /\ Lo({f}) \in Nat /\ Hi({f}) \in Nat
      BY <1>4, <2>2, OneFileRange
    <3>5. d.key \in Nat
      BY <3>0, KeysAreNumbers DEF Table, Entry
    <3> QED
      BY <3>2, <3>3, <3>4, <3>5 DEF Meets
  <2>3. CASE g = f /\ h \in levels[m]
    BY <1>3, <1>9, <2>3 DEF AgeInv, Newer
  <2> QED
    BY <1>6, <2>1, <2>2, <2>3
<1>13. LevelsAreApart'
  <2> SUFFICES ASSUME NEW l \in Level \ {0}, NEW g \in levels'[l], NEW h \in levels'[l], g # h
               PROVE  Apart(g, h)
    BY DEF LevelsAreApart, Apart
  <2>1. CASE g \in levels[l] /\ h \in levels[l]
    BY <2>1 DEF LevelsAreApart
  <2>2. ASSUME NEW j \in levels[l], l = n
        PROVE  Apart(j, f) /\ Apart(f, j)
    <3>1. n > 0 /\ n \in 0..n
      BY <1>5, <2>2
    <3>2. ~Meets(j, Lo({f}), Hi({f})) /\ j \in Table
      BY <1>5, <1>9, <2>2, <3>1
    <3>3. Lo({f}) \in Nat /\ Hi({f}) \in Nat /\ Lo({j}) \in Nat /\ Hi({j}) \in Nat
      BY <1>4, <3>2, OneFileRange
    <3> QED
      BY <3>2, <3>3 DEF Meets, Apart
  <2>3. \A j \in levels'[l] : j \in levels[l] \/ (j = f /\ l = n)
    BY <1>6
  <2> QED
    BY <2>1, <2>2, <2>3
<1>14. CompInv'
  <2> SUFFICES ASSUME comp # NoComp
               PROVE  CompInv'
    BY <1>2 DEF CompInv
  <2> DEFINE c == comp.level
             I == comp.inputs
  <2>1. /\ c \in 0..(NumLevels - 2) /\ c \in Level /\ c + 1 \in Level /\ c \in Nat
        /\ I \subseteq levels[c] \cup levels[c + 1] /\ I # {} /\ I \subseteq Table
    BY <1>6 DEF CompInv
  <2>2. \A g \in levels[c + 1] \ I : ~Meets(g, Lo(I), Hi(I))
    BY DEF CompInv
  <2>3. InputsLeaveNoGap
    BY DEF InputsAreWhole
  <2>4. /\ Lo(I) \in Nat /\ Hi(I) \in Nat /\ Lo(I) <= Hi(I)
        /\ \A k \in Lo(I)..Hi(I) : \E g \in I : Lo({g}) <= k /\ k <= Hi({g})
    BY <2>1, <2>3, RangeOfFiles DEF InputsLeaveNoGap
  <2> HIDE DEF c, I
  <2>5. ASSUME n = c + 1, Meets(f, Lo(I), Hi(I))
        PROVE  FALSE
    <3>1. /\ Lo({f}) \in Nat /\ Hi({f}) \in Nat /\ Lo({f}) <= Hi({f})
          /\ Hi({f}) >= Lo(I) /\ Lo({f}) <= Hi(I)
      BY <1>4, <2>5, OneFileRange DEF Meets
    <3>2. PICK k \in Lo(I)..Hi(I) : Lo({f}) <= k /\ k <= Hi({f})
      <4>1. CASE Lo({f}) <= Lo(I)
        BY <2>4, <3>1, <4>1
      <4>2. CASE Lo(I) <= Lo({f})
        BY <2>4, <3>1, <4>2
      <4> QED
        BY <2>4, <3>1, <4>1, <4>2
    <3>3. PICK g \in I : Lo({g}) <= k /\ k <= Hi({g})
      BY <2>4
    <3>a. g \in Table
      BY <2>1
    <3>b. k \in Nat
      BY <2>4
    <3>4. Lo({g}) \in Nat /\ Hi({g}) \in Nat /\ k \in Nat
      BY <3>a, <3>b, OneFileRange
    <3>5. Meets(g, Lo({f}), Hi({f}))
      BY <3>1, <3>2, <3>3, <3>4 DEF Meets
    <3>6. n > 0 /\ \E l \in 0..n : g \in levels[l]
      BY <2>1, <2>5
    <3> QED
      BY <1>5, <3>5, <3>6
  <2>6. \A g \in levels'[c + 1] \ I : ~Meets(g, Lo(I), Hi(I))
    <3>1. \A g \in levels'[c + 1] : g \in levels[c + 1] \/ (g = f /\ n = c + 1)
      BY <1>6, <2>1
    <3> QED
      BY <2>2, <2>5, <3>1
  <2>7. DropsAreSafe'
    BY <1>2, <1>8 DEF CompInv, DropsAreSafe, Lost, Hides, DeletesNothing
  <2>8. /\ I \subseteq levels'[c] \cup levels'[c + 1]
        /\ I \cap levels'[c] # {}
    BY <1>6, <2>1 DEF CompInv, c, I
  <2> QED
    BY <1>2, <2>6, <2>7, <2>8 DEF CompInv, OutputsInOrder, Meets, c, I
<1>15. IteratorsAreCorrect'
  BY <1>2, <1>8, IteratorsUnchanged
<1> QED
  BY <1>10, <1>11, <1>12, <1>13, <1>14, <1>15

---------------------------------------------------------------------------
(* The files of a level that overlap a range.                                *)
LEMMA OverlapIs ==
  ASSUME NEW l, NEW lo, NEW hi
  PROVE  \A f : f \in Overlapping(l, lo, hi) <=> f \in levels[l] /\ Meets(f, lo, hi)
BY DEF Overlapping, Meets

LEMMA ClosedRangeIs ==
  ASSUME levels \in [Level -> SUBSET Table],
         NEW lo \in UserKeys, NEW hi \in UserKeys, lo <= hi,
         NEW A, NEW B, A = ClosedRange(lo, hi)[1], B = ClosedRange(lo, hi)[2]
  PROVE  /\ A \in 1..lo /\ B \in hi..MaxKey
         /\ IsClosed(A, B)
         /\ \A a \in 1..lo, b \in hi..MaxKey : IsClosed(a, b) => a <= A /\ B <= b
<1> DEFINE L == {a \in 1..lo : \E b \in hi..MaxKey : IsClosed(a, b)}
           H == {b \in hi..MaxKey : \E a \in 1..lo : IsClosed(a, b)}
<1>1. /\ lo \in Nat /\ hi \in Nat /\ MaxKey \in Nat /\ 1 <= lo /\ hi <= MaxKey
      /\ 1 \in 1..lo /\ MaxKey \in hi..MaxKey
  BY KeysAreNumbers
<1>2. \A f \in levels[0] : f \in Table
  BY LevelNumbers
<1>3. IsClosed(1, MaxKey)
  <2>1. \A f \in levels[0] : Lo({f}) \in 1..MaxKey /\ Hi({f}) \in 1..MaxKey
    BY <1>2, OneFileRange, KeysAreNumbers
  <2> QED
    BY <2>1 DEF IsClosed, Overlapping
<1>4. L # {} /\ H # {} /\ L \in SUBSET Int /\ H \in SUBSET Int
  BY <1>1, <1>3
<1>5. (\A x \in L : x <= lo) /\ (\A x \in H : hi <= x) /\ lo \in Int /\ hi \in Int
  BY <1>1
<1>6. A = Max(L) /\ B = Min(H)
  BY DEF ClosedRange
<1>7. A \in L /\ \A y \in L : y <= A
  <2> HIDE DEF L, H
  <2> QED
    BY <1>4, <1>5, <1>6, MaxIs
<1>8. B \in H /\ \A y \in H : B <= y
  <2> HIDE DEF L, H
  <2> QED
    BY <1>4, <1>5, <1>6, MinIs
<1>9. PICK b1 \in hi..MaxKey : IsClosed(A, b1)
  BY <1>7
<1>10. PICK a1 \in 1..lo : IsClosed(a1, B)
  BY <1>8
<1>11. /\ A \in Nat /\ B \in Nat /\ b1 \in Nat /\ a1 \in Nat
       /\ a1 <= A /\ A <= lo /\ hi <= B /\ B <= b1
  BY <1>1, <1>7, <1>8, <1>9, <1>10
<1>12. IsClosed(A, B)
  <2> SUFFICES ASSUME NEW f \in levels[0], Meets(f, A, B)
               PROVE  Lo({f}) >= A /\ Hi({f}) <= B
    BY OverlapIs DEF IsClosed
  <2>1. Lo({f}) \in Nat /\ Hi({f}) \in Nat
    BY <1>2, OneFileRange
  <2>2. Meets(f, A, b1) /\ Meets(f, a1, B)
    BY <1>11, <2>1 DEF Meets
  <2> QED
    BY <1>9, <1>10, <2>2, OverlapIs DEF IsClosed
<1> QED
  BY <1>7, <1>8, <1>12

LEMMA GetOverlappingIs ==
  ASSUME levels \in [Level -> SUBSET Table], NEW l \in Level,
         NEW lo \in UserKeys, NEW hi \in UserKeys, lo <= hi,
         NEW R, R = GetOverlappingInputs(l, lo, hi)
  PROVE  /\ R \subseteq levels[l]
         /\ \A f \in levels[l] : Meets(f, lo, hi) => f \in R
         /\ l # 0 => \A f \in R : Meets(f, lo, hi)
         /\ l = 0 => \A f \in levels[0] \ R, g \in R : Apart(f, g)
<1>1. CASE l # 0
  BY <1>1, OverlapIs DEF GetOverlappingInputs
<1>2. CASE l = 0
  <2> DEFINE A == ClosedRange(lo, hi)[1]
             B == ClosedRange(lo, hi)[2]
  <2>1. A \in 1..lo /\ B \in hi..MaxKey /\ IsClosed(A, B)
    BY ClosedRangeIs
  <2> HIDE DEF A, B
  <2>2. R = Overlapping(0, A, B)
    BY <1>2 DEF GetOverlappingInputs, A, B
  <2>3. A \in Nat /\ B \in Nat /\ lo \in Nat /\ hi \in Nat /\ A <= lo /\ hi <= B
    BY <2>1, KeysAreNumbers
  <2>4. \A f \in levels[0] : Lo({f}) \in Nat /\ Hi({f}) \in Nat /\ Lo({f}) <= Hi({f})
    BY LevelNumbers, OneFileRange
  <2>5. R \subseteq levels[0] /\ \A f \in levels[0] : f \in R <=> Meets(f, A, B)
    BY <2>2, OverlapIs
  <2>6. \A f \in levels[0] : Meets(f, lo, hi) => f \in R
    BY <2>3, <2>4, <2>5 DEF Meets
  <2>7. ASSUME NEW f \in levels[0] \ R, NEW g \in R
        PROVE  Apart(f, g)
    <3>1. Lo({g}) >= A /\ Hi({g}) <= B
      BY <2>1, <2>2 DEF IsClosed
    <3>2. ~Meets(f, A, B)
      BY <2>5
    <3> QED
      BY <2>3, <2>4, <2>5, <3>1, <3>2 DEF Meets, Apart
  <2> QED
    BY <1>2, <2>5, <2>6, <2>7
<1> QED
  BY <1>1, <1>2

LEMMA WiderRange ==
  ASSUME NEW F, NEW G \in SUBSET Table, F # {}, F \subseteq G
  PROVE  /\ Lo(G) \in Nat /\ Lo(F) \in Nat /\ Hi(F) \in Nat /\ Hi(G) \in Nat
         /\ Lo(G) <= Lo(F) /\ Lo(F) <= Hi(F) /\ Hi(F) <= Hi(G)
<1>1. F \in SUBSET Table /\ G # {}
  OBVIOUS
<1>2. /\ Lo(F) \in Nat /\ Hi(F) \in Nat /\ Lo(F) <= Hi(F)
      /\ Lo(G) \in Nat /\ Hi(G) \in Nat
  BY <1>1, RangeOfFiles
<1>3. \E f \in F : Lo({f}) = Lo(F)
  BY <1>1, RangeOfFiles
<1>4. \E f \in F : Hi({f}) = Hi(F)
  BY <1>1, RangeOfFiles
<1>5. \A f \in G : Lo(G) <= Lo({f}) /\ Hi({f}) <= Hi(G)
  BY <1>1, RangeOfFiles
<1> QED
  BY <1>2, <1>3, <1>4, <1>5

LEMMA RangeKeys ==
  ASSUME NEW F \in SUBSET Table, F # {}
  PROVE  Lo(F) \in UserKeys /\ Hi(F) \in UserKeys /\ Lo(F) <= Hi(F)
BY FileRange, RangeOfFiles

(* A compaction takes some files of its level, and of the next level those   *)
(* that overlap them.                                                        *)
LEMMA SetupShape ==
  ASSUME levels \in [Level -> SUBSET Table],
         NEW l \in 0..(NumLevels - 2), NEW in0, in0 # {}, in0 \subseteq levels[l],
         NEW inputs \in SetupOtherInputs(l, in0)
  PROVE  /\ inputs[1] # {} /\ inputs[1] \subseteq levels[l]
         /\ inputs[2] = Overlapping(l + 1, Lo(inputs[1]), Hi(inputs[1]))
         /\ \/ inputs[1] = in0
            \/ \E all \in SUBSET Table :
                 /\ in0 \subseteq all
                 /\ inputs[1] = GetOverlappingInputs(l, Lo(all), Hi(all))
                 /\ all = in0 \cup GetOverlappingInputs(l + 1, Lo(in0), Hi(in0))
<1> DEFINE in1 == GetOverlappingInputs(l + 1, Lo(in0), Hi(in0))
           all == in0 \cup in1
           ex0 == GetOverlappingInputs(l, Lo(all), Hi(all))
           ex1 == GetOverlappingInputs(l + 1, Lo(ex0), Hi(ex0))
<1>1. l \in Level /\ l + 1 \in Level /\ l \in Nat /\ l + 1 # 0
  BY LevelNumbers
<1>2. in0 \in SUBSET Table
  BY <1>1
<1>3. in1 \subseteq levels[l + 1] /\ all \in SUBSET Table /\ all # {}
  <2>1. in1 \subseteq levels[l + 1]
    BY <1>1, <1>2, RangeKeys, GetOverlappingIs
  <2> QED
    BY <1>1, <1>2, <2>1
<1>4. ex0 \subseteq levels[l] /\ \A f \in levels[l] : Meets(f, Lo(all), Hi(all)) => f \in ex0
  BY <1>1, <1>3, RangeKeys, GetOverlappingIs
<1>5. in0 \subseteq ex0
  <2> SUFFICES ASSUME NEW f \in in0
               PROVE  Meets(f, Lo(all), Hi(all))
    BY <1>4
  <2>1. Lo(all) <= Lo({f}) /\ Hi({f}) <= Hi(all) /\ Lo(all) \in Nat /\ Hi(all) \in Nat
    BY <1>3, RangeOfFiles
  <2>2. Lo({f}) \in Nat /\ Hi({f}) \in Nat /\ Lo({f}) <= Hi({f})
    BY <1>2, OneFileRange
  <2> QED
    BY <2>1, <2>2 DEF Meets
<1>6. inputs = <<in0, in1>> \/ inputs = <<ex0, ex1>>
  BY DEF SetupOtherInputs
<1>7. \A lo, hi : GetOverlappingInputs(l + 1, lo, hi) = Overlapping(l + 1, lo, hi)
  BY <1>1 DEF GetOverlappingInputs
<1> HIDE DEF in1, ex0, ex1
<1>8. CASE inputs = <<in0, in1>>
  BY <1>7, <1>8 DEF in1
<1>9. CASE inputs = <<ex0, ex1>>
  <2>1. inputs[1] = ex0 /\ inputs[2] = ex1
    BY <1>9
  <2>2. ex0 # {} /\ ex0 \subseteq levels[l]
    BY <1>4, <1>5
  <2>3. ex1 = Overlapping(l + 1, Lo(ex0), Hi(ex0))
    BY <1>7 DEF ex1
  <2>4. ex0 = GetOverlappingInputs(l, Lo(all), Hi(all)) /\ in0 \subseteq all
        /\ all = in0 \cup GetOverlappingInputs(l + 1, Lo(in0), Hi(in0))
    BY DEF ex0, in1
  <2> QED
    BY <1>3, <2>1, <2>2, <2>3, <2>4
<1> QED
  BY <1>6, <1>8, <1>9

LEMMA PickedShape ==
  ASSUME levels \in [Level -> SUBSET Table],
         NEW l \in 0..(NumLevels - 2), NEW in0 \in PickedInputs(l)
  PROVE  /\ in0 # {} /\ in0 \subseteq levels[l]
         /\ l = 0 => \A f \in levels[0] \ in0, g \in in0 : Apart(f, g)
<1>1. l \in Level
  BY LevelNumbers
<1>2. PICK f \in levels[l] :
        in0 = IF l = 0 THEN GetOverlappingInputs(0, Lo({f}), Hi({f})) ELSE {f}
  BY DEF PickedInputs
<1>3. CASE l # 0
  BY <1>2, <1>3
<1>4. CASE l = 0
  <2>1. f \in Table
    BY <1>1
  <2>2. /\ Lo({f}) \in UserKeys /\ Hi({f}) \in UserKeys /\ Lo({f}) <= Hi({f})
        /\ Lo({f}) \in Nat /\ Hi({f}) \in Nat
    BY <2>1, OneFileRange
  <2>3. Meets(f, Lo({f}), Hi({f}))
    BY <2>2 DEF Meets
  <2>4. in0 = GetOverlappingInputs(l, Lo({f}), Hi({f}))
    BY <1>2, <1>4
  <2>5. f \in in0 /\ in0 \subseteq levels[l]
    BY <1>1, <2>2, <2>3, <2>4, GetOverlappingIs
  <2>6. \A h \in levels[0] \ in0, g \in in0 : Apart(h, g)
    BY <1>1, <1>4, <2>2, <2>4, GetOverlappingIs
  <2> QED
    BY <2>5, <2>6
<1> QED
  BY <1>3, <1>4

LEMMA PickedAreApart ==
  ASSUME levels \in [Level -> SUBSET Table], LevelsAreApart,
         NEW l \in 0..(NumLevels - 2), NEW in0 \in PickedInputs(l),
         NEW inputs \in SetupOtherInputs(l, in0)
  PROVE  \A f \in levels[l] \ inputs[1], g \in inputs[1] : Apart(f, g)
<1>1. l \in Level
  BY LevelNumbers
<1>2. /\ in0 # {} /\ in0 \subseteq levels[l]
      /\ l = 0 => \A f \in levels[0] \ in0, g \in in0 : Apart(f, g)
  BY PickedShape
<1>3. /\ inputs[1] # {} /\ inputs[1] \subseteq levels[l]
      /\ \/ inputs[1] = in0
         \/ \E all \in SUBSET Table :
              /\ in0 \subseteq all
              /\ inputs[1] = GetOverlappingInputs(l, Lo(all), Hi(all))
  BY <1>2, SetupShape
<1>4. CASE l # 0
  BY <1>1, <1>3, <1>4 DEF LevelsAreApart
<1>5. CASE l = 0 /\ inputs[1] = in0
  BY <1>2, <1>5
<1>6. CASE l = 0 /\ inputs[1] # in0
  <2>1. PICK all \in SUBSET Table :
              /\ in0 \subseteq all
              /\ inputs[1] = GetOverlappingInputs(l, Lo(all), Hi(all))
    BY <1>3, <1>6
  <2>2. Lo(all) \in UserKeys /\ Hi(all) \in UserKeys /\ Lo(all) <= Hi(all)
    BY <1>2, <2>1, RangeKeys
  <2> QED
    BY <1>1, <1>6, <2>1, <2>2, GetOverlappingIs
<1> QED
  BY <1>4, <1>5, <1>6

---------------------------------------------------------------------------
(* A single table that overlaps nothing in the next level moves there.       *)
LEMMA MoveKeepsInv ==
  ASSUME LsmInv, TrivialMove
  PROVE  LsmInv'
<1> USE DEF LsmInv
<1>1. /\ comp = NoComp
      /\ UNCHANGED <<mem, imm, next_file, last_sequence, snapshots, comp, hist>>
  BY DEF TrivialMove
<1>2. PICK l \in 0..(NumLevels - 2) : \E in0 \in PickedInputs(l) :
        \E inputs \in SetupOtherInputs(l, in0) :
          /\ Cardinality(inputs[1]) = 1 /\ inputs[2] = {}
          /\ levels' = [levels EXCEPT ![l] = @ \ inputs[1],
                                      ![l + 1] = @ \cup inputs[1]]
  BY DEF TrivialMove
<1>3. PICK in0 \in PickedInputs(l) :
        \E inputs \in SetupOtherInputs(l, in0) :
          /\ Cardinality(inputs[1]) = 1 /\ inputs[2] = {}
          /\ levels' = [levels EXCEPT ![l] = @ \ inputs[1],
                                      ![l + 1] = @ \cup inputs[1]]
  BY <1>2
<1>4. PICK inputs \in SetupOtherInputs(l, in0) :
          /\ Cardinality(inputs[1]) = 1 /\ inputs[2] = {}
          /\ levels' = [levels EXCEPT ![l] = @ \ inputs[1],
                                      ![l + 1] = @ \cup inputs[1]]
  BY <1>3
<1>5. /\ l \in Level /\ l + 1 \in Level /\ l \in Nat /\ l # l + 1 /\ l + 1 # 0
      /\ levels \in [Level -> SUBSET Table]
  BY LevelNumbers DEF TypeInv
<1>6. /\ inputs[1] # {} /\ inputs[1] \subseteq levels[l]
      /\ inputs[2] = Overlapping(l + 1, Lo(inputs[1]), Hi(inputs[1]))
  BY <1>5, PickedShape, SetupShape
<1>7. PICK f : inputs[1] = {f}
  <2>1. IsFiniteSet(inputs[1])
    BY <1>5, <1>6, FS_Subset DEF TypeInv
  <2> QED
    BY <1>4, <2>1, FS_Singleton
<1>8. f \in levels[l] /\ f \in Table
  BY <1>5, <1>6, <1>7
<1>9. \A g \in levels[l] : g # f => Apart(g, f)
  BY <1>5, <1>7, PickedAreApart
<1>10. \A g \in levels[l + 1] : Apart(g, f) /\ Apart(f, g)
  <2> SUFFICES ASSUME NEW g \in levels[l + 1]
               PROVE  Apart(g, f) /\ Apart(f, g)
    OBVIOUS
  <2>1. ~Meets(g, Lo({f}), Hi({f}))
    BY <1>4, <1>6, <1>7, OverlapIs
  <2>2. g \in Table
    BY <1>5
  <2>3. Lo({f}) \in Nat /\ Hi({f}) \in Nat /\ Lo({g}) \in Nat /\ Hi({g}) \in Nat
    BY <1>8, <2>2, OneFileRange
  <2> QED
    BY <2>1, <2>3 DEF Meets, Apart
<1>11. \A m \in Level : levels'[m] =
         IF m = l THEN levels[l] \ {f}
         ELSE IF m = l + 1 THEN levels[l + 1] \cup {f} ELSE levels[m]
  BY <1>4, <1>5, <1>7
<1>12. \A m \in Level : \A g \in levels'[m] : g \in levels[m] \/ (g = f /\ m = l + 1)
  BY <1>11
<1>13. ASSUME NEW e
       PROVE  e \in Tables' <=> e \in Tables
  <2>1. e \in Tables' <=> \E m \in Level : \E g \in levels'[m] : e \in g.data
    BY DEF Tables, EntriesOf
  <2> QED
    BY <2>1, <1>5, <1>8, <1>11, InTables
<1>14. Tables' = Tables /\ All' = All /\ Views' = Views
  <2>1. Tables' = Tables
    BY <1>13
  <2> QED
    BY <1>1, <2>1 DEF All, Views
<1>15. TypeInv'
  <2>1. levels' \in [Level -> SUBSET Table]
    <3>1. DOMAIN levels' = Level /\ levels' = [m \in Level |-> levels'[m]]
      BY <1>4, <1>5
    <3>2. \A m \in Level : levels'[m] \in SUBSET Table
      BY <1>5, <1>8, <1>12
    <3> QED
      BY <3>1, <3>2
  <2>2. \A m \in Level : IsFiniteSet(levels'[m])
    <3>1. \A m \in Level : IsFiniteSet(levels[m])
      BY DEF TypeInv
    <3>2. IsFiniteSet(levels[l] \ {f})
      BY <1>5, <3>1, FS_RemoveElement
    <3>3. IsFiniteSet(levels[l + 1] \cup {f})
      BY <1>5, <3>1, FS_AddElement
    <3> QED
      BY <1>11, <3>1, <3>2, <3>3, Zenon
  <2> QED
    BY <1>1, <1>14, <2>1, <2>2 DEF TypeInv
<1>16. AgeInv'
  <2>1. \A g \in levels'[0] : g \in levels[0]
    BY <1>5, <1>12, LevelNumbers
  <2> QED
    BY <1>1, <1>14, <2>1 DEF AgeInv, Newer
<1>17. LevelsAreOrdered'
  <2> SUFFICES ASSUME NEW n \in Level, NEW m \in Level, n < m,
                      NEW g \in levels'[n], NEW h \in levels'[m],
                      NEW d \in g.data, NEW e \in h.data, d.key = e.key
               PROVE  d.seq > e.seq
    BY DEF LevelsAreOrdered, EntriesOf
  <2>a. n \in Nat /\ m \in Nat
    BY LevelNumbers
  <2>1. CASE g \in levels[n] /\ h \in levels[m]
    BY <2>1 DEF LevelsAreOrdered, EntriesOf
  <2>2. CASE h = f /\ m = l + 1 /\ n = l
    <3>1. g \in levels[l] /\ g # f /\ g \in Table
      BY <1>5, <1>11, <2>2
    <3>2. Apart(g, f)
      BY <1>9, <3>1
    <3>3. Lo({g}) <= d.key /\ d.key <= Hi({g}) /\ Lo({g}) \in Nat /\ Hi({g}) \in Nat
      BY <3>1, OneFileRange
    <3>4. Lo({f}) <= d.key /\ d.key <= Hi({f}) /\ Lo({f}) \in Nat /\ Hi({f}) \in Nat
      BY <1>8, <2>2, OneFileRange
    <3>5. d.key \in Nat
      BY <3>1, KeysAreNumbers DEF Table, Entry
    <3> QED
      BY <3>2, <3>3, <3>4, <3>5 DEF Apart
  <2>3. CASE h = f /\ m = l + 1 /\ n # l
    <3>1. n < l /\ g \in levels[n] /\ h \in levels[l]
      BY <1>5, <1>8, <1>11, <2>a, <2>3
    <3> QED
      BY <1>5, <3>1 DEF LevelsAreOrdered, EntriesOf
  <2>4. CASE g = f /\ n = l + 1
    <3>1. l < m /\ h \in levels[m] /\ g \in levels[l]
      BY <1>5, <1>8, <1>12, <2>a, <2>4
    <3> QED
      BY <1>5, <3>1 DEF LevelsAreOrdered, EntriesOf
  <2> QED
    BY <1>12, <2>1, <2>2, <2>3, <2>4
<1>18. LevelsAreApart'
  <2> SUFFICES ASSUME NEW m \in Level \ {0}, NEW g \in levels'[m], NEW h \in levels'[m], g # h
               PROVE  Apart(g, h)
    BY DEF LevelsAreApart, Apart
  <2>1. CASE g \in levels[m] /\ h \in levels[m]
    BY <2>1 DEF LevelsAreApart
  <2> QED
    BY <1>10, <1>12, <2>1
<1>19. CompInv'
  BY <1>1 DEF CompInv
<1>20. IteratorsAreCorrect'
  BY <1>1, <1>14, IteratorsUnchanged
<1> QED
  BY <1>15, <1>16, <1>17, <1>18, <1>19, <1>20

---------------------------------------------------------------------------
(* Compactions: what they read.                                              *)
LEMMA SameKey ==
  ASSUME NEW g \in Table, NEW h \in Table, NEW d \in g.data, NEW e \in h.data, d.key = e.key
  PROVE  ~Apart(g, h) /\ Meets(h, Lo({g}), Hi({g}))
<1>1. Lo({g}) <= d.key /\ d.key <= Hi({g}) /\ Lo({g}) \in Nat /\ Hi({g}) \in Nat
  BY OneFileRange
<1>2. Lo({h}) <= d.key /\ d.key <= Hi({h}) /\ Lo({h}) \in Nat /\ Hi({h}) \in Nat
  BY OneFileRange
<1>3. d.key \in Nat
  BY KeysAreNumbers DEF Table, Entry
<1> QED
  BY <1>1, <1>2, <1>3 DEF Apart, Meets

LEMMA MeetsMore ==
  ASSUME NEW F \in SUBSET Table, NEW g \in F, NEW h \in Table, Meets(h, Lo({g}), Hi({g}))
  PROVE  Meets(h, Lo(F), Hi(F))
<1>1. F # {} /\ g \in Table
  OBVIOUS
<1>2. Lo(F) <= Lo({g}) /\ Hi({g}) <= Hi(F) /\ Lo(F) \in Nat /\ Hi(F) \in Nat
  BY <1>1, RangeOfFiles
<1>3. Lo({g}) \in Nat /\ Hi({g}) \in Nat /\ Lo({h}) \in Nat /\ Hi({h}) \in Nat
  BY <1>1, OneFileRange
<1> QED
  BY <1>2, <1>3 DEF Meets

(* The outputs fit between the files that stay in the next level.            *)
LEMMA RoomForOutputs ==
  ASSUME levels \in [Level -> SUBSET Table], LevelsAreApart,
         NEW l \in 0..(NumLevels - 2), NEW a, a # {}, a \subseteq levels[l],
         NEW b, b = Overlapping(l + 1, Lo(a), Hi(a)), NEW I, I = a \cup b
  PROVE  \A f \in levels[l + 1] \ I : ~Meets(f, Lo(I), Hi(I))
<1> SUFFICES ASSUME NEW f \in levels[l + 1] \ I, Meets(f, Lo(I), Hi(I))
             PROVE  FALSE
  OBVIOUS
<1>1. l \in Level /\ l + 1 \in Level /\ l + 1 # 0
  BY LevelNumbers
<1>2. \A g : g \in b <=> g \in levels[l + 1] /\ Meets(g, Lo(a), Hi(a))
  BY OverlapIs
<1>3. I \in SUBSET Table /\ I # {} /\ a \in SUBSET Table /\ f \in Table
  BY <1>1, <1>2
<1>4. ~Meets(f, Lo(a), Hi(a)) /\ \A g \in b : Apart(f, g)
  BY <1>1, <1>2 DEF LevelsAreApart
<1>5. /\ Lo(I) \in Nat /\ Hi(I) \in Nat /\ Lo(a) \in Nat /\ Hi(a) \in Nat
      /\ Lo(I) <= Lo(a) /\ Lo(a) <= Hi(a) /\ Hi(a) <= Hi(I)
  BY <1>3, WiderRange
<1>6. Lo({f}) \in Nat /\ Hi({f}) \in Nat /\ Lo({f}) <= Hi({f})
  BY <1>3, OneFileRange
<1>7. CASE Hi({f}) < Lo(a)
  <2>1. PICK g \in I : Lo({g}) = Lo(I)
    BY <1>3, RangeOfFiles
  <2>2. Lo(I) < Lo(a)
    BY <1>5, <1>6, <1>7 DEF Meets
  <2>3. g \in b
    <3>1. \A h \in a : Lo(a) <= Lo({h})
      BY <1>3, RangeOfFiles
    <3> QED
      BY <1>5, <2>1, <2>2, <3>1
  <2>4. Hi({g}) >= Lo(a) /\ Apart(f, g)
    BY <1>2, <1>4, <2>3 DEF Meets
  <2>5. g \in Table
    BY <1>3
  <2>6. Hi({g}) \in Nat
    BY <2>5, OneFileRange
  <2> QED
    BY <1>5, <1>6, <1>7, <2>1, <2>4, <2>6 DEF Apart, Meets
<1>8. CASE Hi(a) < Lo({f})
  <2>1. PICK g \in I : Hi({g}) = Hi(I)
    BY <1>3, RangeOfFiles
  <2>2. Hi(a) < Hi(I)
    BY <1>5, <1>6, <1>8 DEF Meets
  <2>3. g \in b
    <3>1. \A h \in a : Hi({h}) <= Hi(a)
      BY <1>3, RangeOfFiles
    <3> QED
      BY <1>5, <2>1, <2>2, <3>1
  <2>4. Lo({g}) <= Hi(a) /\ Apart(f, g)
    BY <1>2, <1>4, <2>3 DEF Meets
  <2>5. g \in Table
    BY <1>3
  <2>6. Lo({g}) \in Nat
    BY <2>5, OneFileRange
  <2> QED
    BY <1>5, <1>6, <1>8, <2>1, <2>4, <2>6 DEF Apart, Meets
<1> QED
  BY <1>4, <1>5, <1>6, <1>7, <1>8 DEF Meets

(* ... and what they write: every entry once, the keys in order.             *)
LEMMA OutputsShape ==
  ASSUME next_file \in Nat, NEW S \in SUBSET Entry, IsFiniteSet(S), NEW outs \in OutputsOf(S)
  PROVE  /\ outs \subseteq Table /\ IsFiniteSet(outs) /\ EntriesOf(outs) = S
         /\ \A f, g \in outs : f # g =>
              \/ \A e \in f.data, h \in g.data : e.key <= h.key
              \/ \A e \in f.data, h \in g.data : h.key <= e.key
<1>1. PICK cuts \in SUBSET S : outs = Files(S, cuts)
  BY DEF OutputsOf
<1> DEFINE FileOf(e) == Cardinality({c \in cuts : Before(c, e)})
           At(i) == [num |-> next_file + i, data |-> {e \in S : FileOf(e) = i}]
<1>2. outs = {At(i) : i \in {FileOf(e) : e \in S}}
  BY <1>1 DEF Files
<1>3. IsFiniteSet(cuts)
  BY FS_Subset
<1>4. ASSUME NEW e \in S
      PROVE  FileOf(e) \in Nat
  <2>1. IsFiniteSet({c \in cuts : Before(c, e)})
    BY <1>3, FS_Subset
  <2> QED
    BY <2>1, FS_CardinalityType
<1>5. ASSUME NEW e \in S, NEW h \in S, h.key < e.key
      PROVE  FileOf(h) <= FileOf(e)
  <2> DEFINE Ce == {c \in cuts : Before(c, e)}
             Ch == {c \in cuts : Before(c, h)}
  <2>1. Ch \subseteq Ce
    <3>1. \A c \in cuts : c.key \in Nat /\ h.key \in Nat /\ e.key \in Nat
      BY KeysAreNumbers DEF Entry
    <3>2. \A c \in cuts : Before(c, h) => Before(c, e)
      BY <1>5, <3>1 DEF Before
    <3> QED
      BY <3>2
  <2>2. IsFiniteSet(Ce)
    BY <1>3, FS_Subset
  <2> QED
    BY <2>1, <2>2, FS_Subset
<1> HIDE DEF FileOf
<1>6. \A f \in outs : \E i \in Nat : f = At(i) /\ f.data # {}
  BY <1>2, <1>4
<1>7. outs \subseteq Table
  <2> SUFFICES ASSUME NEW f \in outs
               PROVE  f \in Table
    OBVIOUS
  <2>1. PICK i \in Nat : f = At(i) /\ f.data # {}
    BY <1>6
  <2>2. next_file + i \in Nat /\ {e \in S : FileOf(e) = i} \in (SUBSET Entry) \ {{}}
    BY <2>1
  <2> QED
    BY <2>1, <2>2 DEF Table
<1>8. EntriesOf(outs) = S
  <2>1. ASSUME NEW f \in outs, NEW e \in f.data
        PROVE  e \in S
    BY <1>6, <2>1
  <2>2. ASSUME NEW e \in S
        PROVE  \E f \in outs : e \in f.data
    <3>1. At(FileOf(e)) \in outs /\ e \in At(FileOf(e)).data
      BY <1>2
    <3> QED
      BY <3>1
  <2>3. \A e : e \in EntriesOf(outs) <=> e \in S
    BY <2>1, <2>2, InTables
  <2> QED
    BY <2>3
<1>9. IsFiniteSet(outs)
  <2> DEFINE F == [e \in S |-> At(FileOf(e))]
  <2>1. F \in Surjection(S, outs)
    BY <1>2 DEF Surjection
  <2> QED
    BY <2>1, FS_Surjection
<1>10. ASSUME NEW f \in outs, NEW g \in outs, f # g
       PROVE  \/ \A e \in f.data, h \in g.data : e.key <= h.key
              \/ \A e \in f.data, h \in g.data : h.key <= e.key
  <2>1. PICK i \in Nat : f = At(i)
    BY <1>6
  <2>2. PICK j \in Nat : g = At(j)
    BY <1>6
  <2>3. /\ \A e \in f.data : e \in S /\ FileOf(e) = i /\ e.key \in Nat
        /\ \A e \in g.data : e \in S /\ FileOf(e) = j /\ e.key \in Nat
    BY <2>1, <2>2, KeysAreNumbers DEF Entry
  <2>4. i < j \/ j < i
    BY <1>10, <2>1, <2>2
  <2>5. CASE i < j
    BY <1>5, <2>3, <2>5
  <2>6. CASE j < i
    BY <1>5, <2>3, <2>6
  <2> QED
    BY <2>4, <2>5, <2>6
<1> QED
  BY <1>7, <1>8, <1>9, <1>10

LEMMA SmallestIsLeast ==
  ASSUME TypeInv
  PROVE  SmallestSnapshot \in Nat /\ \A s \in Views : SmallestSnapshot <= s
<1>1. CASE snapshots = {}
  BY <1>1 DEF SmallestSnapshot, Views, TypeInv
<1>2. CASE snapshots # {}
  <2>1. snapshots \in SUBSET Int /\ 0 \in Int /\ \A s \in snapshots : 0 <= s
    BY DEF TypeInv
  <2>2. Min(snapshots) \in snapshots /\ \A s \in snapshots : Min(snapshots) <= s
    BY <1>2, <2>1, MinIs
  <2>3. SmallestSnapshot = Min(snapshots)
    BY <1>2 DEF SmallestSnapshot
  <2>4. Min(snapshots) <= last_sequence /\ Min(snapshots) \in Nat
    BY <2>2 DEF TypeInv
  <2> QED
    BY <2>2, <2>3, <2>4 DEF Views
<1> QED
  BY <1>1, <1>2

(* What a compaction drops goes with everything it hides or deletes.         *)
LEMMA BeginKeepsInv ==
  ASSUME LsmInv, comp = NoComp,
         NEW l \in 0..(NumLevels - 2), NEW in0, in0 # {}, in0 \subseteq levels[l],
         NEW inputs \in SetupOtherInputs(l, in0), Begin(l, inputs), InputsAreWhole'
  PROVE  LsmInv'
<1> USE DEF LsmInv
<1> DEFINE a == inputs[1]
           b == inputs[2]
           I == a \cup b
           E == EntriesOf(I)
           D == Dropped(l, E)
<1>1. /\ l \in Level /\ l + 1 \in Level /\ l \in Nat /\ l + 1 # 0
      /\ levels \in [Level -> SUBSET Table] /\ next_file \in Nat
  BY LevelNumbers DEF TypeInv
<1>2. a # {} /\ a \subseteq levels[l] /\ b = Overlapping(l + 1, Lo(a), Hi(a))
  BY <1>1, SetupShape
<1>3. b \subseteq levels[l + 1]
  BY <1>2, OverlapIs
<1>4. \A f \in levels[l + 1] \ I : ~Meets(f, Lo(I), Hi(I))
  <2> HIDE DEF a, b
  <2> QED
    BY <1>1, <1>2, RoomForOutputs
<1>5. PICK outs \in OutputsOf(E \ D) :
       /\ comp' = [level |-> l, inputs |-> I, outputs |-> outs]
       /\ next_file' = next_file + Cardinality(outs)
       /\ UNCHANGED <<mem, imm, levels, last_sequence, snapshots, hist>>
  BY DEF Begin
<1> HIDE DEF a, b, I, E, D
<1>6. I \subseteq levels[l] \cup levels[l + 1] /\ I \cap levels[l] # {} /\ I \in SUBSET Table
  BY <1>1, <1>2, <1>3 DEF I
<1>7. E \subseteq Tables /\ E \subseteq hist /\ E \subseteq Entry /\ D \subseteq E /\ IsFiniteSet(E \ D)
  <2>1. E \subseteq Tables
    BY <1>1, <1>6, InTables DEF E
  <2>2. E \subseteq hist /\ hist \subseteq Entry
    BY <2>1 DEF TypeInv
  <2>3. E \ D \in SUBSET hist /\ IsFiniteSet(hist)
    BY <2>2 DEF TypeInv
  <2>4. IsFiniteSet(E \ D)
    BY <2>3, FS_Subset
  <2> QED
    BY <2>1, <2>2, <2>4 DEF D, Dropped
<1>8. /\ outs \subseteq Table /\ IsFiniteSet(outs) /\ EntriesOf(outs) = E \ D
      /\ \A f, g \in outs : f # g =>
           \/ \A e \in f.data, h \in g.data : e.key <= h.key
           \/ \A e \in f.data, h \in g.data : h.key <= e.key
  BY <1>1, <1>7, OutputsShape
<1>9. comp'.level = l /\ comp'.inputs = I /\ comp'.outputs = outs
  BY <1>5
<1>10. Tables' = Tables /\ All' = All /\ Views' = Views /\ Lost' = D
  <2>1. Tables' = Tables
    BY <1>5, TreeUnchanged
  <2>2. Lost' = E \ (E \ D)
    BY <1>8, <1>9 DEF Lost, E
  <2> QED
    BY <1>5, <1>7, <2>1, <2>2 DEF All, Views
<1>11. ASSUME NEW d \in D, d.del, d.seq <= SmallestSnapshot, IsBaseLevelForKey(l, d.key),
              NEW e \in All, e.key = d.key, e.seq < d.seq
       PROVE  e \in D
  <2>1. d \in E /\ d \in Tables /\ d \in hist /\ d.seq \in Nat /\ e.seq \in Nat
    BY <1>7, AllInHist
  <2>2. e \in Tables
    <3>1. \A x \in mem \cup imm : x.seq > d.seq
      BY <2>1 DEF AgeInv, Newer
    <3>2. \A x \in mem \cup imm : x.seq \in Nat
      BY AllInHist DEF All
    <3>3. e \notin mem \cup imm
      BY <1>11, <2>1, <3>1, <3>2
    <3> QED
      BY <3>3 DEF All
  <2>3. PICK g \in I : d \in g.data
    BY <2>1, InTables DEF E
  <2>4. PICK m \in Level : \E h \in levels[m] : e \in h.data
    BY <2>2, InTables
  <2>5. PICK h \in levels[m] : e \in h.data
    BY <2>4
  <2>6. g \in Table /\ h \in Table /\ m \in Nat
    BY <1>1, <1>6, LevelNumbers
  <2>7. ~(m >= l + 2)
    <3>1. Meets(h, d.key, d.key)
      <4>1. Lo({h}) <= e.key /\ e.key <= Hi({h}) /\ Lo({h}) \in Nat /\ Hi({h}) \in Nat
        BY <2>5, <2>6, OneFileRange
      <4>2. e.key \in Nat
        BY <2>5, <2>6, KeysAreNumbers DEF Table, Entry
      <4> QED
        BY <1>11, <4>1, <4>2 DEF Meets
    <3> QED
      BY <1>11, <2>5, <3>1, OverlapIs DEF IsBaseLevelForKey
  <2>8. ~Apart(h, g) /\ ~Apart(g, h) /\ Meets(h, Lo({g}), Hi({g}))
    BY <1>11, <2>3, <2>5, <2>6, SameKey
  <2>9. \A n \in Level : g \in levels[n] => ~(m < n)
    <3>1. \A n \in Level : g \in levels[n] /\ m < n => e.seq > d.seq
      BY <1>11, <2>3, <2>5 DEF LevelsAreOrdered, EntriesOf
    <3> QED
      BY <1>11, <2>1, <3>1
  <2>10. CASE m = l + 1
    <3>1. Meets(h, Lo(I), Hi(I))
      BY <1>6, <2>3, <2>6, <2>8, MeetsMore
    <3>2. h \in I
      BY <1>4, <2>5, <2>10, <3>1
    <3> QED
      BY <1>11, <2>1, <2>5, <3>2, InTables DEF D, Dropped, E
  <2>11. CASE m # l + 1
    <3>1. g \in levels[l] /\ m = l
      BY <1>1, <1>6, <2>6, <2>7, <2>9, <2>11
    <3>2. h \in I
      <4> SUFFICES ASSUME h \notin I
                   PROVE  FALSE
        OBVIOUS
      <4>1. g # h
        BY <2>3
      <4>2. CASE l # 0
        BY <1>1, <2>5, <2>8, <3>1, <4>1, <4>2 DEF LevelsAreApart
      <4>3. CASE l = 0
        <5>1. h.num < g.num
          <6>1. ~Newer(h.data, g.data)
            BY <1>11, <2>1, <2>3, <2>5 DEF Newer
          <6> QED
            BY <2>5, <3>1, <4>1, <4>3, <6>1 DEF AgeInv
        <5>2. ~SharesKey(h, g)
          BY <1>5, <1>9, <2>3, <2>5, <3>1, <4>3, <5>1 DEF InputsAreWhole, NothingOlderStays, SharesKey
        <5> QED
          BY <1>11, <2>3, <2>5, <5>2 DEF SharesKey
      <4> QED
        BY <4>2, <4>3
    <3> QED
      BY <1>11, <2>1, <2>5, <3>2, InTables DEF D, Dropped, E
  <2> QED
    BY <2>10, <2>11
<1>12. DropsAreSafe'
  <2> SUFFICES ASSUME NEW d \in D
               PROVE  \/ \E p \in E : Hides(p, d)'
                      \/ DeletesNothing(d)'
    BY <1>9, <1>10 DEF DropsAreSafe, E, Hides, DeletesNothing
  <2>1. SmallestSnapshot \in Nat /\ \A s \in Views : SmallestSnapshot <= s /\ s \in Nat
    BY SmallestIsLeast, AllInHist
  <2>2. \A e \in E : e.seq \in Nat
    BY <1>7 DEF Entry
  <2>3. CASE \E p \in E : p.key = d.key /\ p.seq > d.seq /\ p.seq <= SmallestSnapshot
    <3>1. PICK p \in E : p.key = d.key /\ p.seq > d.seq /\ p.seq <= SmallestSnapshot
      BY <2>3
    <3>2. \A s \in Views : p.seq <= s
      BY <2>1, <2>2, <3>1
    <3> QED
      BY <1>10, <3>1, <3>2 DEF Hides
  <2>4. CASE d.del /\ d.seq <= SmallestSnapshot /\ IsBaseLevelForKey(l, d.key)
    <3>1. \A s \in Views : d.seq <= s
      BY <1>7, <2>1, <2>2, <2>4
    <3>2. \A e \in All : e.key = d.key /\ e.seq < d.seq => e \in D
      BY <1>11, <2>4
    <3> QED
      BY <1>10, <2>4, <3>1, <3>2 DEF DeletesNothing
  <2> QED
    BY <2>3, <2>4 DEF D, Dropped
<1>13. CompInv'
  <2>1. OutputsInOrder'
    BY <1>8, <1>9 DEF OutputsInOrder
  <2>2. EntriesOf(outs) \subseteq EntriesOf(I)
    BY <1>8 DEF E
  <2> QED
    BY <1>4, <1>5, <1>6, <1>8, <1>9, <1>12, <2>1, <2>2 DEF CompInv, Meets
<1>14. next_file' \in Nat /\ next_file <= next_file'
  BY <1>1, <1>5, <1>8, FS_CardinalityType
<1>15. TypeInv'
  BY <1>5, <1>10, <1>14 DEF TypeInv
<1>16. AgeInv'
  <2>1. \A f \in levels[0] : f.num < next_file'
    <3>1. \A f \in levels[0] : f.num \in Nat /\ f.num < next_file
      BY <1>1, LevelNumbers DEF AgeInv, Table
    <3> QED
      BY <1>1, <1>14, <3>1
  <2> QED
    BY <1>5, <1>10, <2>1 DEF AgeInv, Newer
<1>17. LevelsAreOrdered' /\ LevelsAreApart'
  BY <1>5, TreeUnchanged
<1>18. IteratorsAreCorrect'
  BY <1>5, <1>10, IteratorsUnchanged
<1> QED
  BY <1>13, <1>15, <1>16, <1>17, <1>18

---------------------------------------------------------------------------
(* Compactions: what they leave.                                             *)
LEMMA OneHome ==
  ASSUME TypeInv, AgeInv, LevelsAreOrdered, LevelsAreApart,
         NEW m \in Level, NEW n \in Level, NEW f \in levels[m], NEW g \in levels[n],
         NEW d \in f.data, d \in g.data
  PROVE  f = g
<1>1. f \in Table /\ g \in Table /\ m \in Nat /\ n \in Nat /\ d.seq \in Nat
  <2>1. levels[m] \subseteq Table /\ levels[n] \subseteq Table
    BY DEF TypeInv
  <2>2. d \in Entry
    BY <2>1 DEF Table
  <2> QED
    BY <2>1, <2>2, LevelNumbers DEF Entry
<1>2. ~(m < n) /\ ~(n < m)
  BY <1>1 DEF LevelsAreOrdered, EntriesOf
<1>3. CASE m = n /\ m = 0 /\ f # g
  <2>1. Newer(g.data, f.data) \/ Newer(f.data, g.data)
    BY <1>3 DEF AgeInv
  <2>2. d.seq > d.seq
    BY <2>1 DEF Newer
  <2> QED
    BY <1>1, <2>2
<1>4. CASE m = n /\ m # 0 /\ f # g
  <2>1. Apart(f, g)
    BY <1>4 DEF LevelsAreApart
  <2> QED
    BY <1>1, <2>1, SameKey
<1> QED
  BY <1>1, <1>2, <1>3, <1>4

LEMMA ApartInOrder ==
  ASSUME NEW f \in Table, NEW g \in Table, ~SharesKey(f, g),
         \A e \in f.data, h \in g.data : e.key <= h.key
  PROVE  Apart(f, g) /\ Apart(g, f)
<1>1. PICK e \in f.data : e.key = Hi({f})
  BY OneFileRange
<1>2. PICK h \in g.data : h.key = Lo({g})
  BY OneFileRange
<1>3. e.key <= h.key /\ e.key # h.key
  BY <1>1, <1>2 DEF SharesKey
<1>4. Hi({f}) \in Nat /\ Lo({g}) \in Nat
  BY OneFileRange
<1> QED
  BY <1>1, <1>2, <1>3, <1>4 DEF Apart

(* A read of an iterator that loses what is safe to lose.                    *)
LEMMA SafeToLose ==
  ASSUME TypeInv, NEW A, NEW L, A = All \ L, L \subseteq All,
         \A d \in L : \/ \E p \in All : Hides(p, d)
                      \/ d.del /\ \A e \in All : e.key = d.key /\ e.seq < d.seq => e \in L,
         NEW k, NEW s \in Views
  PROVE  Answer(Newest(Visible(A, k, s))) = Answer(Newest(Visible(All, k, s)))
<1> DEFINE V == Visible(All, k, s)
           W == Visible(A, k, s)
<1>1. /\ V \subseteq All /\ W \subseteq V
      /\ \A e : e \in V <=> e \in All /\ e.key = k /\ e.seq <= s
      /\ \A e : e \in W <=> e \in V /\ e \notin L
  BY DEF Visible
<1>2. /\ All \subseteq Entry /\ s \in Nat
      /\ \A e, f \in All : e.seq = f.seq => e = f
      /\ \A e \in All : e.seq \in Nat /\ e.seq <= last_sequence
  BY AllInHist DEF TypeInv
<1> HIDE DEF V, W
<1>3. CASE V = {}
  <2>1. W = V
    BY <1>1, <1>3
  <2> QED
    BY <2>1 DEF V, W
<1>4. CASE V # {}
  <2> DEFINE n == Newest(V)
  <2>1. n \in V /\ \A e \in V : e.seq <= n.seq
    <3>1. V \in SUBSET Entry /\ last_sequence \in Nat /\ \A e \in V : e.seq <= last_sequence
      BY <1>1, <1>2, AllInHist
    <3> QED
      BY <1>4, <3>1, NewestIs
  <2> HIDE DEF n
  <2>2. CASE n \notin L
    <3>1. n \in W /\ W \in SUBSET Entry /\ \A e \in W : e.seq <= n.seq
      BY <1>1, <1>2, <2>1, <2>2
    <3>2. \A e, f \in W : e.seq = f.seq => e = f
      BY <1>1, <1>2
    <3>3. Newest(W) = n
      BY <3>1, <3>2, NewestIsThis
    <3> QED
      BY <3>3 DEF n, V, W
  <2>3. CASE n \in L
    <3>1. ~\E p \in All : Hides(p, n)
      <4> SUFFICES ASSUME NEW p \in All, Hides(p, n)
                   PROVE  FALSE
        OBVIOUS
      <4>1. p \in V
        BY <1>1, <2>1 DEF Hides
      <4> QED
        BY <1>1, <1>2, <2>1, <4>1 DEF Hides
    <3>2. n.del /\ \A e \in All : e.key = n.key /\ e.seq < n.seq => e \in L
      BY <2>3, <3>1
    <3>3. ASSUME NEW e \in V
          PROVE  e \in L
      <4>1. e \in All /\ n \in All /\ e.key = n.key /\ e.seq <= n.seq
        BY <1>1, <2>1
      <4> QED
        BY <1>2, <2>3, <3>2, <4>1
    <3>4. W = {}
      BY <1>1, <3>3
    <3>5. Answer(Newest(W)) = 0 /\ Answer(Newest(V)) = 0
      BY <3>2, <3>4 DEF Answer, Newest, Nothing, n
    <3> QED
      BY <3>5 DEF V, W
  <2> QED
    BY <2>2, <2>3
<1> QED
  BY <1>3, <1>4

LEMMA InstallKeepsInv ==
  ASSUME LsmInv, InstallCompactionResults, KeysStayWhole, InputsAreWhole
  PROVE  LsmInv'
<1> USE DEF LsmInv
<1> DEFINE c == comp.level
           I == comp.inputs
           O == comp.outputs
<1>1. /\ comp # NoComp /\ comp' = NoComp
      /\ UNCHANGED <<mem, imm, next_file, last_sequence, snapshots, hist>>
  BY DEF InstallCompactionResults
<1>2. levels' = [l \in Level |-> IF l = c + 1 THEN (levels[l] \ I) \cup O ELSE levels[l] \ I]
  BY DEF InstallCompactionResults
<1>3. /\ c \in 0..(NumLevels - 2) /\ c \in Level /\ c + 1 \in Level /\ c \in Nat /\ c + 1 # 0
      /\ levels \in [Level -> SUBSET Table]
  BY <1>1, LevelNumbers DEF CompInv, TypeInv
<1>4. /\ I \subseteq levels[c] \cup levels[c + 1] /\ I \in SUBSET Table
      /\ O \subseteq Table /\ IsFiniteSet(O)
      /\ EntriesOf(O) \subseteq EntriesOf(I)
      /\ \A f \in levels[c + 1] \ I : ~Meets(f, Lo(I), Hi(I))
  BY <1>1, <1>3 DEF CompInv
<1>5. /\ OutputsInOrder /\ DropsAreSafe
      /\ \A f, g \in O : f # g => ~SharesKey(f, g)
      /\ c = 0 => \A f \in levels[0] \ I, g \in levels[0] \cap I :
                    f.num < g.num => ~SharesKey(f, g)
  BY <1>1 DEF CompInv, KeysStayWhole, InputsAreWhole, NothingOlderStays
<1> HIDE DEF c, I, O
<1>6. \A m \in Level : \A g \in levels'[m] :
        (g \in levels[m] /\ g \notin I) \/ (g \in O /\ m = c + 1)
  BY <1>2
<1>7. \A m \in Level : \A g \in levels[m] \ I : g \in levels'[m]
  BY <1>2
<1>8. \A g \in O : g \in levels'[c + 1]
  BY <1>2, <1>3
<1>9. ASSUME NEW g \in O, NEW d \in g.data
      PROVE  \E i \in I : d \in i.data
  BY <1>4, InTables
<1>10. EntriesOf(I) \subseteq Tables
  BY <1>3, <1>4, InTables
<1>11. Lost \subseteq EntriesOf(I) /\ Lost \subseteq Tables
  BY <1>10 DEF Lost, I
<1>12. ASSUME NEW e
       PROVE  e \in Tables' <=> e \in Tables /\ e \notin Lost
  <2>1. e \in Tables' <=> \E m \in Level : \E g \in levels'[m] : e \in g.data
    BY DEF Tables, EntriesOf
  <2>2. e \in Lost <=> (\E i \in I : e \in i.data) /\ ~(\E g \in O : e \in g.data)
    BY InTables DEF Lost, I, O
  <2>3. ASSUME e \in Tables'
        PROVE  e \in Tables /\ e \notin Lost
    <3>1. PICK m \in Level : \E g \in levels'[m] : e \in g.data
      BY <2>1, <2>3
    <3>2. PICK g \in levels'[m] : e \in g.data
      BY <3>1
    <3>3. CASE g \in O
      BY <1>10, <2>2, <3>2, <3>3, <1>9, InTables
    <3>4. CASE g \in levels[m] /\ g \notin I
      <4>1. e \in Tables
        BY <3>2, <3>4, InTables
      <4>2. ~\E i \in I : e \in i.data
        <5> SUFFICES ASSUME NEW i \in I, e \in i.data
                     PROVE  FALSE
          OBVIOUS
        <5>1. PICK n \in Level : i \in levels[n]
          BY <1>3, <1>4
        <5> QED
          BY <3>2, <3>4, <5>1, OneHome
      <4> QED
        BY <2>2, <4>1, <4>2
    <3> QED
      BY <1>6, <3>2, <3>3, <3>4
  <2>4. ASSUME e \in Tables, e \notin Lost
        PROVE  e \in Tables'
    <3>1. PICK m \in Level : \E g \in levels[m] : e \in g.data
      BY <2>4, InTables
    <3>2. PICK g \in levels[m] : e \in g.data
      BY <3>1
    <3>3. CASE g \in I
      <4>1. PICK h \in O : e \in h.data
        BY <2>2, <2>4, <3>2, <3>3
      <4> QED
        BY <1>3, <1>8, <2>1, <4>1
    <3> QED
      BY <1>7, <2>1, <3>2, <3>3
  <2> QED
    BY <2>3, <2>4
<1>13. Tables' \subseteq Tables /\ Views' = Views /\ All' = All \ Lost
  <2>1. \A e \in mem \cup imm : e \notin Lost
    <3>1. \A e \in Lost : e.seq \in Nat
      BY <1>11, AllInHist DEF All
    <3> QED
      BY <1>11, <3>1 DEF AgeInv, Newer
  <2>2. Tables' = Tables \ Lost
    BY <1>12
  <2> QED
    BY <1>1, <2>1, <2>2 DEF All, Views
<1>14. TypeInv'
  <2>1. levels' \in [Level -> SUBSET Table]
    BY <1>2, <1>3, <1>4
  <2>2. \A m \in Level : IsFiniteSet(levels'[m])
    <3> SUFFICES ASSUME NEW m \in Level
                 PROVE  IsFiniteSet(levels'[m])
      OBVIOUS
    <3>1. IsFiniteSet(levels[m])
      BY DEF TypeInv
    <3>2. IsFiniteSet(levels[m] \ I)
      BY <3>1, FS_Subset
    <3>3. IsFiniteSet((levels[m] \ I) \cup O)
      BY <1>4, <3>2, FS_Union
    <3> QED
      BY <1>2, <3>2, <3>3, Zenon
  <2> QED
    BY <1>1, <1>13, <2>1, <2>2 DEF TypeInv
<1>15. AgeInv'
  <2>1. \A g \in levels'[0] : g \in levels[0]
    BY <1>3, <1>6, LevelNumbers
  <2> QED
    BY <1>1, <1>13, <2>1 DEF AgeInv, Newer
<1>16. LevelsAreOrdered'
  <2> SUFFICES ASSUME NEW n \in Level, NEW m \in Level, n < m,
                      NEW g \in levels'[n], NEW h \in levels'[m],
                      NEW d \in g.data, NEW e \in h.data, d.key = e.key
               PROVE  d.seq > e.seq
    BY DEF LevelsAreOrdered, EntriesOf
  <2>1. n \in Nat /\ m \in Nat
    BY LevelNumbers
  <2>2. \A x, y \in Level : \A p \in levels[x], q \in levels[y] :
          x < y /\ d \in p.data /\ e \in q.data => d.seq > e.seq
    BY DEF LevelsAreOrdered, EntriesOf
  <2>3. CASE g \in levels[n] /\ h \in levels[m]
    BY <2>2, <2>3
  <2>4. CASE g \in O /\ n = c + 1 /\ h \in levels[m]
    <3>1. PICK i \in I : d \in i.data
      BY <1>9, <2>4
    <3>2. c < m /\ c + 1 < m
      BY <1>3, <2>1, <2>4
    <3> QED
      BY <1>3, <1>4, <2>2, <2>4, <3>1, <3>2
  <2>5. CASE h \in O /\ m = c + 1 /\ g \in levels[n] /\ g \notin I
    <3>1. PICK i \in I : e \in i.data
      BY <1>9, <2>5
    <3>2. CASE i \in levels[c + 1]
      BY <1>3, <2>2, <2>5, <3>1, <3>2
    <3>3. CASE i \in levels[c] /\ n # c
      <4>1. n < c
        BY <1>3, <2>1, <2>5, <3>3
      <4> QED
        BY <1>3, <2>2, <2>5, <3>1, <3>3, <4>1
    <3>4. CASE i \in levels[c] /\ n = c
      <4>1. g # i /\ g \in levels[c] /\ g \in Table /\ i \in Table
        BY <1>3, <2>5, <3>1, <3>4
      <4>2. SharesKey(g, i) /\ ~Apart(g, i)
        BY <3>1, <4>1, SameKey DEF SharesKey
      <4>3. CASE c # 0
        BY <1>3, <3>4, <4>1, <4>2, <4>3 DEF LevelsAreApart
      <4>4. CASE c = 0
        <5>1. ~(g.num < i.num)
          BY <1>5, <2>5, <3>1, <3>4, <4>1, <4>2, <4>4
        <5>2. Newer(g.data, i.data)
          BY <3>4, <4>1, <4>4, <5>1 DEF AgeInv
        <5> QED
          BY <3>1, <5>2 DEF Newer
      <4> QED
        BY <4>3, <4>4
    <3> QED
      BY <1>4, <3>1, <3>2, <3>3, <3>4
  <2> QED
    BY <1>6, <2>1, <2>3, <2>4, <2>5
<1>17. LevelsAreApart'
  <2> SUFFICES ASSUME NEW m \in Level \ {0}, NEW g \in levels'[m], NEW h \in levels'[m], g # h
               PROVE  Apart(g, h)
    BY DEF LevelsAreApart, Apart
  <2>1. CASE g \in levels[m] /\ h \in levels[m]
    BY <2>1 DEF LevelsAreApart
  <2>2. CASE g \in O /\ h \in O
    <3>1. g \in Table /\ h \in Table /\ ~SharesKey(g, h) /\ ~SharesKey(h, g)
      BY <1>4, <1>5, <2>2
    <3>2. \/ \A e \in g.data, d \in h.data : e.key <= d.key
          \/ \A e \in g.data, d \in h.data : d.key <= e.key
      BY <1>5, <2>2 DEF OutputsInOrder, O
    <3> QED
      BY <3>1, <3>2, ApartInOrder
  <2>3. ASSUME NEW x \in O, NEW y \in levels[c + 1] \ I
        PROVE  Apart(x, y) /\ Apart(y, x)
    <3>1. x \in Table /\ y \in Table /\ ~Meets(y, Lo(I), Hi(I))
      BY <1>3, <1>4
    <3>2. PICK p \in x.data : p.key = Lo({x})
      BY <3>1, OneFileRange
    <3>3. PICK q \in x.data : q.key = Hi({x})
      BY <3>1, OneFileRange
    <3>4. p \in EntriesOf(I) /\ q \in EntriesOf(I) /\ I # {}
      BY <1>9, InTables
    <3>5. Lo(I) <= Lo({x}) /\ Lo(I) \in Nat
      BY <1>4, <3>2, <3>4, FileRange, RangeOfFiles
    <3>6. Hi({x}) <= Hi(I) /\ Hi(I) \in Nat
      BY <1>4, <3>3, <3>4, FileRange, RangeOfFiles
    <3>7. Lo({x}) \in Nat /\ Hi({x}) \in Nat /\ Lo({y}) \in Nat /\ Hi({y}) \in Nat
      BY <3>1, OneFileRange
    <3> QED
      BY <3>1, <3>5, <3>6, <3>7 DEF Apart, Meets
  <2> QED
    BY <1>6, <2>1, <2>2, <2>3
<1>18. CompInv'
  BY <1>1 DEF CompInv
<1>19. IteratorsAreCorrect'
  <2>1. Lost \subseteq All /\ EntriesOf(I) \subseteq All
    BY <1>10, <1>11 DEF All
  <2>2. \A d \in Lost : \/ \E p \in All : Hides(p, d)
                        \/ d.del /\ \A e \in All : e.key = d.key /\ e.seq < d.seq => e \in Lost
    BY <1>5, <2>1 DEF DropsAreSafe, DeletesNothing, I
  <2>3. \A k \in UserKeys, s \in Views :
          Answer(Newest(Visible(All', k, s))) = Answer(Newest(Visible(All, k, s)))
    BY <1>13, <2>1, <2>2, SafeToLose
  <2>4. \A k \in UserKeys, s \in Views' :
          Answer(Newest(Visible(All', k, s))) = Answer(Newest(Visible(hist', k, s)))
    BY <1>1, <1>13, <2>3, IteratorsDef
  <2> QED
    BY <2>4 DEF IteratorsAreCorrect, Views, All, Tables
<1> QED
  BY <1>14, <1>15, <1>16, <1>17, <1>18, <1>19

---------------------------------------------------------------------------
LEMMA RangeShape ==
  ASSUME levels \in [Level -> SUBSET Table], NEW l \in Level,
         NEW lo \in UserKeys, NEW hi \in lo..MaxKey, NEW in0 \in RangeInputs(l, lo, hi)
  PROVE  in0 # {} /\ in0 \subseteq levels[l]
<1> DEFINE inputs == GetOverlappingInputs(l, lo, hi)
<1>1. hi \in UserKeys /\ lo <= hi
  BY KeysAreNumbers
<1>2. inputs \subseteq levels[l]
  BY <1>1, GetOverlappingIs
<1> HIDE DEF inputs
<1>3. inputs # {} /\ (in0 = inputs \/ in0 \in (SUBSET inputs) \ {{}})
  BY DEF RangeInputs, inputs
<1> QED
  BY <1>2, <1>3

LEMMA StutterKeepsInv ==
  ASSUME LsmInv, UNCHANGED lsmVars
  PROVE  LsmInv'
<1> USE DEF lsmVars, LsmInv
<1>1. Tables' = Tables /\ All' = All /\ Views' = Views /\ LevelsAreOrdered' /\ LevelsAreApart'
  BY TreeUnchanged DEF All, Views
<1>2. TypeInv'
  BY <1>1 DEF TypeInv
<1>3. AgeInv'
  BY <1>1 DEF AgeInv, Newer
<1>4. CompInv'
  BY <1>1, CompKept
<1>5. IteratorsAreCorrect'
  BY <1>1, IteratorsUnchanged
<1> QED
  BY <1>1, <1>2, <1>3, <1>4, <1>5

LEMMA StepKeepsInv ==
  LsmInv /\ KeysStayWhole /\ InputsAreWhole /\ InputsAreWhole' /\ [LsmNext]_lsmVars => LsmInv'
<1> SUFFICES ASSUME LsmInv, KeysStayWhole, InputsAreWhole, InputsAreWhole', [LsmNext]_lsmVars
             PROVE  LsmInv'
  OBVIOUS
<1>1. CASE \E k \in UserKeys, del \in BOOLEAN : Write(k, del)
  BY <1>1, WriteKeepsInv
<1>2. CASE GetSnapshot \/ ReleaseSnapshot
  BY <1>2, SnapshotsKeepInv
<1>3. CASE SwitchMemTable
  BY <1>3, SwitchKeepsInv
<1>4. CASE CompactMemTable
  BY <1>4, FlushKeepsInv
<1>5. CASE BeginCompaction
  <2>1. PICK l \in 0..(NumLevels - 2) : \E in0 \in PickedInputs(l) :
          \E inputs \in SetupOtherInputs(l, in0) : Begin(l, inputs)
    BY <1>5 DEF BeginCompaction
  <2>2. PICK in0 \in PickedInputs(l) :
          \E inputs \in SetupOtherInputs(l, in0) : Begin(l, inputs)
    BY <2>1
  <2>3. in0 # {} /\ in0 \subseteq levels[l] /\ comp = NoComp
    BY <1>5, PickedShape DEF LsmInv, TypeInv, BeginCompaction
  <2> QED
    BY <2>2, <2>3, BeginKeepsInv
<1>6. CASE TrivialMove
  BY <1>6, MoveKeepsInv
<1>7. CASE BeginManualCompaction
  <2>1. PICK l \in 0..(NumLevels - 2), lo \in UserKeys :
          \E hi \in lo..MaxKey : \E in0 \in RangeInputs(l, lo, hi) :
            \E inputs \in SetupOtherInputs(l, in0) : Begin(l, inputs)
    BY <1>7 DEF BeginManualCompaction
  <2>2. PICK hi \in lo..MaxKey : \E in0 \in RangeInputs(l, lo, hi) :
            \E inputs \in SetupOtherInputs(l, in0) : Begin(l, inputs)
    BY <2>1
  <2>3. PICK in0 \in RangeInputs(l, lo, hi) :
            \E inputs \in SetupOtherInputs(l, in0) : Begin(l, inputs)
    BY <2>2
  <2>4. l \in Level
    BY LevelNumbers
  <2>5. in0 # {} /\ in0 \subseteq levels[l] /\ comp = NoComp
    BY <1>7, <2>4, RangeShape DEF LsmInv, TypeInv, BeginManualCompaction
  <2> QED
    BY <2>3, <2>5, BeginKeepsInv
<1>8. CASE InstallCompactionResults
  BY <1>8, InstallKeepsInv
<1>9. CASE UNCHANGED lsmVars
  BY <1>9, StutterKeepsInv
<1> QED
  BY <1>1, <1>2, <1>3, <1>4, <1>5, <1>6, <1>7, <1>8, <1>9 DEF LsmNext

(* The inductive invariant of the tree: entries only age downwards, levels    *)
(* below the first hold each user key once, the compaction in progress has    *)
(* room for its outputs, and nothing it drops will be missed.                 *)
THEOREM TreeInvariant ==
  LsmSpec /\ []KeysStayWhole /\ []InputsAreWhole => []LsmInv
<1>1. LsmInit => LsmInv
  BY InitLsmInv
<1>2. LsmInv /\ KeysStayWhole /\ InputsAreWhole /\ InputsAreWhole' /\ [LsmNext]_lsmVars => LsmInv'
  BY StepKeepsInv
<1> QED
  BY <1>1, <1>2, PTL DEF LsmSpec

---------------------------------------------------------------------------
(* First and last entries of a table, and the files of a level.              *)
LEMMA SmallestIs ==
  ASSUME NEW S \in SUBSET Entry, S # {}, NEW b \in Nat, \A e \in S : e.seq <= b,
         \A e, f \in S : e.seq = f.seq => e = f
  PROVE  Smallest(S) \in S
<1> DEFINE K == {e.key : e \in S}
           T == {e \in S : e.key = Min(K)}
<1>1. K \in SUBSET Int /\ K # {} /\ 0 \in Int /\ \A x \in K : 0 <= x
  BY KeysAreNumbers DEF Entry
<1>2. Min(K) \in K /\ \A y \in K : Min(K) <= y
  <2> HIDE DEF K
  <2> QED
    BY <1>1, MinIs
<1>3. /\ T \in SUBSET S /\ T # {} /\ \A e \in T : e.key = Min(K)
      /\ \A f \in S : Min(K) <= f.key /\ (f.key = Min(K) => f \in T)
  BY <1>2
<1> HIDE DEF T, K
<1>4. PICK e \in T : \A f \in T : f.seq <= e.seq
  <2>1. T \in SUBSET Entry /\ \A f \in T : f.seq <= b
    BY <1>3
  <2>2. Newest(T) \in T /\ \A f \in T : f.seq <= Newest(T).seq
    BY <1>3, <2>1, NewestIs
  <2> QED
    BY <2>2
<1>5. ASSUME NEW f \in S, f # e
      PROVE  Before(e, f)
  <2>1. e \in S /\ e.seq # f.seq /\ e.seq \in Nat /\ f.seq \in Nat
    BY <1>3, <1>5 DEF Entry
  <2>2. e.key <= f.key /\ e.key \in Nat /\ f.key \in Nat
    BY <1>3, <2>1, KeysAreNumbers DEF Entry
  <2>3. CASE f.key = e.key
    <3>1. f.seq <= e.seq
      BY <1>3, <1>4, <2>3
    <3> QED
      BY <2>1, <2>3, <3>1 DEF Before
  <2> QED
    BY <2>2, <2>3 DEF Before
<1> QED
  BY <1>3, <1>5 DEF Smallest

LEMMA LargestIs ==
  ASSUME NEW S \in SUBSET Entry, S # {},
         \A e, f \in S : e.seq = f.seq => e = f
  PROVE  Largest(S) \in S /\ \A f \in S \ {Largest(S)} : Before(f, Largest(S))
<1> DEFINE K == {e.key : e \in S}
           T == {e \in S : e.key = Max(K)}
           Q == {e.seq : e \in T}
<1>1. K \in SUBSET Int /\ K # {} /\ MaxKey \in Int /\ \A x \in K : x <= MaxKey
  BY KeysAreNumbers DEF Entry
<1>2. Max(K) \in K /\ \A y \in K : y <= Max(K)
  <2> HIDE DEF K
  <2> QED
    BY <1>1, MaxIs
<1>3. /\ T \in SUBSET S /\ T # {} /\ \A e \in T : e.key = Max(K)
      /\ \A f \in S : f.key <= Max(K) /\ (f.key = Max(K) => f \in T)
  BY <1>2
<1> HIDE DEF T, K
<1>4. PICK e \in T : \A f \in T : e.seq <= f.seq
  <2>1. Q \in SUBSET Int /\ Q # {} /\ 0 \in Int /\ \A x \in Q : 0 <= x
    BY <1>3 DEF Entry
  <2>2. Min(Q) \in Q /\ \A y \in Q : Min(Q) <= y
    <3> HIDE DEF Q
    <3> QED
      BY <2>1, MinIs
  <2>3. \E e \in T : e.seq = Min(Q)
    BY <2>2
  <2>4. \A f \in T : f.seq \in Q
    OBVIOUS
  <2> HIDE DEF Q
  <2> QED
    BY <2>2, <2>3, <2>4
<1> HIDE DEF Q
<1>5. ASSUME NEW f \in S, f # e
      PROVE  Before(f, e)
  <2>1. e \in S /\ e.seq # f.seq /\ e.seq \in Nat /\ f.seq \in Nat
    BY <1>3, <1>5 DEF Entry
  <2>2. f.key <= e.key /\ e.key \in Nat /\ f.key \in Nat
    BY <1>3, <2>1, KeysAreNumbers DEF Entry
  <2>3. CASE f.key = e.key
    <3>1. e.seq <= f.seq
      BY <1>3, <1>4, <2>3
    <3> QED
      BY <2>1, <2>3, <3>1 DEF Before
  <2> QED
    BY <2>2, <2>3 DEF Before
<1>6. \E x \in S : \A f \in S \ {x} : Before(f, x)
  BY <1>3, <1>5
<1> QED
  BY <1>6 DEF Largest

LEMMA EndsOfFile ==
  ASSUME TypeInv, NEW l \in Level, NEW f \in levels[l]
  PROVE  /\ f \in Table /\ f.data \subseteq Tables /\ f.data \in SUBSET Entry
         /\ \A e \in f.data : e.key \in Nat /\ e.seq \in Nat
         /\ Smallest(f.data) \in f.data /\ Largest(f.data) \in f.data
         /\ \A e \in f.data \ {Largest(f.data)} : Before(e, Largest(f.data))
         /\ Smallest(f.data).key \in Nat /\ Largest(f.data).key \in Nat
         /\ Lo({f}) \in Nat /\ Hi({f}) \in Nat
         /\ Lo({f}) <= Smallest(f.data).key /\ Smallest(f.data).key <= Hi({f})
         /\ Lo({f}) <= Largest(f.data).key /\ Largest(f.data).key <= Hi({f})
<1>1. f \in Table /\ f.data \in SUBSET Entry /\ f.data # {} /\ f.data \subseteq Tables
  BY InTables DEF TypeInv, Table
<1>2. /\ last_sequence \in Nat /\ \A e \in f.data : e.seq <= last_sequence
      /\ \A e, g \in f.data : e.seq = g.seq => e = g
  BY <1>1 DEF TypeInv
<1>3. Smallest(f.data) \in f.data
  BY <1>1, <1>2, SmallestIs
<1>4. Largest(f.data) \in f.data /\ \A e \in f.data \ {Largest(f.data)} : Before(e, Largest(f.data))
  BY <1>1, <1>2, LargestIs
<1>5. \A e \in f.data : e.key \in Nat /\ e.seq \in Nat
  BY <1>1, KeysAreNumbers DEF Entry
<1>6. /\ Lo({f}) \in Nat /\ Hi({f}) \in Nat
      /\ \A e \in f.data : Lo({f}) <= e.key /\ e.key <= Hi({f})
  BY <1>1, OneFileRange
<1> QED
  BY <1>1, <1>3, <1>4, <1>5, <1>6

LEMMA DisjointFromInv == LsmInv => LevelsAreDisjoint
<1> SUFFICES ASSUME LsmInv, NEW l \in Level \ {0}, NEW f \in levels[l], NEW g \in levels[l], f # g
             PROVE  \/ Before(Largest(f.data), Smallest(g.data))
                    \/ Before(Largest(g.data), Smallest(f.data))
  BY DEF LevelsAreDisjoint
<1>1. Apart(f, g) /\ TypeInv
  BY DEF LsmInv, LevelsAreApart
<1>2. /\ Hi({f}) \in Nat /\ Largest(f.data).key <= Hi({f}) /\ Largest(f.data).key \in Nat
      /\ Lo({f}) \in Nat /\ Lo({f}) <= Smallest(f.data).key /\ Smallest(f.data).key \in Nat
  BY <1>1, EndsOfFile
<1>3. /\ Hi({g}) \in Nat /\ Largest(g.data).key <= Hi({g}) /\ Largest(g.data).key \in Nat
      /\ Lo({g}) \in Nat /\ Lo({g}) <= Smallest(g.data).key /\ Smallest(g.data).key \in Nat
  BY <1>1, EndsOfFile
<1> QED
  BY <1>1, <1>2, <1>3 DEF Apart, Before

---------------------------------------------------------------------------
(* Version::Get.  Of the places it looks in, one of a smaller number holds    *)
(* newer entries; what it looks at of a place holds the newest of the place.  *)
Source(i) == IF i = -2 THEN mem ELSE IF i = -1 THEN imm ELSE EntriesOf(levels[i])
PlaceNumbers == -2..(NumLevels - 1)

LEMMA Places ==
  /\ \A i \in PlaceNumbers : i \in Int /\ i >= -2 /\ (i = -2 \/ i = -1 \/ i \in Level)
  /\ -2 \in PlaceNumbers /\ -1 \in PlaceNumbers /\ \A l \in Level : l \in PlaceNumbers
  BY CompactionAssumption DEF PlaceNumbers, Level

LEMMA AllSources ==
  \A e : e \in All <=> \E i \in PlaceNumbers : e \in Source(i)
<1>1. \A e : e \in Tables <=> \E l \in Level : e \in EntriesOf(levels[l])
  BY DEF Tables
<1>2. \A l \in Level : Source(l) = EntriesOf(levels[l])
  BY LevelNumbers DEF Source
<1>3. Source(-2) = mem /\ Source(-1) = imm
  BY DEF Source
<1>4. \A i \in PlaceNumbers : Source(i) = mem \/ Source(i) = imm \/ i \in Level
  BY Places DEF Source
<1> QED
  BY <1>1, <1>2, <1>3, <1>4, Places DEF All

LEMMA SourcesInOrder ==
  ASSUME LsmInv, NEW i \in PlaceNumbers, NEW j \in PlaceNumbers, i < j,
         NEW e \in Source(i), NEW f \in Source(j), e.key = f.key
  PROVE  e.seq > f.seq
<1> USE DEF LsmInv
<1>1. \A l \in Level : EntriesOf(levels[l]) \subseteq Tables
  BY DEF Tables
<1>2. i \in Int /\ j \in Int /\ j # -2
  BY Places
<1>3. CASE i = -2 /\ j = -1
  BY <1>3 DEF Source, AgeInv, Newer
<1>4. CASE i = -2 /\ j # -1
  <2>1. j \in Level /\ f \in Tables
    BY <1>1, <1>2, <1>4, Places DEF Source
  <2> QED
    BY <1>4, <2>1 DEF Source, AgeInv, Newer
<1>5. CASE i = -1
  <2>1. j \in Level /\ f \in Tables
    BY <1>1, <1>2, <1>5, Places DEF Source
  <2> QED
    BY <1>5, <2>1 DEF Source, AgeInv, Newer
<1>6. CASE i # -2 /\ i # -1
  <2>1. i \in Level /\ j \in Level
    BY <1>2, <1>6, Places, LevelNumbers
  <2>2. e \in EntriesOf(levels[i]) /\ f \in EntriesOf(levels[j])
    BY <2>1, LevelNumbers DEF Source
  <2> QED
    BY <2>1, <2>2 DEF LevelsAreOrdered
<1> QED
  BY <1>3, <1>4, <1>5, <1>6

(* Level 0: only the newest file with the key matters.                       *)
LEMMA SearchLevel0 ==
  ASSUME LsmInv, NEW k \in UserKeys, NEW s \in Views,
         NEW e \in EntriesOf(levels[0]), e.key = k, e.seq <= s
  PROVE  /\ EntriesOf(FilesToSearch(0, k, s)) \subseteq EntriesOf(levels[0])
         /\ \E n \in EntriesOf(FilesToSearch(0, k, s)) : n.key = k /\ n.seq <= s /\ e.seq <= n.seq
<1> USE DEF LsmInv
<1> DEFINE hits == {f \in levels[0] : Visible(f.data, k, s) # {}}
           N == {f.num : f \in hits}
<1>1. FilesToSearch(0, k, s) = {f \in hits : \A g \in hits : g.num <= f.num}
  BY DEF FilesToSearch
<1>2. PICK h \in levels[0] : e \in h.data
  BY InTables
<1>3. h \in hits
  BY <1>2 DEF Visible
<1>4. \A f \in levels[0] : f \in Table /\ f.num \in Nat /\ f.num <= next_file
  BY LevelNumbers DEF TypeInv, AgeInv, Table
<1>5. N \in SUBSET Int /\ N # {} /\ next_file \in Int /\ \A x \in N : x <= next_file
  BY <1>3, <1>4 DEF TypeInv
<1>6. Max(N) \in N /\ \A y \in N : y <= Max(N)
  <2> HIDE DEF N
  <2> QED
    BY <1>5, MaxIs
<1>7. PICK f \in hits : \A g \in hits : g.num <= f.num
  BY <1>6
<1>8. f \in FilesToSearch(0, k, s) /\ f \in levels[0]
  BY <1>1, <1>7
<1>9. PICK n \in f.data : n.key = k /\ n.seq <= s
  BY <1>7 DEF Visible
<1>10. e.seq \in Nat
  BY <1>2, <1>4 DEF Table, Entry
<1>11. \E m \in f.data : m.key = k /\ m.seq <= s /\ e.seq <= m.seq
  <2>1. CASE f = h
    BY <1>2, <1>10, <2>1
  <2>2. CASE f # h
    <3>1. h.num <= f.num
      BY <1>3, <1>7
    <3>2. h.num \in Nat /\ f.num \in Nat
      BY <1>4, <1>8
    <3>3. Newer(f.data, h.data)
      BY <1>8, <2>2, <3>1, <3>2 DEF AgeInv
    <3>4. n.seq > e.seq /\ n.seq \in Nat
      BY <1>2, <1>4, <1>8, <1>9, <3>3 DEF Newer, Table, Entry
    <3> QED
      BY <1>9, <1>10, <3>4
  <2> QED
    BY <2>1, <2>2
<1>12. FilesToSearch(0, k, s) \subseteq levels[0]
  BY <1>1
<1> QED
  BY <1>8, <1>11, <1>12, InTables

(* Other levels: the file found by its largest key is the one with the key.  *)
LEMMA SearchLevel ==
  ASSUME LsmInv, NEW l \in Level \ {0}, NEW k \in UserKeys, NEW s \in Views,
         NEW e \in EntriesOf(levels[l]), e.key = k, e.seq <= s
  PROVE  /\ EntriesOf(FilesToSearch(l, k, s)) \subseteq EntriesOf(levels[l])
         /\ e \in EntriesOf(FilesToSearch(l, k, s))
<1> USE DEF LsmInv
<1> DEFINE t == [key |-> k, seq |-> s]
           C == {f \in levels[l] : ~Before(Largest(f.data), t)}
<1>1. t.key = k /\ t.seq = s /\ k \in Nat /\ s \in Nat
  BY KeysAreNumbers, AllInHist
<1> HIDE DEF t
<1>2. PICK h \in levels[l] : e \in h.data
  BY InTables
<1>3. e.seq \in Nat /\ e.key \in Nat
  BY <1>2, EndsOfFile
<1>4. h \in C
  <2>1. /\ Largest(h.data) \in h.data /\ Largest(h.data).key \in Nat
        /\ e # Largest(h.data) => Before(e, Largest(h.data))
    BY <1>2, EndsOfFile
  <2>2. Largest(h.data).seq \in Nat
    BY <2>1, EndsOfFile
  <2> QED
    BY <1>1, <1>3, <2>1, <2>2 DEF Before
<1>5. ASSUME NEW g \in C, g # h
      PROVE  FileBefore(h, g) /\ ~FileBefore(g, h)
  <2>1. /\ Lo({h}) <= k /\ Smallest(h.data).key <= Hi({h})
        /\ Hi({h}) \in Nat /\ Lo({h}) \in Nat /\ Smallest(h.data).key \in Nat
    <3>1. h \in Table /\ Lo({h}) \in Nat /\ Hi({h}) \in Nat
          /\ Smallest(h.data).key <= Hi({h}) /\ Smallest(h.data).key \in Nat
      BY EndsOfFile
    <3>2. Lo({h}) <= e.key
      BY <1>2, <3>1, OneFileRange
    <3> QED
      BY <3>1, <3>2
  <2>2. /\ Lo({g}) <= Smallest(g.data).key /\ Largest(g.data).key <= Hi({g})
        /\ Hi({g}) \in Nat /\ Lo({g}) \in Nat
        /\ Smallest(g.data).key \in Nat /\ Largest(g.data).key \in Nat
    BY EndsOfFile
  <2>3. Largest(g.data).key >= k
    BY <1>1, <2>2 DEF Before
  <2>4. Apart(h, g)
    BY <1>5 DEF LevelsAreApart
  <2>5. Hi({h}) < Lo({g})
    BY <1>1, <2>1, <2>2, <2>3, <2>4 DEF Apart
  <2>6. Smallest(h.data).key < Smallest(g.data).key
    BY <2>1, <2>2, <2>5
  <2>7. Smallest(h.data) # Smallest(g.data)
    BY <2>1, <2>6
  <2> QED
    BY <2>1, <2>2, <2>6, <2>7 DEF FileBefore, Before
<1>6. FindFile(l, k, s) = IF C = {} THEN {} ELSE {CHOOSE f \in C : \A g \in C \ {f} : FileBefore(f, g)}
  BY DEF FindFile, t
<1> HIDE DEF C
<1>7. (CHOOSE f \in C : \A g \in C \ {f} : FileBefore(f, g)) = h
  <2>1. \A g \in C \ {h} : FileBefore(h, g)
    BY <1>5
  <2>2. ASSUME NEW f \in C, \A g \in C \ {f} : FileBefore(f, g)
        PROVE  f = h
    BY <1>4, <1>5, <2>2
  <2> DEFINE P(f) == \A g \in C \ {f} : FileBefore(f, g)
  <2>3. h \in C /\ P(h) /\ \A f \in C : P(f) => f = h
    BY <1>4, <2>1, <2>2
  <2> HIDE DEF P
  <2>4. (CHOOSE f \in C : P(f)) = h
    BY <2>3
  <2> QED
    BY <2>4 DEF P
<1>8. FilesToSearch(l, k, s) = {h}
  BY <1>4, <1>6, <1>7 DEF FilesToSearch
<1> QED
  BY <1>2, <1>8, InTables

LEMMA FirstFile ==
  ASSUME LsmInv, NEW l \in Level \ {0}, NEW C \in SUBSET levels[l], C # {}
  PROVE  \E f \in C : \A g \in C \ {f} : FileBefore(f, g)
<1> USE DEF LsmInv
<1> DEFINE K == {Smallest(f.data).key : f \in C}
<1>1. K \in SUBSET Int /\ K # {} /\ 0 \in Int /\ \A x \in K : 0 <= x
  <2>1. \A f \in levels[l] : Smallest(f.data).key \in Nat
    BY EndsOfFile
  <2> QED
    BY <2>1
<1>2. Min(K) \in K /\ \A y \in K : Min(K) <= y
  <2> HIDE DEF K
  <2> QED
    BY <1>1, MinIs
<1>3. PICK f \in C : \A g \in C : Smallest(f.data).key <= Smallest(g.data).key
  BY <1>2
<1>4. ASSUME NEW g \in C \ {f}
      PROVE  FileBefore(f, g)
  <2>1. Apart(f, g) /\ Smallest(f.data).key <= Smallest(g.data).key
    BY <1>3, <1>4 DEF LevelsAreApart
  <2>2. /\ Lo({f}) \in Nat /\ Hi({f}) \in Nat /\ Smallest(f.data).key \in Nat
        /\ Lo({f}) <= Smallest(f.data).key /\ Smallest(f.data).key <= Hi({f})
    BY EndsOfFile
  <2>3. /\ Lo({g}) \in Nat /\ Hi({g}) \in Nat /\ Smallest(g.data).key \in Nat
        /\ Lo({g}) <= Smallest(g.data).key /\ Smallest(g.data).key <= Hi({g})
    BY EndsOfFile
  <2>4. Smallest(f.data).key < Smallest(g.data).key
    BY <2>1, <2>2, <2>3 DEF Apart
  <2> QED
    BY <2>4 DEF FileBefore, Before
<1> QED
  BY <1>4

LEMMA PlaceIs ==
  ASSUME LsmInv, NEW k \in UserKeys, NEW s \in Views, NEW i \in PlaceNumbers
  PROVE  /\ Place(i, k, s) \subseteq Source(i)
         /\ \A e \in Visible(Source(i), k, s) :
              \E n \in Visible(Place(i, k, s), k, s) : e.seq <= n.seq
<1>0. \A e \in Source(i) : e.seq \in Nat
  <2>1. Source(i) \subseteq All /\ TypeInv
    BY AllSources DEF LsmInv
  <2> QED
    BY <2>1, AllInHist
<1>1. CASE i = -2 \/ i = -1
  <2>1. Place(i, k, s) = Source(i)
    BY <1>1 DEF Place, Source
  <2> QED
    BY <1>0, <2>1 DEF Visible
<1>2. CASE i # -2 /\ i # -1
  <2>1. i \in Level
    BY <1>2, Places
  <2>2. Place(i, k, s) = EntriesOf(FilesToSearch(i, k, s)) /\ Source(i) = EntriesOf(levels[i])
    BY <1>2 DEF Place, Source
  <2>3. FilesToSearch(i, k, s) \subseteq levels[i]
    <3>1. CASE i = 0
      BY <3>1 DEF FilesToSearch
    <3>2. CASE i # 0
      <4>1. FilesToSearch(i, k, s) = FindFile(i, k, s)
        BY <3>2 DEF FilesToSearch
      <4> DEFINE C == {f \in levels[i] : ~Before(Largest(f.data), [key |-> k, seq |-> s])}
      <4>2. FindFile(i, k, s) =
              IF C = {} THEN {} ELSE {CHOOSE f \in C : \A g \in C \ {f} : FileBefore(f, g)}
        BY DEF FindFile
      <4>3. C \subseteq levels[i]
        OBVIOUS
      <4> HIDE DEF C
      <4>4. C # {} => \E f \in C : \A g \in C \ {f} : FileBefore(f, g)
        BY <2>1, <3>2, <4>3, FirstFile
      <4> QED
        BY <4>1, <4>2, <4>3, <4>4
    <3> QED
      BY <3>1, <3>2
  <2>4. Place(i, k, s) \subseteq Source(i)
    BY <2>2, <2>3, InTables
  <2>5. ASSUME NEW e \in Visible(Source(i), k, s)
        PROVE  \E n \in Visible(Place(i, k, s), k, s) : e.seq <= n.seq
    <3>1. e \in EntriesOf(levels[i]) /\ e.key = k /\ e.seq <= s /\ e.seq \in Nat
      BY <1>0, <2>2 DEF Visible
    <3>2. \E n \in EntriesOf(FilesToSearch(i, k, s)) : n.key = k /\ n.seq <= s /\ e.seq <= n.seq
      <4>1. CASE i = 0
        BY <3>1, <4>1, SearchLevel0
      <4>2. CASE i # 0
        BY <2>1, <3>1, <4>2, SearchLevel
      <4> QED
        BY <4>1, <4>2
    <3> QED
      BY <2>2, <3>2 DEF Visible
  <2> QED
    BY <2>4, <2>5
<1> QED
  BY <1>1, <1>2

LEMMA GetsFromInv == LsmInv => GetsAreCorrect
<1> SUFFICES ASSUME LsmInv, NEW k \in UserKeys, NEW s \in Views
             PROVE  Get(k, s) = Newest(Visible(All, k, s))
  BY IteratorsDef DEF GetsAreCorrect, Views, LsmInv
<1> DEFINE hits == {i \in PlaceNumbers : Visible(Place(i, k, s), k, s) # {}}
           V == Visible(All, k, s)
           P(i) == Visible(Place(i, k, s), k, s)
<1>1. Get(k, s) = IF hits = {} THEN Nothing ELSE Newest(P(Min(hits)))
  BY DEF Get, PlaceNumbers
<1>2. /\ \A e : e \in V <=> e \in All /\ e.key = k /\ e.seq <= s
      /\ \A i : \A e : e \in P(i) <=> e \in Place(i, k, s) /\ e.key = k /\ e.seq <= s
  BY DEF Visible
<1>3. /\ V \subseteq Entry /\ last_sequence \in Nat
      /\ \A e \in V : e.seq <= last_sequence /\ e.seq \in Nat
      /\ \A e, f \in V : e.seq = f.seq => e = f
  <2>1. TypeInv
    BY DEF LsmInv
  <2> QED
    BY <1>2, <2>1, AllInHist DEF TypeInv
<1>4. ASSUME NEW e \in V, NEW i \in PlaceNumbers, e \in Source(i)
      PROVE  i \in hits /\ \E n \in P(i) : e.seq <= n.seq
  <2>1. e \in Visible(Source(i), k, s)
    BY <1>2, <1>4 DEF Visible
  <2> QED
    BY <2>1, PlaceIs
<1>5. ASSUME NEW i \in PlaceNumbers
      PROVE  P(i) \subseteq V /\ P(i) \subseteq Source(i)
  BY <1>2, AllSources, PlaceIs
<1> HIDE DEF V, P
<1>6. CASE hits = {}
  <2>1. V = {}
    BY <1>2, <1>4, <1>6, AllSources
  <2> QED
    BY <1>1, <1>6, <2>1 DEF Newest, V
<1>7. CASE hits # {}
  <2> DEFINE m == Min(hits)
  <2>1. m \in hits /\ \A i \in hits : m <= i
    <3>1. hits \in SUBSET Int /\ -2 \in Int /\ \A i \in hits : -2 <= i
      BY Places
    <3> HIDE DEF hits
    <3> QED
      BY <1>7, <3>1, MinIs
  <2>2. m \in PlaceNumbers /\ P(m) # {}
    BY <2>1 DEF P
  <2> HIDE DEF m, hits
  <2>3. P(m) \subseteq V /\ P(m) \subseteq Source(m) /\ P(m) \in SUBSET Entry
    BY <1>3, <1>5, <2>2
  <2> DEFINE n == Newest(P(m))
  <2>4. n \in P(m) /\ \A e \in P(m) : e.seq <= n.seq
    BY <1>3, <2>2, <2>3, NewestIs
  <2> HIDE DEF n
  <2>5. ASSUME NEW e \in V
        PROVE  e.seq <= n.seq
    <3>1. PICK j \in PlaceNumbers : e \in Source(j)
      BY <1>2, AllSources
    <3>2. n \in V /\ n.seq \in Nat /\ e.seq \in Nat /\ n \in Source(m) /\ n.key = e.key
      BY <1>2, <1>3, <2>3, <2>4
    <3>3. j \in hits /\ \E x \in P(j) : e.seq <= x.seq
      BY <1>4, <3>1
    <3>4. CASE j = m
      <4>1. PICK x \in P(m) : e.seq <= x.seq
        BY <3>3, <3>4
      <4>2. x.seq <= n.seq /\ x.seq \in Nat
        BY <1>3, <2>3, <2>4
      <4> QED
        BY <3>2, <4>1, <4>2
    <3>5. CASE j # m
      <4>1. m < j
        BY <2>1, <2>2, <3>3, <3>5, Places
      <4>2. n.seq > e.seq
        BY <2>2, <3>1, <3>2, <4>1, SourcesInOrder
      <4> QED
        BY <3>2, <4>2
    <3> QED
      BY <3>4, <3>5
  <2>6. Newest(V) = n
    BY <1>3, <2>3, <2>4, <2>5, NewestIsThis
  <2> QED
    BY <1>1, <1>7, <2>6 DEF n, m, V
<1> QED
  BY <1>6, <1>7

---------------------------------------------------------------------------
(* Every read finds what was written last at its sequence number, wherever    *)
(* flushes, moves and compactions have put it (Version::Get), if no output    *)
(* ends inside a user key and every compaction's inputs are whole.            *)
THEOREM GetsHold ==
  LsmSpec /\ []KeysStayWhole /\ []InputsAreWhole => []GetsAreCorrect
BY TreeInvariant, GetsFromInv, PTL

(* Under the same conditions no compaction drops what a snapshot that is held *)
(* can see, nor brings back what was deleted (DoCompactionWork's two rules).  *)
THEOREM IteratorsHold ==
  LsmSpec /\ []KeysStayWhole /\ []InputsAreWhole => []IteratorsAreCorrect
<1>1. LsmInv => IteratorsAreCorrect
  BY DEF LsmInv
<1> QED
  BY <1>1, TreeInvariant, PTL

(* Under the same conditions the files of a level below the first stay        *)
(* disjoint: "Make sure there is no overlap in levels > 0".                   *)
THEOREM DisjointHolds ==
  LsmSpec /\ []KeysStayWhole /\ []InputsAreWhole => []LevelsAreDisjoint
BY TreeInvariant, DisjointFromInv, PTL

(* Under the same conditions "entries never hop across levels" (Version::Get):*)
(* of two entries of a user key, the one in the smaller level is the newer.   *)
THEOREM OrderHolds ==
  LsmSpec /\ []KeysStayWhole /\ []InputsAreWhole => []LevelsAreOrdered
<1>1. LsmInv => LevelsAreOrdered
  BY DEF LsmInv
<1> QED
  BY <1>1, TreeInvariant, PTL

---------------------------------------------------------------------------
(* The compactions that PickCompaction starts are whole: the files taken one  *)
(* after the other touch, so that no key between them is free.                *)
Covers(F, k) == \E f \in F : Lo({f}) <= k /\ k <= Hi({f})
NoGap(F) == \A k \in Lo(F)..Hi(F) : Covers(F, k)

LEMMA OverlapNoGap ==
  ASSUME levels \in [Level -> SUBSET Table], NEW l \in Level,
         NEW lo \in UserKeys, NEW hi \in UserKeys, lo <= hi,
         NEW R, R = GetOverlappingInputs(l, lo, hi), R # {},
         NEW k \in Lo(R)..Hi(R), k < lo \/ hi < k
  PROVE  Covers(R, k)
<1>1. R \subseteq levels[l] /\ R \in SUBSET Table
  BY GetOverlappingIs
<1>2. /\ Lo(R) \in Nat /\ Hi(R) \in Nat
      /\ \A f \in R : Lo(R) <= Lo({f}) /\ Hi({f}) <= Hi(R)
  BY <1>1, RangeOfFiles
<1>3. PICK first \in R : Lo({first}) = Lo(R)
  BY <1>1, RangeOfFiles
<1>4. PICK last \in R : Hi({last}) = Hi(R)
  BY <1>1, RangeOfFiles
<1>5. \A f \in levels[l] : Lo({f}) \in Nat /\ Hi({f}) \in Nat /\ Lo({f}) <= Hi({f})
  <2>1. \A f \in levels[l] : f \in Table
    OBVIOUS
  <2> QED
    BY <2>1, OneFileRange
<1>6. k \in Nat /\ Lo(R) <= k /\ k <= Hi(R) /\ lo \in Nat /\ hi \in Nat /\ MaxKey \in Nat
      /\ 1 <= lo /\ hi <= MaxKey
  BY <1>2, KeysAreNumbers
<1>7. CASE l # 0
  <2>1. Meets(first, lo, hi) /\ Meets(last, lo, hi)
    BY <1>7, GetOverlappingIs
  <2>2. /\ Lo({first}) \in Nat /\ Hi({first}) \in Nat
        /\ Lo({last}) \in Nat /\ Hi({last}) \in Nat
    BY <1>1, <1>5
  <2>3. CASE k < lo
    BY <1>3, <1>6, <2>1, <2>2, <2>3 DEF Meets, Covers
  <2>4. CASE hi < k
    <3>1. Lo({last}) <= k /\ k <= Hi({last})
      BY <1>4, <1>6, <2>1, <2>2, <2>4 DEF Meets
    <3> QED
      BY <3>1 DEF Covers
  <2> QED
    BY <2>3, <2>4
<1>8. CASE l = 0
  <2> SUFFICES ASSUME ~Covers(R, k)
               PROVE  FALSE
    OBVIOUS
  <2> DEFINE A == ClosedRange(lo, hi)[1]
             B == ClosedRange(lo, hi)[2]
  <2>1. /\ A \in 1..lo /\ B \in hi..MaxKey /\ IsClosed(A, B)
        /\ \A a \in 1..lo, b \in hi..MaxKey : IsClosed(a, b) => a <= A /\ B <= b
    BY ClosedRangeIs
  <2>2. R = Overlapping(0, A, B)
    BY <1>8 DEF GetOverlappingInputs
  <2> HIDE DEF A, B
  <2>3. A \in Nat /\ B \in Nat /\ 1 <= A /\ A <= lo /\ hi <= B /\ B <= MaxKey
    BY <1>6, <2>1
  <2>4. \A f \in levels[0] : f \in R <=> Meets(f, A, B)
    BY <2>2, OverlapIs
  <2>5. \A f \in R : A <= Lo({f}) /\ Hi({f}) <= B /\ f \in levels[0]
    BY <1>1, <1>8, <2>1, <2>2 DEF IsClosed
  <2>6. \A f \in R : ~(Lo({f}) <= k /\ k <= Hi({f}))
    BY DEF Covers
  <2>7. CASE hi < k
    <3>1. k <= B
      <4>1. Hi({last}) <= B
        BY <2>5
      <4> QED
        BY <1>4, <1>6, <1>2, <2>3, <4>1
    <3>2. k - 1 \in hi..MaxKey /\ A \in 1..lo
      BY <1>6, <2>1, <2>3, <2>7, <3>1
    <3>3. ASSUME NEW f \in levels[0], Meets(f, A, k - 1)
          PROVE  A <= Lo({f}) /\ Hi({f}) <= k - 1
      <4>1. Lo({f}) \in Nat /\ Hi({f}) \in Nat
        BY <1>5, <1>8
      <4>2. Meets(f, A, B)
        BY <1>6, <2>3, <3>1, <3>3, <4>1 DEF Meets
      <4>3. A <= Lo({f}) /\ ~(Lo({f}) <= k /\ k <= Hi({f}))
        BY <2>4, <2>5, <2>6, <4>2
      <4> QED
        BY <1>6, <2>3, <3>3, <4>1, <4>3 DEF Meets
    <3>4. IsClosed(A, k - 1)
      BY <3>3, OverlapIs DEF IsClosed
    <3>5. B <= k - 1
      BY <2>1, <3>2, <3>4
    <3> QED
      BY <1>6, <2>3, <3>1, <3>5
  <2>8. CASE k < lo
    <3>1. A <= k
      <4>1. A <= Lo({first})
        BY <2>5
      <4> QED
        BY <1>3, <1>6, <1>2, <2>3, <4>1
    <3>2. k + 1 \in 1..lo /\ B \in hi..MaxKey
      BY <1>6, <2>1, <2>3, <2>8, <3>1
    <3>3. ASSUME NEW f \in levels[0], Meets(f, k + 1, B)
          PROVE  k + 1 <= Lo({f}) /\ Hi({f}) <= B
      <4>1. Lo({f}) \in Nat /\ Hi({f}) \in Nat
        BY <1>5, <1>8
      <4>2. Meets(f, A, B)
        BY <1>6, <2>3, <3>1, <3>3, <4>1 DEF Meets
      <4>3. Hi({f}) <= B /\ ~(Lo({f}) <= k /\ k <= Hi({f}))
        BY <2>4, <2>5, <2>6, <4>2
      <4> QED
        BY <1>6, <2>3, <3>3, <4>1, <4>3 DEF Meets
    <3>4. IsClosed(k + 1, B)
      BY <3>3, OverlapIs DEF IsClosed
    <3>5. k + 1 <= A
      BY <2>1, <3>2, <3>4
    <3> QED
      BY <1>6, <2>3, <3>1, <3>5
  <2> QED
    BY <2>7, <2>8
<1> QED
  BY <1>7, <1>8

(* Files that each touch the range leave no gap either.                      *)
LEMMA Attach ==
  ASSUME NEW F \in SUBSET Table, F # {}, NoGap(F), NEW G \in SUBSET Table,
         \A g \in G : Meets(g, Lo(F), Hi(F)), NEW H, H = F \cup G
  PROVE  NoGap(H)
<1> SUFFICES ASSUME NEW k \in Lo(H)..Hi(H)
             PROVE  Covers(H, k)
  BY DEF NoGap
<1>1. H \in SUBSET Table /\ H # {}
  OBVIOUS
<1>2. /\ Lo(H) \in Nat /\ Hi(H) \in Nat /\ Lo(F) \in Nat /\ Hi(F) \in Nat
      /\ k \in Nat /\ Lo(H) <= k /\ k <= Hi(H)
  <2>1. Lo(H) \in Nat /\ Hi(H) \in Nat
    BY <1>1, RangeOfFiles
  <2>2. Lo(F) \in Nat /\ Hi(F) \in Nat
    BY RangeOfFiles
  <2> QED
    BY <2>1, <2>2
<1>3. CASE Lo(F) <= k /\ k <= Hi(F)
  <2>1. k \in Lo(F)..Hi(F)
    BY <1>2, <1>3
  <2> QED
    BY <2>1 DEF NoGap, Covers
<1>4. CASE k < Lo(F)
  <2>1. PICK g \in H : Lo({g}) = Lo(H)
    BY <1>1, RangeOfFiles
  <2>2. g \in G
    <3>1. \A f \in F : Lo(F) <= Lo({f})
      BY RangeOfFiles
    <3> QED
      BY <1>2, <1>4, <2>1, <3>1
  <2>3. Hi({g}) >= Lo(F) /\ Hi({g}) \in Nat
    <3>1. g \in Table /\ Meets(g, Lo(F), Hi(F))
      BY <2>2
    <3> QED
      BY <3>1, OneFileRange DEF Meets
  <2>4. Lo({g}) <= k /\ k <= Hi({g})
    BY <1>2, <1>4, <2>1, <2>3
  <2> QED
    BY <2>4 DEF Covers
<1>5. CASE Hi(F) < k
  <2>1. PICK g \in H : Hi({g}) = Hi(H)
    BY <1>1, RangeOfFiles
  <2>2. g \in G
    <3>1. \A f \in F : Hi({f}) <= Hi(F)
      BY RangeOfFiles
    <3> QED
      BY <1>2, <1>5, <2>1, <3>1
  <2>3. Lo({g}) <= Hi(F) /\ Lo({g}) \in Nat
    <3>1. g \in Table /\ Meets(g, Lo(F), Hi(F))
      BY <2>2
    <3> QED
      BY <3>1, OneFileRange DEF Meets
  <2>4. Lo({g}) <= k /\ k <= Hi({g})
    BY <1>2, <1>5, <2>1, <2>3
  <2> QED
    BY <2>4 DEF Covers
<1> QED
  BY <1>2, <1>3, <1>4, <1>5

(* The files of a level that overlap a range without gaps.                   *)
LEMMA AttachOverlapping ==
  ASSUME levels \in [Level -> SUBSET Table], NEW l \in Level,
         NEW F \in SUBSET Table, F # {}, NoGap(F),
         NEW R, R = GetOverlappingInputs(l, Lo(F), Hi(F)), R # {}, R \cap F # {},
         NEW H, H = F \cup R
  PROVE  NoGap(H)
<1> SUFFICES ASSUME NEW k \in Lo(H)..Hi(H)
             PROVE  Covers(H, k)
  BY DEF NoGap
<1>1. Lo(F) \in UserKeys /\ Hi(F) \in UserKeys /\ Lo(F) <= Hi(F)
  BY RangeKeys
<1>2. R \in SUBSET Table /\ H \in SUBSET Table /\ H # {}
  <2>1. R \subseteq levels[l]
    BY <1>1, GetOverlappingIs
  <2> QED
    BY <2>1
<1>3. /\ Lo(H) \in Nat /\ Hi(H) \in Nat /\ Lo(F) \in Nat /\ Hi(F) \in Nat
      /\ Lo(R) \in Nat /\ Hi(R) \in Nat
      /\ k \in Nat /\ Lo(H) <= k /\ k <= Hi(H)
  <2>1. Lo(H) \in Nat /\ Hi(H) \in Nat
    BY <1>2, RangeOfFiles
  <2>2. Lo(F) \in Nat /\ Hi(F) \in Nat
    BY RangeOfFiles
  <2>3. Lo(R) \in Nat /\ Hi(R) \in Nat
    BY <1>2, RangeOfFiles
  <2> QED
    BY <2>1, <2>2, <2>3
<1>4. CASE Lo(F) <= k /\ k <= Hi(F)
  <2>1. k \in Lo(F)..Hi(F)
    BY <1>3, <1>4
  <2> QED
    BY <2>1 DEF NoGap, Covers
<1>5. CASE ~(Lo(F) <= k /\ k <= Hi(F))
  <2>1. k < Lo(F) \/ Hi(F) < k
    BY <1>3, <1>5
  <2>2. PICK x \in R : x \in F
    OBVIOUS
  <2>3. Lo({x}) \in Nat /\ Hi({x}) \in Nat /\ Lo({x}) <= Hi({x})
    BY <2>2, OneFileRange
  <2>4. Lo(R) <= Lo({x}) /\ Hi({x}) <= Hi(R)
    BY <1>2, RangeOfFiles
  <2>5. Lo(F) <= Lo({x}) /\ Hi({x}) <= Hi(F)
    BY <2>2, RangeOfFiles
  <2>6. k \in Lo(R)..Hi(R)
    <3>1. CASE k < Lo(F)
      <4>1. PICK g \in H : Lo({g}) = Lo(H)
        BY <1>2, RangeOfFiles
      <4>2. \A f \in F : Lo(F) <= Lo({f})
        BY RangeOfFiles
      <4>3. g \in R
        BY <1>3, <3>1, <4>1, <4>2
      <4>4. Lo(R) <= Lo({g})
        BY <1>2, <4>3, RangeOfFiles
      <4> QED
        BY <1>3, <2>3, <2>4, <2>5, <3>1, <4>1, <4>4
    <3>2. CASE Hi(F) < k
      <4>1. PICK g \in H : Hi({g}) = Hi(H)
        BY <1>2, RangeOfFiles
      <4>2. \A f \in F : Hi({f}) <= Hi(F)
        BY RangeOfFiles
      <4>3. g \in R
        BY <1>3, <3>2, <4>1, <4>2
      <4>4. Hi({g}) <= Hi(R)
        BY <1>2, <4>3, RangeOfFiles
      <4> QED
        BY <1>3, <2>3, <2>4, <2>5, <3>2, <4>1, <4>4
    <3> QED
      BY <2>1, <3>1, <3>2
  <2>7. Covers(R, k)
    BY <1>1, <2>1, <2>6, OverlapNoGap
  <2> QED
    BY <2>7 DEF Covers
<1> QED
  BY <1>4, <1>5

LEMMA PickedNoGap ==
  ASSUME levels \in [Level -> SUBSET Table], NEW l \in 0..(NumLevels - 2),
         NEW in0 \in PickedInputs(l), NEW inputs \in SetupOtherInputs(l, in0)
  PROVE  NoGap(inputs[1] \cup inputs[2])
<1> DEFINE in1 == GetOverlappingInputs(l + 1, Lo(in0), Hi(in0))
           all == in0 \cup in1
           a == inputs[1]
           b == inputs[2]
<1>1. l \in Level /\ l + 1 \in Level /\ l \in Nat /\ l + 1 # 0
  BY LevelNumbers
<1>2. in0 # {} /\ in0 \in SUBSET Table /\ in0 \subseteq levels[l]
  BY <1>1, PickedShape
<1>3. NoGap(in0)
  <2>1. PICK f \in levels[l] :
          in0 = IF l = 0 THEN GetOverlappingInputs(0, Lo({f}), Hi({f})) ELSE {f}
    BY DEF PickedInputs
  <2>2. f \in Table
    BY <1>1
  <2>3. NoGap({f})
    BY DEF NoGap, Covers
  <2>4. CASE l # 0
    BY <2>1, <2>3, <2>4
  <2>5. CASE l = 0
    <3>1. Lo({f}) \in UserKeys /\ Hi({f}) \in UserKeys /\ Lo({f}) <= Hi({f})
          /\ Lo({f}) \in Nat /\ Hi({f}) \in Nat
      BY <2>2, OneFileRange
    <3>2. in0 = GetOverlappingInputs(l, Lo({f}), Hi({f}))
      BY <2>1, <2>5
    <3>3. Meets(f, Lo({f}), Hi({f}))
      BY <3>1 DEF Meets
    <3>4. f \in in0
      BY <1>1, <3>1, <3>2, <3>3, GetOverlappingIs
    <3> SUFFICES ASSUME NEW k \in Lo(in0)..Hi(in0)
                 PROVE  Covers(in0, k)
      BY DEF NoGap
    <3>5. Lo(in0) \in Nat /\ Hi(in0) \in Nat
      BY <1>2, RangeOfFiles
    <3>6. CASE k < Lo({f}) \/ Hi({f}) < k
      BY <1>1, <1>2, <3>1, <3>2, <3>6, OverlapNoGap
    <3>7. CASE ~(k < Lo({f}) \/ Hi({f}) < k)
      <4>1. Lo({f}) <= k /\ k <= Hi({f})
        BY <3>1, <3>5, <3>7
      <4> QED
        BY <3>4, <4>1 DEF Covers
    <3> QED
      BY <3>6, <3>7
  <2> QED
    BY <2>4, <2>5
<1>4. in1 = Overlapping(l + 1, Lo(in0), Hi(in0))
  BY <1>1 DEF GetOverlappingInputs
<1>5. in1 \subseteq levels[l + 1] /\ \A g \in in1 : Meets(g, Lo(in0), Hi(in0))
  BY <1>4, OverlapIs
<1>6. in1 \in SUBSET Table /\ all \in SUBSET Table /\ all # {} /\ in0 \subseteq all
  BY <1>1, <1>2, <1>5
<1> HIDE DEF in1
<1>7. NoGap(all)
  BY <1>2, <1>3, <1>5, <1>6, Attach
<1> HIDE DEF a, b
<1>8. /\ a # {} /\ a \subseteq levels[l] /\ b = Overlapping(l + 1, Lo(a), Hi(a))
      /\ a = in0 \/ \E x \in SUBSET Table : a = GetOverlappingInputs(l, Lo(x), Hi(x)) /\ x = all
  BY <1>1, <1>2, SetupShape DEF a, b, in1
<1>9. b \subseteq levels[l + 1] /\ \A g : g \in b <=> g \in levels[l + 1] /\ Meets(g, Lo(a), Hi(a))
  BY <1>8, OverlapIs
<1>10. a \in SUBSET Table /\ b \in SUBSET Table
  BY <1>1, <1>8, <1>9
<1>11. CASE a = in0
  <2>1. b = in1
    BY <1>4, <1>8, <1>11
  <2> QED
    BY <1>7, <1>11, <2>1 DEF a, b
<1>12. CASE a # in0
  <2> DEFINE c == all \cup a
  <2>1. a = GetOverlappingInputs(l, Lo(all), Hi(all))
    BY <1>8, <1>12
  <2>2. in0 \subseteq a
    <3> SUFFICES ASSUME NEW f \in in0
                 PROVE  f \in a
      OBVIOUS
    <3>1. Lo(all) <= Lo({f}) /\ Hi({f}) <= Hi(all) /\ Lo(all) \in Nat /\ Hi(all) \in Nat
      BY <1>6, RangeOfFiles
    <3>2. f \in Table /\ f \in levels[l]
      BY <1>2
    <3>3. Lo({f}) \in Nat /\ Hi({f}) \in Nat /\ Lo({f}) <= Hi({f})
      BY <3>2, OneFileRange
    <3>4. Meets(f, Lo(all), Hi(all))
      BY <3>1, <3>3 DEF Meets
    <3>5. Lo(all) \in UserKeys /\ Hi(all) \in UserKeys /\ Lo(all) <= Hi(all)
      BY <1>6, RangeKeys
    <3> QED
      BY <1>1, <2>1, <3>2, <3>4, <3>5, GetOverlappingIs
  <2>3. in1 \subseteq b
    <3> SUFFICES ASSUME NEW g \in in1
                 PROVE  Meets(g, Lo(a), Hi(a))
      BY <1>5, <1>9
    <3>1. Lo(a) <= Lo(in0) /\ Hi(in0) <= Hi(a) /\ Lo(a) \in Nat /\ Hi(a) \in Nat
          /\ Lo(in0) \in Nat /\ Hi(in0) \in Nat
      BY <1>2, <1>10, <2>2, WiderRange
    <3>2. g \in Table /\ Meets(g, Lo(in0), Hi(in0))
      BY <1>5, <1>6
    <3>3. Lo({g}) \in Nat /\ Hi({g}) \in Nat
      BY <3>2, OneFileRange
    <3> QED
      BY <3>1, <3>2, <3>3 DEF Meets
  <2>4. NoGap(c)
    <3>1. a # {} /\ a \cap all # {}
      BY <1>2, <1>6, <2>2
    <3> HIDE DEF all
    <3> QED
      BY <1>1, <1>6, <1>7, <2>1, <3>1, AttachOverlapping
  <2>5. c \in SUBSET Table /\ c # {} /\ a \subseteq c /\ c \cup b = a \cup b
    BY <1>6, <1>10, <1>2, <2>2, <2>3
  <2> HIDE DEF c
  <2>6. \A g \in b : Meets(g, Lo(c), Hi(c))
    <3> SUFFICES ASSUME NEW g \in b
                 PROVE  Meets(g, Lo(c), Hi(c))
      OBVIOUS
    <3>1. Lo(c) <= Lo(a) /\ Hi(a) <= Hi(c) /\ Lo(a) \in Nat /\ Hi(a) \in Nat
          /\ Lo(c) \in Nat /\ Hi(c) \in Nat
      BY <1>8, <2>5, WiderRange
    <3>2. g \in Table /\ Meets(g, Lo(a), Hi(a))
      BY <1>9, <1>10
    <3>3. Lo({g}) \in Nat /\ Hi({g}) \in Nat
      BY <3>2, OneFileRange
    <3> QED
      BY <3>1, <3>2, <3>3 DEF Meets
  <2>7. NoGap(a \cup b)
    BY <1>10, <2>4, <2>5, <2>6, Attach
  <2> QED
    BY <2>7 DEF a, b
<1> QED
  BY <1>11, <1>12

(* Tables of level 0 that a compaction leaves behind hold none of its keys.   *)
LEMMA ApartShareNothing ==
  ASSUME NEW f \in Table, NEW g \in Table, Apart(f, g)
  PROVE  ~SharesKey(f, g)
<1> SUFFICES ASSUME NEW e \in f.data, NEW h \in g.data, e.key = h.key
             PROVE  FALSE
  BY DEF SharesKey
<1> QED
  BY SameKey

LEMMA BeginWhole ==
  ASSUME LsmInv, NEW l \in 0..(NumLevels - 2), NEW in0, NEW inputs \in SetupOtherInputs(l, in0),
         Begin(l, inputs), inputs[1] \subseteq levels[l], inputs[2] \subseteq levels[l + 1],
         NoGap(inputs[1] \cup inputs[2]),
         l = 0 => \A f \in levels[0] \ inputs[1], g \in inputs[1] : Apart(f, g)
  PROVE  InputsAreWhole'
<1> USE DEF LsmInv
<1> DEFINE I == inputs[1] \cup inputs[2]
<1>1. comp'.level = l /\ comp'.inputs = I /\ levels' = levels
  BY DEF Begin
<1>2. InputsLeaveNoGap'
  BY <1>1 DEF InputsLeaveNoGap, NoGap, Covers
<1>3. NothingOlderStays'
  <2> SUFFICES ASSUME l = 0, NEW f \in levels[0] \ I, NEW g \in levels[0] \cap I
               PROVE  ~SharesKey(f, g)
    BY <1>1 DEF NothingOlderStays, SharesKey
  <2>1. f \in Table /\ g \in Table /\ 0 \in Level /\ 1 \in Level
    BY LevelNumbers DEF TypeInv
  <2>2. CASE g \in inputs[1]
    BY <2>1, <2>2, ApartShareNothing
  <2>3. CASE g \in inputs[2]
    <3>1. g \in levels[1]
      BY <2>3
    <3>2. PICK d \in g.data : TRUE
      BY <2>1 DEF Table
    <3>3. d.seq > d.seq /\ d.seq \in Nat
      BY <2>1, <3>1, <3>2 DEF LevelsAreOrdered, EntriesOf, Table, Entry
    <3> QED
      BY <3>3
  <2> QED
    BY <2>2, <2>3
<1> QED
  BY <1>2, <1>3 DEF InputsAreWhole

(* The other steps leave the inputs whole: a new table of level 0 is newer.   *)
LEMMA OthersKeepWhole ==
  ASSUME LsmInv, InputsAreWhole,
         [LsmNext]_lsmVars, ~BeginCompaction, ~BeginManualCompaction
  PROVE  InputsAreWhole'
<1> USE DEF LsmInv
<1>1. CASE comp' = comp /\ levels'[0] = levels[0]
  BY <1>1 DEF InputsAreWhole, InputsLeaveNoGap, NothingOlderStays, SharesKey
<1>2. CASE comp' = NoComp
  BY <1>2 DEF InputsAreWhole, InputsLeaveNoGap, NothingOlderStays, NoComp
<1>3. CASE CompactMemTable
  <2> DEFINE f == [num |-> next_file, data |-> imm]
  <2>1. PICK n \in MemTableLevels(Lo({f}), Hi({f})) :
          levels' = [levels EXCEPT ![n] = @ \cup {f}]
    BY <1>3 DEF CompactMemTable
  <2>2. comp' = comp /\ f.num = next_file
    BY <1>3 DEF CompactMemTable
  <2> HIDE DEF f
  <2>3. n \in Level /\ 0 \in Level
    BY FreeLevel, LevelNumbers
  <2>4. levels'[0] \subseteq levels[0] \cup {f} /\ levels[0] \subseteq levels'[0]
    BY <2>1, <2>3 DEF TypeInv
  <2>5. \A g \in levels[0] : g.num \in Nat /\ g.num < next_file /\ next_file \in Nat
    BY <2>3 DEF AgeInv, TypeInv, Table
  <2>6. ASSUME comp.level = 0, NEW g \in levels'[0] \ comp.inputs,
               NEW h \in levels'[0] \cap comp.inputs, g.num < h.num
        PROVE  ~SharesKey(g, h)
    <3>1. comp # NoComp
      BY <2>6 DEF NoComp
    <3>2. \A x \in comp.inputs : x \in levels[0] \/ x \in levels[1]
      BY <2>6, <3>1 DEF CompInv
    <3>3. CASE h \in levels[0]
      <4>1. g \in levels[0]
        BY <2>2, <2>4, <2>5, <2>6, <3>3
      <4> QED
        BY <2>6, <3>3, <4>1 DEF InputsAreWhole, NothingOlderStays
    <3>4. CASE h \in levels[1] /\ h = f
      <4>1. 1 \in Level
        BY <2>6, <3>1, LevelNumbers DEF CompInv
      <4>2. imm # {} /\ f.data = imm /\ imm \subseteq Entry
        BY <1>3, AllInHist DEF CompactMemTable, f, TypeInv
      <4>3. imm \subseteq Tables
        BY <3>4, <4>1, <4>2, InTables
      <4>4. \A e \in imm : e.seq > e.seq /\ e.seq \in Nat
        BY <4>2, <4>3 DEF AgeInv, Newer, Entry
      <4> QED
        BY <4>2, <4>4
    <3> QED
      BY <2>4, <2>6, <3>2, <3>3, <3>4
  <2>7. NothingOlderStays'
    BY <2>2, <2>6 DEF NothingOlderStays, SharesKey
  <2> QED
    BY <2>2, <2>7 DEF InputsAreWhole, InputsLeaveNoGap
<1>4. CASE UNCHANGED <<levels, comp>>
  BY <1>1, <1>4
<1>5. CASE TrivialMove \/ InstallCompactionResults
  BY <1>2, <1>5 DEF TrivialMove, InstallCompactionResults
<1>6. CASE (\E k \in UserKeys, del \in BOOLEAN : Write(k, del)) \/ GetSnapshot \/ ReleaseSnapshot
             \/ SwitchMemTable \/ UNCHANGED lsmVars
  BY <1>4, <1>6 DEF Write, GetSnapshot, ReleaseSnapshot, SwitchMemTable, lsmVars
<1> QED
  BY <1>3, <1>5, <1>6 DEF LsmNext

LEMMA BeginCompactionWhole ==
  ASSUME LsmInv, BeginCompaction
  PROVE  InputsAreWhole'
<1>1. PICK l \in 0..(NumLevels - 2) : \E in0 \in PickedInputs(l) :
        \E inputs \in SetupOtherInputs(l, in0) : Begin(l, inputs)
  BY DEF BeginCompaction
<1>2. PICK in0 \in PickedInputs(l) :
        \E inputs \in SetupOtherInputs(l, in0) : Begin(l, inputs)
  BY <1>1
<1>3. PICK inputs \in SetupOtherInputs(l, in0) : Begin(l, inputs)
  BY <1>2
<1>4. levels \in [Level -> SUBSET Table] /\ LevelsAreApart
  BY DEF LsmInv, TypeInv
<1>5. in0 # {} /\ in0 \subseteq levels[l]
  BY <1>4, PickedShape
<1>6. inputs[1] \subseteq levels[l] /\ inputs[2] = Overlapping(l + 1, Lo(inputs[1]), Hi(inputs[1]))
  BY <1>4, <1>5, SetupShape
<1>7. inputs[2] \subseteq levels[l + 1]
  BY <1>6, OverlapIs
<1>8. NoGap(inputs[1] \cup inputs[2])
  BY <1>4, PickedNoGap
<1>9. \A f \in levels[l] \ inputs[1], g \in inputs[1] : Apart(f, g)
  BY <1>4, PickedAreApart
<1> QED
  BY <1>3, <1>6, <1>7, <1>8, <1>9, BeginWhole

(* Size and seek compactions are whole by the way PickCompaction chooses: of   *)
(* the two conditions on the inputs, only CompactRange can break one.          *)
THEOREM WholeUnlessManual ==
  ASSUME ~Manual
  PROVE  LsmSpec /\ []KeysStayWhole => []InputsAreWhole
<1> DEFINE J == LsmInv /\ InputsAreWhole
<1>1. LsmInit => J
  BY InitLsmInv DEF LsmInit, InputsAreWhole, InputsLeaveNoGap, NothingOlderStays, NoComp
<1>2. J /\ KeysStayWhole /\ [LsmNext]_lsmVars => J'
  <2> SUFFICES ASSUME J, KeysStayWhole, [LsmNext]_lsmVars
               PROVE  J'
    OBVIOUS
  <2>1. ~BeginManualCompaction
    BY DEF BeginManualCompaction
  <2>2. InputsAreWhole'
    BY <2>1, BeginCompactionWhole, OthersKeepWhole
  <2> QED
    BY <2>2, StepKeepsInv
<1> QED
  BY <1>1, <1>2, PTL DEF LsmSpec

---------------------------------------------------------------------------
(* One output.                                                               *)
OneOutput == \A f, g \in comp.outputs : f = g

LEMMA SingleFile ==
  ASSUME MaxOutputs = 1, NEW S, IsFiniteSet(S), NEW outs \in OutputsOf(S)
  PROVE  \A f, g \in outs : f = g
<1>1. PICK cuts \in SUBSET S : Cardinality(cuts) < MaxOutputs /\ outs = Files(S, cuts)
  BY DEF OutputsOf
<1>2. IsFiniteSet(cuts)
  BY FS_Subset
<1>3. cuts = {}
  <2>1. Cardinality(cuts) \in Nat /\ Cardinality(cuts) < 1
    BY <1>1, <1>2, FS_CardinalityType
  <2>2. Cardinality(cuts) = 0
    BY <2>1
  <2> QED
    BY <1>2, <2>2, FS_EmptySet
<1> DEFINE FileOf(e) == Cardinality({c \in cuts : Before(c, e)})
           At(i) == [num |-> next_file + i, data |-> {e \in S : FileOf(e) = i}]
<1>4. ASSUME NEW e
      PROVE  FileOf(e) = 0
  <2>1. {c \in cuts : Before(c, e)} = {}
    BY <1>3
  <2> QED
    BY <2>1, FS_EmptySet
<1>5. outs = {At(i) : i \in {FileOf(e) : e \in S}}
  BY <1>1 DEF Files
<1> HIDE DEF FileOf
<1> DEFINE T == {FileOf(e) : e \in S}
<1>6. \A i \in T : i = 0
  BY <1>4
<1>7. \A f \in outs : \E i \in T : f = At(i)
  BY <1>5
<1> HIDE DEF At, T
<1> QED
  BY <1>6, <1>7

LEMMA BeginOneOutput ==
  ASSUME MaxOutputs = 1, LsmInv, NEW l \in 0..(NumLevels - 2), NEW inputs,
         inputs[1] \subseteq levels[l], inputs[2] \subseteq levels[l + 1], Begin(l, inputs)
  PROVE  OneOutput'
<1> DEFINE E == EntriesOf(inputs[1] \cup inputs[2])
           D == Dropped(l, E)
<1>1. PICK outs \in OutputsOf(E \ D) :
       comp' = [level |-> l, inputs |-> inputs[1] \cup inputs[2], outputs |-> outs]
  BY DEF Begin
<1>2. E \subseteq hist /\ IsFiniteSet(hist)
  <2>1. l \in Level /\ l + 1 \in Level
    BY LevelNumbers
  <2>2. E \subseteq Tables
    BY <2>1, InTables
  <2> QED
    BY <2>2 DEF LsmInv, TypeInv
<1> HIDE DEF E, D
<1>3. IsFiniteSet(E \ D)
  BY <1>2, FS_Subset
<1>4. \A f, g \in outs : f = g
  BY <1>3, SingleFile
<1> QED
  BY <1>1, <1>4 DEF OneOutput

LEMMA OneOutputIsWhole == OneOutput => KeysStayWhole
  BY DEF OneOutput, KeysStayWhole

(* A manual compaction of everything in a range leaves nothing older behind,  *)
(* and between two keys there is no room for a gap.                           *)
LEMMA RangeAreApart ==
  ASSUME levels \in [Level -> SUBSET Table], MaxOutputs = 1,
         NEW l \in 0..(NumLevels - 2), NEW lo \in UserKeys, NEW hi \in lo..MaxKey,
         NEW in0 \in RangeInputs(l, lo, hi), NEW inputs \in SetupOtherInputs(l, in0)
  PROVE  l = 0 => \A f \in levels[0] \ inputs[1], g \in inputs[1] : Apart(f, g)
<1> SUFFICES ASSUME l = 0
             PROVE  \A f \in levels[0] \ inputs[1], g \in inputs[1] : Apart(f, g)
  OBVIOUS
<1>1. l \in Level /\ hi \in UserKeys /\ lo <= hi
  BY LevelNumbers, KeysAreNumbers
<1>2. in0 # {} /\ in0 \subseteq levels[l]
  BY <1>1, RangeShape
<1>3. in0 = GetOverlappingInputs(l, lo, hi)
  BY DEF RangeInputs
<1>4. \A f \in levels[0] \ in0, g \in in0 : Apart(f, g)
  BY <1>1, <1>3, GetOverlappingIs
<1>5. \/ inputs[1] = in0
      \/ \E all \in SUBSET Table :
           /\ in0 \subseteq all
           /\ inputs[1] = GetOverlappingInputs(l, Lo(all), Hi(all))
  BY <1>2, SetupShape
<1>6. CASE inputs[1] # in0
  <2>1. PICK all \in SUBSET Table :
              /\ in0 \subseteq all
              /\ inputs[1] = GetOverlappingInputs(l, Lo(all), Hi(all))
    BY <1>5, <1>6
  <2>2. Lo(all) \in UserKeys /\ Hi(all) \in UserKeys /\ Lo(all) <= Hi(all)
    BY <1>2, <2>1, RangeKeys
  <2>3. \A R : R = GetOverlappingInputs(l, Lo(all), Hi(all)) =>
                \A f \in levels[0] \ R, g \in R : Apart(f, g)
    BY <1>1, <2>2, GetOverlappingIs
  <2> QED
    BY <2>1, <2>3
<1> QED
  BY <1>4, <1>6

LEMMA NoRoomForGap ==
  ASSUME MaxKey <= 2, NEW F \in SUBSET Table, F # {}
  PROVE  NoGap(F)
<1> SUFFICES ASSUME NEW k \in Lo(F)..Hi(F)
             PROVE  Covers(F, k)
  BY DEF NoGap
<1>1. Lo(F) \in 1..MaxKey /\ Hi(F) \in 1..MaxKey /\ MaxKey \in Nat
  BY RangeKeys, KeysAreNumbers
<1>2. k = Lo(F) \/ k = Hi(F)
  BY <1>1
<1>3. \A f \in F : Lo({f}) \in Nat /\ Hi({f}) \in Nat /\ Lo({f}) <= Hi({f})
  BY OneFileRange
<1>4. CASE k = Lo(F)
  <2>1. PICK f \in F : Lo({f}) = Lo(F)
    BY RangeOfFiles
  <2> QED
    <3>1. Lo({f}) <= k /\ k <= Hi({f})
      BY <1>3, <1>4, <2>1
    <3> QED
      BY <3>1 DEF Covers
<1>5. CASE k = Hi(F)
  <2>1. PICK f \in F : Hi({f}) = Hi(F)
    BY RangeOfFiles
  <2> QED
    <3>1. Lo({f}) <= k /\ k <= Hi({f})
      BY <1>3, <1>5, <2>1
    <3> QED
      BY <3>1 DEF Covers
<1> QED
  BY <1>2, <1>4, <1>5

LEMMA ManualSetup ==
  ASSUME LsmInv, BeginManualCompaction
  PROVE  \E l \in 0..(NumLevels - 2) : \E lo \in UserKeys : \E hi \in lo..MaxKey :
           \E in0 \in RangeInputs(l, lo, hi) : \E inputs \in SetupOtherInputs(l, in0) :
             /\ Begin(l, inputs)
             /\ inputs[1] # {} /\ inputs[1] \subseteq levels[l] /\ inputs[2] \subseteq levels[l + 1]
<1>1. PICK l \in 0..(NumLevels - 2), lo \in UserKeys :
        \E hi \in lo..MaxKey : \E in0 \in RangeInputs(l, lo, hi) :
          \E inputs \in SetupOtherInputs(l, in0) : Begin(l, inputs)
  BY DEF BeginManualCompaction
<1>2. PICK hi \in lo..MaxKey : \E in0 \in RangeInputs(l, lo, hi) :
          \E inputs \in SetupOtherInputs(l, in0) : Begin(l, inputs)
  BY <1>1
<1>3. PICK in0 \in RangeInputs(l, lo, hi) :
          \E inputs \in SetupOtherInputs(l, in0) : Begin(l, inputs)
  BY <1>2
<1>4. PICK inputs \in SetupOtherInputs(l, in0) : Begin(l, inputs)
  BY <1>3
<1>5. l \in Level /\ levels \in [Level -> SUBSET Table]
  BY LevelNumbers DEF LsmInv, TypeInv
<1>6. in0 # {} /\ in0 \subseteq levels[l]
  BY <1>5, RangeShape
<1>7. /\ inputs[1] # {} /\ inputs[1] \subseteq levels[l]
      /\ inputs[2] = Overlapping(l + 1, Lo(inputs[1]), Hi(inputs[1]))
  BY <1>5, <1>6, SetupShape
<1>8. inputs[2] \subseteq levels[l + 1]
  BY <1>7, OverlapIs
<1> QED
  BY <1>4, <1>7, <1>8

LEMMA ManualWhole ==
  ASSUME MaxOutputs = 1, LsmInv, BeginManualCompaction, InputsLeaveNoGap' \/ MaxKey <= 2
  PROVE  InputsAreWhole' /\ OneOutput'
<1>1. PICK l \in 0..(NumLevels - 2) : \E lo \in UserKeys : \E hi \in lo..MaxKey :
           \E in0 \in RangeInputs(l, lo, hi) : \E inputs \in SetupOtherInputs(l, in0) :
             /\ Begin(l, inputs)
             /\ inputs[1] # {} /\ inputs[1] \subseteq levels[l] /\ inputs[2] \subseteq levels[l + 1]
  BY ManualSetup
<1>2. PICK lo \in UserKeys : \E hi \in lo..MaxKey :
           \E in0 \in RangeInputs(l, lo, hi) : \E inputs \in SetupOtherInputs(l, in0) :
             /\ Begin(l, inputs)
             /\ inputs[1] # {} /\ inputs[1] \subseteq levels[l] /\ inputs[2] \subseteq levels[l + 1]
  BY <1>1
<1>3. PICK hi \in lo..MaxKey :
           \E in0 \in RangeInputs(l, lo, hi) : \E inputs \in SetupOtherInputs(l, in0) :
             /\ Begin(l, inputs)
             /\ inputs[1] # {} /\ inputs[1] \subseteq levels[l] /\ inputs[2] \subseteq levels[l + 1]
  BY <1>2
<1>4. PICK in0 \in RangeInputs(l, lo, hi) : \E inputs \in SetupOtherInputs(l, in0) :
             /\ Begin(l, inputs)
             /\ inputs[1] # {} /\ inputs[1] \subseteq levels[l] /\ inputs[2] \subseteq levels[l + 1]
  BY <1>3
<1>5. PICK inputs \in SetupOtherInputs(l, in0) :
             /\ Begin(l, inputs)
             /\ inputs[1] # {} /\ inputs[1] \subseteq levels[l] /\ inputs[2] \subseteq levels[l + 1]
  BY <1>4
<1>6. levels \in [Level -> SUBSET Table] /\ l \in Level /\ l + 1 \in Level
  BY LevelNumbers DEF LsmInv, TypeInv
<1> DEFINE I == inputs[1] \cup inputs[2]
<1>7. I \in SUBSET Table /\ I # {}
  BY <1>5, <1>6
<1>8. comp'.inputs = I /\ comp'.level = l
  BY <1>5 DEF Begin
<1>9. NoGap(I)
  <2>1. CASE MaxKey <= 2
    <3> HIDE DEF I
    <3> QED
      BY <1>7, <2>1, NoRoomForGap
  <2>2. CASE InputsLeaveNoGap'
    <3>1. comp' # NoComp
      BY <1>8 DEF NoComp
    <3> QED
      BY <1>8, <2>2, <3>1 DEF InputsLeaveNoGap, NoGap, Covers
  <2> QED
    BY <2>1, <2>2
<1>10. l = 0 => \A f \in levels[0] \ inputs[1], g \in inputs[1] : Apart(f, g)
  BY <1>6, RangeAreApart
<1>11. InputsAreWhole'
  BY <1>5, <1>9, <1>10, BeginWhole
<1>12. OneOutput'
  BY <1>5, BeginOneOutput
<1> QED
  BY <1>11, <1>12

LEMMA OneOutputStep ==
  ASSUME MaxOutputs = 1, LsmInv, InputsAreWhole, OneOutput, [LsmNext]_lsmVars,
         ~Manual \/ InputsLeaveNoGap' \/ MaxKey <= 2
  PROVE  LsmInv' /\ InputsAreWhole' /\ OneOutput'
<1>1. CASE BeginManualCompaction
  BY <1>1, ManualWhole, StepKeepsInv, OneOutputIsWhole DEF BeginManualCompaction
<1>2. CASE BeginCompaction
  <2>1. PICK l \in 0..(NumLevels - 2) : \E in0 \in PickedInputs(l) :
          \E inputs \in SetupOtherInputs(l, in0) : Begin(l, inputs)
    BY <1>2 DEF BeginCompaction
  <2>2. PICK in0 \in PickedInputs(l) :
          \E inputs \in SetupOtherInputs(l, in0) : Begin(l, inputs)
    BY <2>1
  <2>3. PICK inputs \in SetupOtherInputs(l, in0) : Begin(l, inputs)
    BY <2>2
  <2>4. levels \in [Level -> SUBSET Table]
    BY DEF LsmInv, TypeInv
  <2>5. in0 # {} /\ in0 \subseteq levels[l]
    BY <2>4, PickedShape
  <2>6. inputs[1] \subseteq levels[l] /\ inputs[2] = Overlapping(l + 1, Lo(inputs[1]), Hi(inputs[1]))
    BY <2>4, <2>5, SetupShape
  <2>7. inputs[2] \subseteq levels[l + 1]
    BY <2>6, OverlapIs
  <2>8. OneOutput'
    BY <2>3, <2>6, <2>7, BeginOneOutput
  <2>9. InputsAreWhole'
    BY <1>2, BeginCompactionWhole
  <2> QED
    BY <2>8, <2>9, StepKeepsInv, OneOutputIsWhole
<1>3. CASE ~BeginManualCompaction /\ ~BeginCompaction
  <2>1. comp' = comp \/ comp' = NoComp
    BY <1>3 DEF LsmNext, Write, GetSnapshot, ReleaseSnapshot, SwitchMemTable, CompactMemTable,
                TrivialMove, InstallCompactionResults, lsmVars
  <2>2. OneOutput'
    BY <2>1 DEF OneOutput, NoComp
  <2>3. InputsAreWhole'
    BY <1>3, OthersKeepWhole
  <2> QED
    BY <2>2, <2>3, StepKeepsInv, OneOutputIsWhole
<1> QED
  BY <1>1, <1>2, <1>3

LEMMA InitOneOutput == LsmInit => LsmInv /\ InputsAreWhole /\ OneOutput
  BY InitLsmInv DEF LsmInit, InputsAreWhole, InputsLeaveNoGap, NothingOlderStays, OneOutput, NoComp

LEMMA InvGives ==
  LsmInv => GetsAreCorrect /\ IteratorsAreCorrect /\ LevelsAreDisjoint /\ LevelsAreOrdered
  BY GetsFromInv, DisjointFromInv DEF LsmInv

(* While all data is smaller than one output file (kTargetFileSize), the only  *)
(* danger is a gap between the inputs of a manual compaction: where there is   *)
(* none, everything holds, CompactRange included.                              *)
THEOREM NoGapsSuffice ==
  ASSUME MaxOutputs = 1
  PROVE  LsmSpec /\ []InputsLeaveNoGap =>
           [](GetsAreCorrect /\ IteratorsAreCorrect /\ LevelsAreDisjoint /\ LevelsAreOrdered)
<1> DEFINE J == LsmInv /\ InputsAreWhole /\ OneOutput
<1>1. LsmInit => J
  BY InitOneOutput
<1>2. J /\ InputsLeaveNoGap' /\ [LsmNext]_lsmVars => J'
  BY OneOutputStep
<1>3. J => GetsAreCorrect /\ IteratorsAreCorrect /\ LevelsAreDisjoint /\ LevelsAreOrdered
  BY InvGives
<1> QED
  BY <1>1, <1>2, <1>3, PTL DEF LsmSpec

(* Without hypotheses on what happens: reads, iterators, disjointness and      *)
(* order hold for any number of writes, levels and snapshots if every          *)
(* compaction has one output and either nobody calls CompactRange or there     *)
(* are only two keys, with nothing between them (as in run compaction).        *)
THEOREM TreeIsCorrect ==
  ASSUME MaxOutputs = 1, ~Manual \/ MaxKey <= 2
  PROVE  LsmSpec =>
           [](GetsAreCorrect /\ IteratorsAreCorrect /\ LevelsAreDisjoint /\ LevelsAreOrdered)
<1> DEFINE J == LsmInv /\ InputsAreWhole /\ OneOutput
<1>1. LsmInit => J
  BY InitOneOutput
<1>2. J /\ [LsmNext]_lsmVars => J'
  BY OneOutputStep
<1>3. J => GetsAreCorrect /\ IteratorsAreCorrect /\ LevelsAreDisjoint /\ LevelsAreOrdered
  BY InvGives
<1> QED
  BY <1>1, <1>2, <1>3, PTL DEF LsmSpec
====
