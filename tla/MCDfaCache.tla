----------------------------- MODULE MCDfaCache -----------------------------
(* Two automata for the cache: byte 1 is a, byte 2 is b (or b and c apart).  *)
EXTENDS DfaCache, TLC

Arrows(a, b, end) == 1 :> a @@ 2 :> b @@ EndText :> end

(* ab+, longest match, in the text and at its beginning: nothing but an a    *)
(* leads out of the first start state, so a partial firstbyte does no harm.  *)
PlusStates == {"S", "Sa", "Sab", "Sabb", "A", "Aa", "M"}
PlusStart == <<"S", "A">>
PlusDelta ==
  [s \in PlusStates |->
     CASE s = "S" -> Arrows("Sa", "S", Dead)
       [] s = "Sa" -> Arrows("Sa", "Sab", Dead)
       [] s \in {"Sab", "Sabb"} -> Arrows("M", "Sabb", "M")
       [] s = "A" -> Arrows("Aa", Dead, Dead)
       [] s = "Aa" -> Arrows(Dead, "Sab", Dead)
       [] s = "M" -> Arrows(Dead, Dead, Dead)]
PlusMatching == {"Sabb", "M"}
PlusTexts == {<<1, 2, 2>>, <<2, 1, 2>>}
PlusLastByte == <<1, 2, 2>> :> EndText @@ <<2, 1, 2>> :> 2   (* and a longer context *)

(* a|bb, in the text and at its beginning: both bytes lead out of the start. *)
OrStates == {"S", "Sa", "Sb", "Sbb", "A", "Ab", "M"}
OrStart == <<"S", "A">>
OrDelta ==
  [s \in OrStates |->
     CASE s = "S" -> Arrows("Sa", "Sb", Dead)
       [] s = "Sa" -> Arrows("M", "M", "M")
       [] s = "Sb" -> Arrows("Sa", "Sbb", Dead)
       [] s = "Sbb" -> Arrows("M", "M", "M")
       [] s = "A" -> Arrows("Sa", "Ab", Dead)
       [] s = "Ab" -> Arrows(Dead, "Sbb", Dead)
       [] s = "M" -> Arrows(Dead, Dead, Dead)]
OrMatching == {"M"}
OrTexts == {<<2, 2>>}
OrLastByte == <<2, 2>> :> EndText

=============================================================================
