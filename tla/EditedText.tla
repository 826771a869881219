----------------------------- MODULE EditedText -----------------------------
(***************************************************************************)
(* What the rest of Emacs sees of the buffer of insdel.c: a text without a *)
(* gap, and point.  An editing function replaces the characters from FROM  *)
(* up to (but not including) TO and leaves every other character alone;    *)
(* point moves with the character after it, and out of deleted text.       *)
(***************************************************************************)
EXTENDS Integers

CONSTANTS Chars, MaxIns

VARIABLES text, length, point

vars == <<text, length, point>>

Spliced(t, len, from, to, n, s) ==
  [i \in 1 .. len - (to - from) + n |->
     IF i < from THEN t[i] ELSE IF i < from + n THEN s[i - from + 1] ELSE t[i - n + (to - from)]]

Init == text = [i \in 1 .. 0 |-> 0] /\ length = 0 /\ point = 1

Insert(n, s) ==
  /\ length' = length + n
  /\ point' = point + n
  /\ text' = Spliced(text, length, point, point, n, s)

Replace(from, to, n, s) ==
  /\ length' = length - (to - from) + n
  /\ point' = IF point <= from THEN point
              ELSE IF point <= to THEN from + n ELSE point - (to - from) + n
  /\ text' = Spliced(text, length, from, to, n, s)

(* One character for another, the same everywhere from FROM to TO. *)
Translate(from, to, table) ==
  /\ UNCHANGED <<length, point>>
  /\ text' = [i \in 1 .. length |-> IF i \in from .. to - 1 THEN table[text[i]] ELSE text[i]]

GotoChar(p) == point' = p /\ UNCHANGED <<length, text>>

Next ==
  \/ \E n \in 1 .. MaxIns : \E s \in [1 .. n -> Chars] : Insert(n, s)
  \/ \E from, to \in 1 .. length + 1 :
       \/ from <= to /\ \E n \in 0 .. MaxIns : \E s \in [1 .. n -> Chars] : Replace(from, to, n, s)
       \/ from <= to /\ \E table \in [Chars -> Chars] : Translate(from, to, table)
  \/ \E p \in 1 .. length + 1 : GotoChar(p)

Spec == Init /\ [][Next]_vars
=============================================================================
