--------------------------- MODULE UndoListProofs ---------------------------
(***************************************************************************)
(* Proofs about the undo list, for any text, strings, case table, markers  *)
(* and bounds: undoing brings back the texts and the places remembered,    *)
(* and leaves a buffer unmodified only if it is the file.                  *)
(*                                                                         *)
(* The history variables remember a buffer per unit only.  The invariant,  *)
(* UndoInv, says that there are stages, a text and the places of the       *)
(* markers after every record of the list, that lead from the buffer as it *)
(* is to what is remembered (Recalled, Chain), and the same for the list   *)
(* that a series of undos has come to.  An edit adds stages: those before  *)
(* it follow from the buffer before it.  Undoing goes through the stages   *)
(* and adds others for what it records (Progress).  What else it takes:    *)
(* an adjustment of a marker comes right after the deletion that caused it *)
(* (Sound), the time of the file is recorded with the text it had, or in a *)
(* unit that goes on (Timed), and units end where they did when insertions *)
(* are joined, the list is cut or what is pending is a tail of it (Grows,  *)
(* CutAt, SharedTail).                                                     *)
(***************************************************************************)
EXTENDS UndoList, SequenceTheorems, FiniteSetTheorems, WellFoundedInduction, TLAPS

(* Character by character, R is the text T with S in place of the part from F to E.*)
IsReplaced(r, t, f, e, s, n, k) ==
  /\ Len(r) = n - (e - f) + k
  /\ \A i \in 1 .. n - (e - f) + k :
       r[i] = IF i < f THEN t[i] ELSE IF i < f + k THEN s[i - f + 1] ELSE t[i - k + (e - f)]

(* Replacing a part of a sequence of any kind gives a sequence of that      *)
(* kind, and which one.                                                     *)
LEMMA ReplacedIs ==
  ASSUME NEW S, NEW t \in Seq(S), NEW s \in Seq(S), NEW f \in Nat \ {0}, NEW e \in Nat,
         f <= e, e <= Len(t) + 1
  PROVE  Replaced(t, f, e, s) \in Seq(S) /\ IsReplaced(Replaced(t, f, e, s), t, f, e, s, Len(t), Len(s))
<1> DEFINE x == SubSeq(t, 1, f - 1)
           y == SubSeq(t, e, Len(t))
<1>1. PICK n \in Nat, k \in Nat : n = Len(t) /\ k = Len(s)
  OBVIOUS
<1>2. /\ x \in Seq(S) /\ Len(x) = f - 1
      /\ \A i \in 1 .. f - 1 : x[i] = t[i]
  <2>1. 1 \in Int /\ f - 1 \in Int /\ \A i \in 1 .. f - 1 : t[i] \in S
    BY <1>1
  <2>2. x \in Seq(S) /\ Len(x) = (IF 1 <= f - 1 THEN (f - 1) - 1 + 1 ELSE 0)
        /\ \A i \in 1 .. (f - 1) - 1 + 1 : x[i] = t[1 + i - 1]
    BY <2>1, SubSeqProperties
  <2>3. QED BY <2>2
<1>3. /\ y \in Seq(S) /\ Len(y) = n - e + 1
      /\ \A i \in 1 .. n - e + 1 : y[i] = t[e + i - 1]
  <2>1. e \in Int /\ n \in Int /\ \A i \in e .. n : t[i] \in S
    BY <1>1
  <2>2. y \in Seq(S) /\ Len(y) = (IF e <= n THEN n - e + 1 ELSE 0)
        /\ \A i \in 1 .. n - e + 1 : y[i] = t[e + i - 1]
    BY <1>1, <2>1, SubSeqProperties
  <2>3. QED BY <1>1, <2>2
<1>4. Replaced(t, f, e, s) = (x \o s) \o y
  <2>1. (Len(t) + 1) - 1 = Len(t)
    BY <1>1
  <2>2. QED BY <2>1, Zenon DEF Replaced, Part
<1> DEFINE z == x \o s
           w == z \o y
<1> HIDE DEF x, y
<1>5. z \in Seq(S) /\ Len(z) = f - 1 + k
      /\ \A i \in 1 .. f - 1 + k : z[i] = IF i <= f - 1 THEN x[i] ELSE s[i - (f - 1)]
  <2>1. Len(x) + Len(s) = f - 1 + k
    BY <1>1, <1>2
  <2>2. /\ z \in Seq(S) /\ Len(z) = Len(x) + Len(s)
        /\ \A i \in 1 .. Len(x) + Len(s) : z[i] = IF i <= Len(x) THEN x[i] ELSE s[i - Len(x)]
    BY <1>2, ConcatProperties
  <2>3. QED BY <1>2, <2>1, <2>2
<1> HIDE DEF z
<1>6. w \in Seq(S) /\ Len(w) = n - (e - f) + k
      /\ \A i \in 1 .. n - (e - f) + k : w[i] = IF i <= f - 1 + k THEN z[i] ELSE y[i - (f - 1 + k)]
  <2>1. Len(z) + Len(y) = n - (e - f) + k
    BY <1>1, <1>3, <1>5
  <2>2. /\ w \in Seq(S) /\ Len(w) = Len(z) + Len(y)
        /\ \A i \in 1 .. Len(z) + Len(y) : w[i] = IF i <= Len(z) THEN z[i] ELSE y[i - Len(z)]
    BY <1>3, <1>5, ConcatProperties
  <2>3. QED BY <1>5, <2>1, <2>2
<1>10. Replaced(t, f, e, s) = w
  BY <1>4 DEF z
<1> HIDE DEF w
<1>7. ASSUME NEW i \in 1 .. n - (e - f) + k
      PROVE  w[i] = IF i < f THEN t[i] ELSE IF i < f + k THEN s[i - f + 1] ELSE t[i - k + (e - f)]
  <2>2. CASE i < f
    <3>1. i \in 1 .. f - 1 + k /\ i <= f - 1 /\ i <= f - 1 + k /\ i \in 1 .. f - 1
      BY <2>2
    <3>2. QED BY <1>2, <1>5, <1>6, <2>2, <3>1
  <2>3. CASE i >= f /\ i < f + k
    <3>1. i \in 1 .. f - 1 + k /\ ~(i <= f - 1) /\ i <= f - 1 + k /\ i - (f - 1) = i - f + 1 /\ ~(i < f)
      BY <2>3
    <3>2. w[i] = z[i]
      BY <1>6, <3>1
    <3>3. z[i] = s[i - (f - 1)]
      BY <1>5, <3>1
    <3>4. QED BY <2>3, <3>1, <3>2, <3>3
  <2>4. CASE i >= f + k
    <3>1. /\ i - (f - 1 + k) \in 1 .. n - e + 1 /\ ~(i <= f - 1 + k) /\ ~(i < f) /\ ~(i < f + k)
          /\ e + (i - (f - 1 + k)) - 1 = i - k + (e - f)
      BY <2>4, <1>1
    <3>2. w[i] = y[i - (f - 1 + k)]
      BY <1>6, <3>1
    <3>3. y[i - (f - 1 + k)] = t[e + (i - (f - 1 + k)) - 1]
      BY <1>3, <3>1
    <3>4. QED BY <3>1, <3>2, <3>3
  <2>5. (i < f) \/ (i >= f /\ i < f + k) \/ i >= f + k
    OBVIOUS
  <2>6. QED BY <2>2, <2>3, <2>4, <2>5
<1>9. QED BY <1>1, <1>6, <1>7, <1>10 DEF IsReplaced

(* The part of a text between two places. *)
LEMMA PartIs ==
  ASSUME NEW S, NEW t \in Seq(S), NEW f \in Nat \ {0}, NEW e \in Nat, f <= e, e <= Len(t) + 1
  PROVE  /\ Part(t, f, e) \in Seq(S) /\ Len(Part(t, f, e)) = e - f
         /\ \A i \in 1 .. e - f : Part(t, f, e)[i] = t[i + f - 1]
<1>1. PICK n \in Nat : n = Len(t)
  OBVIOUS
<1>2. f \in Int /\ e - 1 \in Int /\ \A i \in f .. e - 1 : t[i] \in S
  BY <1>1
<1>3. /\ SubSeq(t, f, e - 1) \in Seq(S)
      /\ Len(SubSeq(t, f, e - 1)) = IF f <= e - 1 THEN e - 1 - f + 1 ELSE 0
      /\ \A i \in 1 .. e - 1 - f + 1 : SubSeq(t, f, e - 1)[i] = t[f + i - 1]
  BY <1>2, SubSeqProperties
<1>4. e - 1 - f + 1 = e - f /\ \A i \in 1 .. e - f : f + i - 1 = i + f - 1
  OBVIOUS
<1>5. QED BY <1>3, <1>4 DEF Part

(* A text with a part taken out, and one with something put in. *)
IsTakenOut(r, t, f, e, n) ==
  Len(r) = n - (e - f) /\ \A i \in 1 .. n - (e - f) : r[i] = IF i < f THEN t[i] ELSE t[i + (e - f)]
IsPutIn(r, t, f, s, n, k) ==
  /\ Len(r) = n + k
  /\ \A i \in 1 .. n + k : r[i] = IF i < f THEN t[i] ELSE IF i < f + k THEN s[i - f + 1] ELSE t[i - k]

(* A part taken out.                                                        *)
LEMMA TakenOut ==
  ASSUME NEW S, NEW t \in Seq(S), NEW f \in Nat \ {0}, NEW e \in Nat, f <= e, e <= Len(t) + 1
  PROVE  Replaced(t, f, e, <<>>) \in Seq(S) /\ IsTakenOut(Replaced(t, f, e, <<>>), t, f, e, Len(t))
<1> DEFINE s == <<>>
           r == Replaced(t, f, e, s)
<1>1. s \in Seq(S) /\ Len(s) = 0
  OBVIOUS
<1> HIDE DEF s
<1>2. r \in Seq(S) /\ IsReplaced(r, t, f, e, s, Len(t), Len(s))
  BY <1>1, ReplacedIs, Zenon
<1> HIDE DEF r
<1>3. PICK n \in Nat : n = Len(t)
  OBVIOUS
<1>4. IsTakenOut(r, t, f, e, n)
  <2>1. n - (e - f) + 0 = n - (e - f) /\ \A i \in 1 .. n - (e - f) : i - 0 + (e - f) = i + (e - f)
    OBVIOUS
  <2>2. /\ Len(r) = n - (e - f) + 0
        /\ \A i \in 1 .. n - (e - f) + 0 :
             r[i] = IF i < f THEN t[i] ELSE IF i < f + 0 THEN s[i - f + 1] ELSE t[i - 0 + (e - f)]
    BY <1>1, <1>2, <1>3 DEF IsReplaced
  <2>3. f + 0 = f
    OBVIOUS
  <2>4. QED BY <2>1, <2>2, <2>3 DEF IsTakenOut
<1>5. QED BY <1>2, <1>3, <1>4 DEF r, s

(* Something put in.                                                        *)
LEMMA PutIn ==
  ASSUME NEW S, NEW t \in Seq(S), NEW s \in Seq(S), NEW f \in Nat \ {0}, f <= Len(t) + 1
  PROVE  Replaced(t, f, f, s) \in Seq(S) /\ IsPutIn(Replaced(t, f, f, s), t, f, s, Len(t), Len(s))
<1> DEFINE r == Replaced(t, f, f, s)
<1>1. f \in Nat /\ f <= f
  OBVIOUS
<1>2. r \in Seq(S) /\ IsReplaced(r, t, f, f, s, Len(t), Len(s))
  BY <1>1, ReplacedIs, Zenon
<1> HIDE DEF r
<1>3. PICK n \in Nat, k \in Nat : n = Len(t) /\ k = Len(s)
  OBVIOUS
<1>4. IsPutIn(r, t, f, s, n, k)
  <2>1. n - (f - f) + k = n + k /\ \A i \in 1 .. n + k : i - k + (f - f) = i - k
    OBVIOUS
  <2>2. /\ Len(r) = n - (f - f) + k
        /\ \A i \in 1 .. n - (f - f) + k :
             r[i] = IF i < f THEN t[i] ELSE IF i < f + k THEN s[i - f + 1] ELSE t[i - k + (f - f)]
    BY <1>2, <1>3 DEF IsReplaced
  <2>3. QED BY <2>1, <2>2 DEF IsPutIn
<1>5. QED BY <1>2, <1>3, <1>4 DEF r

(* What is deleted and put back. *)
LEMMA DeleteBack ==
  ASSUME NEW S, NEW t \in Seq(S), NEW f \in Nat \ {0}, NEW e \in Nat, f <= e, e <= Len(t) + 1
  PROVE  Replaced(Replaced(t, f, e, <<>>), f, f, Part(t, f, e)) = t
<1>1. PICK n \in Nat : n = Len(t)
  OBVIOUS
<1> DEFINE p == Part(t, f, e)
           a == Replaced(t, f, e, <<>>)
           b == Replaced(a, f, f, p)
<1>2. p \in Seq(S) /\ Len(p) = e - f /\ \A i \in 1 .. e - f : p[i] = t[i + f - 1]
  <2>1. /\ Part(t, f, e) \in Seq(S) /\ Len(Part(t, f, e)) = e - f
        /\ \A i \in 1 .. e - f : Part(t, f, e)[i] = t[i + f - 1]
    BY PartIs
  <2>2. QED BY <2>1
<1>3. /\ a \in Seq(S) /\ Len(a) = n - (e - f)
      /\ \A i \in 1 .. n - (e - f) : a[i] = IF i < f THEN t[i] ELSE t[i + (e - f)]
  <2>1. a \in Seq(S) /\ IsTakenOut(a, t, f, e, Len(t))
    BY TakenOut, Zenon
  <2>2. QED BY <1>1, <2>1 DEF IsTakenOut
<1> HIDE DEF a, p
<1>4. /\ b \in Seq(S) /\ Len(b) = n
      /\ \A i \in 1 .. n : b[i] = IF i < f THEN a[i] ELSE IF i < f + (e - f) THEN p[i - f + 1]
                                  ELSE a[i - (e - f)]
  <2>1. f <= Len(a) + 1
    BY <1>1, <1>3
  <2>2. b \in Seq(S) /\ IsPutIn(b, a, f, p, Len(a), Len(p))
    BY <1>2, <1>3, <2>1, PutIn, Zenon
  <2> HIDE DEF b
  <2>3. n - (e - f) + (e - f) = n
    BY <1>1
  <2>4. QED BY <1>1, <1>2, <1>3, <2>2, <2>3 DEF IsPutIn
<1> HIDE DEF b
<1>5. ASSUME NEW i \in 1 .. n PROVE b[i] = t[i]
  <2>1. CASE i < f
    BY <1>1, <1>3, <1>4, <2>1
  <2>2. CASE i >= f /\ i < e
    <3>1. i - f + 1 \in 1 .. e - f /\ (i - f + 1) + f - 1 = i
      BY <2>2
    <3>2. QED BY <1>2, <1>4, <2>2, <3>1
  <2>3. CASE i >= e
    <3>1. i - (e - f) \in 1 .. n - (e - f) /\ (i - (e - f)) + (e - f) = i /\ ~(i - (e - f) < f)
      BY <1>1, <2>3
    <3>2. b[i] = a[i - (e - f)]
      <4>1. ~(i < f) /\ ~(i < f + (e - f))
        BY <2>3
      <4>2. QED BY <1>4, <4>1
    <3>3. a[i - (e - f)] = t[(i - (e - f)) + (e - f)]
      BY <1>3, <3>1
    <3>4. QED BY <3>1, <3>2, <3>3
  <2>4. QED BY <2>1, <2>2, <2>3
<1>6. b = t
  BY <1>1, <1>4, <1>5, SeqEqual
<1>7. QED BY <1>6 DEF a, b, p

(* Taking out a text put in, and what is before it from H on. *)
LEMMA JoinBack ==
  ASSUME NEW S, NEW t \in Seq(S), NEW s \in Seq(S), NEW h \in Nat \ {0}, NEW f \in Nat \ {0},
         h <= f, f <= Len(t) + 1
  PROVE  Replaced(Replaced(t, f, f, s), h, f + Len(s), <<>>) = Replaced(t, h, f, <<>>)
<1>1. PICK n \in Nat, k \in Nat : n = Len(t) /\ k = Len(s)
  OBVIOUS
<1> DEFINE a == Replaced(t, f, f, s)
           b == Replaced(a, h, f + k, <<>>)
           c == Replaced(t, h, f, <<>>)
<1>2. a \in Seq(S) /\ IsPutIn(a, t, f, s, n, k)
  BY <1>1, PutIn, Zenon
<1>3. c \in Seq(S) /\ IsTakenOut(c, t, h, f, n)
  <2>1. f \in Nat
    OBVIOUS
  <2>2. QED BY <1>1, <2>1, TakenOut, Zenon
<1> HIDE DEF a
<1>4. b \in Seq(S) /\ IsTakenOut(b, a, h, f + k, n + k)
  <2>1. Len(a) = n + k
    BY <1>2 DEF IsPutIn
  <2>2. f + k \in Nat /\ h <= f + k /\ f + k <= Len(a) + 1
    BY <1>1, <2>1
  <2>3. QED BY <1>2, <2>1, <2>2, TakenOut, Zenon
<1> HIDE DEF b, c
<1>5. Len(b) = n - (f - h) /\ Len(c) = n - (f - h)
  BY <1>3, <1>4 DEF IsTakenOut
<1>6. ASSUME NEW i \in 1 .. n - (f - h) PROVE b[i] = c[i]
  <2>1. i \in 1 .. (n + k) - ((f + k) - h)
    OBVIOUS
  <2>2. b[i] = IF i < h THEN a[i] ELSE a[i + ((f + k) - h)]
    BY <1>4, <2>1 DEF IsTakenOut
  <2>3. c[i] = IF i < h THEN t[i] ELSE t[i + (f - h)]
    BY <1>3 DEF IsTakenOut
  <2>4. CASE i < h
    <3>1. i \in 1 .. n + k /\ i < f
      BY <2>4, <1>1
    <3>2. a[i] = t[i]
      BY <1>2, <3>1 DEF IsPutIn
    <3>3. QED BY <2>2, <2>3, <2>4, <3>2
  <2>5. CASE ~(i < h)
    <3>1. /\ i + ((f + k) - h) \in 1 .. n + k /\ ~(i + ((f + k) - h) < f) /\ ~(i + ((f + k) - h) < f + k)
          /\ i + ((f + k) - h) - k = i + (f - h)
      BY <2>5, <1>1
    <3>2. a[i + ((f + k) - h)] = t[i + ((f + k) - h) - k]
      BY <1>2, <3>1 DEF IsPutIn
    <3>3. QED BY <2>2, <2>3, <2>5, <3>1, <3>2
  <2>6. QED BY <2>4, <2>5
<1>7. b = c
  BY <1>3, <1>4, <1>5, <1>6, SeqEqual
<1>8. QED BY <1>1, <1>7 DEF a, b, c

(* Nothing replaced by nothing. *)
LEMMA NothingReplaced ==
  ASSUME NEW S, NEW t \in Seq(S), NEW f \in Nat \ {0}, f <= Len(t) + 1
  PROVE  Replaced(t, f, f, <<>>) = t
<1>1. PICK n \in Nat : n = Len(t)
  OBVIOUS
<1> DEFINE c == Replaced(t, f, f, <<>>)
<1>2. c \in Seq(S) /\ IsTakenOut(c, t, f, f, n)
  <2>1. f \in Nat /\ f <= f
    OBVIOUS
  <2>2. QED BY <1>1, <2>1, TakenOut, Zenon
<1> HIDE DEF c
<1>3. n - (f - f) = n /\ \A i \in 1 .. n : i + (f - f) = i
  OBVIOUS
<1>4. Len(c) = n /\ \A i \in 1 .. n : c[i] = t[i]
  BY <1>2, <1>3 DEF IsTakenOut
<1>5. QED BY <1>1, <1>2, <1>4, SeqEqual DEF c

(* To replace is to take out and to put in. *)
LEMMA ReplacedInParts ==
  ASSUME NEW S, NEW t \in Seq(S), NEW s \in Seq(S), NEW f \in Nat \ {0}, NEW e \in Nat,
         f <= e, e <= Len(t) + 1
  PROVE  Replaced(t, f, e, s) = Replaced(Replaced(t, f, e, <<>>), f, f, s)
<1>1. PICK n \in Nat, k \in Nat : n = Len(t) /\ k = Len(s)
  OBVIOUS
<1> DEFINE a == Replaced(t, f, e, <<>>)
           b == Replaced(a, f, f, s)
           c == Replaced(t, f, e, s)
<1>2. a \in Seq(S) /\ IsTakenOut(a, t, f, e, n)
  BY <1>1, TakenOut, Zenon
<1>3. c \in Seq(S) /\ IsReplaced(c, t, f, e, s, n, k)
  BY <1>1, ReplacedIs, Zenon
<1> HIDE DEF a
<1>4. b \in Seq(S) /\ IsPutIn(b, a, f, s, n - (e - f), k)
  <2>1. Len(a) = n - (e - f)
    BY <1>2 DEF IsTakenOut
  <2>2. f <= Len(a) + 1
    BY <1>1, <2>1
  <2>3. QED BY <1>1, <1>2, <2>1, <2>2, PutIn, Zenon
<1> HIDE DEF b, c
<1>5. Len(b) = n - (e - f) + k /\ Len(c) = n - (e - f) + k
  BY <1>3, <1>4 DEF IsPutIn, IsReplaced
<1>6. ASSUME NEW i \in 1 .. n - (e - f) + k PROVE b[i] = c[i]
  <2>2. b[i] = IF i < f THEN a[i] ELSE IF i < f + k THEN s[i - f + 1] ELSE a[i - k]
    BY <1>4 DEF IsPutIn
  <2>3. c[i] = IF i < f THEN t[i] ELSE IF i < f + k THEN s[i - f + 1] ELSE t[i - k + (e - f)]
    BY <1>3 DEF IsReplaced
  <2>4. CASE i < f
    <3>1. i \in 1 .. n - (e - f)
      BY <2>4, <1>1
    <3>2. a[i] = t[i]
      BY <1>2, <2>4, <3>1 DEF IsTakenOut
    <3>3. QED BY <2>2, <2>3, <2>4, <3>2
  <2>5. CASE ~(i < f) /\ i < f + k
    BY <2>2, <2>3, <2>5
  <2>6. CASE ~(i < f + k)
    <3>1. i - k \in 1 .. n - (e - f) /\ ~(i - k < f) /\ ~(i < f)
      BY <2>6
    <3>2. a[i - k] = t[(i - k) + (e - f)]
      BY <1>2, <3>1 DEF IsTakenOut
    <3>3. QED BY <2>2, <2>3, <2>6, <3>1, <3>2
  <2>7. QED BY <2>4, <2>5, <2>6
<1>7. b = c
  BY <1>3, <1>4, <1>5, <1>6, SeqEqual
<1>8. QED BY <1>7 DEF a, b, c

(* A change in place is a replacement. *)
Cased(t, f, e) == [i \in DOMAIN t |-> IF i \in f .. e - 1 THEN Case[t[i]] ELSE t[i]]
(* A change in place is a replacement by as many characters                 *)
(* (casify_region).                                                         *)
LEMMA CasedIsReplaced ==
  ASSUME NEW t \in Seq(Chars), NEW f \in Nat \ {0}, NEW e \in Nat, f <= e, e <= Len(t) + 1
  PROVE  /\ Cased(t, f, e) \in Seq(Chars) /\ Len(Cased(t, f, e)) = Len(t)
         /\ \E s \in Seq(Chars) : Len(s) = e - f /\ Cased(t, f, e) = Replaced(t, f, e, s)
<1>1. PICK n \in Nat : n = Len(t)
  OBVIOUS
<1> DEFINE b == Cased(t, f, e)
           s == [i \in 1 .. e - f |-> Case[t[i + f - 1]]]
           c == Replaced(t, f, e, s)
<1>2. b \in Seq(Chars) /\ Len(b) = n
      /\ \A i \in 1 .. n : b[i] = IF i \in f .. e - 1 THEN Case[t[i]] ELSE t[i]
  <2>1. DOMAIN t = 1 .. n /\ \A i \in 1 .. n : t[i] \in Chars /\ Case[t[i]] \in Chars
    BY <1>1, CaseAssumption
  <2>2. b \in [1 .. n -> Chars]
    BY <2>1 DEF Cased
  <2>3. \A i \in 1 .. n : b[i] = IF i \in f .. e - 1 THEN Case[t[i]] ELSE t[i]
    BY <2>1 DEF Cased
  <2> HIDE DEF b
  <2>4. QED BY <2>2, <2>3
<1>3. s \in Seq(Chars) /\ Len(s) = e - f /\ \A i \in 1 .. e - f : s[i] = Case[t[i + f - 1]]
  <2>1. \A i \in 1 .. e - f : i + f - 1 \in 1 .. n
    BY <1>1
  <2>2. \A i \in 1 .. e - f : Case[t[i + f - 1]] \in Chars
    BY <1>1, <2>1, CaseAssumption
  <2>3. e - f \in Nat
    OBVIOUS
  <2>4. QED BY <2>2, <2>3
<1> HIDE DEF s
<1>4. c \in Seq(Chars) /\ IsReplaced(c, t, f, e, s, n, e - f)
  BY <1>1, <1>3, ReplacedIs, Zenon
<1> HIDE DEF b, c
<1>5. ASSUME NEW i \in 1 .. n PROVE b[i] = c[i]
  <2>1. i \in 1 .. n - (e - f) + (e - f)
    OBVIOUS
  <2>2. c[i] = IF i < f THEN t[i] ELSE IF i < f + (e - f) THEN s[i - f + 1] ELSE t[i - (e - f) + (e - f)]
    BY <1>4, <2>1 DEF IsReplaced
  <2>3. CASE i < f
    BY <1>2, <2>2, <2>3
  <2>4. CASE i >= f /\ i < e
    <3>1. i - f + 1 \in 1 .. e - f /\ (i - f + 1) + f - 1 = i /\ i < f + (e - f) /\ ~(i < f) /\ i \in f .. e - 1
      BY <2>4
    <3>2. s[i - f + 1] = Case[t[i]]
      BY <1>3, <3>1
    <3>3. QED BY <1>2, <2>2, <3>1, <3>2
  <2>5. CASE i >= e
    <3>1. i - (e - f) + (e - f) = i /\ ~(i < f + (e - f)) /\ ~(i < f) /\ i \notin f .. e - 1
      BY <2>5
    <3>2. QED BY <1>2, <2>2, <3>1
  <2>6. QED BY <2>3, <2>4, <2>5
<1>6. Len(c) = n
  <2>1. n - (e - f) + (e - f) = n
    OBVIOUS
  <2>2. QED BY <1>4, <2>1 DEF IsReplaced
<1>7. b = c
  BY <1>2, <1>4, <1>5, <1>6, SeqEqual
<1>8. QED BY <1>1, <1>2, <1>3, <1>7 DEF b, c

-----------------------------------------------------------------------------
Records ==
  [kind : {"boundary"}] \cup [kind : {"point"}, at : Nat \ {0}] \cup [kind : {"first"}, time : Nat]
    \cup [kind : {"insert"}, beg : Nat \ {0}, end : Nat \ {0}]
    \cup [kind : {"delete"}, str : Seq(Chars) \ {<<>>}, pos : Int \ {0}]
    \cup [kind : {"adjust"}, marker : Markers, by : Int]
Buffers ==
  [text : Seq(Chars), pt : Nat \ {0}, marks : [Markers -> Nat], astray : SUBSET Markers,
   list : Seq(Records), on : BOOLEAN, modified : BOOLEAN, time : Nat, own : BOOLEAN,
   last : Nat \ {0}, here : BOOLEAN, error : BOOLEAN]

(* All but the list, and whose edit was last, is the same in two buffers.    *)
Recorded(b, c) ==
  /\ c \in Buffers
  /\ c.text = b.text /\ c.pt = b.pt /\ c.marks = b.marks /\ c.astray = b.astray /\ c.on = b.on
  /\ c.modified = b.modified /\ c.time = b.time /\ c.last = b.last /\ c.here = b.here /\ c.error = b.error

(* What the record functions make are records.                              *)
LEMMA RecordsAre ==
  /\ Boundary \in Records
  /\ \A p \in Nat \ {0} : Point(p) \in Records
  /\ \A t \in Nat : First(t) \in Records
  /\ \A f, e \in Nat \ {0} : Ins(f, e) \in Records
  /\ \A s \in Seq(Chars) \ {<<>>}, p \in Int \ {0} : Del(s, p) \in Records
  /\ \A m \in Markers, by \in Int : Adj(m, by) \in Records
<1>1. Boundary \in Records
  BY DEF Records, Boundary
<1>2. \A p \in Nat \ {0} : Point(p) \in Records
  BY DEF Records, Point
<1>3. \A t \in Nat : First(t) \in Records
  BY DEF Records, First
<1>4. \A f, e \in Nat \ {0} : Ins(f, e) \in Records
  BY DEF Records, Ins
<1>5. \A s \in Seq(Chars) \ {<<>>}, p \in Int \ {0} : Del(s, p) \in Records
  BY DEF Records, Del
<1>6. \A m \in Markers, by \in Int : Adj(m, by) \in Records
  BY DEF Records, Adj
<1>7. QED BY <1>1, <1>2, <1>3, <1>4, <1>5, <1>6

(* A record put before the list of a buffer changes nothing else of it.     *)
LEMMA ConsedIs ==
  ASSUME NEW b \in Buffers, NEW r \in Records
  PROVE  /\ Recorded(b, Consed(b, r)) /\ Consed(b, r).own = b.own
         /\ Consed(b, r).list = <<r>> \o b.list
<1>1. <<r>> \o b.list \in Seq(Records)
  <2>1. <<r>> \in Seq(Records) /\ b.list \in Seq(Records)
    BY DEF Buffers
  <2>2. QED BY <2>1, ConcatProperties
<1>2. QED BY <1>1 DEF Consed, Buffers, Recorded

(* What undo-boundary makes of a buffer.                                    *)
LEMMA BoundedIs ==
  ASSUME NEW b \in Buffers
  PROVE  /\ Recorded(b, Bounded(b)) /\ Bounded(b).own = b.own
         /\ \/ /\ ~b.on \/ b.list = <<>> \/ b.list[1].kind = "boundary"
               /\ Bounded(b).list = b.list
            \/ /\ b.on /\ b.list # <<>> /\ b.list[1].kind # "boundary"
               /\ Bounded(b).list = <<Boundary>> \o b.list
<1>1. AtBoundary(b.list) <=> b.list # <<>> /\ b.list[1].kind = "boundary"
  BY DEF AtBoundary
<1>2. CASE b.on /\ b.list # <<>> /\ b.list[1].kind # "boundary"
  <2>1. Bounded(b) = Consed(b, Boundary)
    BY <1>1, <1>2 DEF Bounded
  <2>2. QED BY <1>2, <2>1, ConsedIs, RecordsAre
<1>3. CASE ~(b.on /\ b.list # <<>> /\ b.list[1].kind # "boundary")
  <2>1. Bounded(b) = b
    BY <1>1, <1>3 DEF Bounded
  <2>2. Recorded(b, b)
    BY DEF Recorded
  <2>3. b.on \in BOOLEAN
    BY DEF Buffers
  <2>4. QED BY <1>3, <2>1, <2>2, <2>3
<1>4. QED BY <1>2, <1>3

(* What an edit records first: a boundary, if another buffer was edited in  *)
(* between.                                                                 *)
LEMMA OwnedIs ==
  ASSUME NEW b \in Buffers
  PROVE  /\ Recorded(b, Owned(b)) /\ Owned(b).own
         /\ \/ Owned(b).list = b.list
            \/ /\ ~b.own /\ b.list # <<>> /\ b.list[1].kind # "boundary"
               /\ Owned(b).list = <<Boundary>> \o b.list
<1>1. CASE b.own
  <2>1. Owned(b) = b
    BY <1>1 DEF Owned
  <2>2. QED BY <1>1, <2>1 DEF Recorded
<1>2. CASE ~b.own
  <2> DEFINE c == Bounded(b)
  <2>1. Owned(b) = [c EXCEPT !.own = TRUE]
    BY <1>2 DEF Owned
  <2>2. Recorded(b, c) /\ (c.list = b.list \/ (b.list # <<>> /\ b.list[1].kind # "boundary" /\ c.list = <<Boundary>> \o b.list))
    BY BoundedIs
  <2> HIDE DEF c
  <2>3. QED BY <1>2, <2>1, <2>2 DEF Recorded, Buffers
<1>3. QED BY <1>1, <1>2

(* What record_first_change records of a buffer that counts as unmodified.  *)
LEMMA WithFirstIs ==
  ASSUME NEW b \in Buffers
  PROVE  /\ Recorded(b, WithFirst(b)) /\ WithFirst(b).own = b.own
         /\ \/ b.modified /\ WithFirst(b).list = b.list
            \/ ~b.modified /\ WithFirst(b).list = <<First(b.time)>> \o b.list
<1>1. First(b.time) \in Records
  <2>1. b.time \in Nat
    BY DEF Buffers
  <2>2. QED BY <2>1, RecordsAre
<1>2. CASE b.modified
  BY <1>2 DEF WithFirst, Recorded
<1>3. CASE ~b.modified
  <2>1. WithFirst(b) = Consed(b, First(b.time))
    BY <1>3 DEF WithFirst
  <2>2. QED BY <1>1, <1>3, <2>1, ConsedIs
<1>4. QED BY <1>2, <1>3

-----------------------------------------------------------------------------
(* A buffer as far as undoing a record depends on it.                        *)
Stages == [text : Seq(Chars), marks : [Markers -> Nat]]

At(r) == IF r.pos < 0 THEN -r.pos ELSE r.pos
Clip(p, n) == IF p < 1 THEN 1 ELSE IF p > n + 1 THEN n + 1 ELSE p
IsText(r) == r.kind \in {"insert", "delete"}

(* Undoing record R makes of the text A the text Z, and of the place P of     *)
(* marker M, in a text of length N, another one.                             *)
TextStep(r, a, z) ==
  /\ r.kind = "insert" => r.beg < r.end /\ r.end <= Len(a) + 1 /\ z = Replaced(a, r.beg, r.end, <<>>)
  /\ r.kind = "delete" => At(r) <= Len(a) + 1 /\ z = Replaced(a, At(r), At(r), r.str)
  /\ ~IsText(r) => z = a
MarkStep(r, m, p, n) ==
  IF r.kind = "insert"
  THEN IF p > r.end THEN p - (r.end - r.beg) ELSE IF p > r.beg THEN r.beg ELSE p
  ELSE IF r.kind = "delete" THEN IF p > At(r) THEN p + Len(r.str) ELSE p
  ELSE IF r.kind = "adjust" /\ r.marker = m /\ p # Nowhere THEN Clip(p - r.by, n) ELSE p
Step(r, a, z, T) ==
  /\ TextStep(r, a.text, z.text)
  /\ \A m \in T : z.marks[m] = MarkStep(r, m, a.marks[m], Len(a.text))

(* Undoing the list L record by record goes through the stages S, as far as   *)
(* the text and the markers in T are concerned.                              *)
Chain(l, s, T) ==
  /\ s \in [0 .. Len(l) -> Stages]
  /\ \A i \in 1 .. Len(l) : Step(l[i], s[i - 1], s[i], T)

Open(l) == l = <<>> \/ l[1].kind = "boundary"
Pure(l, d) == \A i \in 1 .. d : l[i].kind # "boundary"

(* The list L with stages S has grown by D records to the list C with stages  *)
(* U; an insertion at the head may have been joined.                         *)
Grows(l, s, c, u, d) ==
  /\ Len(c) = Len(l) + d
  /\ \A i \in 1 .. Len(l) :
       /\ u[i + d] = s[i] /\ c[i + d].kind = l[i].kind
       /\ c[i + d] = l[i] \/ (i = 1 /\ l[i].kind = "insert")
  /\ \A i \in 1 .. d : EndsUnit(c, i) => u[i] = s[0]
  /\ Open(c) => u[0] = s[0]

(* Lists may be put together in any order.                                  *)
LEMMA Reassociated ==
  ASSUME NEW x \in Seq(Records), NEW y \in Seq(Records), NEW z \in Seq(Records)
  PROVE  (x \o y) \o z = x \o (y \o z)
BY ConcatAssociative

(* A list with one more record before it.                                   *)
LEMMA PushedIs ==
  ASSUME NEW S, NEW r \in S, NEW l \in Seq(S)
  PROVE  /\ <<r>> \o l \in Seq(S) /\ Len(<<r>> \o l) = Len(l) + 1
         /\ (<<r>> \o l)[1] = r /\ \A i \in 1 .. Len(l) : (<<r>> \o l)[i + 1] = l[i]
<1>1. PICK n \in Nat : n = Len(l)
  OBVIOUS
<1> DEFINE k == <<r>>
           c == k \o l
<1>2. k \in Seq(S) /\ Len(k) = 1 /\ k[1] = r
  OBVIOUS
<1> HIDE DEF k
<1>3. /\ c \in Seq(S) /\ Len(c) = Len(k) + Len(l)
      /\ \A i \in 1 .. Len(k) + Len(l) : c[i] = IF i <= Len(k) THEN k[i] ELSE l[i - Len(k)]
  BY <1>2, ConcatProperties
<1> HIDE DEF c
<1>4. Len(c) = n + 1 /\ \A i \in 1 .. n + 1 : c[i] = IF i <= 1 THEN k[i] ELSE l[i - 1]
  <2>1. 1 + n = n + 1
    OBVIOUS
  <2>2. QED BY <1>1, <1>2, <1>3, <2>1
<1>5. c[1] = r
  <2>1. 1 \in 1 .. n + 1 /\ 1 <= 1
    OBVIOUS
  <2>2. QED BY <1>2, <1>4, <2>1
<1>6. \A i \in 1 .. n : c[i + 1] = l[i]
  <2>1. \A i \in 1 .. n : i + 1 \in 1 .. n + 1 /\ ~(i + 1 <= 1) /\ (i + 1) - 1 = i
    OBVIOUS
  <2>2. QED BY <1>4, <2>1
<1>7. QED BY <1>1, <1>3, <1>4, <1>5, <1>6 DEF c, k

(* To grow twice is to grow.                                                 *)
LEMMA GrowsTwice ==
  ASSUME NEW l \in Seq(Records), NEW c \in Seq(Records), NEW e \in Seq(Records), NEW s, NEW u, NEW v,
         NEW d \in Nat, NEW k \in Nat, Grows(l, s, c, u, d), Grows(c, u, e, v, k), Pure(e, k)
  PROVE  Grows(l, s, e, v, d + k)
<1>1. PICK n \in Nat : n = Len(l)
  OBVIOUS
<1>2. Len(c) = n + d /\ Len(e) = (n + d) + k
  BY <1>1 DEF Grows
<1>3. ASSUME NEW i \in 1 .. n
      PROVE  /\ v[i + (d + k)] = s[i] /\ e[i + (d + k)].kind = l[i].kind
             /\ e[i + (d + k)] = l[i] \/ (i = 1 /\ l[i].kind = "insert")
  <2>1. i + d \in 1 .. n + d /\ (i + d) + k = i + (d + k) /\ (i + d = 1 => i = 1)
    OBVIOUS
  <2>2. u[i + d] = s[i] /\ c[i + d].kind = l[i].kind /\ (c[i + d] = l[i] \/ (i = 1 /\ l[i].kind = "insert"))
    BY <1>1 DEF Grows
  <2>3. /\ v[(i + d) + k] = u[i + d] /\ e[(i + d) + k].kind = c[i + d].kind
        /\ e[(i + d) + k] = c[i + d] \/ (i + d = 1 /\ c[i + d].kind = "insert")
    BY <1>2, <2>1 DEF Grows
  <2>4. QED BY <2>1, <2>2, <2>3
<1>4. Open(c) => u[0] = s[0]
  BY DEF Grows
<1>5. ASSUME NEW i \in 1 .. d + k, EndsUnit(e, i) PROVE v[i] = s[0]
  <2>1. CASE i \in 1 .. k
    <3>1. v[i] = u[0]
      BY <1>5, <2>1 DEF Grows
    <3>2. CASE i = Len(e)
      <4>1. Len(c) = 0
        BY <1>2, <2>1, <3>2
      <4>2. c = <<>>
        BY <4>1
      <4>3. QED BY <1>4, <3>1, <4>2 DEF Open
    <3>3. CASE e[i + 1].kind = "boundary" /\ i # Len(e)
      <4>1. i = k
        BY <2>1, <3>3 DEF Pure
      <4>2. 1 \in 1 .. Len(c)
        BY <1>2, <2>1, <3>3, <4>1
      <4>3. e[1 + k].kind = c[1].kind
        BY <4>2 DEF Grows
      <4>4. 1 + k = k + 1
        OBVIOUS
      <4>5. QED BY <1>4, <3>1, <3>3, <4>1, <4>3, <4>4 DEF Open
    <3>4. QED BY <1>5, <3>2, <3>3 DEF EndsUnit
  <2>2. CASE i \notin 1 .. k
    <3>1. PICK j \in 1 .. d : i = j + k
      <4>1. i - k \in 1 .. d /\ i = (i - k) + k
        BY <2>2
      <4>2. QED BY <4>1
    <3>2. j \in 1 .. n + d /\ v[j + k] = u[j]
      <4>1. j \in 1 .. n + d
        OBVIOUS
      <4>2. QED BY <1>2, <4>1 DEF Grows
    <3>3. EndsUnit(c, j)
      <4>1. CASE i = Len(e)
        BY <1>2, <3>1, <4>1 DEF EndsUnit
      <4>2. CASE i # Len(e) /\ e[i + 1].kind = "boundary"
        <5>1. j + 1 \in 1 .. n + d /\ (j + 1) + k = i + 1
          BY <1>2, <3>1, <3>2, <4>2
        <5>2. e[(j + 1) + k].kind = c[j + 1].kind
          BY <1>2, <5>1 DEF Grows
        <5>3. QED BY <4>2, <5>1, <5>2 DEF EndsUnit
      <4>3. QED BY <1>5, <4>1, <4>2 DEF EndsUnit
    <3>4. u[j] = s[0]
      BY <3>3 DEF Grows
    <3>5. QED BY <3>1, <3>2, <3>4
  <2>3. QED BY <2>1, <2>2
<1>6. ASSUME Open(e) PROVE v[0] = s[0]
  <2>1. k = 0
    <3>1. CASE e = <<>>
      BY <1>2, <3>1
    <3>2. CASE e # <<>> /\ e[1].kind = "boundary"
      <4>1. 1 \notin 1 .. k
        BY <3>2 DEF Pure
      <4>2. QED BY <4>1
    <3>3. QED BY <1>6, <3>1, <3>2 DEF Open
  <2>2. Open(c)
    <3>1. CASE e = <<>>
      <4>1. Len(c) = 0
        BY <1>2, <2>1, <3>1
      <4>2. QED BY <4>1 DEF Open
    <3>2. CASE e # <<>> /\ e[1].kind = "boundary"
      <4>1. Len(e) # 0
        BY <3>2
      <4>2. 1 \in 1 .. Len(c) /\ 1 + k = 1
        BY <1>2, <2>1, <4>1
      <4>3. e[1 + k].kind = c[1].kind
        BY <4>2 DEF Grows
      <4>4. QED BY <3>2, <4>2, <4>3 DEF Open
    <3>3. QED BY <1>6, <3>1, <3>2 DEF Open
  <2>3. v[0] = u[0]
    BY <1>6 DEF Grows
  <2>4. QED BY <1>4, <2>2, <2>3
<1>7. Len(e) = n + (d + k)
  BY <1>2
<1>8. QED BY <1>1, <1>3, <1>5, <1>6, <1>7 DEF Grows

Prepended(l, s, c, u, p, d) == Grows(l, s, c, u, d) /\ \A i \in 0 .. d : u[i] = p[i]

(* New records X, none of them a boundary, or just one that changes nothing. *)
LEMMA ChainPrepended ==
  ASSUME NEW T, NEW l \in Seq(Records), NEW s, Chain(l, s, T),
         NEW x \in Seq(Records), NEW p, Chain(x, p, T), p[Len(x)] = s[0],
         Pure(x, Len(x)) \/ (Len(x) = 1 /\ p[0] = s[0])
  PROVE  \E u : Chain(x \o l, u, T) /\ Prepended(l, s, x \o l, u, p, Len(x))
<1>1. PICK n \in Nat, k \in Nat : n = Len(l) /\ k = Len(x)
  OBVIOUS
<1> DEFINE c == x \o l
           u == [i \in 0 .. n + k |-> IF i < k THEN p[i] ELSE s[i - k]]
<1>2. /\ c \in Seq(Records) /\ Len(c) = n + k
      /\ \A i \in 1 .. n + k : c[i] = IF i <= k THEN x[i] ELSE l[i - k]
  <2>1. /\ c \in Seq(Records) /\ Len(c) = Len(x) + Len(l)
        /\ \A i \in 1 .. Len(x) + Len(l) : c[i] = IF i <= Len(x) THEN x[i] ELSE l[i - Len(x)]
    BY ConcatProperties
  <2>2. Len(x) + Len(l) = n + k
    BY <1>1
  <2> HIDE DEF c
  <2>3. QED BY <1>1, <2>1, <2>2
<1> HIDE DEF c
<1>3. /\ s \in [0 .. n -> Stages] /\ \A i \in 1 .. n : Step(l[i], s[i - 1], s[i], T)
      /\ p \in [0 .. k -> Stages] /\ \A i \in 1 .. k : Step(x[i], p[i - 1], p[i], T)
      /\ p[k] = s[0]
  BY <1>1 DEF Chain
<1>4. \A i \in 0 .. k : u[i] = p[i]
  <2>1. ASSUME NEW i \in 0 .. k PROVE u[i] = p[i]
    <3>1. i \in 0 .. n + k /\ (i < k \/ (i = k /\ i - k = 0 /\ ~(i < k)))
      BY <1>1
    <3>2. u[i] = IF i < k THEN p[i] ELSE s[i - k]
      BY <3>1
    <3>3. QED BY <1>3, <3>1, <3>2
  <2>2. QED BY <2>1
<1>5. \A i \in 0 .. n : u[i + k] = s[i]
  <2>1. ASSUME NEW i \in 0 .. n PROVE u[i + k] = s[i]
    <3>1. i + k \in 0 .. n + k /\ ~(i + k < k) /\ (i + k) - k = i
      BY <1>1
    <3>2. QED BY <3>1
  <2>2. QED BY <2>1
<1>6. u \in [0 .. n + k -> Stages]
  <2>1. ASSUME NEW i \in 0 .. n + k PROVE (IF i < k THEN p[i] ELSE s[i - k]) \in Stages
    <3>1. CASE i < k
      <4>1. i \in 0 .. k
        BY <3>1
      <4>2. QED BY <1>3, <3>1, <4>1
    <3>2. CASE ~(i < k)
      <4>1. i - k \in 0 .. n
        BY <3>2
      <4>2. QED BY <1>3, <3>2, <4>1
    <3>3. QED BY <3>1, <3>2
  <2>2. QED BY <2>1
<1> HIDE DEF u
<1>7. ASSUME NEW i \in 1 .. n + k PROVE Step(c[i], u[i - 1], u[i], T)
  <2>1. CASE i <= k
    <3>1. i \in 1 .. k /\ i - 1 \in 0 .. k /\ i \in 0 .. k
      BY <2>1
    <3>2. c[i] = x[i] /\ u[i - 1] = p[i - 1] /\ u[i] = p[i]
      BY <1>2, <1>4, <2>1, <3>1
    <3>3. QED BY <1>3, <3>1, <3>2
  <2>2. CASE ~(i <= k)
    <3>1. PICK j \in 1 .. n : i = j + k
      <4>1. i - k \in 1 .. n /\ i = (i - k) + k
        BY <2>2
      <4>2. QED BY <4>1
    <3>2. j \in 0 .. n /\ j - 1 \in 0 .. n /\ i - 1 = (j - 1) + k /\ i - k = j
      BY <3>1
    <3>3. c[i] = l[j] /\ u[i - 1] = s[j - 1] /\ u[i] = s[j]
      BY <1>2, <1>5, <2>2, <3>1, <3>2
    <3>4. QED BY <1>3, <3>3
  <2>3. QED BY <2>1, <2>2
<1>8. Chain(c, u, T)
  BY <1>2, <1>6, <1>7 DEF Chain
<1>9. Grows(l, s, c, u, k)
  <2>1. ASSUME NEW i \in 1 .. n PROVE u[i + k] = s[i] /\ c[i + k] = l[i]
    <3>1. i \in 0 .. n /\ i + k \in 1 .. n + k /\ ~(i + k <= k) /\ (i + k) - k = i
      BY <1>1
    <3>2. QED BY <1>2, <1>5, <3>1
  <2>2. \A i \in 1 .. k : c[i] = x[i]
    <3>1. \A i \in 1 .. k : i \in 1 .. n + k /\ i <= k
      BY <1>1
    <3>2. QED BY <1>2, <3>1
  <2>3. ASSUME NEW i \in 1 .. k, EndsUnit(c, i) PROVE u[i] = s[0]
    <3>1. i = k
      <4>1. CASE k = 1
        BY <4>1
      <4>2. CASE k # 1
        <5>1. Pure(x, k)
          BY <1>1, <4>2
        <5>2. ASSUME i # k PROVE FALSE
          <6>1. i + 1 \in 1 .. k /\ i # n + k
            BY <5>2, <1>1
          <6>2. c[i + 1].kind = "boundary"
            BY <1>2, <2>3, <6>1 DEF EndsUnit
          <6>3. QED BY <2>2, <5>1, <6>1, <6>2 DEF Pure
        <5>3. QED BY <5>2
      <4>3. QED BY <4>1, <4>2
    <3>2. k \in 0 .. k
      BY <1>1
    <3>3. QED BY <1>3, <1>4, <3>1, <3>2
  <2>4. ASSUME Open(c) PROVE u[0] = s[0]
    <3>0. 0 \in 0 .. k
      BY <1>1
    <3>1. CASE k = 0
      BY <1>3, <1>4, <3>0, <3>1
    <3>2. CASE p[0] = s[0]
      BY <1>4, <3>0, <3>2
    <3>3. CASE k # 0 /\ Pure(x, k)
      <4>1. 1 \in 1 .. k /\ n + k # 0
        BY <1>1, <3>3
      <4>2. c[1].kind # "boundary"
        BY <2>2, <3>3, <4>1 DEF Pure
      <4>3. c # <<>>
        BY <1>2, <4>1
      <4>4. QED BY <2>4, <4>2, <4>3 DEF Open
    <3>4. QED BY <1>1, <3>1, <3>2, <3>3
  <2>5. QED BY <1>1, <1>2, <2>1, <2>3, <2>4 DEF Grows
<1>10. QED BY <1>1, <1>4, <1>8, <1>9 DEF c, Prepended

(* One new record, undone from stage A.                                      *)
LEMMA ChainPushed ==
  ASSUME NEW T, NEW l \in Seq(Records), NEW s, Chain(l, s, T), NEW r \in Records, NEW a \in Stages,
         Step(r, a, s[0], T), r.kind = "boundary" => a = s[0]
  PROVE  \E u : Chain(<<r>> \o l, u, T) /\ Grows(l, s, <<r>> \o l, u, 1) /\ u[0] = a /\ u[1] = s[0]
<1> DEFINE x == <<r>>
           p == [i \in 0 .. 1 |-> IF i = 0 THEN a ELSE s[0]]
<1>1. x \in Seq(Records) /\ Len(x) = 1 /\ x[1] = r
  OBVIOUS
<1>2. s[0] \in Stages
  <2>1. 0 \in 0 .. Len(l)
    OBVIOUS
  <2>2. QED BY <2>1 DEF Chain
<1>3. p \in [0 .. 1 -> Stages] /\ p[0] = a /\ p[1] = s[0]
  BY <1>2
<1> HIDE DEF x, p
<1>4. Chain(x, p, T)
  <2>1. ASSUME NEW i \in 1 .. 1 PROVE Step(x[i], p[i - 1], p[i], T)
    <3>1. i = 1 /\ i - 1 = 0
      OBVIOUS
    <3>2. QED BY <1>1, <1>3, <3>1
  <2>2. QED BY <1>1, <1>3, <2>1 DEF Chain
<1>5. Pure(x, Len(x)) \/ (Len(x) = 1 /\ p[0] = s[0])
  <2>1. ASSUME r.kind # "boundary", NEW i \in 1 .. 1 PROVE x[i].kind # "boundary"
    BY <1>1, <2>1
  <2>2. QED BY <1>1, <1>3, <2>1 DEF Pure
<1>6. PICK u : Chain(x \o l, u, T) /\ Prepended(l, s, x \o l, u, p, Len(x))
  BY <1>1, <1>3, <1>4, <1>5, ChainPrepended
<1>7. Grows(l, s, x \o l, u, 1) /\ \A i \in 0 .. 1 : u[i] = p[i]
  BY <1>1, <1>6 DEF Prepended
<1>8. u[0] = a /\ u[1] = s[0]
  BY <1>3, <1>7
<1>9. QED BY <1>6, <1>7, <1>8 DEF x

(* The newest record replaced by an insertion that it was a part of.         *)
LEMMA ChainJoined ==
  ASSUME NEW T, NEW l \in Seq(Records), l # <<>>, l[1].kind = "insert", NEW s, Chain(l, s, T),
         NEW r \in Records, r.kind = "insert", NEW a \in Stages, Step(r, a, s[1], T)
  PROVE  \E u : Chain(<<r>> \o Tail(l), u, T) /\ Grows(l, s, <<r>> \o Tail(l), u, 0) /\ u[0] = a
<1>1. PICK n \in Nat \ {0} : n = Len(l)
  <2>1. Len(l) \in Nat /\ Len(l) # 0
    OBVIOUS
  <2>2. QED BY <2>1
<1> DEFINE c == <<r>> \o Tail(l)
           u == [i \in 0 .. n |-> IF i = 0 THEN a ELSE s[i]]
<1>2. c \in Seq(Records) /\ Len(c) = n /\ c[1] = r /\ \A i \in 2 .. n : c[i] = l[i]
  <2>1. Tail(l) \in Seq(Records) /\ Len(Tail(l)) = n - 1 /\ \A i \in 1 .. n - 1 : Tail(l)[i] = l[i + 1]
    BY <1>1, HeadTailProperties
  <2>2. /\ c \in Seq(Records) /\ Len(c) = Len(Tail(l)) + 1
        /\ c[1] = r /\ \A i \in 1 .. Len(Tail(l)) : c[i + 1] = Tail(l)[i]
    BY <2>1, PushedIs
  <2> HIDE DEF c
  <2>3. ASSUME NEW i \in 2 .. n PROVE c[i] = l[i]
    <3>1. i - 1 \in 1 .. n - 1 /\ (i - 1) + 1 = i
      BY <1>1
    <3>2. QED BY <2>1, <2>2, <3>1
  <2>4. QED BY <1>1, <2>1, <2>2, <2>3
<1> HIDE DEF c
<1>3. s \in [0 .. n -> Stages] /\ \A i \in 1 .. n : Step(l[i], s[i - 1], s[i], T)
  BY <1>1 DEF Chain
<1>4. u \in [0 .. n -> Stages] /\ u[0] = a /\ \A i \in 1 .. n : u[i] = s[i]
  BY <1>1, <1>3
<1> HIDE DEF u
<1>5. ASSUME NEW i \in 1 .. n PROVE Step(c[i], u[i - 1], u[i], T)
  <2>1. CASE i = 1
    <3>1. i - 1 = 0
      BY <2>1
    <3>2. QED BY <1>2, <1>4, <2>1, <3>1
  <2>2. CASE i # 1
    <3>1. i \in 2 .. n /\ i - 1 \in 1 .. n
      BY <2>2
    <3>2. QED BY <1>2, <1>3, <1>4, <3>1
  <2>3. QED BY <2>1, <2>2
<1>6. Chain(c, u, T)
  BY <1>2, <1>4, <1>5 DEF Chain
<1>7. Grows(l, s, c, u, 0)
  <2>1. ASSUME NEW i \in 1 .. n
        PROVE  /\ u[i + 0] = s[i] /\ c[i + 0].kind = l[i].kind
               /\ c[i + 0] = l[i] \/ (i = 1 /\ l[i].kind = "insert")
    <3>1. i + 0 = i /\ (i = 1 \/ i \in 2 .. n)
      OBVIOUS
    <3>2. QED BY <1>2, <1>4, <3>1
  <2>2. ~Open(c)
    <3>1. c # <<>> /\ c[1].kind # "boundary"
      BY <1>1, <1>2
    <3>2. QED BY <3>1 DEF Open
  <2>3. n + 0 = n
    OBVIOUS
  <2>4. QED BY <1>1, <1>2, <2>1, <2>2, <2>3 DEF Grows
<1>8. QED BY <1>4, <1>6, <1>7 DEF c

-----------------------------------------------------------------------------
(* The markers that are adjusted, in the order of their records.             *)
Ordered(order, b, f, e) ==
  /\ order \in Seq(Inside(b, f, e))
  /\ \A m \in Inside(b, f, e) : \E i \in 1 .. Len(order) : order[i] = m
  /\ \A i, j \in 1 .. Len(order) : order[i] = order[j] => i = j
Adjustments(order, b, f) == [i \in DOMAIN order |-> Adj(order[i], f - b.marks[order[i]])]

(* The markers that a deletion adjusts are each recorded once, in some      *)
(* order.                                                                   *)
LEMMA InsideOrdered ==
  ASSUME NEW b, NEW f, NEW e
  PROVE  Ordered(SetToSeq(Inside(b, f, e)), b, f, e)
<1> DEFINE S == Inside(b, f, e)
<1>1. IsFiniteSet(S)
  <2>1. S \subseteq Markers
    BY DEF Inside
  <2>2. QED BY <2>1, MarkersAssumption, FS_Subset
<1> HIDE DEF S
<1>2. PICK n \in Nat : n = Cardinality(S) /\ ExistsBijection(1 .. n, S)
  BY <1>1, FS_CardinalityType
<1>3. PICK g : g \in [1 .. n -> S] /\ IsInjective(g)
  BY <1>2 DEF ExistsBijection, Bijection, Injection, IsInjective
<1>4. SetToSeq(S) \in [1 .. n -> S] /\ IsInjective(SetToSeq(S))
  BY <1>2, <1>3, Zenon DEF SetToSeq
<1> DEFINE o == SetToSeq(S)
<1>5. o \in Seq(S) /\ Len(o) = n
  BY <1>2, <1>4
<1>6. \A i, j \in 1 .. n : o[i] = o[j] => i = j
  BY <1>4, Zenon DEF IsInjective
<1>7. \A m \in S : \E i \in 1 .. n : o[i] = m
  <2>1. o \in Injection(1 .. n, S)
    BY <1>4, <1>6 DEF Injection, IsInjective
  <2>2. Cardinality(1 .. n) = n
    <3>1. 1 \in Int /\ n \in Int /\ (1 <= n => n - 1 + 1 = n) /\ (1 > n => n = 0)
      OBVIOUS
    <3>2. QED BY <3>1, FS_Interval
  <2> HIDE DEF o
  <2>3. Cardinality(1 .. n) = Cardinality(S) <=> o \in Surjection(1 .. n, S)
    BY <1>1, <2>1, FS_Injection
  <2>4. QED BY <1>2, <2>2, <2>3 DEF Surjection
<1>8. QED BY <1>5, <1>6, <1>7 DEF Ordered, S

-----------------------------------------------------------------------------
(* Record Q is the deletion for which record J, an adjustment, was made.     *)
NoTextIn(l, i, j) == \A k \in i .. j : ~IsText(l[k]) /\ l[k].kind # "boundary"
Caused(l, s, j, q) ==
  /\ l[q].kind = "delete" /\ NoTextIn(l, q + 1, j)
  /\ s[j - 1].marks[l[j].marker] = At(l[q]) /\ l[j].by < 0 /\ -l[j].by <= Len(l[q].str)
HasCause(l, s, j) == \E q \in 1 .. j - 1 : Caused(l, s, j, q)
Sound(l, s, T) ==
  \A j \in 1 .. Len(l) : l[j].kind = "adjust" /\ l[j].marker \in T => HasCause(l, s, j)

(* The times of the file that are recorded, in a world W: only the text of    *)
(* the file was recorded with its time, or the unit goes on.                 *)
NoBoundary(l, i, j) == \A k \in i .. j : l[k].kind # "boundary"
TextBefore(l, i) == \E q \in 1 .. i - 1 : IsText(l[q]) /\ NoBoundary(l, q, i)
TextLeft(l, i) == \E q \in i + 1 .. Len(l) : IsText(l[q]) /\ NoBoundary(l, i, q)
WellTimed(l, s, w, i) ==
  /\ l[i].time <= w.time
  /\ TextBefore(l, i)
  /\ w.ok /\ l[i].time = w.time => s[i].text = w.disk \/ TextLeft(l, i)
Timed(l, s, w) == \A i \in 1 .. Len(l) : l[i].kind = "first" => WellTimed(l, s, w, i)

Good(l, s, T, w) == Chain(l, s, T) /\ Sound(l, s, T) /\ Timed(l, s, w)

(* Undoing the list up to record I leaves point at P.                        *)
LastPoint(l, s, i, p, j) ==
  \/ (\A k \in j + 1 .. i : l[k].kind # "point") /\ l[j].pos = p
  \/ \E k \in j + 1 .. i : /\ l[k].kind = "point" /\ (\A h \in k + 1 .. i : l[h].kind # "point")
                           /\ p = Clip(l[k].at, Len(s[i].text))
PointBack(l, s, i, p) ==
  \E j \in 1 .. i : l[j].kind = "delete" /\ NoTextIn(l, j + 1, i) /\ LastPoint(l, s, i, p, j)

(* What is known of an old record stays known of it.                         *)
LEMMA CauseKept ==
  ASSUME NEW l \in Seq(Records), NEW c \in Seq(Records), NEW s, NEW u, NEW d \in Nat, Grows(l, s, c, u, d),
         NEW j \in 1 .. Len(l), l[j].kind = "adjust", HasCause(l, s, j)
  PROVE  HasCause(c, u, j + d)
<1>1. PICK n \in Nat : n = Len(l)
  OBVIOUS
<1>2. PICK q \in 1 .. j - 1 : Caused(l, s, j, q)
  BY DEF HasCause
<1>3. \A i \in 1 .. n : u[i + d] = s[i] /\ c[i + d].kind = l[i].kind /\ (c[i + d] = l[i] \/ l[i].kind = "insert")
  BY <1>1 DEF Grows
<1>4. q \in 1 .. n /\ j - 1 \in 1 .. n /\ (j - 1) + d = (j + d) - 1 /\ q + d \in 1 .. (j + d) - 1
  BY <1>1
<1>5. c[j + d] = l[j] /\ c[q + d] = l[q] /\ u[(j + d) - 1] = s[j - 1]
  <2>1. l[q].kind = "delete"
    BY <1>2 DEF Caused
  <2>2. QED BY <1>1, <1>3, <1>4, <2>1
<1>6. NoTextIn(c, (q + d) + 1, j + d)
  <2>1. ASSUME NEW k \in (q + d) + 1 .. j + d PROVE ~IsText(c[k]) /\ c[k].kind # "boundary"
    <3>1. PICK h \in q + 1 .. j : k = h + d
      <4>1. k - d \in q + 1 .. j /\ k = (k - d) + d
        BY <1>4
      <4>2. QED BY <4>1
    <3>2. h \in 1 .. n
      BY <1>1, <1>4
    <3>3. ~IsText(l[h]) /\ l[h].kind # "boundary"
      BY <1>2 DEF Caused, NoTextIn
    <3>4. QED BY <1>3, <3>1, <3>2, <3>3 DEF IsText
  <2>2. QED BY <2>1 DEF NoTextIn
<1>7. Caused(c, u, j + d, q + d)
  BY <1>2, <1>5, <1>6 DEF Caused
<1>8. QED BY <1>4, <1>7 DEF HasCause

(* A time recorded is still right when the list has grown, since what makes *)
(* it right is in its own unit.                                             *)
LEMMA TimeKept ==
  ASSUME NEW l \in Seq(Records), NEW c \in Seq(Records), NEW s, NEW u, NEW d \in Nat, Grows(l, s, c, u, d),
         NEW w, NEW i \in 1 .. Len(l), l[i].kind = "first", WellTimed(l, s, w, i)
  PROVE  WellTimed(c, u, w, i + d)
<1>1. PICK n \in Nat : n = Len(l)
  OBVIOUS
<1>2. /\ Len(c) = n + d
      /\ \A j \in 1 .. n : u[j + d] = s[j] /\ c[j + d].kind = l[j].kind /\ (c[j + d] = l[j] \/ l[j].kind = "insert")
  BY <1>1 DEF Grows
<1>3. c[i + d] = l[i] /\ u[i + d] = s[i]
  BY <1>1, <1>2
<1>4. ASSUME NEW a \in 1 .. n, NEW b \in 1 .. n, NoBoundary(l, a, b) PROVE NoBoundary(c, a + d, b + d)
  <2>1. ASSUME NEW k \in a + d .. b + d PROVE c[k].kind # "boundary"
    <3>1. PICK h \in a .. b : k = h + d
      <4>1. k - d \in a .. b /\ k = (k - d) + d
        OBVIOUS
      <4>2. QED BY <4>1
    <3>2. h \in 1 .. n
      OBVIOUS
    <3>3. QED BY <1>2, <1>4, <3>1, <3>2 DEF NoBoundary
  <2>2. QED BY <2>1 DEF NoBoundary
<1>5. TextBefore(c, i + d)
  <2>1. PICK q \in 1 .. i - 1 : IsText(l[q]) /\ NoBoundary(l, q, i)
    BY DEF WellTimed, TextBefore
  <2>2. q \in 1 .. n /\ i \in 1 .. n /\ q + d \in 1 .. (i + d) - 1
    BY <1>1
  <2>3. IsText(c[q + d]) /\ NoBoundary(c, q + d, i + d)
    BY <1>2, <1>4, <2>1, <2>2 DEF IsText
  <2>4. QED BY <2>2, <2>3 DEF TextBefore
<1>6. ASSUME TextLeft(l, i) PROVE TextLeft(c, i + d)
  <2>1. PICK q \in i + 1 .. n : IsText(l[q]) /\ NoBoundary(l, i, q)
    BY <1>1, <1>6 DEF TextLeft
  <2>2. q \in 1 .. n /\ i \in 1 .. n /\ q + d \in (i + d) + 1 .. n + d
    BY <1>1
  <2>3. IsText(c[q + d]) /\ NoBoundary(c, i + d, q + d)
    BY <1>2, <1>4, <2>1, <2>2 DEF IsText
  <2>4. QED BY <1>2, <2>2, <2>3 DEF TextLeft
<1>7. QED BY <1>3, <1>5, <1>6 DEF WellTimed

(* A recorded point is still put back when the list has grown.              *)
LEMMA PointKept ==
  ASSUME NEW l \in Seq(Records), NEW c \in Seq(Records), NEW s, NEW u, NEW d \in Nat, Grows(l, s, c, u, d),
         NEW p, NEW i \in 1 .. Len(l), PointBack(l, s, i, p)
  PROVE  PointBack(c, u, i + d, p)
<1>1. PICK n \in Nat : n = Len(l)
  OBVIOUS
<1>2. \A j \in 1 .. n : u[j + d] = s[j] /\ c[j + d].kind = l[j].kind /\ (c[j + d] = l[j] \/ l[j].kind = "insert")
  BY <1>1 DEF Grows
<1>3. PICK j \in 1 .. i : l[j].kind = "delete" /\ NoTextIn(l, j + 1, i) /\ LastPoint(l, s, i, p, j)
  BY DEF PointBack
<1>4. j \in 1 .. n /\ i \in 1 .. n /\ j + d \in 1 .. i + d
  BY <1>1
<1>5. c[j + d] = l[j]
  BY <1>2, <1>3, <1>4
<1>6. ASSUME NEW a \in 1 .. n + 1, NEW k \in a + d .. i + d PROVE \E h \in a .. i : k = h + d /\ h \in 1 .. n
  <2>1. k - d \in a .. i /\ k = (k - d) + d /\ k - d \in 1 .. n
    BY <1>4
  <2>2. QED BY <2>1
<1>7. NoTextIn(c, (j + d) + 1, i + d)
  <2>1. ASSUME NEW k \in (j + d) + 1 .. i + d PROVE ~IsText(c[k]) /\ c[k].kind # "boundary"
    <3>1. j + 1 \in 1 .. n + 1 /\ (j + d) + 1 = (j + 1) + d
      BY <1>4
    <3>2. PICK h \in j + 1 .. i : k = h + d /\ h \in 1 .. n
      BY <1>6, <3>1
    <3>3. QED BY <1>2, <1>3, <3>2 DEF NoTextIn, IsText
  <2>2. QED BY <2>1 DEF NoTextIn
<1>8. LastPoint(c, u, i + d, p, j + d)
  <2>0. u[i + d] = s[i]
    BY <1>2, <1>4
  <2>1. ASSUME NEW a \in 1 .. n, \A k \in a + 1 .. i : l[k].kind # "point",
               NEW k \in (a + d) + 1 .. i + d
        PROVE  c[k].kind # "point"
    <3>1. a + 1 \in 1 .. n + 1 /\ (a + d) + 1 = (a + 1) + d
      OBVIOUS
    <3>2. PICK h \in a + 1 .. i : k = h + d /\ h \in 1 .. n
      BY <1>6, <3>1
    <3>3. QED BY <1>2, <2>1, <3>2
  <2>2. CASE (\A k \in j + 1 .. i : l[k].kind # "point") /\ l[j].pos = p
    BY <1>4, <1>5, <2>1, <2>2 DEF LastPoint
  <2>3. CASE \E k \in j + 1 .. i : /\ l[k].kind = "point" /\ (\A h \in k + 1 .. i : l[h].kind # "point")
                                   /\ p = Clip(l[k].at, Len(s[i].text))
    <3>1. PICK k \in j + 1 .. i : /\ l[k].kind = "point" /\ (\A h \in k + 1 .. i : l[h].kind # "point")
                                  /\ p = Clip(l[k].at, Len(s[i].text))
      BY <2>3
    <3>2. k \in 1 .. n /\ k + d \in (j + d) + 1 .. i + d
      BY <1>4
    <3>3. c[k + d] = l[k]
      BY <1>2, <3>1, <3>2
    <3>4. \A h \in (k + d) + 1 .. i + d : c[h].kind # "point"
      BY <2>1, <3>1, <3>2
    <3>5. QED BY <2>0, <3>1, <3>2, <3>3, <3>4 DEF LastPoint
  <2>4. QED BY <1>3, <2>2, <2>3 DEF LastPoint
<1>9. QED BY <1>3, <1>4, <1>5, <1>7, <1>8 DEF PointBack

(* A list that has grown is good if the records that are new are.           *)
LEMMA GoodKept ==
  ASSUME NEW l \in Seq(Records), NEW c \in Seq(Records), NEW s, NEW u, NEW d \in Nat, Grows(l, s, c, u, d),
         NEW T, NEW w, Good(l, s, T, w), Chain(c, u, T),
         \A j \in 1 .. d : c[j].kind = "adjust" /\ c[j].marker \in T => HasCause(c, u, j),
         \A j \in 1 .. d : c[j].kind = "first" => WellTimed(c, u, w, j)
  PROVE  Good(c, u, T, w)
<1>1. PICK n \in Nat : n = Len(l)
  OBVIOUS
<1>2. /\ Len(c) = n + d
      /\ \A j \in 1 .. n : c[j + d].kind = l[j].kind /\ (c[j + d] = l[j] \/ l[j].kind = "insert")
  BY <1>1 DEF Grows
<1>3. ASSUME NEW k \in 1 .. n + d PROVE k \in 1 .. d \/ \E j \in 1 .. n : k = j + d
  <2>1. k \in 1 .. d \/ (k - d \in 1 .. n /\ k = (k - d) + d)
    OBVIOUS
  <2>2. QED BY <2>1
<1>4. Sound(c, u, T)
  <2>1. ASSUME NEW k \in 1 .. n + d, c[k].kind = "adjust", c[k].marker \in T PROVE HasCause(c, u, k)
    <3>1. CASE k \in 1 .. d
      BY <2>1, <3>1
    <3>2. CASE k \notin 1 .. d
      <4>1. PICK j \in 1 .. n : k = j + d
        BY <1>3, <3>2
      <4>2. l[j].kind = "adjust" /\ l[j] = c[k]
        BY <1>2, <2>1, <4>1
      <4>3. HasCause(l, s, j)
        BY <1>1, <2>1, <4>2 DEF Good, Sound
      <4>4. QED BY <1>1, <4>1, <4>2, <4>3, CauseKept
    <3>3. QED BY <3>1, <3>2
  <2>2. QED BY <1>2, <2>1 DEF Sound
<1>5. Timed(c, u, w)
  <2>1. ASSUME NEW k \in 1 .. n + d, c[k].kind = "first" PROVE WellTimed(c, u, w, k)
    <3>1. CASE k \in 1 .. d
      BY <2>1, <3>1
    <3>2. CASE k \notin 1 .. d
      <4>1. PICK j \in 1 .. n : k = j + d
        BY <1>3, <3>2
      <4>2. l[j].kind = "first"
        BY <1>2, <2>1, <4>1
      <4>3. WellTimed(l, s, w, j)
        BY <1>1, <4>2 DEF Good, Timed
      <4>4. QED BY <1>1, <4>1, <4>2, <4>3, TimeKept
    <3>3. QED BY <3>1, <3>2
  <2>2. QED BY <1>2, <2>1 DEF Timed
<1>6. QED BY <1>4, <1>5 DEF Good

-----------------------------------------------------------------------------
(* A list that stays has grown by nothing.                                  *)
LEMMA NotGrown ==
  ASSUME NEW l \in Seq(Records), NEW s
  PROVE  Grows(l, s, l, s, 0)
<1>1. PICK n \in Nat : n = Len(l)
  OBVIOUS
<1>2. \A i \in 1 .. n : i + 0 = i
  OBVIOUS
<1>3. n + 0 = n
  OBVIOUS
<1>4. QED BY <1>1, <1>2, <1>3 DEF Grows

(* A boundary may be recorded first, when the last edit was in another buffer. *)
Separated(l, ol, d) == (ol = l /\ d = 0) \/ (ol = <<Boundary>> \o l /\ d = 1)

(* A boundary before a list changes nothing that undoing it does.           *)
LEMMA SeparatedGrows ==
  ASSUME NEW T, NEW l \in Seq(Records), NEW s, Chain(l, s, T), NEW ol, NEW d, Separated(l, ol, d)
  PROVE  /\ ol \in Seq(Records) /\ d \in Nat
         /\ \E v : Chain(ol, v, T) /\ Grows(l, s, ol, v, d) /\ v[0] = s[0]
         /\ d = 1 => ol[1].kind = "boundary" /\ Len(ol) = Len(l) + 1
<1>1. CASE ol = l /\ d = 0
  BY <1>1, NotGrown
<1>2. CASE ol = <<Boundary>> \o l /\ d = 1
  <2>1. Boundary \in Records /\ Boundary.kind = "boundary"
    BY RecordsAre DEF Boundary
  <2>2. ol \in Seq(Records) /\ ol[1] = Boundary /\ Len(ol) = Len(l) + 1
    BY <1>2, <2>1, PushedIs
  <2>3. s[0] \in Stages
    <3>1. 0 \in 0 .. Len(l)
      OBVIOUS
    <3>2. QED BY <3>1 DEF Chain
  <2>4. Step(Boundary, s[0], s[0], T)
    BY DEF Step, TextStep, MarkStep, IsText, Boundary
  <2>5. \E v : Chain(<<Boundary>> \o l, v, T) /\ Grows(l, s, <<Boundary>> \o l, v, 1) /\ v[0] = s[0]
    BY <2>1, <2>3, <2>4, ChainPushed
  <2>6. QED BY <1>2, <2>1, <2>2, <2>5
<1>3. QED BY <1>1, <1>2 DEF Separated

(* Record R of an edit is preceded by the records M of the same edit.        *)
Neutral == {"point", "first", "adjust"}
Caused1(r, m, p, T) ==
  \A i \in 1 .. Len(m) : m[i].kind = "adjust" /\ m[i].marker \in T =>
    /\ r.kind = "delete" /\ p[i - 1].marks[m[i].marker] = At(r)
    /\ m[i].by < 0 /\ -m[i].by <= Len(r.str)
Timed1(m, w, l, s, e) ==
  \A i \in 1 .. Len(m) : m[i].kind = "first" =>
    /\ m[i].time <= w.time
    /\ w.ok => s[0].text = w.disk \/ (e = 0 /\ l # <<>> /\ IsText(l[1]))

Middle(m, p, s, T) ==
  /\ m \in Seq(Records) /\ Chain(m, p, T) /\ p[Len(m)] = s[0]
  /\ \A i \in 1 .. Len(m) : m[i].kind \in Neutral
  /\ \A i \in 0 .. Len(m) : p[i].text = s[0].text

Written(l, s, c, u, d, r, m) ==
  /\ Grows(l, s, c, u, d)
  /\ c[1] = r /\ Len(m) + 1 <= d
  /\ \A i \in 1 .. Len(m) : c[i + 1] = m[i]
  /\ \A i \in Len(m) + 2 .. d : c[i].kind = "boundary"

TextWritten(l, s, c, a, r, m, e, T, w) ==
  \E d \in Nat : \E u : /\ Good(c, u, T, w) /\ u[0] = a
                        /\ Written(l, s, c, u, d, r, m) /\ (e = 0 => d = Len(m) + 1)

(* A record of text R, with records M before it that go with it, after a    *)
(* boundary if one was due, on a good list makes a good list.               *)
LEMMA TextRecorded ==
  ASSUME NEW T, NEW w, NEW l \in Seq(Records), NEW s, Good(l, s, T, w),
         NEW ol, NEW e, Separated(l, ol, e),
         NEW m, NEW p, Middle(m, p, s, T),
         NEW r \in Records, IsText(r), NEW a \in Stages, Step(r, a, p[0], T),
         Caused1(r, m, p, T),
         Timed1(m, w, l, s, e)
  PROVE  TextWritten(l, s, <<r>> \o (m \o ol), a, r, m, e, T, w)
<1> DEFINE mo == m \o ol
           c == <<r>> \o mo
<1> HIDE DEF mo, c
<1>0. Chain(l, s, T)
  BY DEF Good
<1>30. /\ m \in Seq(Records) /\ Chain(m, p, T) /\ p[Len(m)] = s[0]
       /\ Pure(m, Len(m))
  BY DEF Middle, Pure, Neutral
<1>1. PICK v : Chain(ol, v, T) /\ Grows(l, s, ol, v, e) /\ v[0] = s[0]
  BY <1>0, SeparatedGrows
<1>2. ol \in Seq(Records) /\ e \in {0, 1} /\ (e = 1 => ol[1].kind = "boundary" /\ Len(ol) = Len(l) + 1)
  <2>1. ol \in Seq(Records) /\ (e = 1 => ol[1].kind = "boundary" /\ Len(ol) = Len(l) + 1)
    BY <1>0, SeparatedGrows
  <2>2. e = 0 \/ e = 1
    BY DEF Separated
  <2>3. QED BY <2>1, <2>2
<1>3. PICK k \in Nat, n \in Nat :
        /\ k = Len(m) /\ n = Len(l)
        /\ \A i \in 1 .. k : m[i].kind \in Neutral
        /\ \A i \in 0 .. k : p[i].text = s[0].text
  BY <1>30 DEF Middle
<1>4. PICK v1 : Chain(mo, v1, T) /\ Grows(ol, v, mo, v1, k) /\ \A i \in 0 .. k : v1[i] = p[i]
  <2>2. p[Len(m)] = v[0]
    BY <1>1, <1>30
  <2>3. \E v1 : Chain(mo, v1, T) /\ Prepended(ol, v, mo, v1, p, Len(m))
    <3>1. Pure(m, Len(m)) \/ (Len(m) = 1 /\ p[0] = v[0])
      BY <1>30
    <3>2. m \in Seq(Records) /\ Chain(m, p, T) /\ ol \in Seq(Records) /\ Chain(ol, v, T)
      BY <1>1, <1>2, <1>30
    <3>3. QED BY <2>2, <3>1, <3>2, ChainPrepended DEF mo
  <2>4. QED BY <1>3, <2>3 DEF Prepended
<1>5. mo \in Seq(Records)
  BY <1>2, <1>30, ConcatProperties DEF mo
<1>8. Len(mo) = k + Len(ol) /\ \A i \in 1 .. k + Len(ol) : mo[i] = IF i <= k THEN m[i] ELSE ol[i - k]
  BY <1>2, <1>3, <1>30, ConcatProperties DEF mo
<1>6. v1[0] = p[0]
  <2>1. 0 \in 0 .. k
    OBVIOUS
  <2>2. QED BY <1>4, <2>1
<1>7. PICK u : Chain(c, u, T) /\ Grows(mo, v1, c, u, 1) /\ u[0] = a /\ u[1] = v1[0]
  <2>1. r.kind # "boundary"
    BY DEF IsText
  <2>2. Step(r, a, v1[0], T)
    BY <1>6
  <2>3. QED BY <1>4, <1>5, <2>1, <2>2, ChainPushed DEF c
<1>9. /\ c \in Seq(Records) /\ Len(c) = (k + Len(ol)) + 1
      /\ c[1] = r /\ \A i \in 1 .. k + Len(ol) : c[i + 1] = mo[i]
  <2>1. c \in Seq(Records) /\ Len(c) = Len(mo) + 1 /\ c[1] = r /\ \A i \in 1 .. Len(mo) : c[i + 1] = mo[i]
    BY <1>5, PushedIs DEF c
  <2>2. QED BY <1>8, <2>1
<1> HIDE DEF c, mo
<1>10. \A i \in 1 .. k : c[i + 1] = m[i]
  <2>1. PICK h \in Nat : h = Len(ol)
    BY <1>2
  <2>2. \A i \in 1 .. k : i \in 1 .. k + h /\ i <= k
    BY <2>1
  <2>3. QED BY <1>8, <1>9, <2>1, <2>2
<1>11. \A i \in 0 .. k : u[i + 1] = p[i]
  <2>1. ASSUME NEW i \in 1 .. k PROVE u[i + 1] = v1[i]
    <3>1. PICK h \in Nat : h = Len(ol)
      BY <1>2
    <3>2. i \in 1 .. k + h
      BY <3>1
    <3>3. QED BY <1>7, <1>8, <3>1, <3>2 DEF Grows
  <2>2. \A i \in 0 .. k : i = 0 \/ i \in 1 .. k
    OBVIOUS
  <2>3. 0 + 1 = 1
    OBVIOUS
  <2>4. QED BY <1>4, <1>7, <2>1, <2>2, <2>3
<1>12. Pure(c, 1) /\ \A i \in 1 .. k : mo[i].kind # "boundary"
  <2>1. \A i \in 1 .. 1 : i = 1
    OBVIOUS
  <2>2. PICK h \in Nat : h = Len(ol)
    BY <1>2
  <2>3. \A i \in 1 .. k : i \in 1 .. k + h /\ i <= k
    BY <2>2
  <2>4. \A i \in 1 .. k : m[i].kind # "boundary"
    BY <1>3 DEF Neutral
  <2>5. QED BY <1>8, <1>9, <2>1, <2>2, <2>3, <2>4 DEF Pure, IsText
<1>13. Grows(l, s, c, u, e + (k + 1))
  <2>1. Grows(ol, v, c, u, k + 1)
    BY <1>2, <1>3, <1>4, <1>5, <1>7, <1>9, <1>12, GrowsTwice
  <2>2. Pure(c, k + 1)
    <3>1. ASSUME NEW i \in 1 .. k + 1 PROVE c[i].kind # "boundary"
      <4>1. CASE i = 1
        BY <1>9, <4>1 DEF IsText
      <4>2. CASE i # 1
        <5>1. i - 1 \in 1 .. k /\ (i - 1) + 1 = i
          BY <4>2
        <5>2. c[i] = m[i - 1]
          BY <1>10, <5>1
        <5>3. QED BY <1>3, <5>1, <5>2 DEF Neutral
      <4>3. QED BY <4>1, <4>2
    <3>2. QED BY <3>1 DEF Pure
  <2>3. k + 1 \in Nat /\ e \in Nat
    BY <1>2
  <2>4. QED BY <1>1, <1>2, <1>9, <2>1, <2>2, <2>3, GrowsTwice
<1> DEFINE d == e + (k + 1)
<1>14. d \in Nat /\ k + 1 <= d /\ (e = 0 => d = k + 1)
  BY <1>2
<1>15. \A i \in k + 2 .. d : c[i].kind = "boundary"
  <2>1. ASSUME NEW i \in k + 2 .. d PROVE c[i].kind = "boundary"
    <3>1. e = 1 /\ i = k + 2 /\ (k + 1) + 1 = i
      BY <1>2
    <3>2. k + 1 \in 1 .. k + Len(ol) /\ ~(k + 1 <= k) /\ (k + 1) - k = 1
      BY <1>2, <1>3, <3>1
    <3>3. c[(k + 1) + 1] = ol[1]
      BY <1>8, <1>9, <3>2
    <3>4. QED BY <1>2, <3>1, <3>3
  <2>2. QED BY <2>1
<1>16. ASSUME NEW i \in 1 .. d
       PROVE  i = 1 \/ c[i].kind = "boundary" \/ \E j \in 1 .. k : i = j + 1 /\ c[i] = m[j] /\ u[i] = p[j] /\ u[i - 1] = p[j - 1]
  <2>1. CASE i \in 2 .. k + 1
    <3>1. i - 1 \in 1 .. k /\ i - 1 \in 0 .. k /\ (i - 1) - 1 \in 0 .. k /\ (i - 1) + 1 = i /\ ((i - 1) - 1) + 1 = i - 1
      BY <2>1
    <3>2. c[i] = m[i - 1] /\ u[i] = p[i - 1] /\ u[i - 1] = p[(i - 1) - 1]
      BY <1>10, <1>11, <3>1
    <3>3. QED BY <3>1, <3>2
  <2>2. i = 1 \/ i \in 2 .. k + 1 \/ i \in k + 2 .. d
    BY <1>2
  <2>3. QED BY <1>15, <2>1, <2>2
<1>17. \A i \in 1 .. k : ~IsText(c[i + 1]) /\ c[i + 1].kind # "boundary"
  BY <1>3, <1>10 DEF Neutral, IsText
<1>18. ASSUME NEW i \in 1 .. d, c[i].kind = "adjust", c[i].marker \in T PROVE HasCause(c, u, i)
  <2>1. i # 1
    BY <1>9, <1>18 DEF IsText
  <2>2. PICK j \in 1 .. k : i = j + 1 /\ c[i] = m[j] /\ u[i - 1] = p[j - 1]
    BY <1>16, <1>18, <2>1
  <2>3. /\ r.kind = "delete" /\ p[j - 1].marks[m[j].marker] = At(r)
        /\ m[j].by < 0 /\ -m[j].by <= Len(r.str)
    BY <1>3, <1>18, <2>2 DEF Caused1
  <2>4. NoTextIn(c, 1 + 1, i)
    <3>1. ASSUME NEW h \in 1 + 1 .. i PROVE ~IsText(c[h]) /\ c[h].kind # "boundary"
      <4>1. h - 1 \in 1 .. k /\ (h - 1) + 1 = h
        BY <2>2
      <4>2. QED BY <1>17, <4>1
    <3>2. QED BY <3>1 DEF NoTextIn
  <2>5. Caused(c, u, i, 1)
    BY <1>9, <2>2, <2>3, <2>4 DEF Caused
  <2>6. 1 \in 1 .. i - 1
    BY <2>2
  <2>7. QED BY <2>5, <2>6 DEF HasCause
<1>19. ASSUME NEW i \in 1 .. d, c[i].kind = "first" PROVE WellTimed(c, u, w, i)
  <2>1. i # 1
    BY <1>9, <1>19 DEF IsText
  <2>2. PICK j \in 1 .. k : i = j + 1 /\ c[i] = m[j] /\ u[i] = p[j]
    BY <1>16, <1>19, <2>1
  <2>3. m[j].time <= w.time /\ (w.ok => s[0].text = w.disk \/ (e = 0 /\ l # <<>> /\ IsText(l[1])))
    BY <1>3, <1>19, <2>2 DEF Timed1
  <2>4. j \in 0 .. k
    OBVIOUS
  <2>5. u[i].text = s[0].text
    BY <1>3, <2>2, <2>4
  <2>6. TextBefore(c, i)
    <3>1. NoBoundary(c, 1, i)
      <4>1. ASSUME NEW h \in 1 .. i PROVE c[h].kind # "boundary"
        <5>1. CASE h = 1
          BY <1>9, <5>1 DEF IsText
        <5>2. CASE h # 1
          <6>1. h - 1 \in 1 .. k /\ (h - 1) + 1 = h
            BY <2>2, <5>2
          <6>2. QED BY <1>17, <6>1
        <5>3. QED BY <5>1, <5>2
      <4>2. QED BY <4>1 DEF NoBoundary
    <3>2. 1 \in 1 .. i - 1
      BY <2>2
    <3>3. QED BY <1>9, <3>1, <3>2 DEF TextBefore
  <2>7. ASSUME e = 0, l # <<>>, IsText(l[1]) PROVE TextLeft(c, i)
    <3>1. ol = l /\ n # 0
      BY <1>3, <2>7 DEF Separated
    <3>2. k + 1 \in 1 .. k + n /\ ~(k + 1 <= k) /\ (k + 1) - k = 1 /\ (k + 1) + 1 = k + 2
      BY <3>1
    <3>3. c[k + 2] = l[1]
      BY <1>3, <1>8, <1>9, <3>1, <3>2
    <3>4. NoBoundary(c, i, k + 2)
      <4>1. ASSUME NEW h \in i .. k + 2 PROVE c[h].kind # "boundary"
        <5>1. CASE h = k + 2
          BY <2>7, <3>3, <5>1 DEF IsText
        <5>2. CASE h # k + 2
          <6>1. h - 1 \in 1 .. k /\ (h - 1) + 1 = h
            BY <2>2, <5>2
          <6>2. QED BY <1>17, <6>1
        <5>3. QED BY <5>1, <5>2
      <4>2. QED BY <4>1 DEF NoBoundary
    <3>5. k + 2 \in i + 1 .. (k + n) + 1 /\ Len(c) = (k + n) + 1
      BY <1>3, <1>9, <2>2, <3>1
    <3>6. QED BY <2>7, <3>3, <3>4, <3>5 DEF TextLeft
  <2>8. QED BY <1>19, <2>2, <2>3, <2>5, <2>6, <2>7 DEF WellTimed
<1>20. Good(c, u, T, w)
  BY <1>7, <1>9, <1>13, <1>14, <1>18, <1>19, GoodKept
<1>21. Written(l, s, c, u, d, r, m)
  BY <1>3, <1>9, <1>10, <1>13, <1>14, <1>15 DEF Written
<1>22. TextWritten(l, s, c, a, r, m, e, T, w)
  BY <1>3, <1>7, <1>14, <1>20, <1>21 DEF TextWritten
<1>23. QED BY <1>22 DEF c, mo

-----------------------------------------------------------------------------
(* What record_insert records.                                               *)
Joined(b, c, at, n) ==
  /\ b.list # <<>> /\ b.list[1].kind = "insert" /\ b.list[1].end = at
  /\ c.list = <<Ins(b.list[1].beg, at + n)>> \o Tail(b.list)
FirstOnly(b, m) == m = <<>> \/ (m = <<First(b.time)>> /\ ~b.modified)
NewInsert(b, c, at, n) ==
  \E ol, e, m : /\ Separated(b.list, ol, e) /\ (b.own => e = 0) /\ FirstOnly(b, m)
                /\ c.list = <<Ins(at, at + n)>> \o (m \o ol)

(* record_insert either joins the last insertion or makes a record of its   *)
(* own.                                                                     *)
LEMMA RecordInsertIs ==
  ASSUME NEW b \in Buffers, b.on, NEW at \in Nat \ {0}, NEW n \in Nat \ {0}
  PROVE  /\ Recorded(b, RecordInsert(b, at, n)) /\ RecordInsert(b, at, n).own
         /\ Joined(b, RecordInsert(b, at, n), at, n) \/ NewInsert(b, RecordInsert(b, at, n), at, n)
<1> DEFINE o == Owned(b)
           f == WithFirst(o)
           r == RecordInsert(b, at, n)
<1>1. /\ Recorded(b, o) /\ o.own
      /\ \/ o.list = b.list
         \/ ~b.own /\ b.list # <<>> /\ b.list[1].kind # "boundary" /\ o.list = <<Boundary>> \o b.list
  BY OwnedIs
<1>2. o \in Buffers
  BY <1>1 DEF Recorded
<1>3. /\ Recorded(o, f) /\ f.own = o.own
      /\ \/ o.modified /\ f.list = o.list
         \/ ~o.modified /\ f.list = <<First(o.time)>> \o o.list
  BY <1>2, WithFirstIs
<1>4. r = IF Joins(f.list, at) THEN [f EXCEPT !.list = <<Ins(Head(@).beg, at + n)>> \o Tail(@)]
          ELSE Consed(f, Ins(at, at + n))
  BY DEF RecordInsert
<1> HIDE DEF o, f, r
<1>5. f \in Buffers /\ Recorded(b, f) /\ f.own /\ o.modified = b.modified /\ o.time = b.time
  BY <1>1, <1>3 DEF Recorded
<1>6. PICK e \in {0, 1} : Separated(b.list, o.list, e) /\ (b.own => e = 0)
  BY <1>1 DEF Separated
<1>7. PICK m : FirstOnly(b, m) /\ f.list = m \o o.list
  <2>1. o.list \in Seq(Records)
    BY <1>2 DEF Buffers
  <2>2. <<>> \o o.list = o.list
    BY <2>1, ConcatEmptySeq
  <2>3. QED BY <1>3, <1>5, <2>2 DEF FirstOnly
<1>8. at + n \in Nat \ {0}
  OBVIOUS
<1>9. CASE ~Joins(f.list, at)
  <2>1. Ins(at, at + n) \in Records
    BY <1>8, RecordsAre
  <2>2. Recorded(f, r) /\ r.own = f.own /\ r.list = <<Ins(at, at + n)>> \o f.list
    BY <1>4, <1>5, <1>9, <2>1, ConsedIs
  <2>3. Recorded(b, r)
    BY <1>5, <2>2 DEF Recorded
  <2>4. r.list = <<Ins(at, at + n)>> \o (m \o o.list)
    BY <1>7, <2>2
  <2>5. NewInsert(b, r, at, n)
    BY <1>6, <1>7, <2>4 DEF NewInsert
  <2>6. QED BY <1>5, <2>2, <2>3, <2>5 DEF r
<1>10. CASE Joins(f.list, at)
  <2>1. f.list # <<>> /\ f.list[1].kind = "insert" /\ f.list[1].end = at
    BY <1>10 DEF Joins
  <2>2. f.list = o.list
    <3>1. CASE f.list = <<First(o.time)>> \o o.list
      <4>1. First(o.time) \in Records /\ o.list \in Seq(Records)
        <5>1. o.time \in Nat /\ o.list \in Seq(Records)
          BY <1>2 DEF Buffers
        <5>2. QED BY <5>1, RecordsAre
      <4>2. f.list[1] = First(o.time)
        BY <3>1, <4>1, PushedIs
      <4>3. QED BY <2>1, <4>2 DEF First
    <3>2. QED BY <1>3, <3>1
  <2>3. o.list = b.list
    <3>1. CASE o.list = <<Boundary>> \o b.list
      <4>1. Boundary \in Records /\ b.list \in Seq(Records)
        BY RecordsAre DEF Buffers
      <4>2. o.list[1] = Boundary
        BY <3>1, <4>1, PushedIs
      <4>3. QED BY <2>1, <2>2, <4>2 DEF Boundary
    <3>2. QED BY <1>1, <3>1
  <2>4. f.list = b.list
    BY <2>2, <2>3
  <2>5. r.list = <<Ins(b.list[1].beg, at + n)>> \o Tail(b.list)
    BY <1>4, <1>5, <1>10, <2>4 DEF Buffers
  <2>6. r.list \in Seq(Records)
    <3>1. b.list \in Seq(Records) /\ b.list # <<>> /\ b.list[1].kind = "insert"
      BY <2>1, <2>4 DEF Buffers
    <3>2. b.list[1] \in Records
      BY <3>1
    <3>3. b.list[1].beg \in Nat \ {0}
      BY <3>1, <3>2 DEF Records
    <3>4. Ins(b.list[1].beg, at + n) \in Records /\ Tail(b.list) \in Seq(Records)
      BY <1>8, <3>1, <3>3, RecordsAre
    <3>5. QED BY <2>5, <3>4, PushedIs
  <2>7. Recorded(b, r) /\ r.own
    BY <1>4, <1>5, <1>10, <2>6 DEF Recorded, Buffers
  <2>8. Joined(b, r, at, n)
    BY <2>1, <2>4, <2>5 DEF Joined
  <2>9. QED BY <2>7, <2>8 DEF r
<1>11. QED BY <1>9, <1>10

(* Places and times recorded between other records change nothing.           *)
MiddleWith(m, p, y, j, q, s, T) ==
  /\ Middle(m, p, s, T) /\ p[0] = q[0] /\ Len(m) = Len(y) + Len(j)
  /\ \A i \in 1 .. Len(y) : m[i] = y[i]
  /\ \A i \in 1 .. Len(j) : m[i + Len(y)] = j[i] /\ p[i + Len(y) - 1] = q[i - 1]

(* Points and times may come between a deletion and the adjustments of its  *)
(* markers.                                                                 *)
LEMMA MiddleExtended ==
  ASSUME NEW T, NEW s, NEW j, NEW q, Middle(j, q, s, T), NEW y \in Seq(Records),
         \A i \in 1 .. Len(y) : y[i].kind \in {"point", "first"}
  PROVE  \E p : MiddleWith(y \o j, p, y, j, q, s, T)
<1>1. PICK k \in Nat, n \in Nat : k = Len(y) /\ n = Len(j)
  BY DEF Middle
<1> DEFINE m == y \o j
           p == [i \in 0 .. k + n |-> IF i < k THEN q[0] ELSE q[i - k]]
<1>2. /\ j \in Seq(Records) /\ q \in [0 .. n -> Stages] /\ q[n] = s[0]
      /\ \A i \in 1 .. n : Step(j[i], q[i - 1], q[i], T) /\ j[i].kind \in Neutral
      /\ \A i \in 0 .. n : q[i].text = s[0].text
  BY <1>1 DEF Middle, Chain
<1>3. /\ m \in Seq(Records) /\ Len(m) = k + n
      /\ \A i \in 1 .. k + n : m[i] = IF i <= k THEN y[i] ELSE j[i - k]
  <2>1. /\ m \in Seq(Records) /\ Len(m) = Len(y) + Len(j)
        /\ \A i \in 1 .. Len(y) + Len(j) : m[i] = IF i <= Len(y) THEN y[i] ELSE j[i - Len(y)]
    BY <1>2, ConcatProperties
  <2> HIDE DEF m
  <2>2. QED BY <1>1, <2>1
<1> HIDE DEF m
<1>4. q[0] \in Stages
  <2>1. 0 \in 0 .. n
    OBVIOUS
  <2>2. QED BY <1>2, <2>1
<1>5. /\ p \in [0 .. k + n -> Stages]
      /\ \A i \in 0 .. k + n : p[i] = IF i < k THEN q[0] ELSE q[i - k]
  <2>1. ASSUME NEW i \in 0 .. k + n PROVE (IF i < k THEN q[0] ELSE q[i - k]) \in Stages
    <3>1. CASE i < k
      BY <1>4, <3>1
    <3>2. CASE ~(i < k)
      <4>1. i - k \in 0 .. n
        BY <3>2
      <4>2. QED BY <1>2, <3>2, <4>1
    <3>3. QED BY <3>1, <3>2
  <2>2. QED BY <2>1
<1> HIDE DEF p
<1>6. \A i \in 0 .. k : p[i] = q[0]
  <2>1. ASSUME NEW i \in 0 .. k PROVE p[i] = q[0]
    <3>1. i \in 0 .. k + n /\ (i < k \/ (~(i < k) /\ i - k = 0))
      OBVIOUS
    <3>2. QED BY <1>5, <3>1
  <2>2. QED BY <2>1
<1>7. \A i \in 0 .. n : p[i + k] = q[i]
  <2>1. ASSUME NEW i \in 0 .. n PROVE p[i + k] = q[i]
    <3>1. i + k \in 0 .. k + n /\ ~(i + k < k) /\ (i + k) - k = i
      OBVIOUS
    <3>2. QED BY <1>5, <3>1
  <2>2. QED BY <2>1
<1>8. ASSUME NEW i \in 1 .. k + n
      PROVE  \/ i \in 1 .. k /\ m[i] = y[i] /\ p[i - 1] = q[0] /\ p[i] = q[0]
             \/ \E h \in 1 .. n : i = h + k /\ m[i] = j[h] /\ p[i - 1] = q[h - 1] /\ p[i] = q[h]
  <2>1. CASE i <= k
    <3>1. i \in 1 .. k /\ i - 1 \in 0 .. k /\ i \in 0 .. k
      BY <2>1
    <3>2. QED BY <1>3, <1>6, <2>1, <3>1
  <2>2. CASE ~(i <= k)
    <3>1. PICK h \in 1 .. n : i = h + k
      <4>1. i - k \in 1 .. n /\ i = (i - k) + k
        BY <2>2
      <4>2. QED BY <4>1
    <3>2. h \in 0 .. n /\ h - 1 \in 0 .. n /\ i - 1 = (h - 1) + k /\ i - k = h
      BY <3>1
    <3>3. QED BY <1>3, <1>7, <2>2, <3>1, <3>2
  <2>3. QED BY <2>1, <2>2
<1>9. ASSUME NEW i \in 1 .. k + n PROVE Step(m[i], p[i - 1], p[i], T) /\ m[i].kind \in Neutral
  <2>1. CASE i \in 1 .. k /\ m[i] = y[i] /\ p[i - 1] = q[0] /\ p[i] = q[0]
    <3>1. y[i].kind \in {"point", "first"}
      BY <1>1, <2>1
    <3>2. Step(y[i], q[0], q[0], T)
      BY <3>1 DEF Step, TextStep, MarkStep, IsText
    <3>3. QED BY <2>1, <3>1, <3>2 DEF Neutral
  <2>2. CASE \E h \in 1 .. n : i = h + k /\ m[i] = j[h] /\ p[i - 1] = q[h - 1] /\ p[i] = q[h]
    BY <1>2, <2>2
  <2>3. QED BY <1>8, <2>1, <2>2
<1>10. ASSUME NEW i \in 0 .. k + n PROVE p[i].text = s[0].text
  <2>1. 0 \in 0 .. n
    OBVIOUS
  <2>2. CASE i < k
    BY <1>2, <1>5, <2>1, <2>2
  <2>3. CASE ~(i < k)
    <3>1. i - k \in 0 .. n
      BY <2>3
    <3>2. QED BY <1>2, <1>5, <2>3, <3>1
  <2>4. QED BY <2>2, <2>3
<1>11. p[k + n] = s[0] /\ p[0] = q[0]
  <2>1. n \in 0 .. n /\ n + k = k + n /\ 0 \in 0 .. k
    OBVIOUS
  <2>2. QED BY <1>2, <1>6, <1>7, <2>1
<1>12. Middle(m, p, s, T)
  BY <1>3, <1>5, <1>9, <1>10, <1>11 DEF Middle, Chain
<1>13. ASSUME NEW i \in 1 .. n PROVE m[i + k] = j[i] /\ p[i + k - 1] = q[i - 1]
  <2>1. i + k \in 1 .. k + n /\ i + k \notin 1 .. k /\ \A h \in 1 .. n : i + k = h + k => h = i
    OBVIOUS
  <2>2. QED BY <1>8, <2>1
<1>14. \A i \in 1 .. k : m[i] = y[i]
  <2>1. \A i \in 1 .. k : i \in 1 .. k + n /\ i <= k
    OBVIOUS
  <2>2. QED BY <1>3, <2>1
<1>15. MiddleWith(m, p, y, j, q, s, T)
  BY <1>1, <1>3, <1>11, <1>12, <1>13, <1>14 DEF MiddleWith
<1>16. QED BY <1>15 DEF m

(* There may be nothing between a record of text and the list.              *)
LEMMA NothingBetween ==
  ASSUME NEW T, NEW s, s[0] \in Stages
  PROVE  Middle(<<>>, [i \in 0 .. 0 |-> s[0]], s, T)
<1> DEFINE m == <<>>
           p == [i \in 0 .. 0 |-> s[0]]
<1>1. m \in Seq(Records) /\ Len(m) = 0 /\ 1 .. 0 = {}
  OBVIOUS
<1>2. p \in [0 .. 0 -> Stages] /\ \A i \in 0 .. 0 : p[i] = s[0]
  OBVIOUS
<1>3. 0 \in 0 .. 0
  OBVIOUS
<1> HIDE DEF m, p
<1>4. Middle(m, p, s, T)
  BY <1>1, <1>2, <1>3 DEF Middle, Chain
<1>5. QED BY <1>4 DEF m, p

(* What an edit leaves behind: the list R.list with stages U, which has grown  *)
(* by D records.                                                             *)
NewPoints(b, s, c, u, d) ==
  \A i \in 1 .. d : EndsUnit(c, i) /\ BeginsByDeleting(c, i) /\ b.here /\ b.list # <<>> =>
    PointBack(c, u, i, Clip(b.last, Len(s[0].text)))
Wrote(b, s, r, u, d, T, w) ==
  /\ Good(r.list, u, T, w) /\ Grows(b.list, s, r.list, u, d)
  /\ r.own /\ r.list # <<>> /\ IsText(r.list[1]) /\ (b.own => Pure(r.list, d))
  /\ NewPoints(b, s, r.list, u, d)

(* The places A of markers after N characters were inserted into stage Z; those *)
(* that were there may be anywhere in the new text.                           *)
Shifted(a, z, at, n, T) ==
  \A m \in T : \/ a.marks[m] = IF z.marks[m] > at THEN z.marks[m] + n ELSE z.marks[m]
               \/ z.marks[m] = at /\ a.marks[m] \in at .. at + n
(* A buffer that counts as unmodified has the text of the file, or the unit    *)
(* goes on.                                                                  *)
Unmodified(b, s, w) ==
  ~b.modified /\ w.ok => s[0].text = w.disk \/ (b.own /\ b.list # <<>> /\ IsText(b.list[1]))

(* Undoing the record of an insertion takes out what was inserted, also     *)
(* when it was joined with the one before it.                               *)
LEMMA InsertionStep ==
  ASSUME NEW a \in Stages, NEW z \in Stages, NEW T \in SUBSET Markers, NEW at \in Nat \ {0},
         NEW str \in Seq(Chars), str # <<>>,
         at <= Len(z.text) + 1, a.text = Replaced(z.text, at, at, str), Shifted(a, z, at, Len(str), T)
  PROVE  /\ Step(Ins(at, at + Len(str)), a, z, T)
         /\ \A h \in Nat \ {0}, y \in Stages :
              Step(Ins(h, at), z, y, T) => Step(Ins(h, at + Len(str)), a, y, T)
<1>1. PICK n \in Nat, k \in Nat : n = Len(z.text) /\ k = Len(str)
  BY DEF Stages
<1>2. k # 0
  BY <1>1
<1>3. z.text \in Seq(Chars) /\ at <= n + 1
  BY <1>1 DEF Stages
<1>4. Len(a.text) = n + k
  <2>1. IsPutIn(a.text, z.text, at, str, n, k)
    BY <1>1, <1>3, PutIn
  <2>2. QED BY <2>1 DEF IsPutIn
<1>5. \A h \in Nat \ {0} : h <= at => Replaced(a.text, h, at + k, <<>>) = Replaced(z.text, h, at, <<>>)
  BY <1>1, <1>3, JoinBack
<1>6. Replaced(a.text, at, at + k, <<>>) = z.text
  <2>1. at <= at /\ Replaced(z.text, at, at, <<>>) = z.text
    BY <1>1, <1>3, NothingReplaced
  <2>2. QED BY <1>5, <2>1
<1>7. \A m \in T : z.marks[m] \in Nat /\ a.marks[m] \in Nat
  BY DEF Stages
<1>8. ASSUME NEW m \in T
      PROVE  \/ a.marks[m] = IF z.marks[m] > at THEN z.marks[m] + k ELSE z.marks[m]
             \/ z.marks[m] = at /\ a.marks[m] \in at .. at + k
  BY <1>1 DEF Shifted
<1>9. Step(Ins(at, at + k), a, z, T)
  <2>1. at < at + k /\ at + k <= n + k + 1
    BY <1>2, <1>3
  <2>2. TextStep(Ins(at, at + k), a.text, z.text)
    BY <1>4, <1>6, <2>1 DEF TextStep, Ins, IsText
  <2>3. ASSUME NEW m \in T PROVE z.marks[m] = MarkStep(Ins(at, at + k), m, a.marks[m], Len(a.text))
    <3>1. z.marks[m] = IF a.marks[m] > at + k THEN a.marks[m] - (at + k - at)
                       ELSE IF a.marks[m] > at THEN at ELSE a.marks[m]
      <4>1. PICK p \in Nat, q \in Nat : p = z.marks[m] /\ q = a.marks[m]
        BY <1>7
      <4>2. q = (IF p > at THEN p + k ELSE p) \/ (p = at /\ q \in at .. at + k)
        BY <1>8, <4>1
      <4>3. p = IF q > at + k THEN q - (at + k - at) ELSE IF q > at THEN at ELSE q
        BY <4>2
      <4>4. QED BY <4>1, <4>3
    <3>2. QED BY <3>1 DEF MarkStep, Ins
  <2>4. QED BY <2>2, <2>3 DEF Step
<1>10. ASSUME NEW h \in Nat \ {0}, NEW y \in Stages, Step(Ins(h, at), z, y, T)
       PROVE  Step(Ins(h, at + k), a, y, T)
  <2>1. h < at /\ y.text = Replaced(z.text, h, at, <<>>)
    BY <1>10 DEF Step, TextStep, Ins
  <2>2. h < at + k /\ at + k <= n + k + 1 /\ h <= at
    BY <1>3, <2>1
  <2>3. TextStep(Ins(h, at + k), a.text, y.text)
    BY <1>4, <1>5, <2>1, <2>2 DEF TextStep, Ins, IsText
  <2>4. ASSUME NEW m \in T PROVE y.marks[m] = MarkStep(Ins(h, at + k), m, a.marks[m], Len(a.text))
    <3>1. y.marks[m] = MarkStep(Ins(h, at), m, z.marks[m], Len(z.text))
      BY <1>10 DEF Step
    <3>2. y.marks[m] = IF z.marks[m] > at THEN z.marks[m] - (at - h)
                       ELSE IF z.marks[m] > h THEN h ELSE z.marks[m]
      BY <3>1 DEF MarkStep, Ins
    <3>3. y.marks[m] = IF a.marks[m] > at + k THEN a.marks[m] - (at + k - h)
                       ELSE IF a.marks[m] > h THEN h ELSE a.marks[m]
      <4>1. PICK p \in Nat, q \in Nat : p = z.marks[m] /\ q = a.marks[m]
        BY <1>7
      <4>2. q = (IF p > at THEN p + k ELSE p) \/ (p = at /\ q \in at .. at + k)
        BY <1>8, <4>1
      <4>3. (IF p > at THEN p - (at - h) ELSE IF p > h THEN h ELSE p)
              = IF q > at + k THEN q - (at + k - h) ELSE IF q > h THEN h ELSE q
        BY <2>1, <4>2
      <4>4. QED BY <3>2, <4>1, <4>3
    <3>4. QED BY <3>3 DEF MarkStep, Ins
  <2>5. QED BY <2>3, <2>4 DEF Step
<1>11. QED BY <1>1, <1>9, <1>10

(* A record of an insertion is made of its two ends.                        *)
LEMMA InsertIs ==
  ASSUME NEW r \in Records, r.kind = "insert"
  PROVE  r.beg \in Nat \ {0} /\ r.end \in Nat \ {0} /\ r = Ins(r.beg, r.end)
<1>1. r \in [kind : {"insert"}, beg : Nat \ {0}, end : Nat \ {0}]
  BY DEF Records
<1>2. QED BY <1>1 DEF Ins

(* An insertion recorded.                                                    *)
InsertionDone(b, s, r, a, at, n, T, w) ==
  \E d \in Nat : \E u :
    /\ Wrote(b, s, r, u, d, T, w) /\ u[0] = a
    /\ r.list[1].kind = "insert" /\ r.list[1].beg <= at /\ r.list[1].end = at + n

(* An insertion, recorded, leads back to the stages of the list.            *)
LEMMA InsertionRecorded ==
  ASSUME NEW b \in Buffers, b.on, NEW T \in SUBSET Markers, NEW w, w.time = b.time,
         NEW s, Good(b.list, s, T, w), Unmodified(b, s, w),
         NEW at \in Nat \ {0}, NEW str \in Seq(Chars), str # <<>>, at <= Len(s[0].text) + 1,
         NEW a \in Stages, a.text = Replaced(s[0].text, at, at, str), Shifted(a, s[0], at, Len(str), T),
         NEW r, r = RecordInsert(b, at, Len(str))
  PROVE  InsertionDone(b, s, r, a, at, Len(str), T, w)
<1>1. PICK n \in Nat \ {0} : n = Len(str)
  <2>1. Len(str) \in Nat /\ Len(str) # 0
    OBVIOUS
  <2>2. QED BY <2>1
<1>2. b.list \in Seq(Records) /\ b.time \in Nat
  BY DEF Buffers
<1>3. PICK k \in Nat : k = Len(b.list)
  BY <1>2
<1>4. Chain(b.list, s, T) /\ s[0] \in Stages
  <2>1. 0 \in 0 .. k
    OBVIOUS
  <2>2. QED BY <1>3, <2>1 DEF Good, Chain
<1>5. Recorded(b, r) /\ r.own /\ (Joined(b, r, at, n) \/ NewInsert(b, r, at, n))
  <2>1. r = RecordInsert(b, at, n)
    BY <1>1
  <2>2. QED BY <2>1, RecordInsertIs
<1>6. /\ Step(Ins(at, at + n), a, s[0], T)
      /\ \A h \in Nat \ {0}, y \in Stages : Step(Ins(h, at), s[0], y, T) => Step(Ins(h, at + n), a, y, T)
  BY <1>1, <1>4, InsertionStep
<1>7. CASE Joined(b, r, at, n)
  <2>1. /\ b.list # <<>> /\ b.list[1].kind = "insert" /\ b.list[1].end = at /\ k # 0
        /\ r.list = <<Ins(b.list[1].beg, at + n)>> \o Tail(b.list)
    BY <1>2, <1>3, <1>7 DEF Joined
  <2>2. PICK h \in Nat \ {0} : b.list[1] = Ins(h, at) /\ b.list[1].beg = h
    <3>1. b.list[1] \in Records
      BY <1>2, <2>1
    <3>2. QED BY <2>1, <3>1, InsertIs
  <2>3. Ins(h, at + n) \in Records
    BY RecordsAre
  <2>4. Step(Ins(h, at), s[0], s[1], T) /\ s[1] \in Stages
    <3>1. 1 \in 1 .. k /\ 1 - 1 = 0 /\ 1 \in 0 .. k
      BY <2>1
    <3>2. QED BY <1>3, <1>4, <2>2, <3>1 DEF Chain
  <2>5. Step(Ins(h, at + n), a, s[1], T) /\ h < at
    <3>1. h < at
      BY <2>4 DEF Step, TextStep, Ins
    <3>2. QED BY <1>6, <2>4, <3>1
  <2>6. PICK u : Chain(r.list, u, T) /\ Grows(b.list, s, r.list, u, 0) /\ u[0] = a
    <3>1. Ins(h, at + n).kind = "insert"
      BY DEF Ins
    <3>2. QED BY <1>2, <1>4, <2>1, <2>2, <2>3, <2>5, <3>1, ChainJoined
  <2>7. /\ r.list \in Seq(Records) /\ r.list[1] = Ins(h, at + n)
    <3>1. Tail(b.list) \in Seq(Records)
      BY <1>2, <2>1
    <3>2. QED BY <2>1, <2>2, <2>3, <3>1, PushedIs
  <2>8. r.list # <<>>
    <3>1. Len(r.list) = k + 0
      BY <1>3, <2>6 DEF Grows
    <3>2. QED BY <2>1, <3>1
  <2>9. 1 .. 0 = {} /\ 0 \in Nat
    OBVIOUS
  <2>10. Good(r.list, u, T, w)
    BY <1>2, <2>6, <2>7, <2>9, GoodKept
  <2>11. Wrote(b, s, r, u, 0, T, w)
    BY <1>5, <2>6, <2>7, <2>8, <2>9, <2>10 DEF Wrote, NewPoints, Pure, IsText, Ins
  <2>12. r.list[1].kind = "insert" /\ r.list[1].beg <= at /\ r.list[1].end = at + n
    BY <2>5, <2>7 DEF Ins
  <2>13. QED BY <1>1, <2>6, <2>9, <2>11, <2>12 DEF InsertionDone
<1>8. CASE NewInsert(b, r, at, n)
  <2>1. PICK ol, e, m :
          /\ Separated(b.list, ol, e) /\ (b.own => e = 0) /\ FirstOnly(b, m)
                        /\ r.list = <<Ins(at, at + n)>> \o (m \o ol)
    BY <1>8 DEF NewInsert
  <2> DEFINE i0 == Ins(at, at + n)
             em == <<>>
             q == [i \in 0 .. 0 |-> s[0]]
  <2>2. i0 \in Records /\ i0.kind = "insert" /\ i0.beg = at /\ i0.end = at + n
    BY RecordsAre DEF Ins
  <2>3. First(b.time) \in Records /\ First(b.time).kind = "first" /\ First(b.time).time = b.time
    BY <1>2, RecordsAre DEF First
  <2>4. /\ m \in Seq(Records) /\ m \o em = m /\ em \in Seq(Records) /\ Len(em) = 0
        /\ \A i \in 1 .. Len(m) : m[i].kind = "first" /\ m[i].time = b.time /\ ~b.modified
    <3>1. CASE m = <<>>
      BY <3>1
    <3>2. CASE m = <<First(b.time)>> /\ ~b.modified
      <4>1. m \in Seq(Records) /\ Len(m) = 1 /\ m[1] = First(b.time) /\ m \o <<>> = m
        BY <2>3, <3>2, ConcatEmptySeq
      <4>2. \A i \in 1 .. 1 : i = 1
        OBVIOUS
      <4>3. QED BY <2>3, <3>2, <4>1, <4>2
    <3>3. QED BY <2>1, <3>1, <3>2 DEF FirstOnly
  <2>5. Middle(em, q, s, T) /\ q[0] = s[0]
    <3>1. Middle(em, q, s, T)
      BY <1>4, NothingBetween
    <3>2. 0 \in 0 .. 0
      OBVIOUS
    <3>3. QED BY <3>1, <3>2
  <2> HIDE DEF i0, em, q
  <2>6. PICK p : MiddleWith(m \o em, p, m, em, q, s, T)
    BY <2>4, <2>5, MiddleExtended
  <2>7. Middle(m, p, s, T) /\ p[0] = s[0]
    BY <2>4, <2>5, <2>6 DEF MiddleWith
  <2>8. Caused1(i0, m, p, T)
    BY <2>4 DEF Caused1
  <2>9. Timed1(m, w, b.list, s, e)
    <3>1. ASSUME NEW i \in 1 .. Len(m)
          PROVE  m[i].time <= w.time /\ (w.ok => s[0].text = w.disk \/ (e = 0 /\ b.list # <<>> /\ IsText(b.list[1])))
      BY <1>2, <2>1, <2>4, <3>1 DEF Unmodified
    <3>2. QED BY <3>1 DEF Timed1
  <2>10. IsText(i0) /\ Step(i0, a, p[0], T)
    BY <1>6, <2>2, <2>7 DEF i0, IsText
  <2>11. r.list = <<i0>> \o (m \o ol)
    BY <2>1 DEF i0
  <2>12a. PICK d \in Nat : \E u :
                             /\ Good(r.list, u, T, w) /\ u[0] = a
                             /\ Written(b.list, s, r.list, u, d, i0, m) /\ (e = 0 => d = Len(m) + 1)
    <3>1. TextWritten(b.list, s, r.list, a, i0, m, e, T, w)
      BY <1>2, <2>1, <2>2, <2>7, <2>8, <2>9, <2>10, <2>11, TextRecorded
    <3>2. QED BY <3>1 DEF TextWritten
  <2>12. PICK u :
                             /\ Good(r.list, u, T, w) /\ u[0] = a
                             /\ Written(b.list, s, r.list, u, d, i0, m) /\ (e = 0 => d = Len(m) + 1)
    BY <2>12a
  <2>13. PICK g \in Nat : g = Len(m) /\ \A i \in 1 .. g : m[i].kind = "first"
    <3>1. m \in Seq(Records)
      BY <2>4
    <3>2. Len(m) \in Nat
      BY <3>1
    <3>3. QED BY <2>4, <3>2
  <2>14. /\ Grows(b.list, s, r.list, u, d) /\ r.list[1] = i0 /\ g + 1 <= d
         /\ \A i \in 1 .. g : r.list[i + 1] = m[i]
         /\ \A i \in g + 2 .. d : r.list[i].kind = "boundary"
    BY <2>12, <2>13 DEF Written
  <2>15. \A i \in 1 .. d : i = 1 \/ (i - 1 \in 1 .. g /\ (i - 1) + 1 = i) \/ i \in g + 2 .. d
    BY <2>14
  <2>16. r.list # <<>>
    <3>1. Len(r.list) = k + d
      BY <1>3, <2>14 DEF Grows
    <3>2. k + d # 0
      BY <2>14
    <3>3. QED BY <3>1, <3>2
  <2>23. \A i \in 1 .. d : r.list[i].kind \in {"insert", "first"} \/ i \in g + 2 .. d
    <3>1. ASSUME NEW i \in 1 .. d, NEW j \in 1 .. g, i = j + 1 PROVE r.list[i].kind = "first"
      BY <2>13, <2>14, <3>1
    <3>2. ASSUME NEW i \in 1 .. d PROVE r.list[i].kind \in {"insert", "first"} \/ i \in g + 2 .. d
      <4>1. CASE i = 1
        BY <2>2, <2>14, <4>1
      <4>2. CASE i - 1 \in 1 .. g /\ (i - 1) + 1 = i
        BY <3>1, <4>2
      <4>3. QED BY <2>15, <4>1, <4>2
    <3>3. QED BY <3>2
  <2>17. ASSUME NEW i \in 1 .. d PROVE r.list[i].kind # "delete"
    BY <2>14, <2>23
  <2>18. NewPoints(b, s, r.list, u, d)
    <3>1. \A i \in 1 .. d : ~BeginsByDeleting(r.list, i)
      <4>1. \A i \in 1 .. d : \A j \in 1 .. i : j \in 1 .. d
        OBVIOUS
      <4>2. QED BY <2>17, <4>1 DEF BeginsByDeleting
    <3>2. QED BY <3>1 DEF NewPoints
  <2>19. ASSUME b.own PROVE Pure(r.list, d)
    <3>1. d = g + 1
      BY <2>1, <2>12, <2>13, <2>19
    <3>2. \A i \in 1 .. d : i \notin g + 2 .. d
      BY <3>1
    <3>3. QED BY <2>23, <3>2 DEF Pure
  <2>20. Wrote(b, s, r, u, d, T, w)
    BY <1>5, <2>2, <2>12, <2>14, <2>16, <2>18, <2>19 DEF Wrote, IsText
  <2>21. at <= at
    OBVIOUS
  <2>22. QED BY <1>1, <2>2, <2>12, <2>14, <2>20, <2>21 DEF InsertionDone
<1>9. QED BY <1>5, <1>7, <1>8

-----------------------------------------------------------------------------
(* What record_delete records before the deletion itself.                    *)
WherePoint(b, l, pos) == JustBegun(l) /\ b.last # pos /\ b.here
Between(b, l, pos) ==
  (IF WherePoint(b, l, pos) THEN <<Point(b.last)>> ELSE <<>>)
    \o (IF b.modified THEN <<>> ELSE <<First(b.time)>>)

(* What record_delete records before the deletion: where point was and the  *)
(* time of the file.                                                        *)
LEMMA BetweenIs ==
  ASSUME NEW b \in Buffers, NEW l, NEW pos, NEW y, y = Between(b, l, pos)
  PROVE  /\ y \in Seq(Records)
         /\ \A i \in 1 .. Len(y) :
              \/ y[i].kind = "first" /\ y[i].time = b.time /\ ~b.modified
              \/ i = 1 /\ y[i] = Point(b.last) /\ WherePoint(b, l, pos)
         /\ WherePoint(b, l, pos) => 1 <= Len(y) /\ y[1] = Point(b.last)
<1> DEFINE t == First(b.time)
           p == Point(b.last)
<1>1. /\ t \in Records /\ t.kind = "first" /\ t.time = b.time /\ p \in Records
  <2>1. b.time \in Nat /\ b.last \in Nat \ {0}
    BY DEF Buffers
  <2>2. QED BY <2>1, RecordsAre DEF First
<1>2. /\ y = IF WherePoint(b, l, pos)
             THEN IF b.modified THEN <<p>> ELSE <<p, t>>
             ELSE IF b.modified THEN <<>> ELSE <<t>>
  BY DEF Between
<1> HIDE DEF t, p
<1>3. CASE WherePoint(b, l, pos) /\ b.modified
  <2>1. y = <<p>> /\ Len(y) = 1 /\ y[1] = p
    BY <1>2, <1>3
  <2>2. \A i \in 1 .. 1 : i = 1
    OBVIOUS
  <2>3. QED BY <1>1, <1>3, <2>1, <2>2 DEF p
<1>4. CASE WherePoint(b, l, pos) /\ ~b.modified
  <2>1. y = <<p, t>> /\ Len(y) = 2 /\ y[1] = p /\ y[2] = t
    BY <1>2, <1>4
  <2>2. \A i \in 1 .. 2 : i = 1 \/ i = 2
    OBVIOUS
  <2>3. QED BY <1>1, <1>4, <2>1, <2>2 DEF p
<1>5. CASE ~WherePoint(b, l, pos) /\ b.modified
  BY <1>2, <1>5
<1>6. CASE ~WherePoint(b, l, pos) /\ ~b.modified
  <2>1. y = <<t>> /\ Len(y) = 1 /\ y[1] = t
    BY <1>2, <1>6
  <2>2. \A i \in 1 .. 1 : i = 1
    OBVIOUS
  <2>3. QED BY <1>1, <1>6, <2>1, <2>2
<1>7. QED BY <1>3, <1>4, <1>5, <1>6

(* What record_delete makes of the list.                                    *)
LEMMA RecordDeleteIs ==
  ASSUME NEW b \in Buffers, b.on, NEW beg \in Nat \ {0}, NEW str \in Seq(Chars) \ {<<>>},
         NEW pos, pos = IF b.pt = beg + Len(str) THEN -beg ELSE beg
  PROVE  /\ Recorded(b, RecordDelete(b, beg, str)) /\ RecordDelete(b, beg, str).own
         /\ RecordDelete(b, beg, str).list
              = <<Del(str, pos)>> \o (Between(b, Owned(b).list, pos) \o Owned(b).list)
<1> DEFINE o == Owned(b)
           f == WithFirst(o)
           p == IF JustBegun(o.list) /\ o.last # pos /\ o.here THEN Consed(f, Point(o.last)) ELSE f
           r == RecordDelete(b, beg, str)
           y == Between(b, o.list, pos)
<1>1. Recorded(b, o) /\ o.own
  BY OwnedIs
<1>2. o \in Buffers /\ o.list \in Seq(Records)
  BY <1>1 DEF Recorded, Buffers
<1>3. /\ Recorded(o, f) /\ f.own = o.own
      /\ \/ o.modified /\ f.list = o.list
         \/ ~o.modified /\ f.list = <<First(o.time)>> \o o.list
  BY <1>2, WithFirstIs
<1>4. o.pt = b.pt /\ o.last = b.last /\ o.here = b.here /\ o.modified = b.modified /\ o.time = b.time
  BY <1>1 DEF Recorded
<1>5. r = Consed(p, Del(str, pos))
  BY <1>4 DEF RecordDelete
<1>6. Point(o.last) \in Records /\ First(o.time) \in Records
  <2>1. o.last \in Nat \ {0} /\ o.time \in Nat
    BY <1>2 DEF Buffers
  <2>2. QED BY <2>1, RecordsAre
<1>7. Del(str, pos) \in Records
  <2>1. pos \in Int \ {0}
    OBVIOUS
  <2>2. QED BY <2>1, RecordsAre
<1>8. y = (IF WherePoint(b, o.list, pos) THEN <<Point(o.last)>> ELSE <<>>)
          \o (IF o.modified THEN <<>> ELSE <<First(o.time)>>)
  BY <1>4 DEF Between
<1>9. p = IF WherePoint(b, o.list, pos) THEN Consed(f, Point(o.last)) ELSE f
  BY <1>4 DEF WherePoint
<1> HIDE DEF o, f, p, r, y
<1>10. f \in Buffers
  BY <1>3 DEF Recorded
<1>11. /\ Recorded(f, p) /\ p.own = f.own
       /\ p.list = (IF WherePoint(b, o.list, pos) THEN <<Point(o.last)>> ELSE <<>>) \o f.list
  <2>1. CASE WherePoint(b, o.list, pos)
    BY <1>6, <1>9, <1>10, <2>1, ConsedIs
  <2>2. CASE ~WherePoint(b, o.list, pos)
    <3>1. <<>> \o f.list = f.list
      BY <1>10, ConcatEmptySeq DEF Buffers
    <3>2. QED BY <1>9, <1>10, <2>2, <3>1 DEF Recorded
  <2>3. QED BY <2>1, <2>2
<1>12. p.list = y \o o.list
  <2> DEFINE x == IF WherePoint(b, o.list, pos) THEN <<Point(o.last)>> ELSE <<>>
             z == IF o.modified THEN <<>> ELSE <<First(o.time)>>
  <2>1. x \in Seq(Records) /\ z \in Seq(Records)
    BY <1>6
  <2>2. f.list = z \o o.list
    BY <1>2, <1>3, ConcatEmptySeq
  <2>3. p.list = x \o f.list /\ y = x \o z
    BY <1>8, <1>11
  <2> HIDE DEF x, z
  <2>4. (x \o z) \o o.list = x \o (z \o o.list)
    BY <1>2, <2>1, Reassociated
  <2>5. QED BY <2>2, <2>3, <2>4
<1>13. p \in Buffers
  BY <1>11 DEF Recorded
<1>14. Recorded(p, r) /\ r.own = p.own /\ r.list = <<Del(str, pos)>> \o p.list
  BY <1>5, <1>7, <1>13, ConsedIs
<1>15. Recorded(b, r) /\ r.own
  BY <1>1, <1>3, <1>11, <1>14 DEF Recorded
<1>16. QED BY <1>12, <1>14, <1>15 DEF r, o, y

(* A deletion recorded, after the adjustments J with stages Q.                *)
Adjusting(r, j, q, T) ==
  \A i \in 1 .. Len(j) :
    /\ j[i].kind = "adjust"
    /\ j[i].marker \in T => /\ q[i - 1].marks[j[i].marker] = At(r)
                            /\ j[i].by < 0 /\ -j[i].by <= Len(r.str)

WroteFrom(b, s, r, a, x, T, w) ==
  \E d \in Nat : \E u : Wrote(b, s, r, u, d, T, w) /\ u[0] = a /\ r.list[1] = x

(* A deletion, recorded after the adjustments J of its markers, leads back  *)
(* to the stages of the list.                                               *)
LEMMA DeletionRecorded ==
  ASSUME NEW b \in Buffers, NEW T \in SUBSET Markers, NEW w, w.time = b.time,
         NEW s, Good(b.list, s, T, w), Unmodified(b, s, w),
         NEW ol, NEW e, Separated(b.list, ol, e), b.own => e = 0,
         NEW j, NEW q, Middle(j, q, s, T),
         NEW str \in Seq(Chars) \ {<<>>}, NEW pos \in Int \ {0}, Adjusting(Del(str, pos), j, q, T),
         pos <= Len(s[0].text) + 1,
         NEW a \in Stages, Step(Del(str, pos), a, q[0], T),
         NEW r, r.own, r.list = <<Del(str, pos)>> \o ((Between(b, j \o ol, pos) \o j) \o ol)
  PROVE  WroteFrom(b, s, r, a, Del(str, pos), T, w)
<1> DEFINE y == Between(b, j \o ol, pos)
           m == y \o j
           x == Del(str, pos)
<1>1. /\ b.list \in Seq(Records) /\ b.time \in Nat /\ b.last \in Nat \ {0} /\ b.modified \in BOOLEAN
  BY DEF Buffers
<1>2. /\ y \in Seq(Records)
      /\ \A i \in 1 .. Len(y) :
           \/ y[i].kind = "first" /\ y[i].time = b.time /\ ~b.modified
           \/ i = 1 /\ y[i] = Point(b.last) /\ WherePoint(b, j \o ol, pos)
      /\ WherePoint(b, j \o ol, pos) => 1 <= Len(y) /\ y[1] = Point(b.last)
  BY BetweenIs
<1>3. x \in Records /\ x.kind = "delete" /\ x.str = str /\ x.pos = pos
  BY RecordsAre DEF Del
<1>4. r.list = <<x>> \o (m \o ol)
  OBVIOUS
<1> HIDE DEF y, m, x
<1>5. PICK p : MiddleWith(m, p, y, j, q, s, T)
  <2>1. \A i \in 1 .. Len(y) : y[i].kind \in {"point", "first"}
    BY <1>2 DEF Point
  <2>2. QED BY <1>2, <2>1, MiddleExtended DEF m
<1>6. PICK k \in Nat, n \in Nat, g \in Nat : k = Len(y) /\ n = Len(j) /\ g = Len(b.list)
  BY <1>1, <1>2 DEF Middle
<1>7. /\ Middle(m, p, s, T) /\ p[0] = q[0] /\ Len(m) = k + n
      /\ \A i \in 1 .. k : m[i] = y[i]
      /\ \A i \in 1 .. n : m[i + k] = j[i] /\ p[i + k - 1] = q[i - 1]
  BY <1>5, <1>6 DEF MiddleWith
<1>8. ASSUME NEW i \in 1 .. k + n
      PROVE  \/ i \in 1 .. k /\ m[i] = y[i]
             \/ \E h \in 1 .. n : i = h + k /\ m[i] = j[h] /\ p[i - 1] = q[h - 1]
  <2>1. CASE i \in 1 .. k
    BY <1>7, <2>1
  <2>2. CASE i \notin 1 .. k
    <3>1. PICK h \in 1 .. n : i = h + k
      <4>1. i - k \in 1 .. n /\ i = (i - k) + k
        BY <2>2
      <4>2. QED BY <4>1
    <3>2. QED BY <1>7, <3>1
  <2>3. QED BY <2>1, <2>2
<1>9. \A h \in 1 .. n : j[h].kind = "adjust"
  BY <1>6 DEF Adjusting
<1>10. Caused1(x, m, p, T)
  <2>1. ASSUME NEW i \in 1 .. k + n, m[i].kind = "adjust", m[i].marker \in T
        PROVE  /\ x.kind = "delete" /\ p[i - 1].marks[m[i].marker] = At(x)
               /\ m[i].by < 0 /\ -m[i].by <= Len(x.str)
    <3>1. PICK h \in 1 .. n : m[i] = j[h] /\ p[i - 1] = q[h - 1]
      <4>1. ~(i \in 1 .. k /\ m[i] = y[i])
        BY <1>2, <1>6, <2>1 DEF Point
      <4>2. QED BY <1>8, <4>1
    <3>2. /\ q[h - 1].marks[j[h].marker] = At(x)
          /\ j[h].by < 0 /\ -j[h].by <= Len(x.str)
      BY <1>6, <2>1, <3>1 DEF Adjusting, x
    <3>3. QED BY <1>3, <3>1, <3>2
  <2>2. QED BY <1>7, <2>1 DEF Caused1
<1>11. Timed1(m, w, b.list, s, e)
  <2>1. ASSUME NEW i \in 1 .. k + n, m[i].kind = "first"
        PROVE  m[i].time <= w.time /\ (w.ok => s[0].text = w.disk \/ (e = 0 /\ b.list # <<>> /\ IsText(b.list[1])))
    <3>1. i \in 1 .. k /\ m[i] = y[i]
      BY <1>8, <1>9, <2>1
    <3>2. m[i].time = b.time /\ ~b.modified
      BY <1>2, <1>6, <2>1, <3>1 DEF Point
    <3>3. QED BY <1>1, <3>2 DEF Unmodified
  <2>2. QED BY <1>7, <2>1 DEF Timed1
<1>12. IsText(x) /\ Step(x, a, p[0], T)
  BY <1>3, <1>7 DEF IsText, x
<1>13a. PICK d \in Nat : \E u :
                           /\ Good(r.list, u, T, w) /\ u[0] = a
                           /\ Written(b.list, s, r.list, u, d, x, m) /\ (e = 0 => d = Len(m) + 1)
  <2>1. TextWritten(b.list, s, r.list, a, x, m, e, T, w)
    BY <1>1, <1>3, <1>4, <1>7, <1>10, <1>11, <1>12, TextRecorded, ZenonT(60)
  <2>2. QED BY <2>1 DEF TextWritten
<1>13. PICK u :
                           /\ Good(r.list, u, T, w) /\ u[0] = a
                           /\ Written(b.list, s, r.list, u, d, x, m) /\ (e = 0 => d = Len(m) + 1)
  BY <1>13a
<1> DEFINE c == r.list
           f == k + n + 1
<1>14. /\ Grows(b.list, s, c, u, d) /\ c[1] = x /\ f <= d
       /\ \A i \in 1 .. k + n : c[i + 1] = m[i]
       /\ \A i \in f + 1 .. d : c[i].kind = "boundary"
       /\ e = 0 => d = f
  <2>1. (k + n) + 1 = f /\ (k + n) + 2 = f + 1
    OBVIOUS
  <2>2. QED BY <1>7, <1>13, <2>1 DEF Written
<1> HIDE DEF c
<1>15. Len(c) = g + d
  BY <1>6, <1>14 DEF Grows
<1>16. ASSUME NEW i \in 2 .. f
       PROVE  /\ ~IsText(c[i]) /\ c[i].kind # "boundary"
              /\ c[i].kind = "point" => i = 2 /\ c[i] = Point(b.last) /\ WherePoint(b, j \o ol, pos)
  <2>1. i - 1 \in 1 .. k + n /\ (i - 1) + 1 = i
    OBVIOUS
  <2>2. c[i] = m[i - 1]
    BY <1>14, <2>1
  <2>3. m[i - 1].kind \in {"first", "adjust"} \/ (i - 1 = 1 /\ m[i - 1] = Point(b.last) /\ WherePoint(b, j \o ol, pos))
    <3>1. CASE i - 1 \in 1 .. k /\ m[i - 1] = y[i - 1]
      BY <1>2, <1>6, <3>1
    <3>2. CASE \E h \in 1 .. n : m[i - 1] = j[h]
      BY <1>9, <3>2
    <3>3. QED BY <1>8, <2>1, <3>1, <3>2
  <2>4. CASE m[i - 1].kind \in {"first", "adjust"}
    BY <2>2, <2>4 DEF IsText
  <2>5. CASE i - 1 = 1 /\ m[i - 1] = Point(b.last) /\ WherePoint(b, j \o ol, pos)
    <3>1. i = 2
      BY <2>5
    <3>2. c[i] = Point(b.last) /\ Point(b.last).kind = "point"
      BY <2>2, <2>5 DEF Point
    <3>3. QED BY <2>5, <3>1, <3>2 DEF IsText
  <2>6. QED BY <2>3, <2>4, <2>5
<1>17. NoTextIn(c, 2, f)
  BY <1>16 DEF NoTextIn
<1>18. ASSUME NEW i \in 1 .. d, EndsUnit(c, i), BeginsByDeleting(c, i), b.here, b.list # <<>>
       PROVE  PointBack(c, u, i, Clip(b.last, Len(s[0].text)))
  <2>1. g # 0
    BY <1>1, <1>6, <1>18
  <2>2. i = f
    <3>1. CASE i < f
      <4>1. i + 1 \in 2 .. f /\ i # Len(c)
        BY <1>14, <1>15, <3>1
      <4>2. c[i + 1].kind = "boundary"
        BY <1>18, <4>1 DEF EndsUnit
      <4>3. QED BY <1>16, <4>1, <4>2
    <3>2. CASE i > f
      <4>1. c[i].kind = "boundary"
        BY <1>14, <3>2
      <4>2. PICK h \in 1 .. i : c[h].kind = "delete" /\ \A v \in h + 1 .. i : c[v].kind # "boundary"
        BY <1>18 DEF BeginsByDeleting
      <4>3. h = i \/ i \in h + 1 .. i
        OBVIOUS
      <4>4. QED BY <4>1, <4>2, <4>3
    <3>3. QED BY <3>1, <3>2
  <2>3. ol[1].kind = "boundary" /\ ol \in Seq(Records) /\ Len(ol) # 0
    <3>0. Chain(b.list, s, T)
      BY DEF Good
    <3>1. CASE e = 1
      <4>1. ol[1].kind = "boundary" /\ ol \in Seq(Records) /\ Len(ol) = Len(b.list) + 1
        BY <1>1, <3>0, <3>1, SeparatedGrows
      <4>2. Len(ol) = g + 1
        BY <1>6, <4>1
      <4>3. QED BY <4>1, <4>2
    <3>2. CASE e # 1
      <4>1. ol = b.list /\ e = 0 /\ d = f
        BY <1>14, <3>2 DEF Separated
      <4>2. i # Len(c) /\ 1 \in 1 .. g /\ 1 + d = i + 1
        BY <1>15, <2>1, <2>2, <4>1
      <4>3. c[1 + d].kind = "boundary"
        BY <1>18, <4>2 DEF EndsUnit
      <4>4. c[1 + d].kind = b.list[1].kind
        BY <1>6, <1>14, <4>2 DEF Grows
      <4>5. QED BY <1>1, <1>6, <2>1, <4>1, <4>3, <4>4
    <3>3. QED BY <3>1, <3>2
  <2>4. JustBegun(j \o ol)
    <3>1. PICK h \in Nat : h = Len(ol) /\ h # 0
      BY <2>3
    <3>2. /\ Len(j \o ol) = n + h
          /\ \A v \in 1 .. n + h : (j \o ol)[v] = IF v <= n THEN j[v] ELSE ol[v - n]
      BY <1>6, <2>3, <3>1, ConcatProperties DEF Middle
    <3>3. n + 1 \in 1 .. n + h /\ ~(n + 1 <= n) /\ (n + 1) - n = 1
      BY <3>1
    <3>4. (j \o ol)[n + 1].kind = "boundary"
      BY <2>3, <3>2, <3>3
    <3>5. ASSUME NEW v \in 1 .. n + 1 - 1 PROVE (j \o ol)[v].kind = "adjust"
      <4>1. v \in 1 .. n + h /\ v <= n /\ v \in 1 .. n
        BY <3>1
      <4>2. QED BY <1>9, <3>2, <4>1
    <3>6. n + 1 \in 1 .. Len(j \o ol)
      BY <3>2, <3>3
    <3> DEFINE l == j \o ol
               i1 == n + 1
    <3> HIDE DEF l
    <3>7. i1 \in 1 .. Len(l) /\ l[i1].kind = "boundary" /\ \A v \in 1 .. i1 - 1 : l[v].kind = "adjust"
      BY <3>4, <3>5, <3>6 DEF l
    <3> HIDE DEF i1
    <3>8. JustBegun(l)
      BY <3>7 DEF JustBegun
    <3>9. QED BY <3>8 DEF l
  <2>5. u[f] = s[0]
    BY <1>14, <1>18, <2>2 DEF Grows
  <2>6. 1 \in 1 .. f /\ 1 + 1 = 2
    OBVIOUS
  <2>7. LastPoint(c, u, f, Clip(b.last, Len(s[0].text)), 1)
    <3>1. CASE b.last # pos
      <4>1. WherePoint(b, j \o ol, pos)
        BY <1>18, <2>4, <3>1 DEF WherePoint
      <4>2. 1 <= k /\ y[1] = Point(b.last)
        BY <1>2, <1>6, <4>1
      <4>3. 1 \in 1 .. k /\ 1 \in 1 .. k + n
        BY <4>2
      <4>4. c[2] = Point(b.last)
        BY <1>7, <1>14, <2>6, <4>2, <4>3
      <4>5. c[2].kind = "point" /\ c[2].at = b.last
        BY <4>4 DEF Point
      <4>6. \A h \in 2 + 1 .. f : c[h].kind # "point"
        <5>1. \A h \in 2 + 1 .. f : h \in 2 .. f /\ h # 2
          OBVIOUS
        <5>2. QED BY <1>16, <5>1
      <4>7. 2 \in 1 + 1 .. f
        BY <4>2
      <4>8. QED BY <2>5, <4>5, <4>6, <4>7 DEF LastPoint
    <3>2. CASE b.last = pos
      <4>1. ~WherePoint(b, j \o ol, pos)
        BY <3>2 DEF WherePoint
      <4>2. \A h \in 1 + 1 .. f : c[h].kind # "point"
        BY <1>16, <2>6, <4>1
      <4>3. Clip(b.last, Len(s[0].text)) = b.last
        <5>1. s[0].text \in Seq(Chars)
          <6>1. s[0] \in Stages
            <7>1. 0 \in 0 .. g
              OBVIOUS
            <7>2. QED BY <1>6, <7>1 DEF Good, Chain
          <6>2. QED BY <6>1 DEF Stages
        <5>2. PICK h \in Nat : h = Len(s[0].text)
          BY <5>1
        <5>3. b.last <= h + 1
          BY <3>2, <5>2
        <5>4. QED BY <1>1, <5>2, <5>3 DEF Clip
      <4>4. QED BY <1>3, <1>14, <3>2, <4>2, <4>3 DEF LastPoint
    <3>3. QED BY <3>1, <3>2
  <2>8. PointBack(c, u, f, Clip(b.last, Len(s[0].text)))
    BY <1>3, <1>14, <1>17, <2>6, <2>7 DEF PointBack
  <2>9. QED BY <2>2, <2>8
<1>19. NewPoints(b, s, c, u, d)
  BY <1>18 DEF NewPoints
<1>20. ASSUME b.own PROVE Pure(c, d)
  <2>1. d = f
    BY <1>14, <1>20
  <2>2. \A i \in 1 .. d : i = 1 \/ i \in 2 .. f
    BY <2>1
  <2>3. QED BY <1>3, <1>14, <1>16, <2>2 DEF Pure
<1>21. c # <<>>
  <2>1. g + d # 0
    BY <1>14
  <2>2. QED BY <1>15, <2>1
<1>22. Wrote(b, s, r, u, d, T, w)
  BY <1>12, <1>13, <1>14, <1>19, <1>20, <1>21 DEF Wrote, c
<1>23. QED BY <1>13, <1>14, <1>22 DEF WroteFrom, c, x

(* Stage A agrees with a buffer.                                             *)
Agree(b, a, T) == a.text = b.text /\ \A m \in T : a.marks[m] = b.marks[m]

(* The adjustments of the markers in a part about to be deleted, undone one    *)
(* after the other: those left to undo are still at the beginning of the part. *)
Later(order, i) == {order[h] : h \in i + 1 .. Len(order)}
Collapsed(order, f, a, i) ==
  [text |-> a.text, marks |-> [m \in Markers |-> IF m \in Later(order, i) THEN f ELSE a.marks[m]]]
Adjusts(j, q, b, s, T, f, e) ==
  /\ Middle(j, q, s, T)
  /\ \A i \in 1 .. Len(j) :
       /\ j[i].kind = "adjust"
       /\ j[i].marker \in T => /\ q[i - 1].marks[j[i].marker] = f
                               /\ j[i].by < 0 /\ -j[i].by <= e - f
  /\ q[0].text = s[0].text
  /\ \A m \in T : q[0].marks[m] = IF m \in Inside(b, f, e) THEN f ELSE b.marks[m]

(* The adjustments of the markers in a part to be deleted put them back     *)
(* where they were, once its text is.                                       *)
LEMMA AdjustmentsUndone ==
  ASSUME NEW b \in Buffers, NEW T \in SUBSET Markers, NEW s, s[0] \in Stages, Agree(b, s[0], T),
         NEW f \in Nat \ {0}, NEW e \in Nat, f <= e, e <= Len(s[0].text) + 1,
         NEW order, Ordered(order, b, f, e),
         NEW j, j = Adjustments(order, b, f)
  PROVE  \E q : Adjusts(j, q, b, s, T, f, e)
<1> DEFINE a == s[0]
<1>1. a.text \in Seq(Chars) /\ a.marks \in [Markers -> Nat] /\ a = [text |-> a.text, marks |-> a.marks]
  BY DEF Stages
<1>2. /\ order \in Seq(Inside(b, f, e))
      /\ \A m \in Inside(b, f, e) : \E i \in 1 .. Len(order) : order[i] = m
      /\ \A i, h \in 1 .. Len(order) : order[i] = order[h] => i = h
  BY DEF Ordered
<1>3. PICK n \in Nat, g \in Nat : n = Len(order) /\ g = Len(a.text)
  BY <1>1, <1>2
<1>4. \A i \in 1 .. n : /\ order[i] \in Markers /\ b.marks[order[i]] \in Nat
                        /\ b.marks[order[i]] > f /\ b.marks[order[i]] <= e
  <2>1. \A i \in 1 .. n : order[i] \in Inside(b, f, e)
    BY <1>2, <1>3
  <2>2. QED BY <2>1 DEF Inside, Buffers
<1>5. /\ Len(j) = n /\ j \in Seq(Records)
      /\ \A i \in 1 .. n : j[i].kind = "adjust" /\ j[i].marker = order[i] /\ j[i].by = f - b.marks[order[i]]
  <2>1. j = [i \in 1 .. n |-> Adj(order[i], f - b.marks[order[i]])]
    BY <1>2, <1>3 DEF Adjustments
  <2>2. \A i \in 1 .. n : Adj(order[i], f - b.marks[order[i]]) \in Records
    BY <1>4, RecordsAre
  <2>3. j \in Seq(Records) /\ Len(j) = n
    BY <2>1, <2>2, <1>3
  <2>4. QED BY <2>1, <2>3 DEF Adj
<1> DEFINE q == [i \in 0 .. n |-> Collapsed(order, f, a, i)]
           L(i) == Later(order, i)
<1> HIDE DEF a, L
<1>6. \A i \in 0 .. n :
        /\ q[i].text = a.text /\ q[i].marks \in [Markers -> Nat] /\ q[i] \in Stages
        /\ \A m \in Markers : q[i].marks[m] = IF m \in L(i) THEN f ELSE a.marks[m]
  <2> DEFINE M(i) == [m \in Markers |-> IF m \in L(i) THEN f ELSE a.marks[m]]
  <2>1. \A i \in 0 .. n : q[i] = [text |-> a.text, marks |-> M(i)]
    BY DEF Collapsed, L
  <2>2. \A i \in 0 .. n :
          M(i) \in [Markers -> Nat] /\ \A m \in Markers : M(i)[m] = IF m \in L(i) THEN f ELSE a.marks[m]
    BY <1>1
  <2> HIDE DEF q, M
  <2>3. ASSUME NEW i \in 0 .. n PROVE q[i].text = a.text /\ q[i].marks = M(i) /\ q[i] \in Stages
    <3>1. q[i] = [text |-> a.text, marks |-> M(i)]
      BY <2>1
    <3>2. M(i) \in [Markers -> Nat] /\ a.text \in Seq(Chars)
      BY <2>2, <1>1
    <3>3. QED BY <3>1, <3>2 DEF Stages
  <2>4. QED BY <2>2, <2>3
<1>60. \A i \in 0 .. n : L(i) = {order[h] : h \in i + 1 .. n}
  BY <1>3 DEF L, Later
<1>7. q \in [0 .. n -> Stages]
  BY <1>6
<1> HIDE DEF q
<1>8. q[n] = s[0]
  <2>1. q[n].marks = a.marks
    <3>1. \A m \in Markers : m \notin L(n)
      BY <1>3, <1>60
    <3>2. q[n].marks \in [Markers -> Nat] /\ \A m \in Markers : q[n].marks[m] = a.marks[m]
      BY <1>6, <3>1
    <3>3. QED BY <3>2, <1>1
  <2>2. q[n] \in Stages /\ q[n].text = a.text
    BY <1>6
  <2>3. q[n] = [text |-> a.text, marks |-> a.marks]
    BY <2>1, <2>2 DEF Stages
  <2>4. QED BY <2>3, <1>1 DEF a
<1>9. ASSUME NEW i \in 1 .. n
      PROVE  /\ Step(j[i], q[i - 1], q[i], T)
             /\ j[i].marker \in T => q[i - 1].marks[j[i].marker] = f
  <2>1. i - 1 \in 0 .. n /\ i \in 0 .. n /\ (i - 1) + 1 = i
    OBVIOUS
  <2>2. TextStep(j[i], q[i - 1].text, q[i].text)
    BY <1>5, <1>6, <2>1 DEF TextStep, IsText
  <2>3. q[i - 1].marks[order[i]] = f /\ q[i].marks[order[i]] = a.marks[order[i]]
    <3>1. order[i] \in L(i - 1)
      BY <1>60, <2>1
    <3>2. order[i] \notin L(i)
      <4>1. \A h \in i + 1 .. n : h \in 1 .. n /\ h # i
        OBVIOUS
      <4>2. \A h \in i + 1 .. n : order[h] # order[i]
        BY <1>2, <1>3, <4>1
      <4>3. QED BY <1>60, <2>1, <4>2
    <3>3. QED BY <1>4, <1>6, <2>1, <3>1, <3>2
  <2>4. ASSUME NEW m \in T PROVE q[i].marks[m] = MarkStep(j[i], m, q[i - 1].marks[m], Len(q[i - 1].text))
    <3>1. CASE m = order[i]
      <4>1. MarkStep(j[i], m, f, g) = Clip(f - (f - b.marks[m]), g)
        BY <1>5, <3>1 DEF MarkStep, Nowhere
      <4>2. b.marks[m] \in Nat /\ b.marks[m] > f /\ b.marks[m] <= e /\ e <= g + 1
        BY <1>3, <1>4, <3>1 DEF a
      <4>3. Clip(f - (f - b.marks[m]), g) = b.marks[m]
        BY <4>2 DEF Clip
      <4>4. b.marks[m] = a.marks[m]
        BY DEF Agree, a
      <4>5. q[i - 1].marks[m] = f /\ Len(q[i - 1].text) = g /\ q[i].marks[m] = a.marks[m]
        BY <1>3, <1>6, <2>1, <2>3, <3>1
      <4>6. QED BY <4>1, <4>3, <4>4, <4>5
    <3>2. CASE m # order[i]
      <4>1. MarkStep(j[i], m, q[i - 1].marks[m], Len(q[i - 1].text)) = q[i - 1].marks[m]
        BY <1>5, <3>2 DEF MarkStep
      <4>2. m \in L(i) <=> m \in L(i - 1)
        <5>1. \A h \in i .. n : h = i \/ h \in i + 1 .. n
          OBVIOUS
        <5>2. \A h \in i + 1 .. n : h \in i .. n
          OBVIOUS
        <5>3. L(i) = {order[h] : h \in i + 1 .. n} /\ L(i - 1) = {order[h] : h \in i .. n}
          BY <1>60, <2>1
        <5>4. QED BY <3>2, <5>1, <5>2, <5>3
      <4>3. QED BY <1>6, <2>1, <4>1, <4>2
    <3>3. QED BY <3>1, <3>2
  <2>5. QED BY <1>5, <2>2, <2>3, <2>4 DEF Step
<1>10. Middle(j, q, s, T)
  <2>1. Chain(j, q, T)
    BY <1>5, <1>7, <1>9 DEF Chain
  <2>2. \A i \in 1 .. Len(j) : j[i].kind \in Neutral
    BY <1>5 DEF Neutral
  <2>3. QED BY <1>5, <1>6, <1>8, <2>1, <2>2 DEF Middle, a
<1>11. ASSUME NEW m \in T PROVE q[0].marks[m] = IF m \in Inside(b, f, e) THEN f ELSE b.marks[m]
  <2>1. 0 + 1 = 1 /\ 0 \in 0 .. n
    OBVIOUS
  <2>2. L(0) = {order[h] : h \in 1 .. n}
    BY <1>60, <2>1
  <2>3. m \in L(0) <=> m \in Inside(b, f, e)
    BY <1>2, <1>3, <2>2
  <2>4. a.marks[m] = b.marks[m]
    BY DEF Agree, a
  <2>5. QED BY <1>6, <2>1, <2>3, <2>4
<1>12. ASSUME NEW i \in 1 .. n
       PROVE  /\ j[i].kind = "adjust"
              /\ j[i].marker \in T => /\ q[i - 1].marks[j[i].marker] = f
                                      /\ j[i].by < 0 /\ -j[i].by <= e - f
  <2>1. b.marks[order[i]] \in Nat /\ b.marks[order[i]] > f /\ b.marks[order[i]] <= e
    BY <1>4
  <2>2. QED BY <1>5, <1>9, <2>1
<1>13. q[0].text = s[0].text
  BY <1>6 DEF a
<1>14. Adjusts(j, q, b, s, T, f, e)
  BY <1>5, <1>10, <1>11, <1>12, <1>13 DEF Adjusts
<1>15. QED BY <1>14

(* What no edit and no record undone changes in a buffer.                    *)
Kept(b, c) ==
  /\ c \in Buffers
  /\ c.astray = b.astray /\ c.on = b.on /\ c.time = b.time /\ c.last = b.last /\ c.here = b.here
  /\ c.error = b.error

(* The list when an edit begins.                                            *)
LEMMA OwnedList ==
  ASSUME NEW b \in Buffers
  PROVE  Owned(b).list = IF b.own \/ ~b.on \/ b.list = <<>> \/ AtBoundary(b.list) THEN b.list
                         ELSE <<Boundary>> \o b.list
<1>1. Bounded(b).list = IF ~b.on \/ b.list = <<>> \/ AtBoundary(b.list) THEN b.list
                        ELSE <<Boundary>> \o b.list
  BY DEF Bounded, Consed, Buffers
<1>2. CASE b.own
  BY <1>2 DEF Owned
<1>3. CASE ~b.own
  <2>1. Owned(b) = [Bounded(b) EXCEPT !.own = TRUE]
    BY <1>3 DEF Owned
  <2>2. Bounded(b) \in Buffers
    BY BoundedIs DEF Recorded
  <2>3. Owned(b).list = Bounded(b).list
    BY <2>1, <2>2 DEF Buffers
  <2>4. QED BY <1>1, <1>3, <2>3
<1>4. QED BY <1>2, <1>3

(* The markers after a deletion.                                             *)
Pulled(p, f, e) == IF p > e THEN p - (e - f) ELSE IF p > f THEN f ELSE p
PulledMarks(p, f, e) == [m \in Markers |-> Pulled(p[m], f, e)]
AdjustmentsRecorded(b, c, f, e) ==
  \E order : Ordered(order, b, f, e) /\ Owned(c).list = Adjustments(order, b, f) \o Owned(b).list

(* What adjust_markers_for_delete records and where the markers go.         *)
LEMMA MarkersForDeleteIs ==
  ASSUME NEW b \in Buffers, NEW f \in Nat \ {0}, NEW e \in Nat, f <= e,
         NEW c, c = MarkersForDelete(b, f, e)
  PROVE  /\ Kept(b, c) /\ c.text = b.text /\ c.pt = b.pt /\ c.modified = b.modified
         /\ c.marks = PulledMarks(b.marks, f, e)
         /\ b.on => AdjustmentsRecorded(b, c, f, e)
<1> DEFINE order == SetToSeq(Inside(b, f, e))
           j == Adjustments(order, b, f)
           r == RecordAdjustments(b, j)
<1>1. c = [r EXCEPT !.marks = [m \in Markers |-> IF @[m] > e THEN @[m] - (e - f)
                                                 ELSE IF @[m] > f THEN f ELSE @[m]]]
  BY DEF MarkersForDelete, Adjustments
<1>2. Ordered(order, b, f, e)
  BY InsideOrdered
<1>3. r = IF b.on /\ j # <<>> THEN [Owned(b) EXCEPT !.list = j \o @] ELSE b
  BY DEF RecordAdjustments
<1>4. j \in Seq(Records)
  <2>1. order \in Seq(Inside(b, f, e))
    BY <1>2 DEF Ordered
  <2>2. j = [i \in 1 .. Len(order) |-> Adj(order[i], f - b.marks[order[i]])]
    BY <2>1 DEF Adjustments
  <2>3. \A i \in 1 .. Len(order) : Adj(order[i], f - b.marks[order[i]]) \in Records
    <3>1. \A i \in 1 .. Len(order) : order[i] \in Markers /\ b.marks[order[i]] \in Nat
      BY <2>1 DEF Inside, Buffers
    <3>2. QED BY <3>1, RecordsAre
  <2>4. QED BY <2>1, <2>2, <2>3
<1>5. Recorded(b, Owned(b)) /\ Owned(b).own /\ Owned(b) \in Buffers
  BY OwnedIs DEF Recorded
<1> HIDE DEF order, j
<1>6. /\ Recorded(b, r) /\ r.marks = b.marks
      /\ (b.on /\ j # <<>>) => r.own /\ r.list = j \o Owned(b).list
      /\ ~(b.on /\ j # <<>>) => r = b
  <2>1. CASE b.on /\ j # <<>>
    <3>1. r = [Owned(b) EXCEPT !.list = j \o @]
      BY <1>3, <2>1
    <3>2. j \o Owned(b).list \in Seq(Records)
      BY <1>4, <1>5 DEF Buffers
    <3> HIDE DEF r
    <3>3. r \in Buffers /\ r.list = j \o Owned(b).list /\ r.own
      BY <1>5, <3>1, <3>2 DEF Buffers
    <3>4. Recorded(b, r)
      BY <1>5, <3>1, <3>3 DEF Recorded, Buffers
    <3>5. QED BY <2>1, <3>3, <3>4 DEF Recorded
  <2>2. CASE ~(b.on /\ j # <<>>)
    BY <1>3, <2>2 DEF Recorded
  <2>3. QED BY <2>1, <2>2
<1> HIDE DEF r
<1>7. r \in Buffers
  BY <1>6 DEF Recorded
<1>8. c.marks = PulledMarks(b.marks, f, e) /\ c = [r EXCEPT !.marks = c.marks]
  BY <1>1, <1>6, <1>7 DEF Pulled, PulledMarks, Buffers
<1>9. c.marks \in [Markers -> Nat]
  <2>1. \A m \in Markers : Pulled(b.marks[m], f, e) \in Nat
    <3>1. \A m \in Markers : b.marks[m] \in Nat
      BY DEF Buffers
    <3>2. QED BY <3>1 DEF Pulled
  <2>2. QED BY <1>8, <2>1 DEF PulledMarks
<1>10. c \in Buffers /\ c.list = r.list /\ c.own = r.own /\ c.on = r.on
  BY <1>7, <1>8, <1>9 DEF Buffers
<1>11. Kept(b, c) /\ c.text = b.text /\ c.pt = b.pt /\ c.modified = b.modified
  BY <1>6, <1>7, <1>8, <1>10 DEF Recorded, Kept, Buffers
<1>12. ASSUME b.on PROVE Owned(c).list = j \o Owned(b).list
  <2>1. CASE j # <<>>
    <3>1. c.own /\ c.list = j \o Owned(b).list
      BY <1>6, <1>10, <1>12, <2>1
    <3>2. QED BY <1>10, <3>1, OwnedList
  <2>2. CASE j = <<>>
    <3>1. c.own = b.own /\ c.list = b.list /\ c.on = b.on
      BY <1>6, <1>10, <2>2
    <3>2. Owned(c).list = Owned(b).list
      BY <1>10, <3>1, OwnedList
    <3>3. Owned(b).list \in Seq(Records)
      BY <1>5 DEF Buffers
    <3>4. QED BY <2>2, <3>2, <3>3, ConcatEmptySeq
  <2>3. QED BY <2>1, <2>2
<1>13. QED BY <1>2, <1>8, <1>11, <1>12 DEF AdjustmentsRecorded, j

(* An edit begins with at most one boundary, and with none if the last edit *)
(* was of this buffer.                                                      *)
LEMMA OwnedSeparated ==
  ASSUME NEW b \in Buffers
  PROVE  \E k : Separated(b.list, Owned(b).list, k) /\ (b.own => k = 0)
<1>1. \/ Owned(b).list = b.list
      \/ ~b.own /\ Owned(b).list = <<Boundary>> \o b.list
  BY OwnedIs
<1>2. QED BY <1>1 DEF Separated

(* A deletion recorded, and the adjustments it makes.                        *)
DeletionDone(b, s, r, a, str, f, T, w) ==
  \E d \in Nat : \E u : /\ Wrote(b, s, r, u, d, T, w) /\ u[0] = a
                        /\ r.list[1].kind = "delete" /\ r.list[1].str = str /\ At(r.list[1]) = f

(* The record of a deletion and of the adjustments of its markers leads     *)
(* back to the stages of the list.                                          *)
LEMMA DeletionWritten ==
  ASSUME NEW b \in Buffers, b.on, NEW T \in SUBSET Markers, NEW w, w.time = b.time,
         NEW s, Good(b.list, s, T, w), Agree(b, s[0], T), Unmodified(b, s, w),
         NEW f \in Nat \ {0}, NEW e \in Nat, f < e, e <= Len(b.text) + 1,
         NEW c, c = MarkersForDelete(b, f, e),
         NEW r, r = RecordDelete(c, f, Part(b.text, f, e)),
         NEW a \in Stages, a.text = Replaced(b.text, f, e, <<>>), a.marks = c.marks
  PROVE  DeletionDone(b, s, r, a, Part(b.text, f, e), f, T, w)
<1> DEFINE str == Part(b.text, f, e)
           pos == IF c.pt = f + Len(str) THEN -f ELSE f
           x == Del(str, pos)
           ol == Owned(b).list
<1>1. /\ Kept(b, c) /\ c.text = b.text /\ c.pt = b.pt /\ c.modified = b.modified
      /\ c.marks = PulledMarks(b.marks, f, e)
      /\ AdjustmentsRecorded(b, c, f, e)
  BY MarkersForDeleteIs
<1>2. b.text \in Seq(Chars) /\ b.list \in Seq(Records) /\ b.marks \in [Markers -> Nat] /\ b.pt \in Nat
  BY DEF Buffers
<1>0. f <= e
  OBVIOUS
<1>3. str \in Seq(Chars) /\ Len(str) = e - f
  BY <1>0, <1>2, PartIs
<1>4. str \in Seq(Chars) \ {<<>>}
  BY <1>3
<1>5. pos \in Int \ {0} /\ (IF pos < 0 THEN -pos ELSE pos) = f /\ pos <= f
  OBVIOUS
<1>6. x \in Records /\ x.kind = "delete" /\ x.str = str /\ x.pos = pos /\ At(x) = f
  BY <1>4, <1>5, RecordsAre DEF Del, At
<1>7. c \in Buffers /\ c.on
  BY <1>1 DEF Kept
<1>8. /\ Recorded(c, r) /\ r.own
      /\ r.list = <<x>> \o (Between(c, Owned(c).list, pos) \o Owned(c).list)
  BY <1>4, <1>7, RecordDeleteIs, ZenonT(60)
<1>9. PICK k : Separated(b.list, ol, k) /\ (b.own => k = 0)
  BY OwnedSeparated
<1>10. PICK order : Ordered(order, b, f, e) /\ Owned(c).list = Adjustments(order, b, f) \o ol
  BY <1>1 DEF AdjustmentsRecorded
<1> DEFINE j == Adjustments(order, b, f)
<1> HIDE DEF str, pos, x, ol, j
<1>11. s[0].text = b.text /\ s[0] \in Stages
  <2>1. s[0].text = b.text
    BY DEF Agree
  <2>2. 0 \in 0 .. Len(b.list)
    BY <1>2
  <2>3. QED BY <2>1, <2>2 DEF Good, Chain
<1>12. PICK q : Adjusts(j, q, b, s, T, f, e)
  <2>1. e <= Len(s[0].text) + 1
    BY <1>11
  <2>2. QED BY <1>0, <1>10, <1>11, <2>1, AdjustmentsUndone DEF j
<1>13. Middle(j, q, s, T) /\ Adjusting(x, j, q, T)
  BY <1>3, <1>6, <1>12 DEF Adjusts, Adjusting
<1>14. j \in Seq(Records) /\ ol \in Seq(Records)
  <2>1. Owned(b) \in Buffers
    BY OwnedIs DEF Recorded
  <2>2. QED BY <1>13, <2>1 DEF Middle, ol, Buffers
<1>15. Between(c, Owned(c).list, pos) = Between(b, j \o ol, pos)
  BY <1>1, <1>10 DEF Kept, Between, WherePoint, j
<1>16. r.list = <<x>> \o ((Between(b, j \o ol, pos) \o j) \o ol)
  <2> DEFINE y == Between(b, j \o ol, pos)
  <2>1. y \in Seq(Records)
    BY BetweenIs
  <2> HIDE DEF y
  <2>2. (y \o j) \o ol = y \o (j \o ol)
    BY <1>14, <2>1, Reassociated
  <2>3. r.list = <<x>> \o (y \o (j \o ol))
    BY <1>8, <1>10, <1>15 DEF y, j
  <2>4. QED BY <2>2, <2>3 DEF y
<1>17. Step(x, a, q[0], T)
  <2>1. IsTakenOut(a.text, b.text, f, e, Len(b.text)) /\ a.text \in Seq(Chars)
    BY <1>2, TakenOut
  <2>2. PICK n \in Nat : n = Len(b.text)
    BY <1>2
  <2>3. Len(a.text) = n - (e - f)
    BY <2>1, <2>2 DEF IsTakenOut
  <2>4. f <= Len(a.text) + 1
    BY <2>2, <2>3
  <2>5. Replaced(a.text, f, f, str) = b.text
    BY <1>2, DeleteBack DEF str
  <2>6. q[0].text = b.text
    BY <1>11, <1>12 DEF Adjusts
  <2>7. TextStep(x, a.text, q[0].text)
    BY <1>6, <2>4, <2>5, <2>6 DEF TextStep, IsText
  <2>8. ASSUME NEW m \in T PROVE q[0].marks[m] = MarkStep(x, m, a.marks[m], Len(a.text))
    <3>1. a.marks[m] = Pulled(b.marks[m], f, e) /\ b.marks[m] \in Nat
      BY <1>1, <1>2 DEF PulledMarks
    <3>2. MarkStep(x, m, a.marks[m], Len(a.text)) = IF a.marks[m] > f THEN a.marks[m] + (e - f) ELSE a.marks[m]
      BY <1>3, <1>6 DEF MarkStep
    <3>3. q[0].marks[m] = IF b.marks[m] > f /\ b.marks[m] <= e THEN f ELSE b.marks[m]
      BY <1>12 DEF Adjusts, Inside
    <3>4. QED BY <3>1, <3>2, <3>3 DEF Pulled
  <2>9. QED BY <2>7, <2>8 DEF Step
<1>18. pos <= Len(s[0].text) + 1
  <2>1. PICK n \in Nat : n = Len(b.text)
    BY <1>2
  <2>2. QED BY <1>5, <1>11, <2>1 DEF pos
<1>19. pos \in Int \ {0}
  BY <1>5 DEF pos
<1>20a. PICK d \in Nat : \E u :
                           Wrote(b, s, r, u, d, T, w) /\ u[0] = a /\ r.list[1] = x
  <2>1. r.list = <<Del(str, pos)>> \o ((Between(b, j \o ol, pos) \o j) \o ol)
    BY <1>16 DEF x
  <2>2. Adjusting(Del(str, pos), j, q, T) /\ Step(Del(str, pos), a, q[0], T)
    BY <1>13, <1>17 DEF x
  <2>3. WroteFrom(b, s, r, a, Del(str, pos), T, w)
    BY <1>4, <1>8, <1>9, <1>13, <1>18, <1>19, <2>1, <2>2, DeletionRecorded
  <2>4. QED BY <2>3 DEF WroteFrom, x
<1>20. PICK u :
                           Wrote(b, s, r, u, d, T, w) /\ u[0] = a /\ r.list[1] = x
  BY <1>20a
<1>21. QED BY <1>6, <1>20 DEF DeletionDone, str

-----------------------------------------------------------------------------
(* What the editing functions make of a buffer, recorded or not.             *)
LEMMA DeletedPart ==
  ASSUME NEW b \in Buffers, NEW f \in Nat \ {0}, NEW e \in Nat, f < e, e <= Len(b.text) + 1
  PROVE  /\ Part(b.text, f, e) \in Seq(Chars) \ {<<>>} /\ Part(b.text, f, e) \in Seq(Chars)
         /\ Len(Part(b.text, f, e)) = e - f
<1>1. b.text \in Seq(Chars) /\ f <= e
  BY DEF Buffers
<1>2. Part(b.text, f, e) \in Seq(Chars) /\ Len(Part(b.text, f, e)) = e - f
  BY <1>1, PartIs, ZenonT(60)
<1>3. Len(Part(b.text, f, e)) # 0
  BY <1>2
<1>4. QED BY <1>2, <1>3

(* record_insert changes the list only.                                     *)
LEMMA RecordInsertKeeps ==
  ASSUME NEW b \in Buffers, NEW at \in Nat \ {0}, NEW n \in Nat \ {0}
  PROVE  Recorded(b, RecordInsert(b, at, n))
<1>1. CASE b.on
  BY <1>1, RecordInsertIs
<1>2. CASE ~b.on
  BY <1>2 DEF RecordInsert, Recorded
<1>3. QED BY <1>1, <1>2

(* record_delete changes the list only.                                     *)
LEMMA RecordDeleteKeeps ==
  ASSUME NEW b \in Buffers, NEW beg \in Nat \ {0}, NEW str \in Seq(Chars) \ {<<>>}
  PROVE  Recorded(b, RecordDelete(b, beg, str))
<1>1. CASE b.on
  BY <1>1, RecordDeleteIs
<1>2. CASE ~b.on
  BY <1>2 DEF RecordDelete, Recorded
<1>3. QED BY <1>1, <1>2

(* The markers after an insertion.                                           *)
PushedOn(m, p, at, n, before) == IF p > at \/ (p = at /\ (m \in Advancing \/ before)) THEN p + n ELSE p

PushedMarks(p, at, n, before) == [m \in Markers |-> PushedOn(m, p[m], at, n, before)]

Remarked(b, c, p) ==
  /\ Kept(b, c) /\ c.text = b.text /\ c.pt = b.pt /\ c.modified = b.modified
  /\ c.list = b.list /\ c.own = b.own
  /\ c.marks = p

(* Where adjust_markers_for_insert puts the markers.                        *)
LEMMA MarkersForInsertIs ==
  ASSUME NEW b \in Buffers, NEW at \in Nat, NEW n \in Nat, NEW before \in BOOLEAN,
         NEW c, c = MarkersForInsert(b, at, n, before)
  PROVE  Remarked(b, c, PushedMarks(b.marks, at, n, before))
<1>1. c.marks = PushedMarks(b.marks, at, n, before) /\ c = [b EXCEPT !.marks = c.marks]
  BY DEF MarkersForInsert, PushedOn, PushedMarks, Buffers
<1>2. \A m \in Markers : PushedOn(m, b.marks[m], at, n, before) \in Nat
  <2>1. \A m \in Markers : b.marks[m] \in Nat
    BY DEF Buffers
  <2>2. QED BY <2>1 DEF PushedOn
<1>3. c.marks \in [Markers -> Nat]
  BY <1>1, <1>2 DEF PushedMarks
<1>4. c \in Buffers
  BY <1>1, <1>3 DEF Buffers
<1>5. QED BY <1>1, <1>4 DEF Remarked, Kept, Buffers

(* Text, point and list of a buffer replaced.                                *)
Edited(b, c, text, pt, marks, r) ==
  /\ Kept(b, c) /\ c.modified = TRUE /\ c.list = r.list /\ c.own = r.own
  /\ c.pt = pt /\ c.text = text /\ c.marks = marks

(* What an insertion makes of a buffer.                                     *)
LEMMA InsertedIs ==
  ASSUME NEW b \in Buffers, b.pt <= Len(b.text) + 1, NEW str \in Seq(Chars) \ {<<>>}, NEW before \in BOOLEAN,
         NEW r, r = RecordInsert(b, b.pt, Len(str)), NEW c, c = Inserted(b, str, before)
  PROVE  Edited(b, c, Replaced(b.text, b.pt, b.pt, str), b.pt + Len(str),
                PushedMarks(b.marks, b.pt, Len(str), before), r)
<1> DEFINE g == [r EXCEPT !.modified = TRUE, !.text = Replaced(@, b.pt, b.pt, str)]
           h == MarkersForInsert(g, b.pt, Len(str), before)
<1>1. b.pt \in Nat \ {0} /\ b.text \in Seq(Chars) /\ Len(str) \in Nat \ {0}
  BY DEF Buffers
<1>2. Recorded(b, r)
  BY <1>1, RecordInsertKeeps
<1>3. c = [h EXCEPT !.pt = @ + Len(str)]
  BY DEF Inserted
<1>4. Replaced(b.text, b.pt, b.pt, str) \in Seq(Chars)
  <2>1. str \in Seq(Chars)
    OBVIOUS
  <2>2. QED BY <1>1, <2>1, PutIn
<1>5. g = [r EXCEPT !.modified = TRUE, !.text = Replaced(b.text, b.pt, b.pt, str)]
  BY <1>2 DEF Recorded
<1> HIDE DEF g, h
<1>6. /\ g \in Buffers /\ g.list = r.list /\ g.own = r.own /\ g.pt = b.pt /\ g.marks = b.marks /\ g.modified
      /\ g.text = Replaced(b.text, b.pt, b.pt, str)
      /\ g.astray = r.astray /\ g.on = r.on /\ g.time = r.time /\ g.last = r.last /\ g.here = r.here
      /\ g.error = r.error
  BY <1>2, <1>4, <1>5 DEF Recorded, Buffers
<1>7. /\ Kept(g, h) /\ h.text = g.text /\ h.pt = g.pt /\ h.modified = g.modified
      /\ h.list = g.list /\ h.own = g.own
      /\ h.marks = PushedMarks(g.marks, b.pt, Len(str), before)
  <2>1. b.pt \in Nat /\ Len(str) \in Nat
    BY <1>1
  <2>2. h = MarkersForInsert(g, b.pt, Len(str), before)
    BY DEF h
  <2>3. Remarked(g, h, PushedMarks(g.marks, b.pt, Len(str), before))
    BY <1>6, <2>1, <2>2, MarkersForInsertIs
  <2>4. QED BY <2>3 DEF Remarked
<1>8. h \in Buffers /\ b.pt + Len(str) \in Nat \ {0} /\ c = [h EXCEPT !.pt = b.pt + Len(str)]
  BY <1>1, <1>3, <1>6, <1>7 DEF Kept
<1>9. /\ c \in Buffers /\ c.list = r.list /\ c.own = r.own /\ c.pt = b.pt + Len(str) /\ c.modified
      /\ c.text = g.text /\ c.marks = h.marks
      /\ c.astray = h.astray /\ c.on = h.on /\ c.time = h.time /\ c.last = h.last /\ c.here = h.here
      /\ c.error = h.error
  BY <1>6, <1>7, <1>8, ZenonT(60) DEF Buffers
<1>10. Kept(b, c)
  BY <1>2, <1>6, <1>7, <1>9 DEF Kept, Recorded
<1>11. QED BY <1>6, <1>7, <1>9, <1>10 DEF Edited

(* Point after a replacement.                                                *)
LEMMA PointAfterIs ==
  ASSUME NEW p \in Nat \ {0}, NEW f \in Nat \ {0}, NEW e \in Nat, f <= e, NEW n \in Nat
  PROVE  /\ PointAfter(p, f, e, n) \in Nat \ {0}
         /\ \A k \in Nat : p <= k + 1 /\ e <= k + 1 => PointAfter(p, f, e, n) <= (k - (e - f) + n) + 1
  BY DEF PointAfter

(* What del_range_2 makes of a buffer.                                      *)
LEMMA DeletedIs ==
  ASSUME NEW b \in Buffers, NEW f \in Nat \ {0}, NEW e \in Nat, f < e, e <= Len(b.text) + 1,
         NEW r, r = RecordDelete(MarkersForDelete(b, f, e), f, Part(b.text, f, e)),
         NEW c, c = Deleted(b, f, e)
  PROVE  Edited(b, c, Replaced(b.text, f, e, <<>>), PointAfter(b.pt, f, e, 0),
                PulledMarks(b.marks, f, e), r)
<1> DEFINE g == MarkersForDelete(b, f, e)
           str == Part(b.text, f, e)
<1>1. b.pt \in Nat \ {0} /\ b.text \in Seq(Chars) /\ f <= e
  BY DEF Buffers
<1>2. str \in Seq(Chars) \ {<<>>}
  BY DeletedPart
<1>3. /\ Kept(b, g) /\ g.text = b.text /\ g.pt = b.pt /\ g.modified = b.modified
      /\ g.marks = PulledMarks(b.marks, f, e)
  BY <1>1, MarkersForDeleteIs
<1>4. c = [r EXCEPT !.modified = TRUE, !.pt = PointAfter(@, f, e, 0), !.text = Replaced(@, f, e, <<>>)]
  BY DEF Deleted
<1>5. Replaced(b.text, f, e, <<>>) \in Seq(Chars)
  BY <1>1, TakenOut
<1>6. PointAfter(b.pt, f, e, 0) \in Nat \ {0}
  BY <1>1, PointAfterIs
<1> HIDE DEF g, str
<1>7. Recorded(g, r)
  <2>1. g \in Buffers
    BY <1>3 DEF Kept
  <2>2. r = RecordDelete(g, f, str)
    BY DEF g, str
  <2>3. QED BY <1>2, <2>1, <2>2, RecordDeleteKeeps
<1>8. c = [r EXCEPT !.modified = TRUE, !.pt = PointAfter(b.pt, f, e, 0), !.text = Replaced(b.text, f, e, <<>>)]
  BY <1>3, <1>4, <1>7 DEF Recorded
<1>9. /\ c \in Buffers /\ c.list = r.list /\ c.own = r.own /\ c.modified = TRUE
      /\ c.pt = PointAfter(b.pt, f, e, 0) /\ c.text = Replaced(b.text, f, e, <<>>) /\ c.marks = r.marks
      /\ c.astray = r.astray /\ c.on = r.on /\ c.time = r.time /\ c.last = r.last /\ c.here = r.here
      /\ c.error = r.error
  BY <1>5, <1>6, <1>7, <1>8, ZenonT(60) DEF Recorded, Buffers
<1>10. Kept(b, c) /\ c.marks = PulledMarks(b.marks, f, e)
  BY <1>3, <1>7, <1>9 DEF Kept, Recorded
<1>11. QED BY <1>9, <1>10 DEF Edited

(* What replace_range makes of a buffer.                                    *)
LEMMA ReplacedRangeIs ==
  ASSUME NEW b \in Buffers, NEW f \in Nat \ {0}, NEW e \in Nat, f < e, e <= Len(b.text) + 1,
         NEW str \in Seq(Chars) \ {<<>>},
         NEW r, r = RecordInsert(RecordDelete(MarkersForDelete(b, f, e), f, Part(b.text, f, e)), f, Len(str)),
         NEW c, c = ReplacedRange(b, f, e, str)
  PROVE  Edited(b, c, Replaced(b.text, f, e, str), PointAfter(b.pt, f, e, Len(str)),
                PushedMarks(PulledMarks(b.marks, f, e), f, Len(str), FALSE), r)
<1> DEFINE g == MarkersForDelete(b, f, e)
           d == RecordDelete(g, f, Part(b.text, f, e))
           h == MarkersForInsert(r, f, Len(str), FALSE)
<1>1. /\ b.pt \in Nat \ {0} /\ b.text \in Seq(Chars) /\ f <= e /\ Len(str) \in Nat \ {0} /\ str \in Seq(Chars)
      /\ Len(str) \in Nat /\ f \in Nat
  BY DEF Buffers
<1>2. Part(b.text, f, e) \in Seq(Chars) \ {<<>>}
  BY DeletedPart
<1>3. /\ Kept(b, g) /\ g.text = b.text /\ g.pt = b.pt /\ g.modified = b.modified
      /\ g.marks = PulledMarks(b.marks, f, e)
  BY <1>1, MarkersForDeleteIs
<1>4. Recorded(g, d)
  BY <1>2, <1>3, RecordDeleteKeeps DEF Kept
<1>5. Recorded(d, r)
  <2>1. d \in Buffers
    BY <1>4 DEF Recorded
  <2>2. r = RecordInsert(d, f, Len(str))
    OBVIOUS
  <2>3. QED BY <1>1, <2>1, <2>2, RecordInsertKeeps
<1>6. c = [h EXCEPT !.modified = TRUE, !.pt = PointAfter(@, f, e, Len(str)), !.text = Replaced(@, f, e, str)]
  BY DEF ReplacedRange
<1>7. Replaced(b.text, f, e, str) \in Seq(Chars)
  BY <1>1, ReplacedIs
<1>8. PointAfter(b.pt, f, e, Len(str)) \in Nat \ {0}
  BY <1>1, PointAfterIs
<1> HIDE DEF g, d
<1>9. Remarked(r, h, PushedMarks(r.marks, f, Len(str), FALSE))
  <2>1. r \in Buffers
    BY <1>5 DEF Recorded
  <2>2. QED BY <1>1, <2>1, MarkersForInsertIs
<1> HIDE DEF h
<1>10. /\ h \in Buffers /\ h.text = b.text /\ h.pt = b.pt /\ h.list = r.list /\ h.own = r.own
       /\ h.marks = PushedMarks(PulledMarks(b.marks, f, e), f, Len(str), FALSE)
       /\ h.astray = b.astray /\ h.on = b.on /\ h.time = b.time /\ h.last = b.last /\ h.here = b.here
       /\ h.error = b.error
  BY <1>3, <1>4, <1>5, <1>9 DEF Remarked, Recorded, Kept
<1>11. c = [h EXCEPT !.modified = TRUE, !.pt = PointAfter(b.pt, f, e, Len(str)), !.text = Replaced(b.text, f, e, str)]
  BY <1>6, <1>10
<1>12. /\ c \in Buffers /\ c.list = r.list /\ c.own = r.own /\ c.modified = TRUE
       /\ c.pt = PointAfter(b.pt, f, e, Len(str)) /\ c.text = Replaced(b.text, f, e, str) /\ c.marks = h.marks
       /\ c.astray = h.astray /\ c.on = h.on /\ c.time = h.time /\ c.last = h.last /\ c.here = h.here
       /\ c.error = h.error
  BY <1>7, <1>8, <1>10, <1>11, ZenonT(60) DEF Buffers
<1>13. Kept(b, c) /\ c.marks = PushedMarks(PulledMarks(b.marks, f, e), f, Len(str), FALSE)
  BY <1>10, <1>12 DEF Kept
<1>14. QED BY <1>12, <1>13 DEF Edited

(* What record_first_change makes of a buffer.                              *)
LEMMA RecordFirstChangeIs ==
  ASSUME NEW b \in Buffers, NEW c, c = RecordFirstChange(b)
  PROVE  /\ Recorded(b, c)
         /\ b.on /\ ~b.modified => c.own /\ c.list = <<First(b.time)>> \o Owned(b).list
<1>1. CASE b.on
  <2>1. Recorded(b, Owned(b)) /\ Owned(b).own /\ Owned(b) \in Buffers
    BY OwnedIs DEF Recorded
  <2>2. /\ Recorded(Owned(b), c) /\ c.own = Owned(b).own
        /\ \/ Owned(b).modified /\ c.list = Owned(b).list
           \/ ~Owned(b).modified /\ c.list = <<First(Owned(b).time)>> \o Owned(b).list
    BY <1>1, <2>1, WithFirstIs DEF RecordFirstChange
  <2>3. QED BY <2>1, <2>2 DEF Recorded
<1>2. CASE ~b.on
  BY <1>2 DEF RecordFirstChange, Recorded
<1>3. QED BY <1>1, <1>2

(* The buffer whose text is about to change in place.                        *)
Changing(b) == [IF b.modified THEN b ELSE RecordFirstChange(b) EXCEPT !.modified = TRUE]

(* What modify_region makes of a buffer.                                    *)
LEMMA ChangingIs ==
  ASSUME NEW b \in Buffers, NEW c, c = Changing(b)
  PROVE  /\ Kept(b, c) /\ c.text = b.text /\ c.pt = b.pt /\ c.marks = b.marks /\ c.modified = TRUE
         /\ b.modified => c = b
         /\ b.on /\ ~b.modified => c.own = TRUE /\ c.list = <<First(b.time)>> \o Owned(b).list
<1>1. CASE b.modified
  <2>1. b.modified = TRUE
    BY <1>1 DEF Buffers
  <2>2. c = b
    BY <1>1, <2>1 DEF Changing, Buffers
  <2>3. QED BY <1>1, <2>1, <2>2 DEF Kept
<1>2. CASE ~b.modified
  <2> DEFINE g == RecordFirstChange(b)
  <2>1. Recorded(b, g) /\ (b.on => g.own /\ g.list = <<First(b.time)>> \o Owned(b).list)
    BY <1>2, RecordFirstChangeIs
  <2>2. c = [g EXCEPT !.modified = TRUE]
    BY <1>2 DEF Changing
  <2> HIDE DEF g
  <2>3. /\ c \in Buffers /\ c.text = g.text /\ c.pt = g.pt /\ c.marks = g.marks /\ c.modified = TRUE
        /\ c.list = g.list /\ c.own = g.own
        /\ c.astray = g.astray /\ c.on = g.on /\ c.time = g.time /\ c.last = g.last /\ c.here = g.here
        /\ c.error = g.error
    BY <2>1, <2>2 DEF Recorded, Buffers
  <2>4. c.own \in BOOLEAN
    BY <2>3 DEF Buffers
  <2>5. QED BY <1>2, <2>1, <2>3, <2>4 DEF Recorded, Kept
<1>3. QED BY <1>1, <1>2

(* What a change in place makes of a buffer.                                *)
LEMMA ChangedIs ==
  ASSUME NEW b \in Buffers, NEW f \in Nat \ {0}, NEW e \in Nat, f < e, e <= Len(b.text) + 1,
         NEW r, r = RecordInsert(RecordDelete(Changing(b), f, Part(b.text, f, e)), f, e - f),
         NEW c, c = Changed(b, f, e)
  PROVE  Edited(b, c, Cased(b.text, f, e), b.pt, b.marks, r)
<1> DEFINE g == Changing(b)
           d == RecordDelete(g, f, Part(b.text, f, e))
<1>1. b.text \in Seq(Chars) /\ f <= e /\ e - f \in Nat \ {0}
  BY DEF Buffers
<1>2. Part(b.text, f, e) \in Seq(Chars) \ {<<>>}
  BY DeletedPart
<1>3. Kept(b, g) /\ g.text = b.text /\ g.pt = b.pt /\ g.marks = b.marks /\ g.modified = TRUE
  BY ChangingIs
<1>4. Recorded(g, d)
  BY <1>2, <1>3, RecordDeleteKeeps DEF Kept
<1>5. Recorded(d, r)
  <2>1. d \in Buffers
    BY <1>4 DEF Recorded
  <2>2. r = RecordInsert(d, f, e - f)
    OBVIOUS
  <2>3. QED BY <1>1, <2>1, <2>2, RecordInsertKeeps
<1>6. c = [r EXCEPT !.text = Cased(@, f, e)]
  BY DEF Changed, Changing, Cased
<1>7. Cased(b.text, f, e) \in Seq(Chars)
  BY <1>1, CasedIsReplaced
<1> HIDE DEF g, d
<1>8. c = [r EXCEPT !.text = Cased(b.text, f, e)]
  BY <1>3, <1>4, <1>5, <1>6 DEF Recorded
<1>9. /\ c \in Buffers /\ c.list = r.list /\ c.own = r.own /\ c.modified = r.modified
      /\ c.pt = r.pt /\ c.text = Cased(b.text, f, e) /\ c.marks = r.marks
      /\ c.astray = r.astray /\ c.on = r.on /\ c.time = r.time /\ c.last = r.last /\ c.here = r.here
      /\ c.error = r.error
  BY <1>5, <1>7, <1>8 DEF Recorded, Buffers
<1>10. Kept(b, c) /\ c.pt = b.pt /\ c.marks = b.marks /\ c.modified = TRUE
  BY <1>3, <1>4, <1>5, <1>9 DEF Recorded, Kept
<1>11. QED BY <1>9, <1>10 DEF Edited

-----------------------------------------------------------------------------
(* Two edits without a boundary in between.                                  *)
LEMMA WroteTwice ==
  ASSUME NEW b \in Buffers, NEW c \in Buffers, NEW g \in Buffers, NEW T, NEW w,
         NEW s, NEW u, NEW v, NEW d \in Nat, NEW k \in Nat,
         Wrote(b, s, c, u, d, T, w), Wrote(c, u, g, v, k, T, w)
  PROVE  Wrote(b, s, g, v, d + k, T, w)
<1>1. b.list \in Seq(Records) /\ c.list \in Seq(Records) /\ g.list \in Seq(Records)
  BY DEF Buffers
<1>2. PICK n \in Nat, h \in Nat : n = Len(b.list) /\ h = Len(c.list)
  BY <1>1
<1>3. /\ Grows(b.list, s, c.list, u, d) /\ c.own /\ c.list # <<>> /\ IsText(c.list[1])
      /\ b.own => Pure(c.list, d)
      /\ NewPoints(b, s, c.list, u, d)
  BY DEF Wrote
<1>4. /\ Good(g.list, v, T, w) /\ Grows(c.list, u, g.list, v, k) /\ g.own /\ g.list # <<>> /\ IsText(g.list[1])
      /\ Pure(g.list, k)
  BY <1>3 DEF Wrote
<1>5. h = n + d /\ h # 0 /\ Len(g.list) = h + k
  BY <1>1, <1>2, <1>3, <1>4 DEF Grows
<1>6. \A i \in 1 .. h : g.list[i + k].kind = c.list[i].kind
  BY <1>2, <1>4 DEF Grows
<1>7. Grows(b.list, s, g.list, v, d + k)
  BY <1>1, <1>3, <1>4, GrowsTwice
<1>8. ASSUME NEW i \in 1 .. d + k PROVE i \in 1 .. k \/ \E x \in 1 .. d : x \in 1 .. h /\ i = x + k
  <2>1. CASE i > k
    <3>1. i - k \in 1 .. d /\ i - k \in 1 .. h /\ i = (i - k) + k
      BY <1>5, <2>1
    <3>2. QED BY <3>1
  <2>2. CASE ~(i > k)
    BY <2>2
  <2>3. QED BY <2>1, <2>2
<1>9. ASSUME b.own PROVE Pure(g.list, d + k)
  <2>1. ASSUME NEW i \in 1 .. d + k PROVE g.list[i].kind # "boundary"
    <3>1. CASE i \in 1 .. k
      BY <1>4, <3>1 DEF Pure
    <3>2. CASE \E x \in 1 .. d : x \in 1 .. h /\ i = x + k
      BY <1>3, <1>6, <1>9, <3>2 DEF Pure
    <3>3. QED BY <1>8, <3>1, <3>2
  <2>2. QED BY <2>1 DEF Pure
<1>10. ASSUME NEW i \in 1 .. d + k, EndsUnit(g.list, i), BeginsByDeleting(g.list, i), b.here, b.list # <<>>
       PROVE  PointBack(g.list, v, i, Clip(b.last, Len(s[0].text)))
  <2>1. g.list[1 + k].kind = c.list[1].kind /\ IsText(g.list[1 + k])
    <3>1. 1 \in 1 .. h
      BY <1>5
    <3>2. QED BY <1>3, <1>6, <3>1 DEF IsText
  <2>2. PICK x \in 1 .. d : x \in 1 .. h /\ i = x + k
    <3>1. ASSUME i \in 1 .. k PROVE FALSE
      <4>1. g.list[i + 1].kind = "boundary"
        <5>1. i # Len(g.list)
          BY <1>5, <3>1
        <5>2. QED BY <1>10, <5>1 DEF EndsUnit
      <4>2. CASE i + 1 \in 1 .. k
        BY <1>4, <4>1, <4>2 DEF Pure
      <4>3. CASE i + 1 \notin 1 .. k
        <5>1. i + 1 = 1 + k
          BY <3>1, <4>3
        <5>2. QED BY <2>1, <4>1, <5>1 DEF IsText
      <4>4. QED BY <4>2, <4>3
    <3>2. QED BY <1>8, <3>1
  <2>3. EndsUnit(c.list, x)
    <3>1. CASE i = Len(g.list)
      BY <1>2, <1>5, <2>2, <3>1 DEF EndsUnit
    <3>2. CASE i # Len(g.list)
      <4>1. g.list[i + 1].kind = "boundary"
        BY <1>10, <3>2 DEF EndsUnit
      <4>2. x + 1 \in 1 .. h /\ (x + 1) + k = i + 1
        BY <1>5, <2>2, <3>2
      <4>3. QED BY <1>6, <4>1, <4>2 DEF EndsUnit
    <3>3. QED BY <3>1, <3>2
  <2>4. BeginsByDeleting(c.list, x)
    <3>1. PICK y \in 1 .. i : /\ g.list[y].kind = "delete"
                              /\ \A z \in y + 1 .. i : g.list[z].kind \notin {"insert", "delete", "boundary"}
      BY <1>10 DEF BeginsByDeleting
    <3>2. y > k
      <4>1. ASSUME y <= k PROVE FALSE
        <5>1. 1 + k \in y + 1 .. i
          BY <2>2, <4>1
        <5>2. QED BY <2>1, <3>1, <5>1 DEF IsText
      <4>2. QED BY <4>1
    <3>3. PICK y0 \in 1 .. x : y0 \in 1 .. h /\ y = y0 + k
      <4>1. y - k \in 1 .. x /\ y - k \in 1 .. h /\ y = (y - k) + k
        BY <2>2, <3>2
      <4>2. QED BY <4>1
    <3>4. ASSUME NEW z \in y0 + 1 .. x PROVE c.list[z].kind \notin {"insert", "delete", "boundary"}
      <4>1. z \in 1 .. h /\ z + k \in y + 1 .. i
        BY <2>2, <3>3
      <4>2. QED BY <1>6, <3>1, <4>1
    <3>5. c.list[y0].kind = "delete"
      BY <1>6, <3>1, <3>3
    <3>6. QED BY <3>4, <3>5 DEF BeginsByDeleting
  <2>5. PointBack(c.list, u, x, Clip(b.last, Len(s[0].text)))
    BY <1>3, <1>10, <2>3, <2>4 DEF NewPoints
  <2>6. x \in 1 .. Len(c.list)
    BY <1>2, <2>2
  <2>7. QED BY <1>1, <1>4, <2>2, <2>5, <2>6, PointKept
<1>11. NewPoints(b, s, g.list, v, d + k)
  BY <1>10 DEF NewPoints
<1>12. QED BY <1>4, <1>7, <1>9, <1>11 DEF Wrote

(* A buffer B with stages S was edited, and has become C.                    *)
EditWritten(b, s, c, T, w) == \E d \in Nat : \E u : Wrote(b, s, c, u, d, T, w) /\ Agree(c, u[0], T)
HeadInsert(l, at, n) == l[1].kind = "insert" /\ l[1].beg <= at /\ l[1].end = at + n

(* What was recorded does not depend on more than the list.                 *)
LEMMA WroteAs ==
  ASSUME NEW b, NEW s, NEW r, NEW c, NEW u, NEW d, NEW T, NEW w,
         Wrote(b, s, r, u, d, T, w), c.list = r.list, c.own = r.own
  PROVE  Wrote(b, s, c, u, d, T, w)
BY DEF Wrote

(* An insertion leads back to the buffer before it, and the list to where   *)
(* it led.                                                                  *)
LEMMA InsertWritten ==
  ASSUME NEW b \in Buffers, b.on, NEW T \in SUBSET Markers, NEW w, w.time = b.time,
         NEW s, Good(b.list, s, T, w), Agree(b, s[0], T), Unmodified(b, s, w),
         b.pt <= Len(b.text) + 1, NEW str \in Seq(Chars) \ {<<>>}, NEW before \in BOOLEAN,
         NEW c, c = Inserted(b, str, before)
  PROVE  EditWritten(b, s, c, T, w) /\ HeadInsert(c.list, b.pt, Len(str))
<1> DEFINE r == RecordInsert(b, b.pt, Len(str))
           a == [text |-> c.text, marks |-> c.marks]
<1>1. Edited(b, c, Replaced(b.text, b.pt, b.pt, str), b.pt + Len(str), PushedMarks(b.marks, b.pt, Len(str), before), r)
  BY InsertedIs
<1>2. b.pt \in Nat \ {0} /\ b.marks \in [Markers -> Nat] /\ str \in Seq(Chars) /\ str # <<>> /\ c \in Buffers
  BY <1>1 DEF Buffers, Edited, Kept
<1>3. s[0].text = b.text /\ \A m \in T : s[0].marks[m] = b.marks[m]
  BY DEF Agree
<1>4. a \in Stages /\ a.text = c.text /\ a.marks = c.marks
  BY <1>2 DEF Stages, Buffers
<1>5. Shifted(a, s[0], b.pt, Len(str), T)
  <2>1. ASSUME NEW m \in T
        PROVE  \/ a.marks[m] = IF s[0].marks[m] > b.pt THEN s[0].marks[m] + Len(str) ELSE s[0].marks[m]
               \/ s[0].marks[m] = b.pt /\ a.marks[m] \in b.pt .. b.pt + Len(str)
    <3>1. a.marks[m] = PushedOn(m, b.marks[m], b.pt, Len(str), before)
      BY <1>1, <1>4 DEF Edited, PushedMarks
    <3>2. b.marks[m] \in Nat /\ Len(str) \in Nat
      BY <1>2
    <3>3. QED BY <1>2, <1>3, <3>1, <3>2 DEF PushedOn
  <2>2. QED BY <2>1 DEF Shifted
<1> HIDE DEF a
<1>6. InsertionDone(b, s, r, a, b.pt, Len(str), T, w)
  <2>1. b.pt <= Len(s[0].text) + 1 /\ a.text = Replaced(s[0].text, b.pt, b.pt, str)
    BY <1>1, <1>3, <1>4 DEF Edited
  <2>2. QED BY <1>2, <1>4, <1>5, <2>1, InsertionRecorded
<1> HIDE DEF r
<1>7a. PICK d \in Nat : \E u :
        /\ Wrote(b, s, r, u, d, T, w) /\ u[0] = a
        /\ r.list[1].kind = "insert" /\ r.list[1].beg <= b.pt /\ r.list[1].end = b.pt + Len(str)
  BY <1>6 DEF InsertionDone
<1>7. PICK u :
        /\ Wrote(b, s, r, u, d, T, w) /\ u[0] = a
        /\ r.list[1].kind = "insert" /\ r.list[1].beg <= b.pt /\ r.list[1].end = b.pt + Len(str)
  BY <1>7a
<1>8. c.list = r.list /\ c.own = r.own
  BY <1>1 DEF Edited
<1>9. Wrote(b, s, c, u, d, T, w)
  BY <1>7, <1>8, WroteAs
<1>10. Agree(c, u[0], T)
  BY <1>4, <1>7 DEF Agree
<1>11. QED BY <1>7, <1>8, <1>9, <1>10 DEF EditWritten, HeadInsert

(* So does a deletion.                                                      *)
LEMMA DeleteWritten ==
  ASSUME NEW b \in Buffers, b.on, NEW T \in SUBSET Markers, NEW w, w.time = b.time,
         NEW s, Good(b.list, s, T, w), Agree(b, s[0], T), Unmodified(b, s, w),
         NEW f \in Nat \ {0}, NEW e \in Nat, f < e, e <= Len(b.text) + 1,
         NEW c, c = Deleted(b, f, e)
  PROVE  EditWritten(b, s, c, T, w)
<1> DEFINE g == MarkersForDelete(b, f, e)
           r == RecordDelete(g, f, Part(b.text, f, e))
           a == [text |-> c.text, marks |-> c.marks]
<1>1. Edited(b, c, Replaced(b.text, f, e, <<>>), PointAfter(b.pt, f, e, 0), PulledMarks(b.marks, f, e), r)
  BY DeletedIs
<1>2. c \in Buffers
  BY <1>1 DEF Edited, Kept
<1>3. a \in Stages /\ a.text = c.text /\ a.marks = c.marks
  BY <1>2 DEF Stages, Buffers
<1>4. g.marks = PulledMarks(b.marks, f, e)
  <2>1. f <= e
    OBVIOUS
  <2>2. QED BY <2>1, MarkersForDeleteIs
<1> HIDE DEF a
<1>5. DeletionDone(b, s, r, a, Part(b.text, f, e), f, T, w)
  <2>1. a.text = Replaced(b.text, f, e, <<>>) /\ a.marks = g.marks
    BY <1>1, <1>3, <1>4 DEF Edited
  <2>2. QED BY <1>3, <2>1, DeletionWritten
<1> HIDE DEF g, r
<1>6a. PICK d \in Nat : \E u :
                          Wrote(b, s, r, u, d, T, w) /\ u[0] = a
  BY <1>5 DEF DeletionDone
<1>6. PICK u :
                          Wrote(b, s, r, u, d, T, w) /\ u[0] = a
  BY <1>6a
<1>7. Wrote(b, s, c, u, d, T, w)
  BY <1>1, <1>6, WroteAs DEF Edited
<1>8. Agree(c, u[0], T)
  BY <1>3, <1>6 DEF Agree
<1>9. QED BY <1>7, <1>8 DEF EditWritten

(* So does a replacement.                                                   *)
LEMMA ReplaceWritten ==
  ASSUME NEW b \in Buffers, b.on, NEW T \in SUBSET Markers, NEW w, w.time = b.time,
         NEW s, Good(b.list, s, T, w), Agree(b, s[0], T), Unmodified(b, s, w),
         NEW f \in Nat \ {0}, NEW e \in Nat, f < e, e <= Len(b.text) + 1,
         NEW str \in Seq(Chars) \ {<<>>},
         NEW c, c = ReplacedRange(b, f, e, str)
  PROVE  EditWritten(b, s, c, T, w)
<1> DEFINE g == MarkersForDelete(b, f, e)
           h == RecordDelete(g, f, Part(b.text, f, e))
           r == RecordInsert(h, f, Len(str))
           a == [text |-> Replaced(b.text, f, e, <<>>), marks |-> PulledMarks(b.marks, f, e)]
           z == [text |-> c.text, marks |-> c.marks]
<1>0. str \in Seq(Chars) /\ str # <<>> /\ b.marks \in [Markers -> Nat]
  BY DEF Buffers
<1>20. f <= e /\ b.text \in Seq(Chars)
  BY DEF Buffers
<1>1. Edited(b, c, Replaced(b.text, f, e, str), PointAfter(b.pt, f, e, Len(str)),
             PushedMarks(PulledMarks(b.marks, f, e), f, Len(str), FALSE), r)
  BY ReplacedRangeIs
<1>2. c \in Buffers
  BY <1>1 DEF Edited, Kept
<1>3. z \in Stages /\ z.text = c.text /\ z.marks = c.marks
  BY <1>2 DEF Stages, Buffers
<1>4. Kept(b, g) /\ g.marks = PulledMarks(b.marks, f, e)
  BY <1>20, MarkersForDeleteIs
<1>5. a \in Stages /\ a.text = Replaced(b.text, f, e, <<>>) /\ a.marks = g.marks
  <2>1. Replaced(b.text, f, e, <<>>) \in Seq(Chars)
    BY <1>20, TakenOut
  <2>2. PulledMarks(b.marks, f, e) \in [Markers -> Nat]
    BY <1>4 DEF Kept, Buffers
  <2>3. QED BY <1>4, <2>1, <2>2 DEF Stages
<1>6. h \in Buffers /\ h.on /\ h.time = b.time
  <2>1. Part(b.text, f, e) \in Seq(Chars) \ {<<>>}
    BY DeletedPart
  <2>2. g \in Buffers
    BY <1>4 DEF Kept
  <2> HIDE DEF g
  <2>3. Recorded(g, h)
    BY <2>1, <2>2, RecordDeleteKeeps
  <2>4. QED BY <1>4, <2>3 DEF Recorded, Kept
<1> HIDE DEF a, z
<1>7. DeletionDone(b, s, h, a, Part(b.text, f, e), f, T, w)
  BY <1>5, DeletionWritten
<1> HIDE DEF g, h
<1>8a. PICK d \in Nat : \E u :
                          Wrote(b, s, h, u, d, T, w) /\ u[0] = a
  BY <1>7 DEF DeletionDone
<1>8. PICK u :
                          Wrote(b, s, h, u, d, T, w) /\ u[0] = a
  BY <1>8a
<1>9. Good(h.list, u, T, w) /\ Unmodified(h, u, w)
  BY <1>8 DEF Wrote, Unmodified
<1>10. f <= Len(u[0].text) + 1
  <2>1. PICK n \in Nat : n = Len(b.text)
    BY <1>20
  <2>2. Len(a.text) = n - (e - f)
    <3>1. IsTakenOut(a.text, b.text, f, e, Len(b.text))
      BY <1>5, <1>20, TakenOut
    <3>2. QED BY <2>1, <3>1 DEF IsTakenOut
  <2>3. QED BY <1>8, <2>1, <2>2
<1>11. z.text = Replaced(u[0].text, f, f, str)
  <2>1. Replaced(b.text, f, e, str) = Replaced(Replaced(b.text, f, e, <<>>), f, f, str)
    BY <1>0, <1>20, ReplacedInParts
  <2>2. QED BY <1>1, <1>3, <1>5, <1>8, <2>1 DEF Edited
<1>12. Shifted(z, u[0], f, Len(str), T)
  <2>1. ASSUME NEW m \in T
        PROVE  \/ z.marks[m] = IF u[0].marks[m] > f THEN u[0].marks[m] + Len(str) ELSE u[0].marks[m]
               \/ u[0].marks[m] = f /\ z.marks[m] \in f .. f + Len(str)
    <3>1. u[0].marks[m] = Pulled(b.marks[m], f, e)
      BY <1>4, <1>5, <1>8 DEF PulledMarks
    <3>2. z.marks[m] = PushedOn(m, Pulled(b.marks[m], f, e), f, Len(str), FALSE)
      BY <1>1, <1>3 DEF Edited, PulledMarks, PushedMarks
    <3>3. b.marks[m] \in Nat /\ Len(str) \in Nat
      BY <1>0
    <3>4. Pulled(b.marks[m], f, e) \in Nat
      BY <3>3 DEF Pulled
    <3>5. QED BY <3>1, <3>2, <3>3, <3>4 DEF PushedOn
  <2>2. QED BY <2>1 DEF Shifted
<1>13. InsertionDone(h, u, r, z, f, Len(str), T, w)
  BY <1>0, <1>3, <1>6, <1>9, <1>10, <1>11, <1>12, InsertionRecorded
<1>14a. PICK k \in Nat : \E v :
                           Wrote(h, u, r, v, k, T, w) /\ v[0] = z
  BY <1>13 DEF InsertionDone
<1>14. PICK v :
                           Wrote(h, u, r, v, k, T, w) /\ v[0] = z
  BY <1>14a
<1> HIDE DEF r
<1>15. Wrote(h, u, c, v, k, T, w)
  BY <1>1, <1>14, WroteAs DEF Edited
<1>16. Wrote(b, s, c, v, d + k, T, w)
  BY <1>2, <1>6, <1>8, <1>15, WroteTwice
<1>17. Agree(c, v[0], T)
  BY <1>3, <1>14 DEF Agree
<1>18. d + k \in Nat
  OBVIOUS
<1>19. QED BY <1>16, <1>17, <1>18 DEF EditWritten

(* A change in place.  The markers in the part are, in the stages of the list, *)
(* already where undoing the change leaves them.                             *)
ChangedList(b, r, str, f) ==
  \E h \in Buffers, pos \in {f, -f} :
    /\ h.list = b.list /\ h.own = b.own /\ h.modified = b.modified /\ h.time = b.time
    /\ r.list = <<Del(str, pos)>> \o (Between(h, Owned(b).list, pos) \o Owned(b).list)

(* A change in place records the deletion of the old text first.            *)
LEMMA ChangeDeletes ==
  ASSUME NEW b \in Buffers, b.on, NEW f \in Nat \ {0}, NEW str \in Seq(Chars) \ {<<>>},
         NEW r, r = RecordDelete(Changing(b), f, str)
  PROVE  /\ r \in Buffers /\ r.on /\ r.own /\ r.time = b.time
         /\ ChangedList(b, r, str, f)
<1> DEFINE g == Changing(b)
           pos == IF g.pt = f + Len(str) THEN -f ELSE f
           ol == Owned(b).list
<1>1. /\ Kept(b, g) /\ g.modified = TRUE
      /\ b.modified => g = b
      /\ ~b.modified => g.own = TRUE /\ g.list = <<First(b.time)>> \o ol
  BY ChangingIs
<1>2. g \in Buffers /\ g.on
  BY <1>1 DEF Kept
<1> HIDE DEF g
<1>3. Recorded(g, r) /\ r.own /\ r.list = <<Del(str, pos)>> \o (Between(g, Owned(g).list, pos) \o Owned(g).list)
  BY <1>2, RecordDeleteIs DEF g
<1>4. r \in Buffers /\ r.on /\ r.time = b.time
  BY <1>1, <1>3 DEF Recorded, Kept
<1>5. pos \in {f, -f}
  OBVIOUS
<1>6. ol \in Seq(Records) /\ First(b.time) \in Records
  <2>1. Owned(b) \in Buffers /\ b.time \in Nat
    BY OwnedIs DEF Recorded, Buffers
  <2>2. QED BY <2>1, RecordsAre DEF Buffers
<1> HIDE DEF pos, ol
<1>7. CASE b.modified
  <2>1. r.list = <<Del(str, pos)>> \o (Between(b, ol, pos) \o ol)
    BY <1>1, <1>3, <1>7 DEF ol
  <2>2. QED BY <1>3, <1>4, <1>5, <2>1 DEF ChangedList, ol
<1>8. CASE ~b.modified
  <2> DEFINE h == [b EXCEPT !.here = FALSE]
             l == <<First(b.time)>> \o ol
  <2>1. h \in Buffers /\ h.list = b.list /\ h.own = b.own /\ h.modified = b.modified /\ h.time = b.time /\ h.here = FALSE
    BY DEF Buffers
  <2>2. Owned(g).list = l
    BY <1>1, <1>2, <1>8, OwnedList
  <2>3. ~JustBegun(l)
    <3>1. l \in Seq(Records) /\ l[1] = First(b.time) /\ l[1].kind = "first"
      <4>1. l[1] = First(b.time) /\ l \in Seq(Records)
        BY <1>6, PushedIs
      <4>2. QED BY <4>1 DEF First
    <3> HIDE DEF l
    <3>2. ASSUME NEW i \in 1 .. Len(l), l[i].kind = "boundary", \A j \in 1 .. i - 1 : l[j].kind = "adjust"
          PROVE  FALSE
      <4>1. PICK n \in Nat : n = Len(l)
        BY <3>1
      <4>2. i # 1
        BY <3>1, <3>2
      <4>3. 1 \in 1 .. i - 1
        BY <4>1, <4>2
      <4>4. QED BY <3>1, <3>2, <4>3
    <3>3. QED BY <3>2 DEF JustBegun
  <2>4. Between(g, l, pos) = <<>>
    BY <1>1, <2>3 DEF Between, WherePoint
  <2>5. Between(h, ol, pos) = <<First(b.time)>>
    <3>1. Between(h, ol, pos) = <<>> \o <<First(b.time)>>
      BY <1>8, <2>1 DEF Between, WherePoint
    <3>2. <<First(b.time)>> \in Seq(Records)
      BY <1>6
    <3>3. QED BY <3>1, <3>2, ConcatEmptySeq
  <2>6. <<>> \o l = l
    BY <1>6, ConcatEmptySeq
  <2>7. r.list = <<Del(str, pos)>> \o (Between(h, ol, pos) \o ol)
    BY <1>3, <2>2, <2>4, <2>5, <2>6
  <2>8. QED BY <1>3, <1>4, <1>5, <2>1, <2>7 DEF ChangedList, ol
<1>9. QED BY <1>7, <1>8

ChangeDone(b, s, c, T, w) ==
  \E d \in Nat : \E u : /\ Good(c.list, u, T, w) /\ Grows(b.list, s, c.list, u, d)
                        /\ Agree(c, u[0], T)

(* A change in place, undone, leads back to the text before it, with the    *)
(* markers in it collapsed.                                                 *)
LEMMA ChangeWritten ==
  ASSUME NEW b \in Buffers, b.on, NEW T \in SUBSET Markers, NEW w, w.time = b.time,
         NEW f \in Nat \ {0}, NEW e \in Nat, f < e, e <= Len(b.text) + 1,
         NEW s, Good(b.list, s, T, w), Unmodified(b, s, w), s[0].text = b.text,
         \A m \in T : s[0].marks[m] = IF m \in Inside(b, f, e) THEN f ELSE b.marks[m],
         NEW c, c = Changed(b, f, e)
  PROVE  ChangeDone(b, s, c, T, w)
<1> DEFINE str == Part(b.text, f, e)
           h == RecordDelete(Changing(b), f, str)
           r == RecordInsert(h, f, e - f)
           a == [text |-> Replaced(b.text, f, e, <<>>), marks |-> PulledMarks(b.marks, f, e)]
           z == [text |-> c.text, marks |-> c.marks]
<1>1. b.text \in Seq(Chars) /\ f <= e
  BY DEF Buffers
<1>2. b.marks \in [Markers -> Nat] /\ b.list \in Seq(Records)
  BY DEF Buffers
<1>3. str \in Seq(Chars) \ {<<>>} /\ Len(str) = e - f
  BY DeletedPart
<1>4. Edited(b, c, Cased(b.text, f, e), b.pt, b.marks, r)
  BY ChangedIs
<1>5. c \in Buffers
  BY <1>4 DEF Edited, Kept
<1>6. z \in Stages /\ z.text = c.text /\ z.marks = c.marks
  BY <1>5 DEF Stages, Buffers
<1>7. a \in Stages /\ a.text = Replaced(b.text, f, e, <<>>)
      /\ \A m \in Markers : b.marks[m] \in Nat /\ a.marks[m] = Pulled(b.marks[m], f, e) /\ a.marks[m] \in Nat
  <2>1. Replaced(b.text, f, e, <<>>) \in Seq(Chars)
    BY <1>1, TakenOut
  <2>2. \A m \in Markers : Pulled(b.marks[m], f, e) \in Nat
    <3>1. \A m \in Markers : b.marks[m] \in Nat
      BY <1>2
    <3>2. QED BY <1>1, <3>1 DEF Pulled
  <2>3. PulledMarks(b.marks, f, e) \in [Markers -> Nat]
        /\ \A m \in Markers : PulledMarks(b.marks, f, e)[m] = Pulled(b.marks[m], f, e)
    BY <2>2 DEF PulledMarks
  <2> HIDE DEF a
  <2>4. a = [text |-> Replaced(b.text, f, e, <<>>), marks |-> PulledMarks(b.marks, f, e)]
    BY DEF a
  <2>5. QED BY <1>2, <2>1, <2>2, <2>3, <2>4 DEF Stages
<1> HIDE DEF a, z, str
<1>8. h \in Buffers /\ h.on /\ h.own /\ h.time = b.time /\ ChangedList(b, h, str, f)
  BY <1>3, ChangeDeletes DEF str
<1> HIDE DEF h
<1>9. PICK g \in Buffers, pos \in {f, -f} :
        /\ g.list = b.list /\ g.own = b.own /\ g.modified = b.modified /\ g.time = b.time
        /\ h.list = <<Del(str, pos)>> \o (Between(g, Owned(b).list, pos) \o Owned(b).list)
  BY <1>8 DEF ChangedList
<1> DEFINE x == Del(str, pos)
           ol == Owned(b).list
           q == [i \in 0 .. 0 |-> s[0]]
<1>10. /\ pos \in Int \ {0} /\ pos <= f
       /\ x.kind = "delete" /\ x.str = str /\ x.pos = pos /\ At(x) = f
  BY <1>9 DEF Del, At
<1>11. s[0] \in Stages
  <2>1. 0 \in 0 .. Len(b.list)
    BY <1>2
  <2>2. QED BY <2>1 DEF Good, Chain
<1>12. PICK k : Separated(b.list, ol, k) /\ (b.own => k = 0)
  BY OwnedSeparated
<1>13. ol \in Seq(Records)
  BY OwnedIs DEF Recorded, Buffers
<1>14. q[0] = s[0]
  OBVIOUS
<1>15. Middle(<<>>, q, s, T)
  BY <1>11, NothingBetween
<1> HIDE DEF x, ol, q
<1>16. h.list = <<x>> \o ((Between(g, <<>> \o ol, pos) \o <<>>) \o ol)
  <2> DEFINE y == Between(g, ol, pos)
  <2>1. y \in Seq(Records)
    BY <1>9, BetweenIs
  <2>2. h.list = <<x>> \o (y \o ol)
    BY <1>9 DEF x, ol
  <2>3. <<>> \o ol = ol
    BY <1>13, ConcatEmptySeq
  <2> HIDE DEF y
  <2>4. y \o <<>> = y
    BY <2>1, ConcatEmptySeq
  <2>5. QED BY <2>2, <2>3, <2>4 DEF y
<1>17. Step(x, a, s[0], T)
  <2>1. PICK n \in Nat : n = Len(b.text)
    BY <1>1
  <2>2. Len(a.text) = n - (e - f)
    <3>1. IsTakenOut(a.text, b.text, f, e, Len(b.text))
      BY <1>1, <1>7, TakenOut
    <3>2. QED BY <2>1, <3>1 DEF IsTakenOut
  <2>3. f <= Len(a.text) + 1
    BY <2>1, <2>2
  <2>4. Replaced(a.text, f, f, str) = b.text
    BY <1>1, <1>7, DeleteBack DEF str
  <2>5. TextStep(x, a.text, s[0].text)
    BY <1>10, <2>3, <2>4 DEF TextStep, IsText
  <2>6. ASSUME NEW m \in T PROVE s[0].marks[m] = MarkStep(x, m, a.marks[m], Len(a.text))
    <3>1. a.marks[m] = Pulled(b.marks[m], f, e) /\ b.marks[m] \in Nat
      BY <1>7
    <3>2. MarkStep(x, m, a.marks[m], Len(a.text)) = IF a.marks[m] > f THEN a.marks[m] + (e - f) ELSE a.marks[m]
      BY <1>3, <1>10 DEF MarkStep
    <3>3. s[0].marks[m] = IF b.marks[m] > f /\ b.marks[m] <= e THEN f ELSE b.marks[m]
      BY DEF Inside
    <3>4. QED BY <3>1, <3>2, <3>3 DEF Pulled
  <2>7. QED BY <2>5, <2>6 DEF Step
<1>18. WroteFrom(g, s, h, a, x, T, w)
  <2>1. Good(g.list, s, T, w) /\ Unmodified(g, s, w) /\ w.time = g.time /\ Separated(g.list, ol, k) /\ (g.own => k = 0)
    BY <1>9, <1>12 DEF Unmodified
  <2>2. Adjusting(Del(str, pos), <<>>, q, T)
    BY DEF Adjusting
  <2>3. pos <= Len(s[0].text) + 1
    <3>1. PICK n \in Nat : n = Len(b.text)
      BY <1>1
    <3>2. QED BY <1>10, <3>1
  <2>4. Step(Del(str, pos), a, q[0], T)
    BY <1>14, <1>17 DEF x
  <2>5. h.list = <<Del(str, pos)>> \o ((Between(g, <<>> \o ol, pos) \o <<>>) \o ol)
    BY <1>16 DEF x
  <2>6. g \in Buffers /\ pos \in Int \ {0} /\ a \in Stages /\ h.own
    BY <1>7, <1>8, <1>10
  <2>7. WroteFrom(g, s, h, a, Del(str, pos), T, w)
    BY <1>3, <1>15, <2>1, <2>2, <2>3, <2>4, <2>5, <2>6, DeletionRecorded
  <2>8. QED BY <2>7 DEF x
<1>19a. PICK d \in Nat : \E u :
                           Wrote(g, s, h, u, d, T, w) /\ u[0] = a
  BY <1>18 DEF WroteFrom
<1>19. PICK u :
                           Wrote(g, s, h, u, d, T, w) /\ u[0] = a
  BY <1>19a
<1>20. Good(h.list, u, T, w) /\ Unmodified(h, u, w)
  BY <1>19 DEF Wrote, Unmodified
<1>21. PICK new \in Seq(Chars) : Len(new) = e - f /\ Cased(b.text, f, e) = Replaced(b.text, f, e, new)
  BY <1>1, CasedIsReplaced
<1>22. new # <<>> /\ r = RecordInsert(h, f, Len(new))
  BY <1>21
<1>23. f <= Len(u[0].text) + 1 /\ z.text = Replaced(u[0].text, f, f, new)
  <2>1. PICK n \in Nat : n = Len(b.text)
    BY <1>1
  <2>2. Len(a.text) = n - (e - f)
    <3>1. IsTakenOut(a.text, b.text, f, e, Len(b.text))
      BY <1>1, <1>7, TakenOut
    <3>2. QED BY <2>1, <3>1 DEF IsTakenOut
  <2>3. f <= Len(a.text) + 1
    BY <2>1, <2>2
  <2>4. Replaced(b.text, f, e, new) = Replaced(Replaced(b.text, f, e, <<>>), f, f, new)
    BY <1>1, ReplacedInParts
  <2>5. z.text = Replaced(b.text, f, e, new)
    BY <1>4, <1>6, <1>21 DEF Edited
  <2>6. QED BY <1>7, <1>19, <2>3, <2>4, <2>5
<1>24. Shifted(z, u[0], f, Len(new), T)
  <2>1. ASSUME NEW m \in T
        PROVE  \/ z.marks[m] = IF u[0].marks[m] > f THEN u[0].marks[m] + Len(new) ELSE u[0].marks[m]
               \/ u[0].marks[m] = f /\ z.marks[m] \in f .. f + Len(new)
    <3>1. u[0].marks[m] = Pulled(b.marks[m], f, e) /\ b.marks[m] \in Nat
      BY <1>7, <1>19
    <3>2. z.marks[m] = b.marks[m] /\ Len(new) = e - f
      BY <1>4, <1>6, <1>21 DEF Edited
    <3>3. QED BY <3>1, <3>2 DEF Pulled
  <2>2. QED BY <2>1 DEF Shifted
<1>25. InsertionDone(h, u, r, z, f, Len(new), T, w)
  BY <1>6, <1>8, <1>20, <1>22, <1>23, <1>24, InsertionRecorded
<1>26a. PICK j \in Nat : \E v :
                           Wrote(h, u, r, v, j, T, w) /\ v[0] = z
  BY <1>25 DEF InsertionDone
<1>26. PICK v :
                           Wrote(h, u, r, v, j, T, w) /\ v[0] = z
  BY <1>26a
<1> HIDE DEF r
<1>27. Wrote(h, u, c, v, j, T, w)
  BY <1>4, <1>26, WroteAs DEF Edited
<1>28. Wrote(g, s, c, v, d + j, T, w)
  BY <1>5, <1>8, <1>19, <1>27, WroteTwice
<1>29. Good(c.list, v, T, w) /\ Grows(b.list, s, c.list, v, d + j)
  BY <1>9, <1>28 DEF Wrote
<1>30. Agree(c, v[0], T)
  BY <1>6, <1>26 DEF Agree
<1>31. d + j \in Nat
  OBVIOUS
<1>32. QED BY <1>29, <1>30, <1>31 DEF ChangeDone

-----------------------------------------------------------------------------
(* Undoing one record.                                                       *)
LEMMA RecordKinds ==
  ASSUME NEW r \in Records
  PROVE  /\ r.kind \in {"boundary", "point", "first", "insert", "delete", "adjust"}
         /\ r.kind = "point" => r.at \in Nat \ {0}
         /\ r.kind = "first" => r.time \in Nat
         /\ r.kind = "insert" => r.beg \in Nat \ {0} /\ r.end \in Nat \ {0}
         /\ r.kind = "delete" => r.str \in Seq(Chars) \ {<<>>} /\ r.pos \in Int \ {0}
         /\ r.kind = "adjust" => r.marker \in Markers /\ r.by \in Int
BY DEF Records

(* What it makes of the buffer but for what is recorded.                     *)
UndonePoint(b, c, r) ==
  /\ b.pt <= Len(b.text) + 1 => c.pt <= Len(c.text) + 1
  /\ r.kind = "point" => c.pt = Clip(r.at, Len(c.text))
  /\ r.kind = "delete" /\ r.pos > 0 => c.pt = r.pos
  /\ r.kind \in {"boundary", "first", "adjust"} => c.pt = b.pt
UndoneModified(b, c, r) ==
  /\ IsText(r) => c.modified = TRUE
  /\ ~IsText(r) => c.modified = b.modified \/ (r.kind = "first" /\ r.time = b.time)
UndoneAs(b, c, r, z, T) ==
  /\ Kept(b, c) /\ Agree(c, z, T) /\ UndonePoint(b, c, r) /\ UndoneModified(b, c, r)
  /\ ~IsText(r) => c.list = b.list /\ c.own = b.own

PointAt(b, p) == [b EXCEPT !.pt = p]
PutBack(b, str) == Inserted(b, str, FALSE)

(* An insertion taken out.                                                   *)
LEMMA UndoneInsertIs ==
  ASSUME NEW b \in Buffers, ~b.error, NEW T \in SUBSET Markers, NEW a, NEW z, Agree(b, a, T),
         NEW r \in Records, r.kind = "insert", Step(r, a, z, T),
         NEW h, h = PointAt(b, r.beg), NEW c, c = UndoneRecord(b, r)
  PROVE  /\ h \in Buffers /\ r.beg \in Nat \ {0} /\ r.end \in Nat
         /\ r.beg < r.end /\ r.end <= Len(h.text) + 1
         /\ c = Deleted(h, r.beg, r.end) /\ UndoneAs(b, c, r, z, T)
<1>1. r.beg \in Nat \ {0} /\ r.end \in Nat \ {0} /\ r.end \in Nat
  BY RecordKinds
<1>2. /\ h \in Buffers /\ h.text = b.text /\ h.marks = b.marks /\ h.pt = r.beg /\ h.astray = b.astray
      /\ h.on = b.on /\ h.time = b.time /\ h.last = b.last /\ h.here = b.here /\ h.error = b.error
      /\ h.list = b.list /\ h.own = b.own /\ h.modified = b.modified
  BY <1>1 DEF Buffers, PointAt
<1>3. a.text = b.text /\ r.beg < r.end /\ r.end <= Len(b.text) + 1 /\ z.text = Replaced(b.text, r.beg, r.end, <<>>)
  BY DEF Step, TextStep, Agree
<1>4. r.beg < r.end /\ r.end <= Len(h.text) + 1
  BY <1>2, <1>3
<1>5. c = Deleted(h, r.beg, r.end)
  <2>1. c = UndoneInsert(b, r.beg, r.end)
    BY DEF UndoneRecord
  <2>2. InRange(b, r.beg, r.end)
    BY <1>1, <1>3 DEF InRange
  <2>3. QED BY <2>1, <2>2 DEF UndoneInsert, PointAt
<1> DEFINE d == RecordDelete(MarkersForDelete(h, r.beg, r.end), r.beg, Part(h.text, r.beg, r.end))
<1>6. Edited(h, c, Replaced(h.text, r.beg, r.end, <<>>), PointAfter(h.pt, r.beg, r.end, 0),
             PulledMarks(h.marks, r.beg, r.end), d)
  BY <1>1, <1>2, <1>4, <1>5, DeletedIs
<1> HIDE DEF d
<1>7. Kept(b, c)
  BY <1>2, <1>6 DEF Edited, Kept
<1>8. Agree(c, z, T)
  <2>1. c.text = z.text
    BY <1>2, <1>3, <1>6 DEF Edited
  <2>2. ASSUME NEW m \in T PROVE z.marks[m] = c.marks[m]
    <3>1. z.marks[m] = MarkStep(r, m, b.marks[m], Len(a.text))
      BY DEF Step, Agree
    <3>2. c.marks[m] = Pulled(b.marks[m], r.beg, r.end)
      BY <1>2, <1>6 DEF Edited, PulledMarks
    <3>3. QED BY <3>1, <3>2 DEF MarkStep, Pulled
  <2>3. QED BY <2>1, <2>2 DEF Agree
<1>9. UndonePoint(b, c, r)
  <2>1. c.pt = r.beg
    <3>1. PointAfter(r.beg, r.beg, r.end, 0) = r.beg
      BY <1>1 DEF PointAfter
    <3>2. QED BY <1>2, <1>6, <3>1 DEF Edited
  <2>2. r.beg <= Len(c.text) + 1
    <3>1. b.text \in Seq(Chars) /\ r.beg <= r.end
      BY <1>1, <1>3 DEF Buffers
    <3>2. c.text = Replaced(b.text, r.beg, r.end, <<>>)
      BY <1>2, <1>6 DEF Edited
    <3>3. IsTakenOut(c.text, b.text, r.beg, r.end, Len(b.text))
      BY <1>1, <1>3, <3>1, <3>2, TakenOut
    <3>4. PICK n \in Nat : n = Len(b.text)
      BY <3>1
    <3>5. Len(c.text) = n - (r.end - r.beg) /\ r.end <= n + 1
      BY <1>3, <3>3, <3>4 DEF IsTakenOut
    <3>6. QED BY <1>1, <1>3, <3>4, <3>5
  <2>3. QED BY <2>1, <2>2 DEF UndonePoint
<1>10. UndoneModified(b, c, r) /\ IsText(r)
  BY <1>6 DEF UndoneModified, Edited, IsText
<1>11. QED BY <1>1, <1>2, <1>4, <1>5, <1>7, <1>8, <1>9, <1>10 DEF UndoneAs

(* A deletion put back.                                                      *)
LEMMA UndoneDeleteIs ==
  ASSUME NEW b \in Buffers, ~b.error, NEW T \in SUBSET (Markers \ Advancing), NEW a, NEW z, Agree(b, a, T),
         NEW r \in Records, r.kind = "delete", Step(r, a, z, T),
         NEW h, h = PointAt(b, At(r)), NEW g, g = PutBack(h, r.str),
         NEW c, c = UndoneRecord(b, r)
  PROVE  /\ h \in Buffers /\ h.pt = At(r) /\ h.pt <= Len(h.text) + 1
         /\ g \in Buffers /\ c.list = g.list /\ c.own = g.own /\ c.text = g.text /\ c.marks = g.marks
         /\ UndoneAs(b, c, r, z, T)
<1>1. r.str \in Seq(Chars) \ {<<>>} /\ r.str \in Seq(Chars) /\ r.pos \in Int \ {0} /\ At(r) \in Nat \ {0}
  <2>1. r.str \in Seq(Chars) \ {<<>>} /\ r.pos \in Int \ {0}
    BY RecordKinds
  <2>2. QED BY <2>1 DEF At
<1>2. /\ h \in Buffers /\ h.text = b.text /\ h.marks = b.marks /\ h.pt = At(r) /\ h.astray = b.astray
      /\ h.on = b.on /\ h.time = b.time /\ h.last = b.last /\ h.here = b.here /\ h.error = b.error
      /\ h.list = b.list /\ h.own = b.own /\ h.modified = b.modified
  BY <1>1 DEF Buffers, PointAt
<1>3. a.text = b.text /\ At(r) <= Len(b.text) + 1 /\ z.text = Replaced(b.text, At(r), At(r), r.str)
  BY DEF Step, TextStep, Agree
<1>4. h.pt <= Len(h.text) + 1
  BY <1>2, <1>3
<1>5. c = IF r.pos < 0 THEN g ELSE [g EXCEPT !.pt = r.pos]
  <2>1. c = UndoneDelete(b, r.str, r.pos)
    BY DEF UndoneRecord
  <2>2. InRange(b, At(r), At(r))
    BY <1>1, <1>3 DEF InRange
  <2>3. CASE r.pos < 0
    BY <2>1, <2>2, <2>3 DEF UndoneDelete, At, PointAt, PutBack
  <2>4. CASE ~(r.pos < 0)
    BY <2>1, <2>2, <2>4 DEF UndoneDelete, At, PointAt, PutBack
  <2>5. QED BY <2>3, <2>4
<1> DEFINE d == RecordInsert(h, h.pt, Len(r.str))
<1>6. Edited(h, g, Replaced(h.text, h.pt, h.pt, r.str), h.pt + Len(r.str),
             PushedMarks(h.marks, h.pt, Len(r.str), FALSE), d)
  BY <1>1, <1>2, <1>4, InsertedIs DEF PutBack
<1> HIDE DEF d
<1>7. g \in Buffers /\ g.modified = TRUE /\ Kept(h, g) /\ g.pt = At(r) + Len(r.str)
  BY <1>2, <1>6 DEF Edited, Kept
<1>8. /\ c \in Buffers /\ c.list = g.list /\ c.own = g.own /\ c.text = g.text /\ c.marks = g.marks
      /\ c.modified = TRUE /\ c.pt = (IF r.pos < 0 THEN g.pt ELSE r.pos)
      /\ c.astray = g.astray /\ c.on = g.on /\ c.time = g.time /\ c.last = g.last /\ c.here = g.here
      /\ c.error = g.error
  <2>1. CASE r.pos < 0
    BY <1>5, <1>7, <2>1
  <2>2. CASE ~(r.pos < 0)
    <3>1. r.pos \in Nat \ {0}
      BY <1>1, <2>2
    <3>2. c = [g EXCEPT !.pt = r.pos]
      BY <1>5, <2>2
    <3>3. /\ c \in Buffers /\ c.list = g.list /\ c.own = g.own /\ c.text = g.text /\ c.marks = g.marks
          /\ c.modified = g.modified /\ c.pt = r.pos
          /\ c.astray = g.astray /\ c.on = g.on /\ c.time = g.time /\ c.last = g.last /\ c.here = g.here
          /\ c.error = g.error
      BY <1>7, <3>1, <3>2 DEF Buffers
    <3>4. QED BY <1>7, <2>2, <3>3
  <2>3. QED BY <2>1, <2>2
<1>9. Kept(b, c)
  BY <1>2, <1>7, <1>8 DEF Kept
<1>10. Agree(c, z, T)
  <2>1. c.text = z.text
    BY <1>2, <1>3, <1>6, <1>8 DEF Edited
  <2>2. ASSUME NEW m \in T PROVE z.marks[m] = c.marks[m]
    <3>1. z.marks[m] = MarkStep(r, m, b.marks[m], Len(a.text))
      BY DEF Step, Agree
    <3>2. c.marks[m] = PushedOn(m, b.marks[m], At(r), Len(r.str), FALSE)
      <4>1. c.marks = PushedMarks(b.marks, At(r), Len(r.str), FALSE)
        BY <1>2, <1>6, <1>8 DEF Edited
      <4>2. QED BY <4>1 DEF PushedMarks
    <3>3. m \notin Advancing
      OBVIOUS
    <3>4. QED BY <3>1, <3>2, <3>3 DEF MarkStep, PushedOn
  <2>3. QED BY <2>1, <2>2 DEF Agree
<1>11. UndonePoint(b, c, r)
  <2>0. b.text \in Seq(Chars)
    BY DEF Buffers
  <2>1. PICK n \in Nat, k \in Nat : n = Len(b.text) /\ k = Len(r.str)
    BY <1>1, <2>0
  <2>2. Len(c.text) = n + k
    <3>1. b.text \in Seq(Chars)
      BY DEF Buffers
    <3>2. c.text = Replaced(b.text, At(r), At(r), r.str)
      BY <1>2, <1>6, <1>8 DEF Edited
    <3>3. IsPutIn(c.text, b.text, At(r), r.str, n, k)
      BY <1>1, <1>3, <2>1, <3>1, <3>2, PutIn
    <3>4. QED BY <3>3 DEF IsPutIn
  <2>3. c.pt = IF r.pos < 0 THEN At(r) + k ELSE At(r)
    BY <1>7, <1>8, <2>1 DEF At
  <2>4. c.pt <= Len(c.text) + 1
    <3>1. PICK p \in Nat : p = At(r) /\ p <= n + 1
      BY <1>1, <1>3, <2>1
    <3>2. c.pt = p \/ c.pt = p + k
      BY <2>3, <3>1
    <3>3. QED BY <2>2, <3>1, <3>2
  <2>5. r.pos > 0 => c.pt = r.pos
    <3>1. r.pos > 0 => ~(r.pos < 0)
      BY <1>1
    <3>2. QED BY <1>8, <3>1
  <2>6. QED BY <2>4, <2>5 DEF UndonePoint
<1>12. UndoneModified(b, c, r) /\ IsText(r)
  BY <1>8 DEF UndoneModified, IsText
<1>13. QED BY <1>2, <1>4, <1>7, <1>8, <1>9, <1>10, <1>11, <1>12 DEF UndoneAs

(* Fgoto_char and Fset_marker stay in the text.                             *)
LEMMA ClippedIs ==
  ASSUME NEW b \in Buffers, NEW p \in Int
  PROVE  /\ Clipped(b, p) = Clip(p, Len(b.text)) /\ Clipped(b, p) \in Nat \ {0}
         /\ Clipped(b, p) <= Len(b.text) + 1
<1>1. PICK n \in Nat : n = Len(b.text)
  BY DEF Buffers
<1>2. QED BY <1>1 DEF Clipped, Clip

(* A place, a time, a marker put back.                                       *)
LEMMA UndoneOtherIs ==
  ASSUME NEW b \in Buffers, ~b.error, NEW T \in SUBSET Markers, NEW a, NEW z, Agree(b, a, T),
         NEW r \in Records, ~IsText(r), Step(r, a, z, T),
         NEW c, c = UndoneRecord(b, r)
  PROVE  UndoneAs(b, c, r, z, T)
<1>1. z.text = b.text /\ a.text = b.text
  BY DEF Step, TextStep, Agree
<1>2. \A m \in T : z.marks[m] = MarkStep(r, m, b.marks[m], Len(b.text))
  BY <1>1 DEF Step, Agree
<1>3. /\ r.kind = "point" => r.at \in Nat \ {0}
      /\ r.kind = "first" => r.time \in Nat
      /\ r.kind = "adjust" => r.marker \in Markers /\ r.by \in Int
      /\ r.kind \in {"boundary", "point", "first", "adjust"}
  BY RecordKinds DEF IsText
<1>4. ASSUME r.kind # "adjust" PROVE \A m \in T : z.marks[m] = b.marks[m]
  BY <1>2, <1>4 DEF MarkStep, IsText
<1>5. CASE r.kind = "boundary"
  <2>1. c = b
    BY <1>5 DEF UndoneRecord
  <2>2. QED BY <1>1, <1>4, <1>5, <2>1 DEF UndoneAs, Kept, Agree, UndonePoint, UndoneModified, IsText
<1>6. CASE r.kind = "point"
  <2>1. c = [b EXCEPT !.pt = Clipped(b, r.at)]
    BY <1>6 DEF UndoneRecord
  <2>2. r.at \in Int
    BY <1>3, <1>6
  <2>3. Clipped(b, r.at) = Clip(r.at, Len(b.text)) /\ Clipped(b, r.at) \in Nat \ {0} /\ Clipped(b, r.at) <= Len(b.text) + 1
    BY <2>2, ClippedIs
  <2>4. /\ Kept(b, c) /\ c.pt = Clipped(b, r.at) /\ c.text = b.text /\ c.marks = b.marks /\ c.modified = b.modified
        /\ c.list = b.list /\ c.own = b.own
    BY <2>1, <2>3 DEF Kept, Buffers
  <2>5. QED BY <1>1, <1>4, <1>6, <2>3, <2>4 DEF UndoneAs, Agree, UndonePoint, UndoneModified, IsText
<1>7. CASE r.kind = "first"
  <2>1. c = IF r.time = b.time THEN [b EXCEPT !.modified = FALSE] ELSE b
    BY <1>7 DEF UndoneRecord, UndoneFirst
  <2>2. /\ Kept(b, c) /\ c.pt = b.pt /\ c.text = b.text /\ c.marks = b.marks
        /\ c.modified = b.modified \/ r.time = b.time
        /\ c.list = b.list /\ c.own = b.own
    BY <2>1 DEF Kept, Buffers
  <2>3. QED BY <1>1, <1>4, <1>7, <2>2 DEF UndoneAs, Agree, UndonePoint, UndoneModified, IsText
<1>8. CASE r.kind = "adjust"
  <2> DEFINE x == r.marker
  <2>1. c = IF b.marks[x] = Nowhere THEN b ELSE [b EXCEPT !.marks[x] = Clipped(b, @ - r.by)]
    BY <1>8 DEF UndoneRecord, UndoneAdjust
  <2>2. x \in Markers /\ r.by \in Int /\ b.marks[x] \in Nat
    BY <1>3, <1>8 DEF Buffers
  <2>3. b.marks[x] - r.by \in Int
    BY <2>2
  <2>4. Clipped(b, b.marks[x] - r.by) = Clip(b.marks[x] - r.by, Len(b.text)) /\ Clipped(b, b.marks[x] - r.by) \in Nat
    BY <2>3, ClippedIs
  <2>5. /\ Kept(b, c) /\ c.pt = b.pt /\ c.text = b.text /\ c.modified = b.modified /\ c.list = b.list /\ c.own = b.own
        /\ \A m \in Markers : c.marks[m] = IF m = x /\ b.marks[x] # Nowhere THEN Clip(b.marks[x] - r.by, Len(b.text))
                                           ELSE b.marks[m]
    <3>1. CASE b.marks[x] = Nowhere
      BY <2>1, <3>1 DEF Kept
    <3>2. CASE b.marks[x] # Nowhere
      <4>1. c = [b EXCEPT !.marks[x] = Clip(b.marks[x] - r.by, Len(b.text))]
        BY <2>1, <2>4, <3>2
      <4>2. b.marks \in [Markers -> Nat]
        BY DEF Buffers
      <4>3. /\ c.marks = [b.marks EXCEPT ![x] = Clip(b.marks[x] - r.by, Len(b.text))]
            /\ c.pt = b.pt /\ c.text = b.text /\ c.modified = b.modified /\ c.list = b.list /\ c.own = b.own
            /\ c.astray = b.astray /\ c.on = b.on /\ c.time = b.time /\ c.last = b.last /\ c.here = b.here
            /\ c.error = b.error
        BY <4>1 DEF Buffers
      <4>4. /\ c.marks \in [Markers -> Nat]
            /\ \A m \in Markers : c.marks[m] = IF m = x THEN Clip(b.marks[x] - r.by, Len(b.text)) ELSE b.marks[m]
        BY <2>2, <2>4, <4>2, <4>3
      <4>5. c \in Buffers
        <5>1. c = [b EXCEPT !.marks = c.marks]
          BY <4>1, <4>3 DEF Buffers
        <5>2. QED BY <4>4, <5>1 DEF Buffers
      <4>6. QED BY <3>2, <4>3, <4>4, <4>5 DEF Kept
    <3>3. QED BY <3>1, <3>2
  <2>6. Agree(c, z, T)
    <3>1. ASSUME NEW m \in T PROVE z.marks[m] = c.marks[m]
      <4>1. m \in Markers
        OBVIOUS
      <4>2. QED BY <1>2, <1>8, <2>5, <4>1 DEF MarkStep
    <3>2. QED BY <1>1, <2>5, <3>1 DEF Agree
  <2>7. QED BY <1>1, <1>8, <2>5, <2>6 DEF UndoneAs, UndonePoint, UndoneModified, IsText
<1>9. QED BY <1>3, <1>5, <1>6, <1>7, <1>8

(* A record undone in a buffer that agrees with the stage before it makes   *)
(* it agree with the stage after it, and there is no error.                 *)
LEMMA UndoneIs ==
  ASSUME NEW b \in Buffers, ~b.error, NEW T \in SUBSET (Markers \ Advancing), NEW a, NEW z, Agree(b, a, T),
         NEW r \in Records, Step(r, a, z, T), NEW c, c = UndoneRecord(b, r)
  PROVE  UndoneAs(b, c, r, z, T)
<1>1. T \in SUBSET Markers
  OBVIOUS
<1>2. CASE r.kind = "insert"
  <2> DEFINE h == PointAt(b, r.beg)
  <2> HIDE DEF h
  <2>1. h = PointAt(b, r.beg)
    BY DEF h
  <2>2. QED BY <1>1, <1>2, <2>1, UndoneInsertIs
<1>3. CASE r.kind = "delete"
  <2> DEFINE h == PointAt(b, At(r))
             g == PutBack(h, r.str)
  <2> HIDE DEF h, g
  <2>1. h = PointAt(b, At(r)) /\ g = PutBack(h, r.str)
    BY DEF h, g
  <2>2. QED BY <1>3, <2>1, UndoneDeleteIs
<1>4. CASE ~IsText(r)
  BY <1>1, <1>4, UndoneOtherIs
<1>5. QED BY <1>2, <1>3, <1>4 DEF IsText

-----------------------------------------------------------------------------
(* Undoing is recorded.                                                      *)

MovedTo(c, g, x, p, T) == \A m \in T : g.marks[m] = IF m = x THEN p ELSE c.marks[m]
Restaged(c, u, g, T, w) == \E v : Wrote(c, u, g, v, 0, T, w) /\ Agree(g, v[0], T)

(* A marker put back into what was just put back: undoing the recorded         *)
(* insertion leads to the same stage as before.                              *)
LEMMA AdjustmentRedone ==
  ASSUME NEW c \in Buffers, NEW T \in SUBSET Markers, NEW w, NEW u, Good(c.list, u, T, w), Agree(c, u[0], T),
         c.own, c.list # <<>>,
         NEW at \in Nat \ {0}, NEW n \in Nat, HeadInsert(c.list, at, n),
         NEW x \in T, c.marks[x] = at, NEW by \in Int, by < 0, -by <= n,
         NEW g \in Buffers, g.list = c.list, g.own = c.own, g.text = c.text,
         MovedTo(c, g, x, Clip(at - by, Len(c.text)), T)
  PROVE  Restaged(c, u, g, T, w)
<1> DEFINE l == c.list
           r == l[1]
           a == [text |-> g.text, marks |-> g.marks]
<1>1. l \in Seq(Records) /\ l # <<>>
  BY DEF Buffers
<1>2. PICK k \in Nat : k = Len(l) /\ k # 0
  BY <1>1
<1>3. r \in Records /\ r.kind = "insert" /\ r.beg <= at /\ r.end = at + n
  BY <1>1, <1>2 DEF HeadInsert
<1>4. r.beg \in Nat \ {0} /\ r.end \in Nat \ {0}
  BY <1>3, RecordKinds
<1>5. a \in Stages /\ a.text = g.text /\ a.marks = g.marks
  BY DEF Stages, Buffers
<1>6. u[0].text = c.text /\ \A m \in T : u[0].marks[m] = c.marks[m]
  BY DEF Agree
<1>7. Step(r, u[0], u[1], T)
  <2>1. 1 \in 1 .. k /\ 1 - 1 = 0
    BY <1>2
  <2>2. QED BY <1>2, <2>1 DEF Good, Chain
<1> HIDE DEF l, r, a
<1>8. Step(r, a, u[1], T)
  <2>1. TextStep(r, a.text, u[1].text)
    BY <1>5, <1>6, <1>7 DEF Step
  <2>2. r.end <= Len(c.text) + 1
    BY <1>3, <1>6, <1>7 DEF Step, TextStep
  <2>3. ASSUME NEW m \in T PROVE u[1].marks[m] = MarkStep(r, m, a.marks[m], Len(a.text))
    <3>1. u[1].marks[m] = MarkStep(r, m, c.marks[m], Len(c.text))
      BY <1>6, <1>7 DEF Step
    <3>2. CASE m # x
      BY <1>3, <1>5, <3>1, <3>2 DEF MarkStep, MovedTo
    <3>3. CASE m = x
      <4>1. PICK h \in Nat : h = Len(c.text)
        BY DEF Buffers
      <4>2. at - by \in Nat /\ at - by > at /\ at - by <= r.end /\ at - by <= h + 1 /\ at - by >= 1
        BY <1>3, <2>2, <4>1
      <4>3. a.marks[m] = at - by
        BY <1>5, <3>3, <4>1, <4>2 DEF Clip, MovedTo
      <4>4. MarkStep(r, m, at - by, Len(a.text)) = r.beg
        BY <1>3, <1>4, <4>2 DEF MarkStep
      <4>5. MarkStep(r, m, at, Len(c.text)) = r.beg
        BY <1>3, <1>4 DEF MarkStep
      <4>6. QED BY <3>1, <3>3, <4>3, <4>4, <4>5
    <3>4. QED BY <3>2, <3>3
  <2>4. QED BY <2>1, <2>3 DEF Step
<1>9. <<r>> \o Tail(l) = l
  BY <1>1, HeadTailProperties DEF r
<1>10. Chain(l, u, T)
  BY DEF Good, l
<1>11. PICK v : Chain(l, v, T) /\ Grows(l, u, l, v, 0) /\ v[0] = a
  <2>1. r = l[1] /\ l[1].kind = "insert"
    BY <1>3 DEF r
  <2>2. \E v : Chain(<<r>> \o Tail(l), v, T) /\ Grows(l, u, <<r>> \o Tail(l), v, 0) /\ v[0] = a
    BY <1>1, <1>3, <1>5, <1>8, <1>10, <2>1, ChainJoined
  <2>3. QED BY <1>9, <2>2
<1>12. Good(l, v, T, w)
  <2>1. Good(l, u, T, w)
    BY DEF l
  <2>2. \A j \in 1 .. 0 : FALSE
    OBVIOUS
  <2>3. QED BY <1>1, <1>11, <2>1, <2>2, GoodKept
<1>13. Wrote(c, u, g, v, 0, T, w)
  <2>1. Pure(l, 0) /\ NewPoints(c, u, l, v, 0)
    BY DEF Pure, NewPoints
  <2>2. IsText(l[1])
    BY <1>3 DEF IsText, r
  <2>3. QED BY <1>1, <1>11, <1>12, <2>1, <2>2 DEF Wrote, l
<1>14. Agree(g, v[0], T)
  BY <1>5, <1>11 DEF Agree
<1>15. QED BY <1>13, <1>14 DEF Restaged

(* What is recorded when the records of L up to I, whose stages are Z, were     *)
(* undone in the buffer B with stages S, which has become C.                 *)
Untouched(b, s, c, l, i, T) ==
  c.list = b.list /\ c.own = b.own /\ Agree(c, s[0], T) /\ \A q \in 1 .. i : ~IsText(l[q])
HeadFits(c, l, i) ==
  \A q \in 1 .. i : l[q].kind = "delete" /\ NoTextIn(l, q + 1, i) =>
    HeadInsert(c.list, At(l[q]), Len(l[q].str))
Touched(b, s, c, l, i, T, w) == EditWritten(b, s, c, T, w) /\ HeadFits(c, l, i)
InUnit(l, i) == TextLeft(l, i) /\ \E q \in 1 .. i : IsText(l[q])
Progress(b, s, l, z, i, c, T, w) ==
  /\ Kept(b, c) /\ Agree(c, z[i], T) /\ c.pt <= Len(c.text) + 1
  /\ Untouched(b, s, c, l, i, T) \/ Touched(b, s, c, l, i, T, w)
  /\ ~c.modified /\ w.ok => c.text = w.disk \/ InUnit(l, i)

WroteAtAll(b, s, c, u, d, T, w) == (c.list = b.list /\ c.own = b.own /\ u = s /\ d = 0) \/ Wrote(b, s, c, u, d, T, w)
(* Whatever was undone so far, the buffer has a good list.                  *)
LEMMA ProgressStages ==
  ASSUME NEW b \in Buffers, NEW T, NEW w, NEW s, Good(b.list, s, T, w),
         NEW l, NEW z, NEW i, NEW c, Progress(b, s, l, z, i, c, T, w)
  PROVE  \E d \in Nat : \E u :
           /\ WroteAtAll(b, s, c, u, d, T, w) /\ Agree(c, u[0], T) /\ Good(c.list, u, T, w)
           /\ Unmodified(c, u, w)
<1>1. CASE Untouched(b, s, c, l, i, T)
  <2>1. ~InUnit(l, i)
    BY <1>1 DEF Untouched, InUnit
  <2>2. Agree(c, s[0], T) /\ Good(c.list, s, T, w)
    BY <1>1 DEF Untouched
  <2>3. Unmodified(c, s, w)
    BY <2>1, <2>2 DEF Unmodified, Progress, Agree
  <2>4. WroteAtAll(b, s, c, s, 0, T, w)
    BY <1>1 DEF Untouched, WroteAtAll
  <2>5. 0 \in Nat
    OBVIOUS
  <2>6. QED BY <2>2, <2>3, <2>4, <2>5
<1>2. CASE Touched(b, s, c, l, i, T, w)
  <2>1a. PICK d \in Nat : \E u :
                            Wrote(b, s, c, u, d, T, w) /\ Agree(c, u[0], T)
    BY <1>2 DEF Touched, EditWritten
  <2>1. PICK u :
                            Wrote(b, s, c, u, d, T, w) /\ Agree(c, u[0], T)
    BY <2>1a
  <2>2. Good(c.list, u, T, w) /\ Unmodified(c, u, w)
    BY <2>1 DEF Wrote, Unmodified
  <2>3. QED BY <2>1, <2>2 DEF WroteAtAll
<1>3. QED BY <1>1, <1>2 DEF Progress

(* A record of text undone.                                                  *)
LEMMA TextRedone ==
  ASSUME NEW b \in Buffers, b.on, NEW T \in SUBSET (Markers \ Advancing), NEW w, w.time = b.time,
         NEW s, Good(b.list, s, T, w), NEW l, NEW z, NEW i \in Nat \ {0},
         l[i] \in Records, IsText(l[i]), Step(l[i], z[i - 1], z[i], T),
         NEW c, Progress(b, s, l, z, i - 1, c, T, w), ~c.error,
         NEW g, g = UndoneRecord(c, l[i])
  PROVE  Progress(b, s, l, z, i, g, T, w)
<1> DEFINE r == l[i]
           h == PointAt(c, IF r.kind = "insert" THEN r.beg ELSE At(r))
<1>1a. PICK d \in Nat : \E u :
        /\ WroteAtAll(b, s, c, u, d, T, w) /\ Agree(c, u[0], T) /\ Good(c.list, u, T, w)
        /\ Unmodified(c, u, w)
  BY ProgressStages
<1>1. PICK u :
        /\ WroteAtAll(b, s, c, u, d, T, w) /\ Agree(c, u[0], T) /\ Good(c.list, u, T, w)
        /\ Unmodified(c, u, w)
  BY <1>1a
<1>2. Kept(b, c) /\ Agree(c, z[i - 1], T) /\ c.pt <= Len(c.text) + 1
  BY DEF Progress
<1>3. c \in Buffers /\ T \in SUBSET Markers
  BY <1>2 DEF Kept
<1>4. UndoneAs(c, g, r, z[i], T)
  BY <1>2, <1>3, UndoneIs
<1>5. g \in Buffers
  BY <1>4 DEF UndoneAs, Kept
<1>6. /\ h \in Buffers /\ h.text = c.text /\ h.marks = c.marks /\ h.on = c.on /\ h.time = c.time
      /\ h.last = c.last /\ h.here = c.here /\ h.list = c.list /\ h.own = c.own /\ h.modified = c.modified
  <2>1. (IF r.kind = "insert" THEN r.beg ELSE At(r)) \in Nat \ {0}
    <3>1. r.kind = "insert" => r.beg \in Nat \ {0}
      BY RecordKinds
    <3>2. r.kind # "insert" => r.pos \in Int \ {0}
      BY RecordKinds DEF IsText
    <3>3. QED BY <3>1, <3>2 DEF At
  <2>2. QED BY <1>3, <2>1 DEF Buffers, PointAt
<1>7. Good(h.list, u, T, w) /\ Agree(h, u[0], T) /\ Unmodified(h, u, w) /\ h.on /\ w.time = h.time
  BY <1>1, <1>2, <1>6 DEF Agree, Unmodified, Kept
<1>8. /\ EditWritten(h, u, g, T, w)
      /\ r.kind = "delete" => HeadInsert(g.list, At(r), Len(r.str))
  <2>1. CASE r.kind = "insert"
    <3>1. h = PointAt(c, r.beg)
      BY <2>1
    <3> HIDE DEF h
    <3>2. /\ r.beg \in Nat \ {0} /\ r.end \in Nat /\ r.beg < r.end /\ r.end <= Len(h.text) + 1
          /\ g = Deleted(h, r.beg, r.end)
      BY <1>2, <1>3, <2>1, <3>1, UndoneInsertIs
    <3>3. EditWritten(h, u, g, T, w)
      BY <1>3, <1>6, <1>7, <3>2, DeleteWritten
    <3>4. QED BY <2>1, <3>3
  <2>2. CASE r.kind = "delete"
    <3> DEFINE f == PutBack(h, r.str)
    <3>1. h = PointAt(c, At(r))
      BY <2>2
    <3>2. f = PutBack(h, r.str)
      OBVIOUS
    <3> HIDE DEF h, f
    <3>3. /\ h.pt = At(r) /\ h.pt <= Len(h.text) + 1
          /\ f \in Buffers /\ g.list = f.list /\ g.own = f.own /\ g.text = f.text /\ g.marks = f.marks
      BY <1>2, <1>3, <2>2, <3>1, <3>2, UndoneDeleteIs
    <3>4. r.str \in Seq(Chars) \ {<<>>}
      BY <2>2, RecordKinds
    <3>5. EditWritten(h, u, f, T, w) /\ HeadInsert(f.list, h.pt, Len(r.str))
      BY <1>3, <1>6, <1>7, <3>2, <3>3, <3>4, InsertWritten DEF PutBack
    <3>6a. PICK k \in Nat : \E v :
                              Wrote(h, u, f, v, k, T, w) /\ Agree(f, v[0], T)
      BY <3>5 DEF EditWritten
    <3>6. PICK v :
                              Wrote(h, u, f, v, k, T, w) /\ Agree(f, v[0], T)
      BY <3>6a
    <3>7. Wrote(h, u, g, v, k, T, w) /\ Agree(g, v[0], T)
      BY <3>3, <3>6, WroteAs DEF Agree
    <3>8. QED BY <3>3, <3>5, <3>7 DEF EditWritten
  <2>3. QED BY <2>1, <2>2 DEF IsText
<1> HIDE DEF r, h
<1>9a. PICK k \in Nat : \E v :
                          Wrote(h, u, g, v, k, T, w) /\ Agree(g, v[0], T)
  BY <1>8 DEF EditWritten
<1>9. PICK v :
                          Wrote(h, u, g, v, k, T, w) /\ Agree(g, v[0], T)
  BY <1>9a
<1>10. EditWritten(b, s, g, T, w)
  <2>1. CASE c.list = b.list /\ c.own = b.own /\ u = s /\ d = 0
    <3>1. Wrote(b, s, g, v, k, T, w)
      BY <1>2, <1>6, <1>9, <2>1 DEF Wrote, NewPoints, Kept
    <3>2. QED BY <1>9, <3>1 DEF EditWritten
  <2>2. CASE Wrote(b, s, c, u, d, T, w)
    <3>1. Wrote(c, u, g, v, k, T, w)
      BY <1>6, <1>9 DEF Wrote, NewPoints
    <3>2. Wrote(b, s, g, v, d + k, T, w)
      BY <1>3, <1>5, <2>2, <3>1, WroteTwice
    <3>3. d + k \in Nat
      OBVIOUS
    <3>4. QED BY <1>9, <3>2, <3>3 DEF EditWritten
  <2>3. QED BY <1>1, <2>1, <2>2 DEF WroteAtAll
<1>11. HeadFits(g, l, i)
  <2>1. ASSUME NEW q \in 1 .. i, l[q].kind = "delete", NoTextIn(l, q + 1, i)
        PROVE  HeadInsert(g.list, At(l[q]), Len(l[q].str))
    <3>1. CASE q = i
      BY <1>8, <2>1, <3>1 DEF r
    <3>2. CASE q # i
      <4>1. i \in q + 1 .. i
        BY <3>2
      <4>2. QED BY <2>1, <4>1 DEF NoTextIn
    <3>3. QED BY <3>1, <3>2
  <2>2. QED BY <2>1 DEF HeadFits
<1>12. Kept(b, g) /\ Agree(g, z[i], T) /\ g.pt <= Len(g.text) + 1 /\ g.modified = TRUE
  <2>1. IsText(r)
    BY DEF r
  <2>2. QED BY <1>2, <1>4, <2>1 DEF UndoneAs, UndonePoint, UndoneModified, Kept
<1>13. QED BY <1>10, <1>11, <1>12 DEF Progress, Touched

(* Another record undone.                                                    *)
LEMMA OtherRedone ==
  ASSUME NEW b \in Buffers, b.on, NEW T \in SUBSET (Markers \ Advancing), NEW w, w.time = b.time,
         NEW s, Good(b.list, s, T, w), NEW l \in Seq(Records), NEW z, Good(l, z, T, w), NEW i \in 1 .. Len(l),
         ~IsText(l[i]),
         NEW c, Progress(b, s, l, z, i - 1, c, T, w), ~c.error,
         NEW g, g = UndoneRecord(c, l[i])
  PROVE  Progress(b, s, l, z, i, g, T, w)
<1> DEFINE r == l[i]
<1>0. PICK n \in Nat : n = Len(l)
  OBVIOUS
<1>1. i \in 1 .. n /\ i \in Nat \ {0} /\ i - 1 \in Nat /\ (i - 1) + 1 = i
  BY <1>0
<1>2. r \in Records /\ Step(r, z[i - 1], z[i], T)
  BY <1>0, <1>1 DEF Good, Chain
<1>3. Kept(b, c) /\ Agree(c, z[i - 1], T) /\ c.pt <= Len(c.text) + 1
  BY DEF Progress
<1>4. c \in Buffers
  BY <1>3 DEF Kept
<1>5. UndoneAs(c, g, r, z[i], T)
  BY <1>2, <1>3, <1>4, UndoneIs
<1>6. /\ Kept(b, g) /\ Agree(g, z[i], T) /\ g.list = c.list /\ g.own = c.own /\ g \in Buffers
      /\ g.pt <= Len(g.text) + 1
      /\ g.modified = c.modified \/ (r.kind = "first" /\ r.time = c.time)
  BY <1>3, <1>5 DEF UndoneAs, UndonePoint, UndoneModified, Kept
<1>7. g.text = c.text
  <2>1. z[i].text = z[i - 1].text
    BY <1>2 DEF Step, TextStep
  <2>2. QED BY <1>3, <1>6, <2>1 DEF Agree
<1>8. \A m \in T : g.marks[m] = MarkStep(r, m, c.marks[m], Len(c.text))
  BY <1>2, <1>3, <1>6 DEF Step, Agree
<1>9. \A q \in 1 .. i : q = i \/ q \in 1 .. i - 1
  BY <1>1
<1>10. ASSUME NEW q \in 1 .. i - 1, NoTextIn(l, q + 1, i) PROVE NoTextIn(l, q + 1, i - 1)
  BY <1>1, <1>10 DEF NoTextIn
<1> HIDE DEF r
<1>11. ASSUME HeadFits(c, l, i - 1) PROVE HeadFits(g, l, i)
  <2>1. ASSUME NEW q \in 1 .. i, l[q].kind = "delete", NoTextIn(l, q + 1, i)
        PROVE  HeadInsert(g.list, At(l[q]), Len(l[q].str))
    <3>1. q \in 1 .. i - 1
      BY <1>9, <2>1 DEF IsText
    <3>2. HeadInsert(c.list, At(l[q]), Len(l[q].str))
      BY <1>10, <1>11, <2>1, <3>1 DEF HeadFits
    <3>3. QED BY <1>6, <3>2
  <2>2. QED BY <2>1 DEF HeadFits
<1>14. ASSUME InUnit(l, i - 1) PROVE InUnit(l, i)
  <2>1. PICK y \in (i - 1) + 1 .. Len(l) : IsText(l[y]) /\ NoBoundary(l, i - 1, y)
    BY <1>14 DEF InUnit, TextLeft
  <2>2. y # i
    BY <2>1
  <2>3. y \in i + 1 .. Len(l)
    BY <1>0, <1>1, <2>2
  <2>4. NoBoundary(l, i, y)
    <3>1. \A k \in i .. y : k \in i - 1 .. y
      BY <1>0, <1>1
    <3>2. QED BY <2>1, <3>1 DEF NoBoundary
  <2>5. \E k \in 1 .. i : IsText(l[k])
    <3>1. \A k \in 1 .. i - 1 : k \in 1 .. i
      BY <1>1
    <3>2. QED BY <1>14, <3>1 DEF InUnit
  <2>6. QED BY <2>1, <2>3, <2>4, <2>5 DEF InUnit, TextLeft
<1>12. CASE r.kind = "adjust" /\ r.marker \in T
  <2> DEFINE x == r.marker
  <2>1. PICK q \in 1 .. i - 1 : Caused(l, z, i, q)
    BY <1>0, <1>1, <1>12 DEF Good, Sound, HasCause, r
  <2>2. /\ l[q].kind = "delete" /\ NoTextIn(l, q + 1, i)
        /\ z[i - 1].marks[x] = At(l[q]) /\ r.by < 0 /\ -r.by <= Len(l[q].str)
    BY <2>1 DEF Caused, r
  <2>3. NoTextIn(l, q + 1, i - 1)
    BY <1>10, <2>2
  <2>4. l[q] \in Records /\ l[q].str \in Seq(Chars) /\ l[q].pos \in Int \ {0} /\ At(l[q]) \in Nat \ {0}
    <3>1. q \in 1 .. n
      BY <1>1
    <3>2. l[q] \in Records
      BY <1>0, <3>1
    <3>3. l[q].str \in Seq(Chars) \ {<<>>} /\ l[q].pos \in Int \ {0}
      BY <2>2, <3>2, RecordKinds
    <3>4. QED BY <3>2, <3>3 DEF At
  <2>5. ~Untouched(b, s, c, l, i - 1, T)
    BY <2>2 DEF Untouched, IsText
  <2>6. EditWritten(b, s, c, T, w) /\ HeadFits(c, l, i - 1)
    BY <2>5 DEF Progress, Touched
  <2>7a. PICK d \in Nat : \E u : Wrote(b, s, c, u, d, T, w) /\ Agree(c, u[0], T)
    BY <2>6 DEF EditWritten
  <2>7. PICK u : Wrote(b, s, c, u, d, T, w) /\ Agree(c, u[0], T)
    BY <2>7a
  <2>8. HeadInsert(c.list, At(l[q]), Len(l[q].str))
    BY <2>2, <2>3, <2>6 DEF HeadFits
  <2>9. x \in T /\ r.by \in Int /\ c.marks[x] = At(l[q])
    <3>1. r.by \in Int
      BY <1>2, <1>12, RecordKinds
    <3>2. QED BY <1>3, <1>12, <2>2, <3>1 DEF Agree
  <2>10. \A m \in T : g.marks[m] = IF m = x THEN Clip(At(l[q]) - r.by, Len(c.text)) ELSE c.marks[m]
    BY <1>8, <1>12, <2>4, <2>9 DEF MarkStep, Nowhere
  <2>11. Good(c.list, u, T, w) /\ c.own /\ c.list # <<>>
    BY <2>7 DEF Wrote
  <2>12. Len(l[q].str) \in Nat
    BY <2>4
  <2> HIDE DEF x
  <2>13. PICK at \in Nat \ {0}, h \in Nat, by \in Int : at = At(l[q]) /\ h = Len(l[q].str) /\ by = r.by
    BY <2>4, <2>9, <2>12
  <2>14. Restaged(c, u, g, T, w)
    <3>1. HeadInsert(c.list, at, h) /\ x \in T /\ c.marks[x] = at /\ by < 0 /\ -by <= h
      BY <2>2, <2>8, <2>9, <2>13
    <3>2. MovedTo(c, g, x, Clip(at - by, Len(c.text)), T)
      BY <2>10, <2>13 DEF MovedTo
    <3>3. T \in SUBSET Markers /\ Agree(c, u[0], T)
      BY <2>7
    <3>4. g \in Buffers /\ g.list = c.list /\ g.own = c.own /\ g.text = c.text
      BY <1>6, <1>7
    <3>5. QED BY <1>4, <2>11, <3>1, <3>2, <3>3, <3>4, AdjustmentRedone
  <2>15. PICK v : Wrote(c, u, g, v, 0, T, w) /\ Agree(g, v[0], T)
    BY <2>14 DEF Restaged
  <2>16. 0 \in Nat /\ d + 0 \in Nat
    OBVIOUS
  <2>17. Wrote(b, s, g, v, d + 0, T, w)
    BY <1>4, <1>6, <2>7, <2>15, <2>16, WroteTwice
  <2>18. Touched(b, s, g, l, i, T, w)
    BY <1>11, <2>6, <2>15, <2>16, <2>17 DEF Touched, EditWritten
  <2>19. g.modified = c.modified
    BY <1>6, <1>12
  <2>20. QED BY <1>6, <1>7, <1>14, <2>18, <2>19 DEF Progress
<1>13. CASE ~(r.kind = "adjust" /\ r.marker \in T)
  <2>1. \A m \in T : g.marks[m] = c.marks[m]
    BY <1>8, <1>13 DEF MarkStep, IsText, r
  <2>2. ASSUME Untouched(b, s, c, l, i - 1, T) PROVE Untouched(b, s, g, l, i, T)
    BY <1>6, <1>7, <1>9, <2>1, <2>2 DEF Untouched, Agree
  <2>3. ASSUME Touched(b, s, c, l, i - 1, T, w) PROVE Touched(b, s, g, l, i, T, w)
    <3>1a. PICK d \in Nat : \E u : Wrote(b, s, c, u, d, T, w) /\ Agree(c, u[0], T)
      BY <2>3 DEF Touched, EditWritten
    <3>1. PICK u : Wrote(b, s, c, u, d, T, w) /\ Agree(c, u[0], T)
      BY <3>1a
    <3>2. Wrote(b, s, g, u, d, T, w)
      BY <1>6, <3>1, WroteAs
    <3>3. Agree(g, u[0], T)
      BY <1>7, <2>1, <3>1 DEF Agree
    <3>4. HeadFits(g, l, i)
      BY <1>11, <2>3 DEF Touched
    <3>5. QED BY <3>2, <3>3, <3>4 DEF Touched, EditWritten
  <2>5. ASSUME ~g.modified, w.ok PROVE g.text = w.disk \/ InUnit(l, i)
    <3>1. CASE g.modified = c.modified
      BY <1>7, <1>14, <2>5, <3>1 DEF Progress
    <3>2. CASE r.kind = "first" /\ r.time = c.time
      <4>1. WellTimed(l, z, w, i)
        BY <1>0, <1>1, <3>2 DEF Good, Timed, r
      <4>2. c.time = b.time
        BY <1>3 DEF Kept
      <4>3. z[i].text = w.disk \/ TextLeft(l, i)
        BY <2>5, <3>2, <4>1, <4>2 DEF WellTimed, r
      <4>4. \E q \in 1 .. i : IsText(l[q])
        <5>1. PICK q \in 1 .. i - 1 : IsText(l[q])
          BY <4>1 DEF WellTimed, TextBefore
        <5>2. q \in 1 .. i
          BY <1>1
        <5>3. QED BY <5>1, <5>2
      <4>5. QED BY <1>6, <4>3, <4>4 DEF Agree, InUnit
    <3>3. QED BY <1>6, <3>1, <3>2
  <2>6. QED BY <1>6, <2>2, <2>3, <2>5 DEF Progress
<1>15. QED BY <1>12, <1>13

-----------------------------------------------------------------------------
(* A set of numbers that is not empty has a least one.                       *)
LEMMA LeastNumber ==
  ASSUME NEW S \in SUBSET Nat, S # {}
  PROVE  \E n \in S : \A m \in S : n <= m
<1> DEFINE I == {0 .. n : n \in S}
<1>1. I \subseteq FiniteSubsetsOf(Nat)
  <2>1. ASSUME NEW n \in S PROVE 0 .. n \in SUBSET Nat /\ IsFiniteSet(0 .. n)
    BY FS_Interval
  <2>2. QED BY <2>1 DEF FiniteSubsetsOf
<1>2. I # {}
  OBVIOUS
<1>3. IsWellFoundedOn(StrictSubsetOrdering(Nat), FiniteSubsetsOf(Nat))
  BY FS_StrictSubsetOrderingWellFounded
<1>4. PICK x \in I : \A y \in I : <<y, x>> \notin StrictSubsetOrdering(Nat)
  BY <1>1, <1>2, <1>3, WFMin
<1>5. PICK n \in S : x = 0 .. n
  OBVIOUS
<1>6. ASSUME NEW m \in S, m < n PROVE FALSE
  <2>1. 0 .. m \in I
    OBVIOUS
  <2>2. <<0 .. m, 0 .. n>> \in StrictSubsetOrdering(Nat)
    BY <1>6 DEF StrictSubsetOrdering
  <2>3. QED BY <2>1, <2>2, <1>4, <1>5
<1>7. QED BY <1>6

(* The buffers after each record of a list, as a function.                   *)
Undoing(b, l, n, g) == g = [i \in 0 .. n |-> IF i = 0 THEN b ELSE UndoneRecord(g[i - 1], l[i])]

(* The buffers gone through by undoing the first M records are determined   *)
(* by what they are made from.                                              *)
LEMMA UndoingIs ==
  ASSUME NEW n \in Nat, NEW b, NEW l, NEW g, Undoing(b, l, n, g)
  PROVE  g[0] = b /\ \A i \in 1 .. n : g[i] = UndoneRecord(g[i - 1], l[i])
<1>1. \A i \in 0 .. n : g[i] = IF i = 0 THEN b ELSE UndoneRecord(g[i - 1], l[i])
  BY Zenon DEF Undoing
<1>2. 0 \in 0 .. n
  OBVIOUS
<1>3. \A i \in 1 .. n : i \in 0 .. n /\ i # 0
  OBVIOUS
<1>4. QED BY <1>1, <1>2, <1>3, Zenon

(* One more record can be undone.                                           *)
LEMMA UndoingExtends ==
  ASSUME NEW m \in Nat \ {0}, NEW b, NEW l, NEW g, Undoing(b, l, m - 1, g)
  PROVE  \E h : Undoing(b, l, m, h)
<1> DEFINE v == UndoneRecord(g[m - 1], l[m])
           h == [i \in 0 .. m |-> IF i = m THEN v ELSE g[i]]
<1>1. m - 1 \in Nat
  OBVIOUS
<1>2. g[0] = b /\ \A i \in 1 .. m - 1 : g[i] = UndoneRecord(g[i - 1], l[i])
  BY <1>1, UndoingIs
<1>3. ASSUME NEW i \in 0 .. m
      PROVE  h[i] = IF i = 0 THEN b ELSE UndoneRecord(h[i - 1], l[i])
  <2>1. i # 0 => i - 1 \in 0 .. m /\ i - 1 # m
    OBVIOUS
  <2>2. i # 0 => h[i - 1] = g[i - 1]
    BY <2>1
  <2>3. CASE i = m
    BY <2>2, <2>3
  <2>4. CASE i # m
    <3>1. i = 0 \/ i \in 1 .. m - 1
      BY <2>4
    <3>2. QED BY <1>2, <2>2, <2>4, <3>1
  <2>5. QED BY <2>3, <2>4
<1>4. Undoing(b, l, m, h)
  <2> HIDE DEF v
  <2>1. h = [i \in 0 .. m |-> h[i]]
    OBVIOUS
  <2> HIDE DEF h
  <2>2. QED BY <1>3, <2>1, Zenon DEF Undoing
<1>5. QED BY <1>4

(* A whole list can be undone.                                              *)
LEMMA UndoingExists ==
  ASSUME NEW n \in Nat, NEW b, NEW l
  PROVE  \E g : Undoing(b, l, n, g)
<1> DEFINE S == {m \in Nat : ~\E g : Undoing(b, l, m, g)}
<1>1. SUFFICES ASSUME S # {} PROVE FALSE
  OBVIOUS
<1>2. PICK m \in S : \A k \in S : m <= k
  BY <1>1, LeastNumber
<1>3. m # 0
  <2> DEFINE z == [i \in 0 .. 0 |-> b]
  <2>1. Undoing(b, l, 0, z)
    BY DEF Undoing
  <2>2. QED BY <2>1
<1>4. m - 1 \in Nat /\ m - 1 \notin S
  BY <1>2, <1>3
<1>5. PICK g : Undoing(b, l, m - 1, g)
  BY <1>4
<1>6. m \in Nat \ {0}
  BY <1>3
<1>7. QED BY <1>2, <1>5, <1>6, UndoingExtends

(* The buffers gone through by undoing a list, one after the other.         *)
LEMMA UndoneRecordsIs ==
  ASSUME NEW b, NEW l \in Seq(Records), NEW n \in Nat, n = Len(l)
  PROVE  /\ UndoneRecords(b, l)[0] = b
         /\ \A i \in 1 .. n : UndoneRecords(b, l)[i] = UndoneRecord(UndoneRecords(b, l)[i - 1], l[i])
<1> DEFINE g == CHOOSE g : Undoing(b, l, n, g)
<1>1. Undoing(b, l, n, g)
  BY UndoingExists
<1>2. UndoneRecords(b, l) = g
  BY DEF UndoneRecords, Undoing
<1>3. QED BY <1>1, <1>2, UndoingIs

(* Undoing any number of records.                                            *)
LEMMA ProgressStarts ==
  ASSUME NEW b \in Buffers, b.pt <= Len(b.text) + 1, NEW T, NEW w, ~b.modified /\ w.ok => b.text = w.disk,
         NEW s, Agree(b, s[0], T), NEW l, NEW z, Agree(b, z[0], T)
  PROVE  Progress(b, s, l, z, 0, b, T, w)
<1>1. Kept(b, b)
  BY DEF Kept
<1>2. \A q \in 1 .. 0 : ~IsText(l[q])
  OBVIOUS
<1>3. QED BY <1>1, <1>2 DEF Progress, Untouched

(* Undoing a good list, where the records of undoing are recorded too, goes *)
(* through its stages and keeps a good list.                                *)
LEMMA ProgressMade ==
  ASSUME NEW b \in Buffers, b.on, ~b.error, b.pt <= Len(b.text) + 1, NEW T \in SUBSET (Markers \ Advancing),
         NEW w, w.time = b.time, ~b.modified /\ w.ok => b.text = w.disk,
         NEW s, Good(b.list, s, T, w), Agree(b, s[0], T),
         NEW l \in Seq(Records), NEW z, Good(l, z, T, w), Agree(b, z[0], T), NEW n \in Nat, n = Len(l)
  PROVE  \A i \in 0 .. n : Progress(b, s, l, z, i, UndoneRecords(b, l)[i], T, w)
<1> DEFINE c == UndoneRecords(b, l)
           S == {i \in 0 .. n : ~Progress(b, s, l, z, i, c[i], T, w)}
<1>1. c[0] = b /\ \A i \in 1 .. n : c[i] = UndoneRecord(c[i - 1], l[i])
  BY UndoneRecordsIs
<1> HIDE DEF c
<1>2. SUFFICES ASSUME S # {} PROVE FALSE
  BY DEF c
<1>3. PICK i \in S : \A k \in S : i <= k
  <2>1. S \in SUBSET Nat
    OBVIOUS
  <2> HIDE DEF S
  <2>2. QED BY <1>2, <2>1, LeastNumber
<1>4. i # 0
  BY <1>1, ProgressStarts
<1>5. i \in 1 .. n /\ i \in 1 .. Len(l) /\ i \in Nat \ {0} /\ i - 1 \in 0 .. n /\ i - 1 \notin S
  BY <1>3, <1>4
<1>6. Progress(b, s, l, z, i - 1, c[i - 1], T, w)
  BY <1>5
<1>7. ~c[i - 1].error
  BY <1>6 DEF Progress, Kept
<1>8. c[i] = UndoneRecord(c[i - 1], l[i])
  BY <1>1, <1>5
<1>9. Progress(b, s, l, z, i, c[i], T, w)
  <2>1. CASE IsText(l[i])
    <3>1. l[i] \in Records /\ Step(l[i], z[i - 1], z[i], T)
      BY <1>5 DEF Good, Chain
    <3>2. QED BY <1>5, <1>6, <1>7, <1>8, <2>1, <3>1, TextRedone
  <2>2. CASE ~IsText(l[i])
    BY <1>5, <1>6, <1>7, <1>8, <2>2, OtherRedone
  <2>3. QED BY <2>1, <2>2
<1>10. QED BY <1>9

(* Undoing a list gives its stages, recorded or not.                          *)
LEMMA StagesReached ==
  ASSUME NEW b \in Buffers, ~b.error, NEW T \in SUBSET (Markers \ Advancing),
         NEW l \in Seq(Records), NEW z, Chain(l, z, T), Agree(b, z[0], T), NEW n \in Nat, n = Len(l)
  PROVE  \A i \in 0 .. n : Kept(b, UndoneRecords(b, l)[i]) /\ Agree(UndoneRecords(b, l)[i], z[i], T)
<1> DEFINE c == UndoneRecords(b, l)
           S == {i \in 0 .. n : ~(Kept(b, c[i]) /\ Agree(c[i], z[i], T))}
<1>1. c[0] = b /\ \A i \in 1 .. n : c[i] = UndoneRecord(c[i - 1], l[i])
  BY UndoneRecordsIs
<1> HIDE DEF c
<1>2. SUFFICES ASSUME S # {} PROVE FALSE
  BY DEF c
<1>3. PICK i \in S : \A k \in S : i <= k
  <2>1. S \in SUBSET Nat
    OBVIOUS
  <2> HIDE DEF S
  <2>2. QED BY <1>2, <2>1, LeastNumber
<1>4. i # 0
  BY <1>1 DEF Kept
<1>5. i \in 1 .. n /\ i \in 1 .. Len(l) /\ i - 1 \in 0 .. n /\ i - 1 \notin S
  BY <1>3, <1>4
<1>6. Kept(b, c[i - 1]) /\ Agree(c[i - 1], z[i - 1], T)
  BY <1>5
<1>7. c[i - 1] \in Buffers /\ ~c[i - 1].error
  BY <1>6 DEF Kept
<1>8. c[i] = UndoneRecord(c[i - 1], l[i]) /\ l[i] \in Records /\ Step(l[i], z[i - 1], z[i], T)
  BY <1>1, <1>5 DEF Chain
<1>9. UndoneAs(c[i - 1], c[i], l[i], z[i], T)
  BY <1>6, <1>7, <1>8, UndoneIs
<1>10. Kept(b, c[i]) /\ Agree(c[i], z[i], T)
  BY <1>6, <1>9 DEF UndoneAs, Kept
<1>11. QED BY <1>10

(* Where each record leaves point.                                          *)
LEMMA PointsReached ==
  ASSUME NEW b \in Buffers, ~b.error, NEW T \in SUBSET (Markers \ Advancing),
         NEW l \in Seq(Records), NEW z, Chain(l, z, T), Agree(b, z[0], T), NEW n \in Nat, n = Len(l)
  PROVE  \A i \in 1 .. n : UndonePoint(UndoneRecords(b, l)[i - 1], UndoneRecords(b, l)[i], l[i])
<1> DEFINE c == UndoneRecords(b, l)
<1>1. \A i \in 1 .. n : c[i] = UndoneRecord(c[i - 1], l[i])
  BY UndoneRecordsIs
<1>2. \A i \in 0 .. n : Kept(b, c[i]) /\ Agree(c[i], z[i], T)
  BY StagesReached
<1> HIDE DEF c
<1>3. ASSUME NEW i \in 1 .. n PROVE UndonePoint(c[i - 1], c[i], l[i])
  <2>1. i \in 1 .. Len(l) /\ i - 1 \in 0 .. n
    OBVIOUS
  <2>2. Kept(b, c[i - 1]) /\ Agree(c[i - 1], z[i - 1], T)
    BY <1>2, <2>1
  <2>3. c[i - 1] \in Buffers /\ ~c[i - 1].error
    BY <2>2 DEF Kept
  <2>4. c[i] = UndoneRecord(c[i - 1], l[i]) /\ l[i] \in Records /\ Step(l[i], z[i - 1], z[i], T)
    BY <1>1, <2>1 DEF Chain
  <2>5. UndoneAs(c[i - 1], c[i], l[i], z[i], T)
    BY <2>2, <2>3, <2>4, UndoneIs
  <2>6. QED BY <2>5 DEF UndoneAs
<1>4. QED BY <1>3 DEF c

(* From record J on point stays, and so does the text.                       *)
LEMMA PointStays ==
  ASSUME NEW b \in Buffers, ~b.error, NEW T \in SUBSET (Markers \ Advancing),
         NEW l \in Seq(Records), NEW z, Chain(l, z, T), Agree(b, z[0], T), NEW n \in Nat, n = Len(l),
         NEW j \in 1 .. n, NEW i \in j .. n, NoTextIn(l, j + 1, i)
  PROVE  /\ z[i].text = z[j].text
         /\ (\A k \in j + 1 .. i : l[k].kind # "point") =>
              UndoneRecords(b, l)[i].pt = UndoneRecords(b, l)[j].pt
<1> DEFINE c == UndoneRecords(b, l)
           S == {k \in j .. i : z[k].text # z[j].text}
           R == {k \in j .. i : c[k].pt # c[j].pt}
<1>1. \A k \in 1 .. n : UndonePoint(c[k - 1], c[k], l[k])
  BY PointsReached
<1>2. \A k \in j + 1 .. i : k \in 1 .. n /\ k - 1 \in j .. i /\ ~(k <= k - 1)
  OBVIOUS
<1>3. \A k \in j .. i : k = j \/ k \in j + 1 .. i
  OBVIOUS
<1>4. i \in j .. i /\ S \in SUBSET Nat /\ R \in SUBSET Nat
  OBVIOUS
<1>5. ASSUME S # {} PROVE FALSE
  <2>1. PICK k \in S : \A h \in S : k <= h
    <3> HIDE DEF S
    <3>1. QED BY <1>4, <1>5, LeastNumber
  <2>2. k \in j + 1 .. i
    BY <1>3, <2>1
  <2>3. z[k - 1].text = z[j].text
    BY <1>2, <2>1, <2>2
  <2>4. Step(l[k], z[k - 1], z[k], T) /\ ~IsText(l[k])
    BY <1>2, <2>2 DEF Chain, NoTextIn
  <2>5. QED BY <2>1, <2>3, <2>4 DEF Step, TextStep
<1>6. ASSUME R # {}, \A k \in j + 1 .. i : l[k].kind # "point" PROVE FALSE
  <2>1. PICK k \in R : \A h \in R : k <= h
    <3> HIDE DEF R
    <3>1. QED BY <1>4, <1>6, LeastNumber
  <2>2. k \in j + 1 .. i
    BY <1>3, <2>1
  <2>3. c[k - 1].pt = c[j].pt
    BY <1>2, <2>1, <2>2
  <2>4. UndonePoint(c[k - 1], c[k], l[k]) /\ l[k].kind \in {"first", "adjust"}
    <3>1. l[k] \in Records
      BY <1>2, <2>2
    <3>2. l[k].kind \in {"boundary", "point", "first", "insert", "delete", "adjust"}
      BY <3>1, RecordKinds
    <3>3. QED BY <1>1, <1>2, <1>6, <2>2, <3>2 DEF NoTextIn, IsText
  <2>5. QED BY <2>1, <2>3, <2>4 DEF UndonePoint
<1>7. QED BY <1>4, <1>5, <1>6

(* Undoing the list leaves point where it was recorded to have been.        *)
LEMMA PointReached ==
  ASSUME NEW b \in Buffers, ~b.error, NEW T \in SUBSET (Markers \ Advancing),
         NEW l \in Seq(Records), NEW z, Chain(l, z, T), Agree(b, z[0], T), NEW n \in Nat, n = Len(l),
         NEW i \in 1 .. n, NEW p \in Nat \ {0}, PointBack(l, z, i, p)
  PROVE  UndoneRecords(b, l)[i].pt = p
<1> DEFINE c == UndoneRecords(b, l)
<1>1. \A k \in 1 .. n : UndonePoint(c[k - 1], c[k], l[k])
  BY PointsReached
<1>2. PICK j \in 1 .. i : l[j].kind = "delete" /\ NoTextIn(l, j + 1, i) /\ LastPoint(l, z, i, p, j)
  BY DEF PointBack
<1>3. j \in 1 .. n /\ i \in j .. n
  OBVIOUS
<1>4. CASE (\A k \in j + 1 .. i : l[k].kind # "point") /\ l[j].pos = p
  <2>1. c[i].pt = c[j].pt
    BY <1>2, <1>3, <1>4, PointStays
  <2>2. c[j].pt = l[j].pos
    BY <1>1, <1>2, <1>3, <1>4 DEF UndonePoint
  <2>3. QED BY <1>4, <2>1, <2>2
<1>5. CASE \E k \in j + 1 .. i : /\ l[k].kind = "point" /\ (\A h \in k + 1 .. i : l[h].kind # "point")
                                 /\ p = Clip(l[k].at, Len(z[i].text))
  <2>1. PICK k \in j + 1 .. i : /\ l[k].kind = "point" /\ (\A h \in k + 1 .. i : l[h].kind # "point")
                                /\ p = Clip(l[k].at, Len(z[i].text))
    BY <1>5
  <2>2. k \in 1 .. n /\ i \in k .. n /\ NoTextIn(l, k + 1, i)
    BY <1>2 DEF NoTextIn
  <2>3. z[i].text = z[k].text /\ c[i].pt = c[k].pt
    BY <2>1, <2>2, PointStays
  <2>4. c[k].text = z[k].text
    <3>1. k \in 0 .. n
      BY <2>2
    <3>2. Agree(c[k], z[k], T)
      BY <3>1, StagesReached
    <3>3. QED BY <3>2 DEF Agree
  <2>5. c[k].pt = Clip(l[k].at, Len(c[k].text))
    BY <1>1, <2>1, <2>2 DEF UndonePoint
  <2>6. QED BY <2>1, <2>3, <2>4, <2>5
<1>6. QED BY <1>2, <1>4, <1>5 DEF LastPoint

-----------------------------------------------------------------------------
(* A marker that no record adjusts may be anywhere: from there, other places   *)
(* lead back.                                                                *)
LEMMA MarkStepIs ==
  ASSUME NEW r \in Records, NEW a \in Seq(Chars), NEW z, TextStep(r, a, z), NEW m, NEW p \in Nat
  PROVE  MarkStep(r, m, p, Len(a)) \in Nat
<1>1. PICK n \in Nat : n = Len(a)
  OBVIOUS
<1>2. CASE r.kind = "insert"
  <2>1. r.beg \in Nat /\ r.end \in Nat /\ r.beg < r.end
    BY <1>2, RecordKinds DEF TextStep
  <2>2. QED BY <1>2, <2>1 DEF MarkStep
<1>3. CASE r.kind = "delete"
  <2>1. Len(r.str) \in Nat
    BY <1>3, RecordKinds
  <2>2. QED BY <1>3, <2>1 DEF MarkStep
<1>4. CASE r.kind \notin {"insert", "delete"}
  <2>1. r.kind = "adjust" => r.by \in Int
    BY RecordKinds
  <2>2. CASE r.kind = "adjust"
    <3>1. PICK by \in Int : by = r.by
      BY <2>1, <2>2
    <3>2. Clip(p - by, n) \in Nat
      BY <1>1 DEF Clip
    <3>3. QED BY <1>1, <1>4, <2>2, <3>1, <3>2 DEF MarkStep
  <2>3. QED BY <1>4, <2>2 DEF MarkStep
<1>5. QED BY <1>2, <1>3, <1>4

MarksStep(r, p, n) == [m \in Markers |-> MarkStep(r, m, p[m], n)]
Places(l, s, q, n, p) ==
  /\ p \in [0 .. n -> [Markers -> Nat]] /\ p[0] = q
  /\ \A i \in 1 .. n : p[i] = MarksStep(l[i], p[i - 1], Len(s[i - 1].text))

(* One more stage with the markers moved.                                   *)
LEMMA PlacesExtend ==
  ASSUME NEW l \in Seq(Records), NEW T, NEW s, Chain(l, s, T), NEW q, NEW m \in 1 .. Len(l),
         NEW p, Places(l, s, q, m - 1, p)
  PROVE  \E h : Places(l, s, q, m, h)
<1> DEFINE v == MarksStep(l[m], p[m - 1], Len(s[m - 1].text))
           h == [i \in 0 .. m |-> IF i = m THEN v ELSE p[i]]
<1>0. PICK n \in Nat : n = Len(l)
  OBVIOUS
<1>1. m \in 1 .. n /\ m - 1 \in 0 .. n /\ m - 1 \in 0 .. m - 1
  BY <1>0
<1>2. l[m] \in Records /\ TextStep(l[m], s[m - 1].text, s[m].text) /\ s[m - 1].text \in Seq(Chars)
  <2>1. s[m - 1] \in Stages /\ l[m] \in Records
    BY <1>0, <1>1 DEF Chain
  <2>2. QED BY <1>0, <1>1, <2>1 DEF Chain, Step, Stages
<1>3. p[m - 1] \in [Markers -> Nat]
  BY <1>1 DEF Places
<1>4. v \in [Markers -> Nat]
  <2>1. ASSUME NEW x \in Markers PROVE MarkStep(l[m], x, p[m - 1][x], Len(s[m - 1].text)) \in Nat
    <3>1. p[m - 1][x] \in Nat
      BY <1>3
    <3>2. QED BY <1>2, <3>1, MarkStepIs
  <2>2. QED BY <2>1 DEF MarksStep
<1>5. \A i \in 0 .. m : i = m \/ i \in 0 .. m - 1
  BY <1>1
<1> HIDE DEF v
<1>6. h \in [0 .. m -> [Markers -> Nat]]
  BY <1>4, <1>5 DEF Places
<1>7. h[0] = q
  <2>1. 0 \in 0 .. m /\ m # 0
    BY <1>1
  <2>2. QED BY <2>1 DEF Places
<1>8. ASSUME NEW i \in 1 .. m PROVE h[i] = MarksStep(l[i], h[i - 1], Len(s[i - 1].text))
  <2>1. i - 1 \in 0 .. m /\ i - 1 # m /\ i \in 0 .. m
    BY <1>1
  <2>2. h[i - 1] = p[i - 1]
    BY <2>1
  <2>3. CASE i = m
    BY <2>1, <2>2, <2>3 DEF v
  <2>4. CASE i # m
    <3>1. i \in 1 .. m - 1
      BY <1>1, <2>4
    <3>2. h[i] = p[i]
      BY <2>1, <2>4
    <3>3. QED BY <2>2, <3>1, <3>2 DEF Places
  <2>5. QED BY <2>3, <2>4
<1>9. Places(l, s, q, m, h)
  <2> HIDE DEF h
  <2>1. QED BY <1>6, <1>7, <1>8 DEF Places
<1>10. QED BY <1>9

(* Stages whose markers start elsewhere.                                    *)
LEMMA PlacesExist ==
  ASSUME NEW l \in Seq(Records), NEW T, NEW s, Chain(l, s, T), NEW q \in [Markers -> Nat],
         NEW n \in Nat, n = Len(l)
  PROVE  \E p : Places(l, s, q, n, p)
<1> DEFINE S == {m \in 0 .. n : ~\E p : Places(l, s, q, m, p)}
<1>1. SUFFICES ASSUME S # {} PROVE FALSE
  <2>1. n \in 0 .. n
    OBVIOUS
  <2>2. QED BY <2>1
<1>2. PICK m \in S : \A k \in S : m <= k
  <2>1. S \in SUBSET Nat
    OBVIOUS
  <2> HIDE DEF S
  <2>2. QED BY <1>1, <2>1, LeastNumber
<1>3. m # 0
  <2> DEFINE z == [i \in 0 .. 0 |-> q]
  <2>1. Places(l, s, q, 0, z)
    BY DEF Places
  <2>2. QED BY <2>1
<1>4. m \in 1 .. n /\ m \in 1 .. Len(l) /\ m - 1 \in 0 .. n /\ m - 1 \notin S
  BY <1>2, <1>3
<1>5. PICK p : Places(l, s, q, m - 1, p)
  BY <1>4
<1>6. \E h : Places(l, s, q, m, h)
  BY <1>4, <1>5, PlacesExtend
<1>7. QED BY <1>6

(* The stages U are the stages S, but for the places of the markers in M.      *)
AllBut(s, u, n, M) ==
  \A i \in 0 .. n : u[i].text = s[i].text /\ \A m \in Markers \ M : u[i].marks[m] = s[i].marks[m]

Unadjusted(l, S, M) == \A j \in 1 .. Len(l) : l[j].kind = "adjust" /\ l[j].marker \in S => l[j].marker \notin M
PlacesMoved(l, s, S, w, n, M, q) ==
  \E u : Good(l, u, S, w) /\ AllBut(s, u, n, M) /\ \A m \in M : u[0].marks[m] = q[m]

(* Markers that no record of the list adjusts may be anywhere when undoing  *)
(* starts.                                                                  *)
LEMMA PlacesChanged ==
  ASSUME NEW l \in Seq(Records), NEW T \in SUBSET Markers, NEW w, NEW s, Good(l, s, T, w),
         NEW S \in SUBSET T, NEW M \in SUBSET Markers,
         Unadjusted(l, S, M), NEW q \in [Markers -> Nat], NEW n \in Nat, n = Len(l)
  PROVE  PlacesMoved(l, s, S, w, n, M, q)
<1>1. Chain(l, s, T)
  BY DEF Good
<1>2. PICK p : Places(l, s, q, n, p)
  BY <1>1, PlacesExist
<1>3. \A i \in 0 .. n : s[i] \in Stages /\ p[i] \in [Markers -> Nat]
  BY <1>1, <1>2 DEF Chain, Places
<1> DEFINE mk(i) == [m \in Markers |-> IF m \in M THEN p[i][m] ELSE s[i].marks[m]]
           u == [i \in 0 .. n |-> [text |-> s[i].text, marks |-> mk(i)]]
<1>4. ASSUME NEW i \in 0 .. n
      PROVE  /\ u[i] \in Stages /\ u[i].text = s[i].text
             /\ \A m \in Markers : u[i].marks[m] = IF m \in M THEN p[i][m] ELSE s[i].marks[m]
  <2>1. mk(i) \in [Markers -> Nat] /\ \A m \in Markers : mk(i)[m] = IF m \in M THEN p[i][m] ELSE s[i].marks[m]
    BY <1>3 DEF Stages
  <2> HIDE DEF mk
  <2>2. QED BY <1>3, <2>1 DEF Stages
<1>5. DOMAIN u = 0 .. n /\ u = [i \in 0 .. n |-> u[i]]
  OBVIOUS
<1> HIDE DEF u
<1>6. u \in [0 .. n -> Stages]
  BY <1>4, <1>5
<1>7. Chain(l, u, S)
  <2>1. ASSUME NEW i \in 1 .. n PROVE Step(l[i], u[i - 1], u[i], S)
    <3>1. i \in 0 .. n /\ i - 1 \in 0 .. n /\ i \in 1 .. Len(l)
      OBVIOUS
    <3>2. Step(l[i], s[i - 1], s[i], T)
      BY <1>1, <3>1 DEF Chain
    <3>3. u[i].text = s[i].text /\ u[i - 1].text = s[i - 1].text
      BY <1>4, <3>1
    <3>4. ASSUME NEW m \in S PROVE u[i].marks[m] = MarkStep(l[i], m, u[i - 1].marks[m], Len(u[i - 1].text))
      <4>0. m \in Markers /\ m \in T
        OBVIOUS
      <4>1. CASE m \in M
        <5>1. u[i].marks[m] = p[i][m] /\ u[i - 1].marks[m] = p[i - 1][m]
          BY <1>4, <3>1, <4>0, <4>1
        <5>2. p[i] = MarksStep(l[i], p[i - 1], Len(s[i - 1].text))
          BY <1>2 DEF Places
        <5>3. QED BY <3>3, <4>0, <5>1, <5>2 DEF MarksStep
      <4>2. CASE m \notin M
        <5>1. u[i].marks[m] = s[i].marks[m] /\ u[i - 1].marks[m] = s[i - 1].marks[m]
          BY <1>4, <3>1, <4>0, <4>2
        <5>2. QED BY <3>2, <3>3, <4>0, <5>1 DEF Step
      <4>3. QED BY <4>1, <4>2
    <3>5. QED BY <3>2, <3>3, <3>4 DEF Step
  <2>2. QED BY <1>6, <2>1 DEF Chain
<1>8. Sound(l, u, S)
  <2>1. ASSUME NEW j \in 1 .. n, l[j].kind = "adjust", l[j].marker \in S PROVE HasCause(l, u, j)
    <3>1. HasCause(l, s, j)
      BY <2>1 DEF Good, Sound
    <3>2. j - 1 \in 0 .. n /\ l[j].marker \in Markers /\ l[j].marker \notin M
      BY <2>1 DEF Unadjusted
    <3>3. u[j - 1].marks[l[j].marker] = s[j - 1].marks[l[j].marker]
      BY <1>4, <3>2
    <3>4. QED BY <3>1, <3>3 DEF HasCause, Caused
  <2>2. QED BY <2>1 DEF Sound
<1>9. Timed(l, u, w)
  <2>1. ASSUME NEW i \in 1 .. n, l[i].kind = "first" PROVE WellTimed(l, u, w, i)
    <3>1. WellTimed(l, s, w, i)
      BY <2>1 DEF Good, Timed
    <3>2. i \in 0 .. n
      OBVIOUS
    <3>3. u[i].text = s[i].text
      BY <1>4, <3>2
    <3>4. QED BY <3>1, <3>3 DEF WellTimed
  <2>2. QED BY <2>1 DEF Timed
<1>10. AllBut(s, u, n, M)
  BY <1>4 DEF AllBut
<1>11. \A m \in M : u[0].marks[m] = q[m]
  <2>1. 0 \in 0 .. n /\ p[0] = q
    BY <1>2 DEF Places
  <2>2. QED BY <1>4, <2>1
<1>12. QED BY <1>7, <1>8, <1>9, <1>10, <1>11 DEF Good, PlacesMoved

(* A later world, in which the file was written, or less is known.             *)
LEMMA GoodLater ==
  ASSUME NEW l \in Seq(Records), NEW T, NEW s, NEW w, Good(l, s, T, w), w.time \in Nat,
         NEW x, x.time \in Nat, x.time >= w.time, x.ok => x.time > w.time
  PROVE  Good(l, s, T, x)
<1>1. PICK n \in Nat, i0 \in Nat, i1 \in Nat : n = Len(l) /\ i0 = w.time /\ i1 = x.time
  OBVIOUS
<1>2. ASSUME NEW i \in 1 .. n, l[i].kind = "first" PROVE WellTimed(l, s, x, i)
  <2>1. WellTimed(l, s, w, i)
    BY <1>1, <1>2 DEF Good, Timed
  <2>2. PICK t \in Nat : t = l[i].time
    <3>1. l[i] \in Records
      BY <1>1
    <3>2. QED BY <1>2, <3>1, RecordKinds
  <2>3. t <= i0 /\ i0 <= i1 /\ (x.ok => i0 < i1)
    BY <1>1, <2>1, <2>2 DEF WellTimed
  <2>4. t <= i1 /\ (x.ok => t # i1)
    BY <2>3
  <2>5. QED BY <1>1, <2>1, <2>2, <2>4 DEF WellTimed
<1>3. Timed(l, s, x)
  BY <1>1, <1>2 DEF Timed
<1>4. QED BY <1>3 DEF Good

-----------------------------------------------------------------------------
(* The list C is the first H records of L, whose last unit is whole.          *)
CutAt(l, c, h) ==
  /\ c \in Seq(Records) /\ h \in Nat /\ h <= Len(l) /\ Len(c) = h
  /\ \A i \in 1 .. h : c[i] = l[i]
  /\ h = Len(l) \/ l[h + 1].kind = "boundary"
Prefix(s, h) == [i \in 0 .. h |-> s[i]]

(* A good list cut before a boundary is good.                               *)
LEMMA CutGood ==
  ASSUME NEW l \in Seq(Records), NEW T, NEW w, NEW s, Good(l, s, T, w), NEW c, NEW h, CutAt(l, c, h)
  PROVE  Good(c, Prefix(s, h), T, w)
<1> DEFINE u == Prefix(s, h)
<1>1. PICK n \in Nat : n = Len(l)
  OBVIOUS
<1>2. h \in Nat /\ h <= n /\ Len(c) = h /\ c \in Seq(Records) /\ \A i \in 1 .. h : c[i] = l[i]
  BY <1>1 DEF CutAt
<1>3. \A i \in 0 .. h : u[i] = s[i]
  BY DEF Prefix
<1>4. Chain(c, u, T)
  <2>1. u \in [0 .. h -> Stages]
    <3>1. \A i \in 0 .. h : i \in 0 .. n
      BY <1>2
    <3>2. QED BY <1>1, <3>1 DEF Good, Chain, Prefix
  <2>2. ASSUME NEW i \in 1 .. h PROVE Step(c[i], u[i - 1], u[i], T)
    <3>1. i \in 1 .. n /\ i \in 0 .. h /\ i - 1 \in 0 .. h
      BY <1>2
    <3>2. Step(l[i], s[i - 1], s[i], T)
      BY <1>1, <3>1 DEF Good, Chain
    <3>3. QED BY <1>2, <1>3, <3>1, <3>2
  <2> HIDE DEF u
  <2>3. QED BY <1>2, <2>1, <2>2 DEF Chain
<1> HIDE DEF u
<1>5. Sound(c, u, T)
  <2>1. ASSUME NEW j \in 1 .. h, c[j].kind = "adjust", c[j].marker \in T PROVE HasCause(c, u, j)
    <3>1. j \in 1 .. n /\ c[j] = l[j] /\ j - 1 \in 0 .. h
      BY <1>2
    <3>2. PICK q \in 1 .. j - 1 : Caused(l, s, j, q)
      BY <1>1, <2>1, <3>1 DEF Good, Sound, HasCause
    <3>3. q \in 1 .. h /\ c[q] = l[q] /\ u[j - 1] = s[j - 1]
      BY <1>2, <1>3, <3>1
    <3>4. \A k \in q + 1 .. j : k \in 1 .. h /\ c[k] = l[k]
      BY <1>2, <3>3
    <3>5. NoTextIn(c, q + 1, j)
      BY <3>2, <3>4 DEF Caused, NoTextIn
    <3>6. Caused(c, u, j, q)
      BY <3>1, <3>2, <3>3, <3>5 DEF Caused
    <3>7. QED BY <3>6 DEF HasCause
  <2>2. QED BY <1>2, <2>1 DEF Sound
<1>6. Timed(c, u, w)
  <2>1. ASSUME NEW i \in 1 .. h, c[i].kind = "first" PROVE WellTimed(c, u, w, i)
    <3>1. i \in 1 .. n /\ c[i] = l[i] /\ i \in 0 .. h
      BY <1>2
    <3>2. WellTimed(l, s, w, i)
      BY <1>1, <2>1, <3>1 DEF Good, Timed
    <3>3. \A q \in 1 .. h : \A k \in q .. h : k \in 1 .. h /\ c[k] = l[k]
      BY <1>2
    <3>4. TextBefore(c, i)
      <4>1. PICK q \in 1 .. i - 1 : IsText(l[q]) /\ NoBoundary(l, q, i)
        BY <3>2 DEF WellTimed, TextBefore
      <4>2. q \in 1 .. h /\ q \in q .. h /\ \A k \in q .. i : k \in q .. h
        BY <1>2
      <4>3. IsText(c[q]) /\ NoBoundary(c, q, i)
        BY <3>3, <4>1, <4>2 DEF NoBoundary
      <4>4. QED BY <4>3 DEF TextBefore
    <3>5. ASSUME TextLeft(l, i) PROVE TextLeft(c, i)
      <4>1. PICK q \in i + 1 .. n : IsText(l[q]) /\ NoBoundary(l, i, q)
        BY <1>1, <3>5 DEF TextLeft
      <4>2. q <= h
        <5>1. CASE h = n
          BY <5>1
        <5>2. CASE l[h + 1].kind = "boundary"
          <6>1. h + 1 \notin i .. q
            BY <4>1, <5>2 DEF NoBoundary
          <6>2. QED BY <1>2, <3>1, <6>1
        <5>3. QED BY <1>1, <5>1, <5>2 DEF CutAt
      <4>3. q \in i + 1 .. h /\ q \in q .. h /\ \A k \in i .. q : k \in i .. h
        BY <1>2, <4>2
      <4>4. IsText(c[q]) /\ NoBoundary(c, i, q)
        BY <3>3, <4>1, <4>3 DEF NoBoundary
      <4>5. QED BY <1>2, <4>3, <4>4 DEF TextLeft
    <3>6. u[i] = s[i]
      BY <1>3, <3>1
    <3>7. QED BY <3>1, <3>2, <3>4, <3>5, <3>6 DEF WellTimed
  <2>2. QED BY <1>2, <2>1 DEF Timed
<1>7. QED BY <1>4, <1>5, <1>6 DEF Good, u

(* The units left by a cut are whole, and put point back as before.         *)
LEMMA CutUnits ==
  ASSUME NEW l \in Seq(Records), NEW s, NEW c, NEW h, CutAt(l, c, h), NEW i \in 1 .. h
  PROVE  /\ EndsUnit(c, i) => EndsUnit(l, i)
         /\ \A p : PointBack(l, s, i, p) => PointBack(c, Prefix(s, h), i, p)
<1>1. PICK n \in Nat : n = Len(l)
  OBVIOUS
<1>2. h \in Nat /\ h <= n /\ Len(c) = h /\ c \in Seq(Records) /\ \A j \in 1 .. h : c[j] = l[j]
  BY <1>1 DEF CutAt
<1>3. EndsUnit(c, i) => EndsUnit(l, i)
  <2>1. CASE i = h
    BY <2>1 DEF EndsUnit, CutAt
  <2>2. CASE i # h
    <3>1. i + 1 \in 1 .. h
      BY <1>2, <2>2
    <3>2. QED BY <1>2, <2>2, <3>1 DEF EndsUnit
  <2>3. QED BY <2>1, <2>2
<1>4. ASSUME NEW p, PointBack(l, s, i, p) PROVE PointBack(c, Prefix(s, h), i, p)
  <2>1. PICK j \in 1 .. i : l[j].kind = "delete" /\ NoTextIn(l, j + 1, i) /\ LastPoint(l, s, i, p, j)
    BY <1>4 DEF PointBack
  <2>2. j \in 1 .. h /\ c[j] = l[j] /\ \A k \in j .. i : k \in 1 .. h /\ c[k] = l[k]
    BY <1>2
  <2>3. \A k \in j + 1 .. i : k \in j .. i
    OBVIOUS
  <2>4. NoTextIn(c, j + 1, i)
    BY <2>1, <2>2, <2>3 DEF NoTextIn
  <2>5. Prefix(s, h)[i] = s[i]
    BY DEF Prefix
  <2>6. LastPoint(c, Prefix(s, h), i, p, j)
    <3>1. CASE (\A k \in j + 1 .. i : l[k].kind # "point") /\ l[j].pos = p
      BY <2>2, <2>3, <3>1 DEF LastPoint
    <3>2. CASE \E k \in j + 1 .. i : /\ l[k].kind = "point" /\ (\A g \in k + 1 .. i : l[g].kind # "point")
                                     /\ p = Clip(l[k].at, Len(s[i].text))
      <4>1. PICK k \in j + 1 .. i : /\ l[k].kind = "point" /\ (\A g \in k + 1 .. i : l[g].kind # "point")
                                    /\ p = Clip(l[k].at, Len(s[i].text))
        BY <3>2
      <4>2. c[k] = l[k] /\ \A g \in k + 1 .. i : c[g] = l[g]
        BY <2>2, <2>3
      <4>3. QED BY <2>5, <4>1, <4>2 DEF LastPoint
    <3>3. QED BY <2>1, <3>1, <3>2 DEF LastPoint
  <2>7. QED BY <2>1, <2>2, <2>4, <2>6 DEF PointBack
<1>5. QED BY <1>3, <1>4

(* The list C is what follows record D of L, a boundary.                      *)
RestAfter(l, c, d) ==
  /\ c \in Seq(Records) /\ d \in 1 .. Len(l) /\ Len(c) = Len(l) - d
  /\ \A i \in 1 .. Len(l) - d : c[i] = l[i + d]
  /\ l[d].kind = "boundary"
Suffix(s, n, d) == [i \in 0 .. n - d |-> s[i + d]]

(* What follows a boundary of a good list is good.                          *)
LEMMA RestGood ==
  ASSUME NEW l \in Seq(Records), NEW T, NEW w, NEW s, Good(l, s, T, w), NEW c, NEW d, RestAfter(l, c, d),
         NEW n \in Nat, n = Len(l)
  PROVE  Good(c, Suffix(s, n, d), T, w)
<1> DEFINE u == Suffix(s, n, d)
<1>1. PICK h \in Nat : h = n - d
  <2>1. d \in 1 .. n
    BY DEF RestAfter
  <2>2. n - d \in Nat
    BY <2>1
  <2>3. QED BY <2>2
<1>2. d \in 1 .. n /\ n = h + d /\ Len(c) = h /\ c \in Seq(Records) /\ \A i \in 1 .. h : c[i] = l[i + d]
  BY <1>1 DEF RestAfter
<1>3. \A i \in 0 .. h : u[i] = s[i + d]
  BY <1>1 DEF Suffix
<1>4. Chain(c, u, T)
  <2>1. u \in [0 .. h -> Stages]
    <3>1. \A i \in 0 .. h : i + d \in 0 .. n
      BY <1>2
    <3>2. QED BY <1>1, <3>1 DEF Good, Chain, Suffix
  <2> HIDE DEF u
  <2>2. ASSUME NEW i \in 1 .. h PROVE Step(c[i], u[i - 1], u[i], T)
    <3>1. i + d \in 1 .. n /\ i \in 0 .. h /\ i - 1 \in 0 .. h /\ (i - 1) + d = (i + d) - 1
      BY <1>2
    <3>2. Step(l[i + d], s[(i + d) - 1], s[i + d], T)
      BY <3>1 DEF Good, Chain
    <3>3. u[i - 1] = s[(i + d) - 1] /\ u[i] = s[i + d]
      BY <1>3, <3>1
    <3>4. QED BY <1>2, <3>2, <3>3
  <2>3. QED BY <1>2, <2>1, <2>2 DEF Chain
<1> HIDE DEF u
<1>5. \A j \in 1 .. h : \A q \in 1 .. (j + d) - 1 :
        d \in q .. j + d \/ \E k \in 1 .. j - 1 : q = k + d
  <2>1. ASSUME NEW j \in 1 .. h, NEW q \in 1 .. (j + d) - 1, q > d
        PROVE  q - d \in 1 .. j - 1 /\ q = (q - d) + d
    BY <1>2, <2>1
  <2>2. ASSUME NEW j \in 1 .. h, NEW q \in 1 .. (j + d) - 1, ~(q > d)
        PROVE  d \in q .. j + d
    BY <1>2, <2>2
  <2>3. QED BY <2>1, <2>2
<1>6. l[d].kind = "boundary"
  BY DEF RestAfter
<1>7. Sound(c, u, T)
  <2>1. ASSUME NEW j \in 1 .. h, c[j].kind = "adjust", c[j].marker \in T PROVE HasCause(c, u, j)
    <3>1. j + d \in 1 .. n /\ c[j] = l[j + d] /\ j - 1 \in 0 .. h /\ (j - 1) + d = (j + d) - 1
      BY <1>2
    <3>2. PICK q \in 1 .. (j + d) - 1 : Caused(l, s, j + d, q)
      BY <2>1, <3>1 DEF Good, Sound, HasCause
    <3>3. d \notin q .. j + d
      <4>1. d \notin q + 1 .. j + d
        BY <1>6, <3>2 DEF Caused, NoTextIn
      <4>2. d # q
        BY <1>6, <3>2 DEF Caused
      <4>3. QED BY <1>2, <4>1, <4>2
    <3>4. PICK k \in 1 .. j - 1 : q = k + d
      BY <1>5, <3>3
    <3>5. k \in 1 .. h /\ c[k] = l[q] /\ u[j - 1] = s[(j + d) - 1]
      BY <1>2, <1>3, <3>1, <3>4
    <3>6. \A i \in k + 1 .. j : i \in 1 .. h /\ c[i] = l[i + d] /\ i + d \in q + 1 .. j + d
      BY <1>2, <3>4, <3>5
    <3>7. NoTextIn(c, k + 1, j)
      BY <3>2, <3>6 DEF Caused, NoTextIn
    <3>8. Caused(c, u, j, k)
      BY <3>1, <3>2, <3>5, <3>7 DEF Caused
    <3>9. QED BY <3>8 DEF HasCause
  <2>2. QED BY <1>2, <2>1 DEF Sound
<1>8. Timed(c, u, w)
  <2>1. ASSUME NEW i \in 1 .. h, c[i].kind = "first" PROVE WellTimed(c, u, w, i)
    <3>1. i + d \in 1 .. n /\ c[i] = l[i + d] /\ i \in 0 .. h
      BY <1>2
    <3>2. WellTimed(l, s, w, i + d)
      BY <2>1, <3>1 DEF Good, Timed
    <3>3. TextBefore(c, i)
      <4>1. PICK q \in 1 .. (i + d) - 1 : IsText(l[q]) /\ NoBoundary(l, q, i + d)
        BY <3>2 DEF WellTimed, TextBefore
      <4>2. d \notin q .. i + d
        BY <1>6, <4>1 DEF NoBoundary
      <4>3. PICK k \in 1 .. i - 1 : q = k + d
        BY <1>5, <4>2
      <4>4. \A j \in k .. i : j \in 1 .. h /\ c[j] = l[j + d] /\ j + d \in q .. i + d
        BY <1>2, <4>3
      <4>5. k \in k .. i
        OBVIOUS
      <4>6. IsText(c[k]) /\ NoBoundary(c, k, i)
        BY <4>1, <4>3, <4>4, <4>5 DEF NoBoundary
      <4>7. QED BY <4>6 DEF TextBefore
    <3>4. ASSUME TextLeft(l, i + d) PROVE TextLeft(c, i)
      <4>1. PICK q \in (i + d) + 1 .. n : IsText(l[q]) /\ NoBoundary(l, i + d, q)
        BY <3>4 DEF TextLeft
      <4>2. PICK k \in i + 1 .. h : q = k + d
        <5>1. q - d \in i + 1 .. h /\ q = (q - d) + d
          BY <1>2
        <5>2. QED BY <5>1
      <4>3. \A j \in i .. k : j \in 1 .. h /\ c[j] = l[j + d] /\ j + d \in i + d .. q
        BY <1>2, <4>2
      <4>4. k \in i .. k
        OBVIOUS
      <4>5. IsText(c[k]) /\ NoBoundary(c, i, k)
        BY <4>1, <4>2, <4>3, <4>4 DEF NoBoundary
      <4>6. QED BY <1>2, <4>5 DEF TextLeft
    <3>5. u[i] = s[i + d]
      BY <1>3, <3>1
    <3>6. QED BY <3>1, <3>2, <3>3, <3>4, <3>5 DEF WellTimed
  <2>2. QED BY <1>2, <2>1 DEF Timed
<1>9. QED BY <1>4, <1>7, <1>8 DEF Good, u

-----------------------------------------------------------------------------
(* What is remembered.                                                       *)
Snaps == [text : Seq(Chars), pt : Int, marks : [Markers -> Int]]
Texts(l, snaps, s) ==
  /\ snaps \in Seq(Snaps) /\ Len(snaps) = Len(l)
  /\ \A i \in 1 .. Len(l) : EndsUnit(l, i) => snaps[i].text = s[i].text
MarkFits(snap, z, m, T) == snap.marks[m] = Unknown \/ (m \in T /\ snap.marks[m] = z.marks[m])
Marks(l, snaps, s, T) ==
  \A i \in 1 .. Len(l) : EndsUnit(l, i) => \A m \in Markers : MarkFits(snaps[i], s[i], m, T)
Points(l, snaps, s) ==
  \A i \in 1 .. Len(l) : EndsUnit(l, i) /\ snaps[i].pt # Unknown =>
    snaps[i].pt \in Nat \ {0} /\ PointBack(l, s, i, snaps[i].pt)

(* The markers that undoing puts back.                                       *)
Steady(b) == Markers \ (Advancing \cup b.astray)
SnapAt(b, l, i) == IF EndsUnit(l, i) THEN Snap(b, BeginsByDeleting(l, i)) ELSE NoSnap

(* What is remembered of a buffer.                                          *)
LEMMA SnapIs ==
  ASSUME NEW b \in Buffers, NEW l, NEW i
  PROVE  /\ SnapAt(b, l, i) \in Snaps
         /\ EndsUnit(l, i) =>
              /\ SnapAt(b, l, i).text = b.text
              /\ \A m \in Markers : SnapAt(b, l, i).marks[m] = IF m \in Steady(b) THEN b.marks[m] ELSE Unknown
              /\ SnapAt(b, l, i).pt # Unknown =>
                   /\ b.here /\ b.list # <<>> /\ BeginsByDeleting(l, i)
                   /\ SnapAt(b, l, i).pt = Clip(b.last, Len(b.text))
                   /\ SnapAt(b, l, i).pt \in Nat \ {0}
<1>1. b.text \in Seq(Chars) /\ b.marks \in [Markers -> Nat] /\ b.last \in Nat \ {0} /\ Len(b.text) \in Nat
  BY DEF Buffers
<1>2. Clipped(b, b.last) = Clip(b.last, Len(b.text)) /\ Clip(b.last, Len(b.text)) \in Nat \ {0}
  <2>1. PICK k \in Nat, p \in Nat \ {0} : k = Len(b.text) /\ p = b.last
    BY <1>1
  <2>2. QED BY <2>1 DEF Clipped, Clip
<1>3. CASE ~EndsUnit(l, i)
  <2>1. SnapAt(b, l, i) = NoSnap
    BY <1>3 DEF SnapAt
  <2>2. [m \in Markers |-> Unknown] \in [Markers -> Int]
    BY DEF Unknown
  <2>3. <<>> \in Seq(Chars) /\ Unknown \in Int
    BY DEF Unknown
  <2>4. NoSnap \in Snaps
    BY <2>2, <2>3 DEF NoSnap, Snaps
  <2>5. QED BY <1>3, <2>1, <2>4
<1>4. CASE EndsUnit(l, i)
  <2> DEFINE q == [m \in Markers |-> IF m \in Advancing \/ m \in b.astray THEN Unknown ELSE b.marks[m]]
             x == SnapAt(b, l, i)
  <2>1. q \in [Markers -> Int]
    <3>1. \A m \in Markers : b.marks[m] \in Int
      BY <1>1
    <3>2. QED BY <3>1 DEF Unknown
  <2>2. \A m \in Markers : q[m] = IF m \in Steady(b) THEN b.marks[m] ELSE Unknown
    BY DEF Steady
  <2>3. x = [text |-> b.text,
             pt |-> IF b.here /\ b.list # <<>> /\ BeginsByDeleting(l, i) THEN Clip(b.last, Len(b.text)) ELSE Unknown,
             marks |-> q]
    BY <1>2, <1>4 DEF SnapAt, Snap
  <2> HIDE DEF q, x
  <2>4. /\ x.text = b.text /\ x.marks = q
        /\ x.pt = IF b.here /\ b.list # <<>> /\ BeginsByDeleting(l, i) THEN Clip(b.last, Len(b.text)) ELSE Unknown
    BY <2>3
  <2>5. x.pt \in Int
    BY <1>2, <2>4 DEF Unknown
  <2>6. x \in Snaps
    BY <1>1, <2>1, <2>3, <2>4, <2>5 DEF Snaps
  <2>7. QED BY <1>2, <2>2, <2>4, <2>6 DEF x
<1>5. QED BY <1>3, <1>4

SnapsAdded(b, l, p, n, d, x) ==
  /\ x \in Seq(Snaps) /\ Len(x) = n + d
  /\ \A i \in 1 .. d : x[i] = SnapAt(b, l, i)
  /\ \A i \in 1 .. n : x[i + d] = p[i]

(* What is remembered when the list has grown.                              *)
LEMMA BeforeIs ==
  ASSUME NEW b \in Buffers, NEW c \in Buffers, past \in Seq(Snaps), NEW n \in Nat, n = Len(past),
         NEW d \in Nat, Len(c.list) = n + d, NEW x, x = Before(b, c)
  PROVE  SnapsAdded(b, c.list, past, n, d, x)
<1> DEFINE y == [i \in 1 .. d |-> SnapAt(b, c.list, i)]
<1>1. y \in Seq(Snaps) /\ Len(y) = d /\ \A i \in 1 .. d : y[i] = SnapAt(b, c.list, i)
  <2>1. \A i \in 1 .. d : SnapAt(b, c.list, i) \in Snaps
    BY SnapIs
  <2>2. y \in Seq(Snaps)
    BY <2>1
  <2>3. QED BY <2>2
<1>2. x = y \o past
  <2>1. Len(c.list) - Len(past) = d
    OBVIOUS
  <2>2. QED BY <2>1 DEF Before, SnapAt
<1> HIDE DEF y
<1>3. x \in Seq(Snaps) /\ Len(x) = n + d
  BY <1>1, <1>2, ConcatProperties
<1>4. \A i \in 1 .. n + d : x[i] = IF i <= d THEN y[i] ELSE past[i - d]
  BY <1>1, <1>2, ConcatProperties
<1>5. \A i \in 1 .. d : i \in 1 .. n + d /\ i <= d
  OBVIOUS
<1>6. \A i \in 1 .. n : i + d \in 1 .. n + d /\ ~(i + d <= d) /\ (i + d) - d = i
  OBVIOUS
<1>7. QED BY <1>1, <1>3, <1>4, <1>5, <1>6 DEF SnapsAdded

(* The units of a list that has grown end where they did.                   *)
LEMMA UnitKept ==
  ASSUME NEW l \in Seq(Records), NEW c \in Seq(Records), NEW s, NEW u, NEW d \in Nat, Grows(l, s, c, u, d),
         NEW i \in 1 .. Len(l)
  PROVE  EndsUnit(c, i + d) <=> EndsUnit(l, i)
<1>1. PICK n \in Nat : n = Len(l)
  OBVIOUS
<1>2. Len(c) = n + d /\ \A j \in 1 .. n : c[j + d].kind = l[j].kind
  BY <1>1 DEF Grows
<1>3. CASE i = n
  BY <1>1, <1>2, <1>3 DEF EndsUnit
<1>4. CASE i # n
  <2>1. i + 1 \in 1 .. n /\ (i + d) + 1 = (i + 1) + d /\ i + d # n + d
    BY <1>1, <1>4
  <2>2. c[(i + d) + 1].kind = l[i + 1].kind
    BY <1>2, <2>1
  <2>3. QED BY <1>1, <1>2, <1>4, <2>1, <2>2 DEF EndsUnit
<1>5. QED BY <1>3, <1>4

(* What is remembered grows with the list.                                   *)
LEMMA RememberedGrown ==
  ASSUME NEW b \in Buffers, NEW c \in Buffers, NEW s, NEW u, NEW d \in Nat, Grows(b.list, s, c.list, u, d),
         s[0].text = b.text, Texts(b.list, past, s), NEW x, x = Before(b, c)
  PROVE  /\ Texts(c.list, x, u)
         /\ \A T : T = Steady(b) /\ Agree(b, s[0], T) /\ Marks(b.list, past, s, T) => Marks(c.list, x, u, T)
         /\ Points(b.list, past, s) /\ NewPoints(b, s, c.list, u, d) => Points(c.list, x, u)
<1>1. PICK n \in Nat : n = Len(b.list)
  BY DEF Buffers
<1>2. b.list \in Seq(Records) /\ c.list \in Seq(Records) /\ past \in Seq(Snaps) /\ n = Len(past)
  BY <1>1 DEF Buffers, Texts
<1>3. Len(c.list) = n + d /\ \A i \in 1 .. n : u[i + d] = s[i]
  BY <1>1 DEF Grows
<1>4. /\ x \in Seq(Snaps) /\ Len(x) = n + d
      /\ \A i \in 1 .. d : x[i] = SnapAt(b, c.list, i)
      /\ \A i \in 1 .. n : x[i + d] = past[i]
  <2>1. SnapsAdded(b, c.list, past, n, d, x)
    BY <1>2, <1>3, BeforeIs
  <2>2. QED BY <2>1 DEF SnapsAdded
<1>5. ASSUME NEW k \in 1 .. n + d PROVE k \in 1 .. d \/ \E i \in 1 .. n : k = i + d
  <2>1. k \in 1 .. d \/ (k - d \in 1 .. n /\ k = (k - d) + d)
    OBVIOUS
  <2>2. QED BY <2>1
<1>6. ASSUME NEW k \in 1 .. d, EndsUnit(c.list, k) PROVE u[k] = s[0]
  BY <1>6 DEF Grows
<1>7. ASSUME NEW i \in 1 .. n PROVE EndsUnit(c.list, i + d) <=> EndsUnit(b.list, i)
  BY <1>1, <1>2, UnitKept
<1>8. Texts(c.list, x, u)
  <2>1. ASSUME NEW k \in 1 .. n + d, EndsUnit(c.list, k) PROVE x[k].text = u[k].text
    <3>1. CASE k \in 1 .. d
      BY <1>4, <1>6, <2>1, <3>1, SnapIs
    <3>2. CASE \E i \in 1 .. n : k = i + d
      BY <1>1, <1>3, <1>4, <1>7, <2>1, <3>2, ZenonT(60) DEF Texts
    <3>3. QED BY <1>5, <3>1, <3>2
  <2>2. QED BY <1>3, <1>4, <2>1 DEF Texts
<1>9. ASSUME NEW T, T = Steady(b), Agree(b, s[0], T), Marks(b.list, past, s, T) PROVE Marks(c.list, x, u, T)
  <2>1. ASSUME NEW k \in 1 .. n + d, EndsUnit(c.list, k), NEW m \in Markers
        PROVE  MarkFits(x[k], u[k], m, T)
    <3>1. CASE k \in 1 .. d
      <4>1. x[k].marks[m] = IF m \in T THEN b.marks[m] ELSE Unknown
        BY <1>4, <1>9, <2>1, <3>1, SnapIs
      <4>2. QED BY <1>6, <1>9, <2>1, <3>1, <4>1 DEF MarkFits, Agree
    <3>2. CASE \E i \in 1 .. n : k = i + d
      BY <1>1, <1>3, <1>4, <1>7, <1>9, <2>1, <3>2 DEF Marks
    <3>3. QED BY <1>5, <3>1, <3>2
  <2>2. QED BY <1>3, <2>1 DEF Marks
<1>10. ASSUME Points(b.list, past, s), NewPoints(b, s, c.list, u, d) PROVE Points(c.list, x, u)
  <2>1. ASSUME NEW k \in 1 .. n + d, EndsUnit(c.list, k), x[k].pt # Unknown
        PROVE  x[k].pt \in Nat \ {0} /\ PointBack(c.list, u, k, x[k].pt)
    <3>1. CASE k \in 1 .. d
      <4>1. /\ b.here /\ b.list # <<>> /\ BeginsByDeleting(c.list, k)
            /\ x[k].pt = Clip(b.last, Len(b.text)) /\ x[k].pt \in Nat \ {0}
        BY <1>4, <2>1, <3>1, SnapIs
      <4>2. QED BY <1>10, <2>1, <3>1, <4>1 DEF NewPoints
    <3>2. CASE \E i \in 1 .. n : k = i + d
      <4>1. PICK i \in 1 .. n : k = i + d
        BY <3>2
      <4>2. x[k] = past[i] /\ EndsUnit(b.list, i)
        BY <1>4, <1>7, <2>1, <4>1
      <4>3. past[i].pt \in Nat \ {0} /\ PointBack(b.list, s, i, past[i].pt)
        BY <1>1, <1>10, <2>1, <4>2 DEF Points
      <4>4. QED BY <1>1, <1>2, <4>1, <4>2, <4>3, PointKept
    <3>3. QED BY <1>5, <3>1, <3>2
  <2>2. QED BY <1>3, <2>1 DEF Points
<1>11. QED BY <1>8, <1>9, <1>10

(* A boundary at the head.                                                   *)
BoundaryWritten(b, s, c, d, T, w) ==
  \E v : Good(c, v, T, w) /\ Grows(b.list, s, c, v, d) /\ v[0] = s[0] /\ NewPoints(b, s, c, v, d)

(* A good list with a boundary before it is good.                           *)
LEMMA BoundaryGood ==
  ASSUME NEW b \in Buffers, NEW T, NEW w, NEW s, Good(b.list, s, T, w), NEW c, NEW d, Separated(b.list, c, d)
  PROVE  BoundaryWritten(b, s, c, d, T, w) /\ c \in Seq(Records) /\ d \in Nat
<1>1. b.list \in Seq(Records) /\ Chain(b.list, s, T)
  BY DEF Buffers, Good
<1>2. /\ c \in Seq(Records) /\ d \in Nat
      /\ \E v : Chain(c, v, T) /\ Grows(b.list, s, c, v, d) /\ v[0] = s[0]
      /\ d = 1 => c[1].kind = "boundary" /\ Len(c) = Len(b.list) + 1
  BY <1>1, SeparatedGrows
<1>3. PICK v : Chain(c, v, T) /\ Grows(b.list, s, c, v, d) /\ v[0] = s[0]
  BY <1>2
<1>4. \A j \in 1 .. d : c[j].kind = "boundary"
  <2>1. d = 0 \/ d = 1
    BY DEF Separated
  <2>2. QED BY <1>2, <2>1
<1>5. Good(c, v, T, w)
  BY <1>1, <1>2, <1>3, <1>4, GoodKept
<1>6. NewPoints(b, s, c, v, d)
  <2>1. ASSUME NEW i \in 1 .. d PROVE ~BeginsByDeleting(c, i)
    <3>1. \A j \in 1 .. i : j \in 1 .. d
      BY <1>2
    <3>2. QED BY <1>4, <3>1 DEF BeginsByDeleting
  <2>2. QED BY <2>1 DEF NewPoints
<1>7. QED BY <1>2, <1>3, <1>5, <1>6 DEF BoundaryWritten

-----------------------------------------------------------------------------
(* The invariant.  The undo list leads from the buffer to the buffers         *)
(* remembered, and so does the rest of it that a series of undos has come to. *)
Recalled(l, snaps, b, T, w) ==
  \E s : Good(l, s, T, w) /\ Agree(b, s[0], T) /\ Texts(l, snaps, s) /\ Marks(l, snaps, s, T)
RecalledAll(l, snaps, b, T, w) ==
  \E s : /\ Good(l, s, T, w) /\ Agree(b, s[0], T) /\ Texts(l, snaps, s) /\ Marks(l, snaps, s, T)
         /\ Points(l, snaps, s)
SharedTail(p, l) ==
  Len(p) <= Len(l) /\ \A i \in 1 .. Len(p) : p[i].kind = l[i + (Len(l) - Len(p))].kind

World == [time |-> buf.time, disk |-> disk, ok |-> IF hasty \/ halved THEN FALSE ELSE TRUE]

TypeOK ==
  /\ buf \in Buffers /\ pending \in [list : Seq(Records), tail : BOOLEAN] /\ disk \in Seq(Chars)
  /\ hasty \in BOOLEAN /\ halved \in BOOLEAN
InText == ~buf.error /\ buf.pt <= Len(buf.text) + 1
WhenOff == ~buf.on => buf.list = <<>> /\ pending.list = <<>>
PastRecalled == RecalledAll(buf.list, past, buf, Steady(buf), World)
RestRecalled == Recalled(pending.list, restPast, buf, Steady(buf), World)
Tailed == pending.tail => SharedTail(pending.list, buf.list)
UndoInv == TypeOK /\ InText /\ WhenOff /\ PastRecalled /\ RestRecalled /\ Tailed /\ UnmodifiedIsSaved

(* The empty list recalls nothing.                                          *)
LEMMA NothingRecalled ==
  ASSUME NEW b \in Buffers, NEW T, NEW w
  PROVE  RecalledAll(<<>>, <<>>, b, T, w) /\ Recalled(<<>>, <<>>, b, T, w)
<1> DEFINE a == [text |-> b.text, marks |-> b.marks]
           s == [i \in 0 .. 0 |-> a]
<1>1. a \in Stages /\ a.text = b.text /\ a.marks = b.marks
  BY DEF Stages, Buffers
<1> HIDE DEF a
<1>2. s \in [0 .. 0 -> Stages] /\ s[0] = a
  BY <1>1
<1>3. Len(<<>>) = 0 /\ <<>> \in Seq(Snaps) /\ 1 .. 0 = {}
  OBVIOUS
<1> HIDE DEF s
<1>4. Good(<<>>, s, T, w)
  BY <1>2, <1>3 DEF Good, Chain, Sound, Timed
<1>5. Agree(b, s[0], T)
  BY <1>1, <1>2 DEF Agree
<1>6. Texts(<<>>, <<>>, s) /\ Marks(<<>>, <<>>, s, T) /\ Points(<<>>, <<>>, s)
  BY <1>3 DEF Texts, Marks, Points
<1>7. QED BY <1>4, <1>5, <1>6 DEF RecalledAll, Recalled

(* What is recalled with point is recalled without it.                      *)
LEMMA AllRecalled ==
  ASSUME NEW l, NEW snaps, NEW b, NEW T, NEW w, RecalledAll(l, snaps, b, T, w)
  PROVE  Recalled(l, snaps, b, T, w)
BY DEF RecalledAll, Recalled

(* Nothing recalled depends on more of the buffer than its text and markers,   *)
(* nor on more of the world than the invariant says.                         *)
LEMMA RecalledLater ==
  ASSUME NEW l \in Seq(Records), NEW snaps, NEW b, NEW c, NEW T, NEW w, NEW x,
         c.text = b.text, c.marks = b.marks,
         w.time \in Nat, x = w \/ (x.time \in Nat /\ x.time >= w.time /\ (x.ok => x.time > w.time))
  PROVE  /\ Recalled(l, snaps, b, T, w) => Recalled(l, snaps, c, T, x)
         /\ RecalledAll(l, snaps, b, T, w) => RecalledAll(l, snaps, c, T, x)
<1>1. ASSUME NEW s, Good(l, s, T, w) PROVE Good(l, s, T, x)
  BY <1>1, GoodLater
<1>2. ASSUME NEW s, Agree(b, s[0], T) PROVE Agree(c, s[0], T)
  BY <1>2 DEF Agree
<1>3. QED BY <1>1, <1>2 DEF Recalled, RecalledAll

(* What of the world the invariant is about.                                *)
LEMMA WorldIs ==
  ASSUME buf \in Buffers
  PROVE  World.time = buf.time /\ World.disk = disk /\ (World.ok <=> ~hasty /\ ~halved) /\ World.time \in Nat
BY DEF World, Buffers

(* A buffer that has just visited its file satisfies the invariant.         *)
LEMMA InvStarts ==
  ASSUME Init
  PROVE  UndoInv
<1>1. PICK p \in [Markers -> 1 .. Len(FileText) + 1] :
        buf = [text |-> FileText, pt |-> 1, marks |-> p, astray |-> {}, list |-> <<>>, on |-> TRUE,
               modified |-> FALSE, time |-> 0, own |-> FALSE, last |-> 1, here |-> FALSE, error |-> FALSE]
  BY DEF Init
<1>2. FileText \in Seq(Chars) /\ Len(FileText) \in Nat /\ <<>> \in Seq(Records)
  BY FileAssumption
<1>3. p \in [Markers -> Nat]
  <2>1. \A m \in Markers : p[m] \in Nat
    BY <1>2
  <2>2. QED BY <2>1
<1>4. buf \in Buffers
  BY <1>1, <1>2, <1>3 DEF Buffers
<1>5. pending = NonePending /\ disk = FileText /\ past = <<>> /\ restPast = <<>> /\ hasty = FALSE /\ halved = FALSE
  BY DEF Init
<1>6. TypeOK
  BY <1>2, <1>4, <1>5 DEF TypeOK, NonePending
<1>7. InText /\ WhenOff /\ Tailed /\ UnmodifiedIsSaved
  BY <1>1, <1>2, <1>5 DEF InText, WhenOff, Tailed, UnmodifiedIsSaved, NonePending
<1>8. PastRecalled /\ RestRecalled
  <2>1. buf.list = <<>> /\ pending.list = <<>>
    BY <1>1, <1>5 DEF NonePending
  <2>2. QED BY <1>4, <1>5, <2>1, NothingRecalled DEF PastRecalled, RestRecalled
<1>9. QED BY <1>6, <1>7, <1>8 DEF UndoInv

(* Steps of the buffer that leave the list, the text and the markers.         *)
SameText(b, c) == c.text = b.text /\ c.marks = b.marks /\ c.astray = b.astray /\ c.list = b.list

(* As long as text, markers and lists stay, so does what is recalled.       *)
LEMMA ListsStay ==
  ASSUME UndoInv, buf' \in Buffers, SameText(buf, buf'), past' = past,
         \/ World' = World
         \/ World'.time \in Nat /\ World'.time >= World.time /\ (World'.ok => World'.time > World.time)
  PROVE  /\ PastRecalled'
         /\ pending'.list = pending.list /\ restPast' = restPast => RestRecalled'
<1>1. /\ buf \in Buffers /\ buf.list \in Seq(Records) /\ pending.list \in Seq(Records)
      /\ World.time \in Nat
  BY WorldIs DEF UndoInv, TypeOK, Buffers
<1>2. Steady(buf') = Steady(buf) /\ buf'.list = buf.list
  BY DEF Steady, SameText
<1>3. PICK x : x = World'
  OBVIOUS
<1>4. PICK T, w : T = Steady(buf) /\ w = World
  OBVIOUS
<1>5. RecalledAll(buf.list, past, buf', T, x)
  <2>1. RecalledAll(buf.list, past, buf, T, w)
    BY <1>4 DEF UndoInv, PastRecalled
  <2>2. QED BY <1>1, <1>3, <1>4, <2>1, RecalledLater DEF SameText
<1>6. Recalled(pending.list, restPast, buf', T, x)
  <2>1. Recalled(pending.list, restPast, buf, T, w)
    BY <1>4 DEF UndoInv, RestRecalled
  <2>2. QED BY <1>1, <1>3, <1>4, <2>1, RecalledLater DEF SameText
<1>7. PastRecalled'
  BY <1>2, <1>3, <1>4, <1>5 DEF PastRecalled
<1>8. ASSUME pending'.list = pending.list, restPast' = restPast PROVE RestRecalled'
  BY <1>2, <1>3, <1>4, <1>6, <1>8 DEF RestRecalled
<1>9. QED BY <1>7, <1>8

(* write-region keeps the invariant: what was recorded of the old time of   *)
(* the file no longer counts, or the clock did not move.                    *)
LEMMA SaveStep ==
  ASSUME UndoInv, NEW time, Save(time)
  PROVE  UndoInv'
<1>1. /\ time \in {buf.time, buf.time + 1} /\ disk' = buf.text
      /\ buf' = [buf EXCEPT !.modified = FALSE, !.time = time]
      /\ hasty' = (hasty \/ time = buf.time)
      /\ pending' = pending /\ past' = past /\ restPast' = restPast /\ halved' = halved
  BY DEF Save
<1>2. buf \in Buffers /\ buf.time \in Nat /\ time \in Nat
  BY <1>1 DEF UndoInv, TypeOK, Buffers
<1>3. /\ buf' \in Buffers /\ SameText(buf, buf') /\ buf'.time = time /\ buf'.error = buf.error
      /\ buf'.pt = buf.pt /\ buf'.on = buf.on
  BY <1>1, <1>2 DEF Buffers, SameText
<1>4. TypeOK' /\ InText' /\ WhenOff' /\ Tailed' /\ UnmodifiedIsSaved'
  <2>1. TypeOK'
    BY <1>1, <1>3 DEF UndoInv, TypeOK, Buffers
  <2>2. InText' /\ WhenOff' /\ Tailed'
    BY <1>1, <1>3 DEF UndoInv, InText, WhenOff, Tailed, SameText
  <2>3. UnmodifiedIsSaved'
    BY <1>1, <1>3 DEF UnmodifiedIsSaved, SameText
  <2>4. QED BY <2>1, <2>2, <2>3
<1>5. PastRecalled' /\ RestRecalled'
  <2>1. World'.time = time /\ (World'.ok <=> ~hasty' /\ ~halved') /\ World.time = buf.time
    BY <1>3 DEF World
  <2>2. World'.time \in Nat /\ World'.time >= World.time /\ (World'.ok => World'.time > World.time)
    <3>1. World'.ok => time # buf.time
      BY <1>1, <2>1
    <3>2. PICK t \in Nat : t = buf.time
      BY <1>2
    <3>3. time \in {t, t + 1}
      BY <1>1, <3>2
    <3>4. time >= t /\ (time # t => time > t)
      BY <3>3
    <3>5. QED BY <1>2, <2>1, <3>1, <3>2, <3>4
  <2>3. QED BY <1>1, <1>3, <2>2, ListsStay
<1>6. QED BY <1>4, <1>5 DEF UndoInv

(* The world is the same if the file is and its time.                       *)
LEMMA SameWorld ==
  ASSUME buf \in Buffers, buf' \in Buffers, buf'.time = buf.time, UNCHANGED <<disk, hasty, halved>>
  PROVE  World' = World
BY DEF World

(* An edit of another buffer keeps the invariant.                           *)
LEMMA ElsewhereStep ==
  ASSUME UndoInv, NEW here \in BOOLEAN, EditElsewhere(here)
  PROVE  UndoInv'
<1>1. /\ buf' = [buf EXCEPT !.own = FALSE, !.here = here]
      /\ UNCHANGED <<pending, disk, past, restPast, hasty, halved>>
  BY DEF EditElsewhere
<1>2. buf \in Buffers
  BY DEF UndoInv, TypeOK
<1>3. /\ buf' \in Buffers /\ SameText(buf, buf') /\ buf'.time = buf.time /\ buf'.error = buf.error
      /\ buf'.pt = buf.pt /\ buf'.on = buf.on /\ buf'.modified = buf.modified
  BY <1>1, <1>2 DEF Buffers, SameText
<1>4. TypeOK' /\ InText' /\ WhenOff' /\ Tailed' /\ UnmodifiedIsSaved'
  <2>1. TypeOK' /\ InText' /\ WhenOff' /\ Tailed'
    BY <1>1, <1>3 DEF UndoInv, TypeOK, InText, WhenOff, Tailed, SameText
  <2>2. UnmodifiedIsSaved'
    BY <1>1, <1>3 DEF UndoInv, UnmodifiedIsSaved, SameText
  <2>3. QED BY <2>1, <2>2
<1>5. World' = World
  BY <1>1, <1>2, <1>3, SameWorld
<1>6. QED BY <1>1, <1>3, <1>4, <1>5, ListsStay DEF UndoInv

(* goto-char keeps the invariant.                                           *)
LEMMA GotoCharStep ==
  ASSUME UndoInv, NEW p, GotoChar(p)
  PROVE  UndoInv'
<1>1. /\ p \in 1 .. Len(buf.text) + 1 /\ buf' = [buf EXCEPT !.pt = p]
      /\ pending' = NonePending /\ restPast' = <<>> /\ UNCHANGED <<disk, past, hasty, halved>>
  BY DEF GotoChar
<1>2. buf \in Buffers /\ Len(buf.text) \in Nat /\ <<>> \in Seq(Records)
  BY DEF UndoInv, TypeOK, Buffers
<1>3. /\ buf' \in Buffers /\ SameText(buf, buf') /\ buf'.time = buf.time /\ buf'.error = buf.error
      /\ buf'.pt = p /\ buf'.on = buf.on /\ buf'.modified = buf.modified
  <2>1. p \in Nat \ {0}
    <3>1. PICK n \in Nat : n = Len(buf.text)
      BY <1>2
    <3>2. QED BY <1>1, <3>1
  <2>2. QED BY <1>1, <1>2, <2>1 DEF Buffers, SameText
<1>4. TypeOK' /\ InText' /\ WhenOff' /\ Tailed' /\ UnmodifiedIsSaved'
  <2>1. TypeOK'
    BY <1>1, <1>2, <1>3 DEF UndoInv, TypeOK, NonePending
  <2>2. InText' /\ WhenOff' /\ Tailed'
    BY <1>1, <1>2, <1>3 DEF UndoInv, InText, WhenOff, Tailed, SameText, NonePending
  <2>3. UnmodifiedIsSaved'
    BY <1>1, <1>3 DEF UndoInv, UnmodifiedIsSaved, SameText
  <2>4. QED BY <2>1, <2>2, <2>3
<1>5. World' = World
  BY <1>1, <1>2, <1>3, SameWorld
<1>6. PastRecalled'
  BY <1>1, <1>3, <1>5, ListsStay
<1>7. RestRecalled'
  <2>1. pending'.list = <<>>
    BY <1>1 DEF NonePending
  <2>2. QED BY <1>1, <1>3, <2>1, NothingRecalled DEF RestRecalled
<1>8. QED BY <1>4, <1>6, <1>7 DEF UndoInv

(* buffer-disable-undo and buffer-enable-undo keep the invariant.           *)
LEMMA SetUndoStep ==
  ASSUME UndoInv, NEW on \in BOOLEAN, SetUndo(on)
  PROVE  UndoInv'
<1>1. /\ buf' = [buf EXCEPT !.on = on, !.list = <<>>] /\ past' = <<>>
      /\ pending' = NonePending /\ restPast' = <<>> /\ UNCHANGED <<disk, hasty, halved>>
  BY DEF SetUndo
<1>2. buf \in Buffers /\ <<>> \in Seq(Records)
  BY DEF UndoInv, TypeOK
<1>3. /\ buf' \in Buffers /\ buf'.list = <<>> /\ buf'.text = buf.text /\ buf'.error = buf.error
      /\ buf'.pt = buf.pt /\ buf'.modified = buf.modified
  BY <1>1, <1>2 DEF Buffers
<1>4. pending'.list = <<>> /\ ~pending'.tail
  BY <1>1 DEF NonePending
<1>5. TypeOK' /\ InText' /\ WhenOff' /\ Tailed' /\ UnmodifiedIsSaved'
  <2>1. TypeOK'
    BY <1>1, <1>2, <1>3 DEF UndoInv, TypeOK, NonePending
  <2>2. InText' /\ WhenOff' /\ Tailed'
    BY <1>3, <1>4 DEF UndoInv, InText, WhenOff, Tailed
  <2>3. UnmodifiedIsSaved'
    BY <1>1, <1>3 DEF UndoInv, UnmodifiedIsSaved
  <2>4. QED BY <2>1, <2>2, <2>3
<1>6. PastRecalled' /\ RestRecalled'
  BY <1>1, <1>3, <1>4, NothingRecalled DEF PastRecalled, RestRecalled
<1>7. QED BY <1>5, <1>6 DEF UndoInv

(* What is remembered after the list has grown.                               *)
LEMMA PastGrown ==
  ASSUME NEW b \in Buffers, NEW T, T = Steady(b), NEW w, NEW s, Agree(b, s[0], T),
         Texts(b.list, past, s), Marks(b.list, past, s, T), Points(b.list, past, s),
         NEW c \in Buffers, NEW d \in Nat, NEW u, Good(c.list, u, T, w), Grows(b.list, s, c.list, u, d),
         Agree(c, u[0], T), NewPoints(b, s, c.list, u, d), NEW x, x = Before(b, c)
  PROVE  RecalledAll(c.list, x, c, T, w)
<1>1. s[0].text = b.text
  BY DEF Agree
<1>2. Texts(c.list, x, u)
  BY <1>1, RememberedGrown
<1>3. Marks(c.list, x, u, T)
  BY <1>1, RememberedGrown
<1>4. Points(c.list, x, u)
  BY <1>1, RememberedGrown
<1>5. QED BY <1>2, <1>3, <1>4 DEF RecalledAll

(* Where there is no list, nothing is remembered.                           *)
LEMMA NoPast ==
  ASSUME NEW b \in Buffers, NEW c \in Buffers, b.list = <<>>, c.list = <<>>, NEW T, NEW w,
         RecalledAll(b.list, past, b, T, w)
  PROVE  past = <<>> /\ Before(b, c) = <<>>
<1>1. past \in Seq(Snaps) /\ Len(past) = 0
  <2>1. Len(<<>>) = 0
    OBVIOUS
  <2>2. QED BY <2>1 DEF RecalledAll, Texts
<1>2. past = <<>>
  BY <1>1
<1>3. PICK x : x = Before(b, c)
  OBVIOUS
<1>4. SnapsAdded(b, c.list, past, 0, 0, x)
  <2>1. 0 \in Nat /\ 0 = Len(past) /\ Len(c.list) = 0 + 0
    BY <1>1
  <2>2. QED BY <1>1, <1>3, <2>1, BeforeIs
<1>5. x \in Seq(Snaps) /\ Len(x) = 0
  BY <1>4 DEF SnapsAdded
<1>6. x = <<>>
  BY <1>5
<1>7. QED BY <1>2, <1>3, <1>6

(* An edit that is recorded, whatever came before.                            *)
Records1(b, s, T, w) == Good(b.list, s, T, w) /\ Agree(b, s[0], T) /\ Unmodified(b, s, w)
Rewrites(b, c, T, w) == \A s : Records1(b, s, T, w) => EditWritten(b, s, c, T, w)

(* A buffer that counts as unmodified may record the time of its file.      *)
LEMMA UnmodifiedNow ==
  ASSUME UndoInv, NEW s, NEW T, Agree(buf, s[0], T)
  PROVE  Unmodified(buf, s, World)
<1>1. World.disk = disk /\ (World.ok <=> ~hasty /\ ~halved)
  BY WorldIs DEF UndoInv, TypeOK
<1>2. QED BY <1>1 DEF UndoInv, UnmodifiedIsSaved, Unmodified, Agree

(* An edit that leads back to the buffer before it keeps the invariant.     *)
LEMMA EditStep ==
  ASSUME UndoInv, NEW new, Edit(new, Before(buf, new)), Kept(buf, new), new.modified,
         new.pt <= Len(new.text) + 1,
         buf.on => Rewrites(buf, new, Steady(buf), World),
         ~buf.on => new.list = buf.list
  PROVE  UndoInv'
<1>1. /\ buf' = new /\ past' = Before(buf, new) /\ pending' = NonePending /\ restPast' = <<>>
      /\ UNCHANGED <<disk, hasty, halved>>
  BY DEF Edit
<1>2. /\ buf \in Buffers /\ new \in Buffers /\ new.astray = buf.astray /\ new.on = buf.on
      /\ new.time = buf.time /\ new.error = buf.error /\ <<>> \in Seq(Records)
  BY DEF UndoInv, TypeOK, Kept
<1>3. pending'.list = <<>> /\ ~pending'.tail
  BY <1>1 DEF NonePending
<1>4. TypeOK' /\ InText' /\ WhenOff' /\ Tailed' /\ UnmodifiedIsSaved'
  <2>1. TypeOK'
    BY <1>1, <1>2 DEF UndoInv, TypeOK, NonePending
  <2>2. InText' /\ WhenOff' /\ Tailed'
    BY <1>1, <1>2, <1>3 DEF UndoInv, InText, WhenOff, Tailed
  <2>3. UnmodifiedIsSaved'
    BY <1>1 DEF UnmodifiedIsSaved
  <2>4. QED BY <2>1, <2>2, <2>3
<1>5. World' = World
  BY <1>1, <1>2, SameWorld
<1>6. RestRecalled'
  BY <1>1, <1>2, <1>3, NothingRecalled DEF RestRecalled
<1>7. Steady(buf') = Steady(buf)
  BY <1>1, <1>2 DEF Steady
<1>8. PICK T, w : T = Steady(buf) /\ w = World
  OBVIOUS
<1>9. PICK x : x = Before(buf, new)
  OBVIOUS
<1>10. RecalledAll(new.list, x, new, T, w)
  <2>1. CASE buf.on
    <3>1. PICK s : /\ Good(buf.list, s, T, w) /\ Agree(buf, s[0], T) /\ Texts(buf.list, past, s)
                   /\ Marks(buf.list, past, s, T) /\ Points(buf.list, past, s)
      BY <1>8 DEF UndoInv, PastRecalled, RecalledAll
    <3>2. EditWritten(buf, s, new, T, w)
      <4>1. Unmodified(buf, s, w)
        BY <1>8, <3>1, UnmodifiedNow
      <4>2. QED BY <1>8, <2>1, <3>1, <4>1 DEF Rewrites, Records1
    <3>3. PICK d \in Nat : \E u : Wrote(buf, s, new, u, d, T, w) /\ Agree(new, u[0], T)
      BY <3>2 DEF EditWritten
    <3>4. PICK u : Wrote(buf, s, new, u, d, T, w) /\ Agree(new, u[0], T)
      BY <3>3
    <3>5. Good(new.list, u, T, w) /\ Grows(buf.list, s, new.list, u, d) /\ NewPoints(buf, s, new.list, u, d)
      BY <3>4 DEF Wrote
    <3>6. QED BY <1>2, <1>8, <1>9, <3>1, <3>4, <3>5, PastGrown
  <2>2. CASE ~buf.on
    <3>1. buf.list = <<>> /\ new.list = <<>>
      BY <2>2 DEF UndoInv, WhenOff
    <3>2. RecalledAll(buf.list, past, buf, T, w)
      BY <1>8 DEF UndoInv, PastRecalled
    <3>3. x = <<>>
      BY <1>2, <1>9, <3>1, <3>2, NoPast
    <3>4. QED BY <1>2, <3>1, <3>3, NothingRecalled
  <2>3. QED BY <2>1, <2>2
<1>11. PastRecalled'
  BY <1>1, <1>5, <1>7, <1>8, <1>9, <1>10 DEF PastRecalled
<1>12. QED BY <1>4, <1>6, <1>11 DEF UndoInv

(* Nothing is recorded where undo is off.                                     *)
LEMMA NotRecorded ==
  ASSUME NEW b \in Buffers, ~b.on
  PROVE  /\ \A at, n : RecordInsert(b, at, n) = b
         /\ \A f, str : RecordDelete(b, f, str) = b
         /\ RecordFirstChange(b) = b
         /\ \A f, e : /\ MarkersForDelete(b, f, e).list = b.list
                      /\ MarkersForDelete(b, f, e).on = b.on
BY DEF RecordInsert, RecordDelete, RecordFirstChange, MarkersForDelete, RecordAdjustments, Buffers

(* An insertion keeps the invariant.                                        *)
LEMMA InsertStep ==
  ASSUME UndoInv, NEW str \in Strings, NEW before \in BOOLEAN, Insert(str, before)
  PROVE  UndoInv'
<1> DEFINE new == Inserted(buf, str, before)
           r == RecordInsert(buf, buf.pt, Len(str))
<1>1. str \in Seq(Chars) \ {<<>>}
  BY StringsAssumption
<1>2. buf \in Buffers /\ buf.pt <= Len(buf.text) + 1 /\ buf.pt \in Nat \ {0} /\ buf.text \in Seq(Chars)
  BY DEF UndoInv, TypeOK, InText, Buffers
<1>3. Edited(buf, new, Replaced(buf.text, buf.pt, buf.pt, str), buf.pt + Len(str),
             PushedMarks(buf.marks, buf.pt, Len(str), before), r)
  BY <1>1, <1>2, InsertedIs
<1>4. new.pt <= Len(new.text) + 1
  <2>1. str \in Seq(Chars)
    BY <1>1
  <2>2. IsPutIn(Replaced(buf.text, buf.pt, buf.pt, str), buf.text, buf.pt, str, Len(buf.text), Len(str))
    BY <1>2, <2>1, PutIn
  <2>3. PICK n \in Nat, k \in Nat, p \in Nat : n = Len(buf.text) /\ k = Len(str) /\ p = buf.pt
    BY <1>2, <2>1
  <2>4. Len(new.text) = n + k /\ new.pt = p + k /\ p <= n + 1
    BY <1>2, <1>3, <2>2, <2>3 DEF IsPutIn, Edited
  <2>5. QED BY <2>3, <2>4
<1>5. Edit(new, Before(buf, new))
  BY DEF Insert
<1>6. Kept(buf, new) /\ new.modified /\ new.list = r.list
  BY <1>3 DEF Edited
<1>7. ASSUME ~buf.on PROVE new.list = buf.list
  BY <1>2, <1>6, <1>7, NotRecorded
<1>8. ASSUME buf.on PROVE Rewrites(buf, new, Steady(buf), World)
  <2>1. PICK T, w : T = Steady(buf) /\ w = World
    OBVIOUS
  <2>2. T \in SUBSET Markers /\ w.time = buf.time
    BY <1>2, <2>1, WorldIs DEF Steady
  <2>3. PICK c : c = new
    OBVIOUS
  <2> HIDE DEF new
  <2>4. ASSUME NEW s, Records1(buf, s, T, w) PROVE EditWritten(buf, s, c, T, w)
    <3>1. Good(buf.list, s, T, w) /\ Agree(buf, s[0], T) /\ Unmodified(buf, s, w)
      BY <2>4 DEF Records1
    <3>2. c = Inserted(buf, str, before)
      BY <2>3 DEF new
    <3>3. QED BY <1>1, <1>2, <1>8, <2>2, <3>1, <3>2, InsertWritten
  <2>5. QED BY <2>1, <2>3, <2>4 DEF Rewrites
<1> HIDE DEF new
<1>9. QED BY <1>4, <1>5, <1>6, <1>7, <1>8, EditStep

(* A deletion keeps the invariant.                                          *)
LEMMA DeleteStep ==
  ASSUME UndoInv, NEW from \in 1 .. MaxLen + 1, NEW to \in 1 .. MaxLen + 1, Delete(from, to)
  PROVE  UndoInv'
<1> DEFINE new == Deleted(buf, from, to)
           g == MarkersForDelete(buf, from, to)
           r == RecordDelete(g, from, Part(buf.text, from, to))
<1>1. from \in Nat \ {0} /\ to \in Nat /\ from < to /\ to <= Len(buf.text) + 1 /\ from <= to
  BY BoundAssumption DEF Delete, Within
<1>2. buf \in Buffers /\ buf.pt <= Len(buf.text) + 1 /\ buf.pt \in Nat \ {0} /\ buf.text \in Seq(Chars)
  BY DEF UndoInv, TypeOK, InText, Buffers
<1>3. Edited(buf, new, Replaced(buf.text, from, to, <<>>), PointAfter(buf.pt, from, to, 0),
             PulledMarks(buf.marks, from, to), r)
  BY <1>1, <1>2, DeletedIs
<1>4. new.pt <= Len(new.text) + 1
  <2>2. IsTakenOut(Replaced(buf.text, from, to, <<>>), buf.text, from, to, Len(buf.text))
    BY <1>1, <1>2, TakenOut
  <2>3. PICK n \in Nat : n = Len(buf.text)
    BY <1>2
  <2>4. Len(new.text) = n - (to - from) /\ new.pt = PointAfter(buf.pt, from, to, 0)
    BY <1>3, <2>2, <2>3 DEF IsTakenOut, Edited
  <2>5. PointAfter(buf.pt, from, to, 0) <= (n - (to - from) + 0) + 1
    <3>1. 0 \in Nat
      OBVIOUS
    <3>2. QED BY <1>1, <1>2, <2>3, <3>1, PointAfterIs
  <2>6. n - (to - from) + 0 = n - (to - from)
    BY <1>1
  <2>7. QED BY <2>4, <2>5, <2>6
<1>5. Edit(new, Before(buf, new))
  BY DEF Delete
<1>6. Kept(buf, new) /\ new.modified /\ new.list = r.list
  BY <1>3 DEF Edited
<1>7. ASSUME ~buf.on PROVE new.list = buf.list
  <2>1. g \in Buffers
    <3>1. Kept(buf, g)
      BY <1>1, <1>2, MarkersForDeleteIs
    <3>2. QED BY <3>1 DEF Kept
  <2>2. g.list = buf.list /\ ~g.on
    BY <1>2, <1>7, NotRecorded
  <2> HIDE DEF g
  <2>3. r = g
    BY <2>1, <2>2, NotRecorded
  <2>4. QED BY <1>6, <2>2, <2>3
<1>8. ASSUME buf.on PROVE Rewrites(buf, new, Steady(buf), World)
  <2>1. PICK T, w : T = Steady(buf) /\ w = World
    OBVIOUS
  <2>2. T \in SUBSET Markers /\ w.time = buf.time
    BY <1>2, <2>1, WorldIs DEF Steady
  <2>3. PICK c : c = new
    OBVIOUS
  <2> HIDE DEF new
  <2>4. ASSUME NEW s, Records1(buf, s, T, w) PROVE EditWritten(buf, s, c, T, w)
    <3>1. Good(buf.list, s, T, w) /\ Agree(buf, s[0], T) /\ Unmodified(buf, s, w)
      BY <2>4 DEF Records1
    <3>2. c = Deleted(buf, from, to)
      BY <2>3 DEF new
    <3>3. QED BY <1>1, <1>2, <1>8, <2>2, <3>1, <3>2, DeleteWritten
  <2>5. QED BY <2>1, <2>3, <2>4 DEF Rewrites
<1> HIDE DEF new
<1>9. QED BY <1>4, <1>5, <1>6, <1>7, <1>8, EditStep

(* Overwriting keeps the invariant.                                         *)
LEMMA OverwriteStep ==
  ASSUME UndoInv, NEW to \in 1 .. MaxLen + 1, NEW str \in Strings, Overwrite(to, str)
  PROVE  UndoInv'
<1> DEFINE f == buf.pt
           q == ReplacedRange(buf, f, to, str)
           new == [q EXCEPT !.pt = buf.pt + Len(str)]
           g == MarkersForDelete(buf, f, to)
           h == RecordDelete(g, f, Part(buf.text, f, to))
           r == RecordInsert(h, f, Len(str))
<1>1. str \in Seq(Chars) \ {<<>>} /\ str \in Seq(Chars) /\ Len(str) \in Nat
  BY StringsAssumption
<1>2. buf \in Buffers /\ f \in Nat \ {0} /\ buf.text \in Seq(Chars)
  BY DEF UndoInv, TypeOK, Buffers
<1>3. to \in Nat /\ f < to /\ to <= Len(buf.text) + 1 /\ f <= to
  BY <1>2, BoundAssumption DEF Overwrite, Within
<1>4. Edited(buf, q, Replaced(buf.text, f, to, str), PointAfter(f, f, to, Len(str)),
             PushedMarks(PulledMarks(buf.marks, f, to), f, Len(str), FALSE), r)
  BY <1>1, <1>2, <1>3, ReplacedRangeIs
<1>5. q \in Buffers
  BY <1>4 DEF Edited, Kept
<1>6. Edit(new, Before(buf, new))
  BY DEF Overwrite
<1>7. q.text = Replaced(buf.text, f, to, str) /\ q.list = r.list /\ q.modified /\ Kept(buf, q)
  BY <1>4 DEF Edited
<1> HIDE DEF q, r
<1>8. /\ new \in Buffers /\ new.text = q.text /\ new.marks = q.marks /\ new.list = q.list /\ new.own = q.own
      /\ new.modified = q.modified /\ new.pt = buf.pt + Len(str)
      /\ new.astray = q.astray /\ new.on = q.on /\ new.time = q.time /\ new.last = q.last
      /\ new.here = q.here /\ new.error = q.error
  <2>1. buf.pt + Len(str) \in Nat \ {0}
    BY <1>1, <1>2
  <2>2. QED BY <1>5, <2>1 DEF Buffers
<1> HIDE DEF f, new
<1>9. Kept(buf, new) /\ new.modified
  BY <1>7, <1>8 DEF Kept
<1>10. new.pt <= Len(new.text) + 1
  <2>1. IsReplaced(Replaced(buf.text, f, to, str), buf.text, f, to, str, Len(buf.text), Len(str))
    BY <1>1, <1>2, <1>3, ReplacedIs
  <2>2. PICK n \in Nat, k \in Nat : n = Len(buf.text) /\ k = Len(str)
    BY <1>1, <1>2
  <2>3. Len(new.text) = n - (to - f) + k /\ new.pt = f + k /\ to <= n + 1
    BY <1>3, <1>7, <1>8, <2>1, <2>2 DEF IsReplaced, f
  <2>4. f + k <= n - (to - f) + k + 1
    BY <1>2, <1>3, <2>2, <2>3
  <2>5. QED BY <2>3, <2>4
<1>11. ASSUME ~buf.on PROVE new.list = buf.list
  <2>1. g \in Buffers
    <3>1. Kept(buf, g)
      BY <1>2, <1>3, MarkersForDeleteIs
    <3>2. QED BY <3>1 DEF Kept
  <2>2. g.list = buf.list /\ ~g.on
    BY <1>2, <1>11, NotRecorded
  <2> HIDE DEF g
  <2>3. h = g
    BY <2>1, <2>2, NotRecorded
  <2>4. RecordInsert(g, f, Len(str)) = g
    BY <2>1, <2>2, NotRecorded
  <2>5. r = g
    BY <2>3, <2>4 DEF r
  <2>6. QED BY <1>7, <1>8, <2>2, <2>5
<1>12. ASSUME buf.on PROVE Rewrites(buf, new, Steady(buf), World)
  <2>1. PICK T, w : T = Steady(buf) /\ w = World
    OBVIOUS
  <2>2. T \in SUBSET Markers /\ w.time = buf.time
    BY <1>2, <2>1, WorldIs DEF Steady
  <2>3. PICK c : c = new
    OBVIOUS
  <2>4. ASSUME NEW s, Records1(buf, s, T, w) PROVE EditWritten(buf, s, c, T, w)
    <3>1. Good(buf.list, s, T, w) /\ Agree(buf, s[0], T) /\ Unmodified(buf, s, w)
      BY <2>4 DEF Records1
    <3>2. q = ReplacedRange(buf, f, to, str)
      BY DEF q
    <3>3. EditWritten(buf, s, q, T, w)
      BY <1>1, <1>2, <1>3, <1>12, <2>2, <3>1, <3>2, ReplaceWritten
    <3>4. PICK d \in Nat : \E u : Wrote(buf, s, q, u, d, T, w) /\ Agree(q, u[0], T)
      BY <3>3 DEF EditWritten
    <3>5. PICK u : Wrote(buf, s, q, u, d, T, w) /\ Agree(q, u[0], T)
      BY <3>4
    <3>6. Wrote(buf, s, c, u, d, T, w)
      BY <1>8, <2>3, <3>5, WroteAs
    <3>7. Agree(c, u[0], T)
      BY <1>8, <2>3, <3>5 DEF Agree
    <3>8. QED BY <3>6, <3>7 DEF EditWritten
  <2>5. QED BY <2>1, <2>3, <2>4 DEF Rewrites
<1>13. QED BY <1>6, <1>9, <1>10, <1>11, <1>12, EditStep

(* A boundary recorded first thing.                                          *)
LEMMA BoundedSeparated ==
  ASSUME NEW b \in Buffers, NEW c, c = Bounded(b)
  PROVE  Recorded(b, c) /\ c.own = b.own /\ \E d : Separated(b.list, c.list, d)
<1>1. /\ Recorded(b, c) /\ c.own = b.own
      /\ \/ c.list = b.list
         \/ c.list = <<Boundary>> \o b.list
  BY BoundedIs
<1>2. QED BY <1>1 DEF Separated

(* A tail of the list is one still when the list has grown.                 *)
LEMMA TailKept ==
  ASSUME NEW p \in Seq(Records), NEW l \in Seq(Records), NEW c \in Seq(Records), NEW s, NEW u, NEW d \in Nat,
         Grows(l, s, c, u, d), SharedTail(p, l)
  PROVE  SharedTail(p, c)
<1>1. PICK n \in Nat, k \in Nat : n = Len(l) /\ k = Len(p)
  OBVIOUS
<1>2. Len(c) = n + d /\ \A j \in 1 .. n : c[j + d].kind = l[j].kind
  BY <1>1 DEF Grows
<1>3. k <= n /\ \A i \in 1 .. k : p[i].kind = l[i + (n - k)].kind
  BY <1>1 DEF SharedTail
<1>4. ASSUME NEW i \in 1 .. k PROVE p[i].kind = c[i + ((n + d) - k)].kind
  <2>1. i + (n - k) \in 1 .. n /\ (i + (n - k)) + d = i + ((n + d) - k)
    BY <1>3
  <2>2. c[(i + (n - k)) + d].kind = l[i + (n - k)].kind
    BY <1>2, <2>1
  <2>3. QED BY <1>3, <2>1, <2>2
<1>5. k <= n + d
  BY <1>3
<1>6. QED BY <1>1, <1>2, <1>4, <1>5 DEF SharedTail

(* The steps that only record a boundary.                                     *)
LEMMA BoundaryStep ==
  ASSUME UndoInv, buf' \in Buffers, buf'.text = buf.text, buf'.marks = buf.marks, buf'.pt = buf.pt,
         buf'.astray = buf.astray, buf'.on = buf.on, buf'.modified = buf.modified, buf'.time = buf.time,
         buf'.error = buf.error, NEW d, Separated(buf.list, buf'.list, d), ~buf.on => buf'.list = buf.list,
         past' = Before(buf, buf'), UNCHANGED <<disk, hasty, halved>>,
         \/ pending' = NonePending /\ restPast' = <<>>
         \/ pending' = pending /\ restPast' = restPast
  PROVE  UndoInv'
<1>1. buf \in Buffers /\ <<>> \in Seq(Records) /\ World.time \in Nat /\ pending.list \in Seq(Records)
  BY WorldIs DEF UndoInv, TypeOK
<1>2. World' = World /\ Steady(buf') = Steady(buf)
  <2>1. World' = World
    BY <1>1, SameWorld
  <2>2. QED BY <2>1 DEF Steady
<1>3. PICK T, w, x, c : T = Steady(buf) /\ w = World /\ x = Before(buf, buf') /\ c = buf'
  OBVIOUS
<1>4. PICK s : /\ Good(buf.list, s, T, w) /\ Agree(buf, s[0], T) /\ Texts(buf.list, past, s)
               /\ Marks(buf.list, past, s, T) /\ Points(buf.list, past, s)
  BY <1>3 DEF UndoInv, PastRecalled, RecalledAll
<1>5. BoundaryWritten(buf, s, c.list, d, T, w) /\ c.list \in Seq(Records) /\ d \in Nat
  BY <1>1, <1>3, <1>4, BoundaryGood
<1>6. PICK v : /\ Good(c.list, v, T, w) /\ Grows(buf.list, s, c.list, v, d) /\ v[0] = s[0]
               /\ NewPoints(buf, s, c.list, v, d)
  BY <1>5 DEF BoundaryWritten
<1>7. Agree(c, v[0], T)
  BY <1>3, <1>4, <1>6 DEF Agree
<1>8. RecalledAll(c.list, x, c, T, w)
  BY <1>1, <1>3, <1>4, <1>5, <1>6, <1>7, PastGrown
<1>9. PastRecalled'
  BY <1>2, <1>3, <1>8 DEF PastRecalled
<1>10. RestRecalled'
  <2>1. CASE pending' = NonePending /\ restPast' = <<>>
    <3>1. pending'.list = <<>>
      BY <2>1 DEF NonePending
    <3>2. QED BY <2>1, <3>1, NothingRecalled DEF RestRecalled
  <2>2. CASE pending' = pending /\ restPast' = restPast
    <3>1. Recalled(pending.list, restPast, buf, T, w)
      BY <1>3 DEF UndoInv, RestRecalled
    <3>2. Recalled(pending.list, restPast, c, T, w)
      BY <1>1, <1>3, <3>1, RecalledLater
    <3>3. QED BY <1>2, <1>3, <2>2, <3>2 DEF RestRecalled
  <2>3. QED BY <2>1, <2>2
<1>11. TypeOK'
  <2>1. pending' \in [list : Seq(Records), tail : BOOLEAN]
    <3>1. NonePending \in [list : Seq(Records), tail : BOOLEAN]
      BY <1>1 DEF NonePending
    <3>2. pending \in [list : Seq(Records), tail : BOOLEAN]
      BY DEF UndoInv, TypeOK
    <3>3. QED BY <3>1, <3>2
  <2>2. disk \in Seq(Chars) /\ hasty \in BOOLEAN /\ halved \in BOOLEAN
    BY DEF UndoInv, TypeOK
  <2>3. QED BY <2>1, <2>2 DEF TypeOK
<1>12. InText' /\ WhenOff'
  BY DEF UndoInv, InText, WhenOff, NonePending
<1>13. Tailed'
  <2>1. CASE pending' = NonePending
    BY <2>1 DEF Tailed, NonePending
  <2>2. CASE pending' = pending
    <3>1. SharedTail(pending.list, buf.list) => SharedTail(pending.list, c.list)
      <4>1. buf.list \in Seq(Records)
        BY <1>1 DEF Buffers
      <4>2. QED BY <1>1, <1>5, <1>6, <4>1, TailKept
    <3>2. QED BY <1>3, <2>2, <3>1 DEF UndoInv, Tailed
  <2>3. QED BY <2>1, <2>2
<1>14. UnmodifiedIsSaved'
  BY DEF UndoInv, UnmodifiedIsSaved
<1>15. QED BY <1>9, <1>10, <1>11, <1>12, <1>13, <1>14 DEF UndoInv

(* undo-boundary keeps the invariant.                                       *)
LEMMA UndoBoundaryStep ==
  ASSUME UndoInv, UndoBoundary
  PROVE  UndoInv'
<1>1. /\ buf' = Bounded(buf) /\ past' = Before(buf, buf')
      /\ UNCHANGED <<pending, disk, restPast, hasty, halved>>
  BY DEF UndoBoundary
<1>2. buf \in Buffers
  BY DEF UndoInv, TypeOK
<1>3. Recorded(buf, buf') /\ \E d : Separated(buf.list, buf'.list, d)
  BY <1>1, <1>2, BoundedSeparated
<1>4. PICK d : Separated(buf.list, buf'.list, d)
  BY <1>3
<1>5. ~buf.on => buf'.list = buf.list
  BY <1>1, <1>2, BoundedIs
<1>6. /\ buf' \in Buffers /\ buf'.text = buf.text /\ buf'.marks = buf.marks /\ buf'.pt = buf.pt
      /\ buf'.astray = buf.astray /\ buf'.on = buf.on /\ buf'.modified = buf.modified /\ buf'.time = buf.time
      /\ buf'.error = buf.error
  BY <1>3 DEF Recorded
<1>7. QED BY <1>1, <1>4, <1>5, <1>6, BoundaryStep

(* The start of a command keeps the invariant.                              *)
LEMMA CommandStep ==
  ASSUME UndoInv, NEW boundary \in BOOLEAN, Command(boundary)
  PROVE  UndoInv'
<1> DEFINE c == IF boundary THEN Bounded(buf) ELSE buf
<1>1. /\ buf' = [c EXCEPT !.last = buf.pt, !.here = TRUE] /\ past' = Before(buf, buf')
      /\ pending' = NonePending /\ restPast' = <<>> /\ UNCHANGED <<disk, hasty, halved>>
  BY DEF Command
<1>2. buf \in Buffers /\ buf.pt \in Nat \ {0}
  BY DEF UndoInv, TypeOK, Buffers
<1>3. Recorded(buf, c) /\ (\E d : Separated(buf.list, c.list, d)) /\ (~buf.on => c.list = buf.list)
  <2>1. CASE boundary
    <3>1. c = Bounded(buf)
      BY <2>1
    <3> HIDE DEF c
    <3>2. Recorded(buf, c) /\ \E d : Separated(buf.list, c.list, d)
      BY <1>2, <3>1, BoundedSeparated
    <3>3. ~buf.on => c.list = buf.list
      BY <1>2, <3>1, BoundedIs
    <3>4. QED BY <3>2, <3>3
  <2>2. CASE ~boundary
    <3>1. c = buf
      BY <2>2
    <3>2. Recorded(buf, buf) /\ Separated(buf.list, buf.list, 0)
      BY <1>2 DEF Recorded, Separated
    <3>3. QED BY <3>1, <3>2
  <2>3. QED BY <2>1, <2>2
<1> HIDE DEF c
<1>4. PICK d : Separated(buf.list, c.list, d)
  BY <1>3
<1>5. /\ buf' \in Buffers /\ buf'.text = buf.text /\ buf'.marks = buf.marks /\ buf'.pt = buf.pt
      /\ buf'.astray = buf.astray /\ buf'.on = buf.on /\ buf'.modified = buf.modified /\ buf'.time = buf.time
      /\ buf'.error = buf.error /\ buf'.list = c.list
  BY <1>1, <1>2, <1>3 DEF Recorded, Buffers
<1>6. Separated(buf.list, buf'.list, d) /\ (~buf.on => buf'.list = buf.list)
  BY <1>3, <1>4, <1>5
<1>7. QED BY <1>1, <1>5, <1>6, BoundaryStep

(* A marker set forgets where it was.                                         *)
Forgets(snap, m) == [snap EXCEPT !.marks[m] = Unknown]
Forgotten(snaps, m) == [i \in DOMAIN snaps |-> Forgets(snaps[i], m)]
ForgottenAs(p, m, q) ==
  /\ q \in Snaps /\ q.text = p.text /\ q.pt = p.pt
  /\ \A x \in Markers : q.marks[x] = IF x = m THEN Unknown ELSE p.marks[x]

(* The place of one marker forgotten.                                       *)
LEMMA ForgetsIs ==
  ASSUME NEW p \in Snaps, NEW m \in Markers
  PROVE  ForgottenAs(p, m, Forgets(p, m))
<1>1. Unknown \in Int
  BY DEF Unknown
<1>2. QED BY <1>1 DEF Snaps, ForgottenAs, Forgets

(* The place of one marker forgotten everywhere.                            *)
LEMMA ForgottenIs ==
  ASSUME NEW snaps \in Seq(Snaps), NEW m \in Markers, NEW y, y = Forgotten(snaps, m)
  PROVE  /\ y \in Seq(Snaps) /\ Len(y) = Len(snaps)
         /\ \A i \in 1 .. Len(snaps) : ForgottenAs(snaps[i], m, y[i])
<1>1. PICK n \in Nat : n = Len(snaps)
  OBVIOUS
<1>2. DOMAIN snaps = 1 .. n
  BY <1>1
<1>3. ASSUME NEW i \in 1 .. n PROVE ForgottenAs(snaps[i], m, Forgets(snaps[i], m))
  BY <1>1, ForgetsIs
<1>4. y = [i \in 1 .. n |-> Forgets(snaps[i], m)]
  BY <1>2 DEF Forgotten
<1>5. \A i \in 1 .. n : ForgottenAs(snaps[i], m, y[i]) /\ y[i] \in Snaps
  BY <1>3, <1>4 DEF ForgottenAs
<1>6. y \in Seq(Snaps) /\ Len(y) = n
  BY <1>4, <1>5
<1>7. QED BY <1>1, <1>5, <1>6

(* Where point is put back depends on no marker.                            *)
LEMMA PointOfText ==
  ASSUME NEW l, NEW s, NEW u, NEW i, NEW p, u[i].text = s[i].text, PointBack(l, s, i, p)
  PROVE  PointBack(l, u, i, p)
BY DEF PointBack, LastPoint

MarksBut(m, b, c) == \A x \in Markers : x # m => c.marks[x] = b.marks[x]

(* A marker that is set elsewhere by Lisp, adjusted by no record or left    *)
(* out from now on, does not matter to the others.                          *)
LEMMA MarkerMoved ==
  ASSUME NEW l \in Seq(Records), NEW b \in Buffers, NEW m \in Markers, NEW c \in Buffers, c.text = b.text,
         MarksBut(m, b, c),
         NEW T, T = Steady(b), NEW S, S = Steady(c), S \subseteq T, T \ {m} \subseteq S,
         NEW M, M = {m}, Unadjusted(l, S, M), NEW w, NEW snaps, NEW y, y = Forgotten(snaps, m)
  PROVE  /\ Recalled(l, snaps, b, T, w) => Recalled(l, y, c, S, w)
         /\ RecalledAll(l, snaps, b, T, w) => RecalledAll(l, y, c, S, w)
<1>1. PICK n \in Nat : n = Len(l)
  OBVIOUS
<1>2. T \in SUBSET Markers /\ S \in SUBSET T /\ M \in SUBSET Markers /\ c.marks \in [Markers -> Nat]
  BY DEF Steady, Buffers
<1>3. ASSUME NEW s, Good(l, s, T, w), Agree(b, s[0], T), Texts(l, snaps, s), Marks(l, snaps, s, T)
      PROVE  \E u : /\ Good(l, u, S, w) /\ Agree(c, u[0], S) /\ Texts(l, y, u) /\ Marks(l, y, u, S)
                    /\ Points(l, snaps, s) => Points(l, y, u)
  <2>1. PICK u : /\ Good(l, u, S, w) /\ AllBut(s, u, n, M)
                 /\ \A x \in M : u[0].marks[x] = c.marks[x]
    <3>1. PlacesMoved(l, s, S, w, n, M, c.marks)
      BY <1>1, <1>2, <1>3, PlacesChanged
    <3>2. QED BY <3>1 DEF PlacesMoved
  <2>2. \A i \in 0 .. n : u[i].text = s[i].text /\ \A x \in Markers \ {m} : u[i].marks[x] = s[i].marks[x]
    BY <2>1 DEF AllBut
  <2>3. snaps \in Seq(Snaps) /\ Len(snaps) = n /\ 0 \in 0 .. n /\ \A i \in 1 .. n : i \in 0 .. n
    BY <1>1, <1>3 DEF Texts
  <2>4. /\ y \in Seq(Snaps) /\ Len(y) = n
        /\ \A i \in 1 .. n :
              /\ y[i].text = snaps[i].text /\ y[i].pt = snaps[i].pt
              /\ \A x \in Markers : y[i].marks[x] = IF x = m THEN Unknown ELSE snaps[i].marks[x]
    <3>1. y \in Seq(Snaps) /\ Len(y) = n /\ \A i \in 1 .. n : ForgottenAs(snaps[i], m, y[i])
      BY <2>3, ForgottenIs
    <3>2. QED BY <3>1 DEF ForgottenAs
  <2>5. Agree(c, u[0], S)
    <3>1. u[0].text = c.text
      BY <1>3, <2>2, <2>3 DEF Agree
    <3>2. ASSUME NEW x \in S PROVE u[0].marks[x] = c.marks[x]
      <4>1. CASE x = m
        BY <2>1, <4>1
      <4>2. CASE x # m
        <5>1. x \in Markers \ {m} /\ x \in T
          BY <1>2, <4>2
        <5>2. QED BY <1>3, <2>2, <2>3, <4>2, <5>1 DEF Agree, MarksBut
      <4>3. QED BY <4>1, <4>2
    <3>3. QED BY <3>1, <3>2 DEF Agree
  <2>6. Texts(l, y, u)
    BY <1>1, <1>3, <2>2, <2>3, <2>4 DEF Texts
  <2>7. Marks(l, y, u, S)
    <3>1. ASSUME NEW i \in 1 .. n, EndsUnit(l, i), NEW x \in Markers PROVE MarkFits(y[i], u[i], x, S)
      <4>1. CASE x = m
        BY <2>4, <4>1 DEF MarkFits
      <4>2. CASE x # m
        <5>1. MarkFits(snaps[i], s[i], x, T)
          BY <1>1, <1>3, <3>1 DEF Marks
        <5>2. u[i].marks[x] = s[i].marks[x] /\ y[i].marks[x] = snaps[i].marks[x] /\ (x \in T => x \in S)
          BY <2>2, <2>3, <2>4, <4>2
        <5>3. QED BY <5>1, <5>2 DEF MarkFits
      <4>3. QED BY <4>1, <4>2
    <3>2. QED BY <1>1, <3>1 DEF Marks
  <2>8. ASSUME Points(l, snaps, s) PROVE Points(l, y, u)
    <3>1. ASSUME NEW i \in 1 .. n, EndsUnit(l, i), y[i].pt # Unknown
          PROVE  y[i].pt \in Nat \ {0} /\ PointBack(l, u, i, y[i].pt)
      <4>1. y[i].pt = snaps[i].pt /\ u[i].text = s[i].text
        BY <2>2, <2>3, <2>4
      <4>2. snaps[i].pt \in Nat \ {0} /\ PointBack(l, s, i, snaps[i].pt)
        BY <1>1, <2>8, <3>1, <4>1 DEF Points
      <4>3. QED BY <4>1, <4>2, PointOfText
    <3>2. QED BY <1>1, <3>1 DEF Points
  <2>9. QED BY <2>1, <2>5, <2>6, <2>7, <2>8
<1>4. ASSUME Recalled(l, snaps, b, T, w) PROVE Recalled(l, y, c, S, w)
  BY <1>3, <1>4 DEF Recalled
<1>5. ASSUME RecalledAll(l, snaps, b, T, w) PROVE RecalledAll(l, y, c, S, w)
  <2>1. PICK s : /\ Good(l, s, T, w) /\ Agree(b, s[0], T) /\ Texts(l, snaps, s) /\ Marks(l, snaps, s, T)
                 /\ Points(l, snaps, s)
    BY <1>5 DEF RecalledAll
  <2>2. QED BY <1>3, <2>1 DEF RecalledAll
<1>6. QED BY <1>4, <1>5

(* set-marker keeps the invariant.                                          *)
LEMMA SetMarkerStep ==
  ASSUME UndoInv, NEW m \in Markers, NEW p, SetMarker(m, p)
  PROVE  UndoInv'
<1>1. /\ p \in Nowhere .. Len(buf.text) + 1
      /\ buf' = [buf EXCEPT !.marks[m] = p, !.astray = @ \cup ({m} \cap Adjusted)]
      /\ past' = Forgotten(past, m) /\ restPast' = Forgotten(restPast, m)
      /\ UNCHANGED <<pending, disk, hasty, halved>>
  BY DEF SetMarker, Forgotten, Forgets
<1>2. buf \in Buffers /\ p \in Nat /\ buf.list \in Seq(Records) /\ pending.list \in Seq(Records)
  <2>1. buf \in Buffers /\ pending.list \in Seq(Records)
    BY DEF UndoInv, TypeOK
  <2>2. PICK n \in Nat : n = Len(buf.text)
    BY <2>1 DEF Buffers
  <2>3. p \in Nat
    BY <1>1, <2>2 DEF Nowhere
  <2>4. QED BY <2>1, <2>3 DEF Buffers
<1>3. /\ buf' \in Buffers /\ buf'.text = buf.text /\ buf'.list = buf.list /\ buf'.time = buf.time
      /\ buf'.error = buf.error /\ buf'.pt = buf.pt /\ buf'.on = buf.on /\ buf'.modified = buf.modified
      /\ MarksBut(m, buf, buf')
      /\ buf'.astray = buf.astray \cup ({m} \cap Adjusted)
  BY <1>1, <1>2 DEF Buffers, MarksBut
<1>4. TypeOK' /\ InText' /\ WhenOff' /\ Tailed' /\ UnmodifiedIsSaved'
  <2>1. TypeOK'
    BY <1>1, <1>3 DEF UndoInv, TypeOK
  <2>2. InText' /\ WhenOff' /\ Tailed'
    BY <1>1, <1>3 DEF UndoInv, InText, WhenOff, Tailed
  <2>3. UnmodifiedIsSaved'
    BY <1>1, <1>3 DEF UndoInv, UnmodifiedIsSaved
  <2>4. QED BY <2>1, <2>2, <2>3
<1>5. World' = World
  BY <1>1, <1>2, <1>3, SameWorld
<1>6. PICK T, S, M, w, c, x, y : /\ M = {m} /\ T = Steady(buf) /\ S = Steady(buf') /\ w = World /\ c = buf'
                              /\ x = past' /\ y = restPast'
  OBVIOUS
<1>7. S \subseteq T /\ T \ {m} \subseteq S /\ (m \in Adjusted => m \notin S)
  BY <1>3, <1>6 DEF Steady
<1>8. Unadjusted(buf.list, S, M) /\ Unadjusted(pending.list, S, M)
  <2>1. ASSUME NEW l \in Seq(Records), NEW j \in 1 .. Len(l), l[j].kind = "adjust", l[j].marker = m,
               ToSet(l) \subseteq ToSet(buf.list) \cup ToSet(pending.list)
        PROVE  m \in Adjusted
    <3>1. l[j] \in ToSet(l)
      BY DEF ToSet
    <3>2. QED BY <2>1, <3>1 DEF Adjusted
  <2>2. QED BY <1>2, <1>6, <1>7, <2>1 DEF Unadjusted
<1>13. /\ c \in Buffers /\ c.text = buf.text /\ MarksBut(m, buf, c)
       /\ x = Forgotten(past, m) /\ y = Forgotten(restPast, m) /\ S = Steady(c)
  BY <1>1, <1>3, <1>6
<1>9. RecalledAll(buf.list, x, c, S, w)
  <2>1. RecalledAll(buf.list, past, buf, T, w)
    BY <1>6 DEF UndoInv, PastRecalled
  <2>2. QED BY <1>2, <1>6, <1>7, <1>8, <1>13, <2>1, MarkerMoved
<1>10. Recalled(pending.list, y, c, S, w)
  <2>1. Recalled(pending.list, restPast, buf, T, w)
    BY <1>6 DEF UndoInv, RestRecalled
  <2>2. QED BY <1>2, <1>6, <1>7, <1>8, <1>13, <2>1, MarkerMoved
<1>11. PastRecalled' /\ RestRecalled'
  BY <1>1, <1>3, <1>5, <1>6, <1>9, <1>10 DEF PastRecalled, RestRecalled
<1>12. QED BY <1>4, <1>11 DEF UndoInv

(* A change in place: no places are remembered.                               *)
Placelesses(snaps) == [i \in DOMAIN snaps |-> Placeless(snaps[i])]

(* All places forgotten.                                                    *)
LEMMA PlacelessesAre ==
  ASSUME NEW snaps \in Seq(Snaps), NEW y, y = Placelesses(snaps)
  PROVE  /\ y \in Seq(Snaps) /\ Len(y) = Len(snaps)
         /\ \A i \in 1 .. Len(snaps) : y[i] = Placeless(snaps[i])
<1>1. PICK n \in Nat : n = Len(snaps)
  OBVIOUS
<1>2. DOMAIN snaps = 1 .. n
  BY <1>1
<1>3. ASSUME NEW i \in 1 .. n PROVE Placeless(snaps[i]) \in Snaps
  <2>1. snaps[i] \in Snaps
    BY <1>1
  <2>2. [m \in Markers |-> Unknown] \in [Markers -> Int] /\ Unknown \in Int
    BY DEF Unknown
  <2>3. QED BY <2>1, <2>2 DEF Snaps, Placeless
<1>4. y = [i \in 1 .. n |-> Placeless(snaps[i])]
  BY <1>2 DEF Placelesses
<1>5. y \in Seq(Snaps) /\ Len(y) = n
  BY <1>3, <1>4
<1>6. QED BY <1>1, <1>4, <1>5

(* With all places forgotten, only the texts matter.                        *)
LEMMA TextsPlaceless ==
  ASSUME NEW l, NEW snaps, NEW s, Texts(l, snaps, s), NEW y, y = Placelesses(snaps), NEW T
  PROVE  Texts(l, y, s) /\ Marks(l, y, s, T) /\ Points(l, y, s)
<1>1. snaps \in Seq(Snaps) /\ Len(snaps) = Len(l)
  BY DEF Texts
<1>2. PICK n \in Nat : n = Len(l)
  BY <1>1
<1>3. y \in Seq(Snaps) /\ Len(y) = n /\ \A i \in 1 .. n : y[i] = Placeless(snaps[i])
  BY <1>1, <1>2, PlacelessesAre
<1>4. ASSUME NEW i \in 1 .. n
      PROVE  /\ y[i].text = snaps[i].text /\ y[i].pt = Unknown
             /\ \A m \in Markers : y[i].marks[m] = Unknown
  <2>1. snaps[i] \in Snaps /\ y[i] = Placeless(snaps[i])
    BY <1>1, <1>2, <1>3
  <2>2. QED BY <2>1 DEF Placeless, Snaps
<1>5. Texts(l, y, s)
  BY <1>2, <1>3, <1>4 DEF Texts
<1>6. Marks(l, y, s, T)
  BY <1>2, <1>4 DEF Marks, MarkFits
<1>7. Points(l, y, s)
  BY <1>2, <1>4 DEF Points
<1>8. QED BY <1>5, <1>6, <1>7

(* The markers in the part that no record adjusts are where the change, undone, *)
(* leaves them.                                                              *)
FirstCollapsed(b, s, S, w, n, M, f) ==
  \E u : /\ Good(b.list, u, S, w) /\ Unmodified(b, u, w) /\ u[0].text = b.text
         /\ (\A i \in 0 .. n : u[i].text = s[i].text)
         /\ \A m \in S : u[0].marks[m] = IF m \in M THEN f ELSE b.marks[m]

(* They may start from where they collapse to.                              *)
LEMMA CollapsedFirst ==
  ASSUME NEW b \in Buffers, NEW T, T \in SUBSET Markers, NEW w, NEW s, Good(b.list, s, T, w),
         Agree(b, s[0], T), Unmodified(b, s, w), NEW S \in SUBSET T, NEW f \in Nat \ {0}, NEW e,
         NEW M, M = Inside(b, f, e), Unadjusted(b.list, S, M), NEW n \in Nat, n = Len(b.list)
  PROVE  FirstCollapsed(b, s, S, w, n, M, f)
<1> DEFINE q == [m \in Markers |-> f]
<1>1. b.list \in Seq(Records) /\ M \in SUBSET Markers /\ q \in [Markers -> Nat] /\ 0 \in 0 .. n
  BY DEF Buffers, Inside
<1>2. \A m \in Markers : q[m] = f
  OBVIOUS
<1> HIDE DEF q
<1>3. PlacesMoved(b.list, s, S, w, n, M, q)
  BY <1>1, PlacesChanged
<1>4. PICK u : Good(b.list, u, S, w) /\ AllBut(s, u, n, M) /\ \A m \in M : u[0].marks[m] = q[m]
  BY <1>3 DEF PlacesMoved
<1>5. \A i \in 0 .. n : u[i].text = s[i].text /\ \A m \in Markers \ M : u[i].marks[m] = s[i].marks[m]
  BY <1>4 DEF AllBut
<1>6. u[0].text = b.text /\ s[0].text = b.text
  BY <1>1, <1>5 DEF Agree
<1>7. ASSUME NEW m \in S PROVE u[0].marks[m] = IF m \in M THEN f ELSE b.marks[m]
  <2>1. CASE m \in M
    BY <1>1, <1>2, <1>4, <2>1
  <2>2. CASE m \notin M
    <3>1. m \in Markers \ M /\ m \in T
      BY <2>2
    <3>2. u[0].marks[m] = s[0].marks[m]
      BY <1>1, <1>5, <3>1
    <3>3. QED BY <2>2, <3>1, <3>2 DEF Agree
  <2>3. QED BY <2>1, <2>2
<1>8. Unmodified(b, u, w)
  BY <1>6 DEF Unmodified
<1>9. QED BY <1>4, <1>5, <1>6, <1>7, <1>8 DEF FirstCollapsed

(* After a change in place the texts are recalled.                          *)
LEMMA ChangeRecalled ==
  ASSUME NEW b \in Buffers, b.on, NEW T, T = Steady(b), NEW w, w.time = b.time,
         NEW s, Good(b.list, s, T, w), Agree(b, s[0], T), Unmodified(b, s, w), Texts(b.list, past, s),
         NEW f \in Nat \ {0}, NEW e \in Nat, f < e, e <= Len(b.text) + 1,
         NEW g, g = Changed(b, f, e), NEW c \in Buffers, c.text = g.text, c.list = g.list, c.marks = g.marks,
         NEW S \in SUBSET T, NEW M, M = Inside(b, f, e), Unadjusted(b.list, S, M),
         NEW y, y = Placelesses(Before(b, c))
  PROVE  RecalledAll(c.list, y, c, S, w)
<1>1. PICK n \in Nat : n = Len(b.list)
  BY DEF Buffers
<1>2. T \in SUBSET Markers /\ S \in SUBSET Markers
  BY DEF Steady
<1>3. PICK u : /\ Good(b.list, u, S, w) /\ Unmodified(b, u, w) /\ u[0].text = b.text
               /\ (\A i \in 0 .. n : u[i].text = s[i].text)
               /\ \A m \in S : u[0].marks[m] = IF m \in M THEN f ELSE b.marks[m]
  <2>1. FirstCollapsed(b, s, S, w, n, M, f)
    BY <1>1, <1>2, CollapsedFirst
  <2>2. QED BY <2>1 DEF FirstCollapsed
<1>4. ChangeDone(b, u, g, S, w)
  <2>1. \A m \in S : u[0].marks[m] = IF m \in Inside(b, f, e) THEN f ELSE b.marks[m]
    BY <1>3
  <2>2. QED BY <1>2, <1>3, <2>1, ChangeWritten
<1>5. PICK d \in Nat : \E v : /\ Good(g.list, v, S, w) /\ Grows(b.list, u, g.list, v, d) /\ Agree(g, v[0], S)
  BY <1>4 DEF ChangeDone
<1>6. PICK v : Good(g.list, v, S, w) /\ Grows(b.list, u, g.list, v, d) /\ Agree(g, v[0], S)
  BY <1>5
<1>7. PICK x : x = Before(b, c)
  OBVIOUS
<1>8. Texts(b.list, past, u)
  <2>1. \A i \in 1 .. n : i \in 0 .. n
    OBVIOUS
  <2>2. QED BY <1>1, <1>3, <2>1 DEF Texts
<1>9. Texts(c.list, x, v)
  <2>1. Grows(b.list, u, c.list, v, d)
    BY <1>6
  <2>2. QED BY <1>3, <1>7, <1>8, <2>1, RememberedGrown
<1>10. Texts(c.list, y, v) /\ Marks(c.list, y, v, S) /\ Points(c.list, y, v)
  BY <1>7, <1>9, TextsPlaceless
<1>11. Good(c.list, v, S, w) /\ Agree(c, v[0], S)
  BY <1>6 DEF Agree
<1>12. QED BY <1>10, <1>11 DEF RecalledAll

(* A change in place keeps the invariant.                                   *)
LEMMA ChangeStep ==
  ASSUME UndoInv, NEW from \in 1 .. MaxLen + 1, NEW to \in 1 .. MaxLen + 1, Change(from, to)
  PROVE  UndoInv'
<1> DEFINE h == Changing(buf)
           str == Part(buf.text, from, to)
           r == RecordInsert(RecordDelete(h, from, str), from, to - from)
           g == Changed(buf, from, to)
           new == [g EXCEPT !.astray = @ \cup (Inside(buf, from, to) \cap Adjusted)]
<1>1. from \in Nat \ {0} /\ to \in Nat /\ from < to /\ to <= Len(buf.text) + 1 /\ from <= to
  BY BoundAssumption DEF Change, Within
<1>2. buf \in Buffers /\ buf.pt <= Len(buf.text) + 1 /\ buf.text \in Seq(Chars) /\ buf.list \in Seq(Records)
  BY DEF UndoInv, TypeOK, InText, Buffers
<1>3. Edited(buf, g, Cased(buf.text, from, to), buf.pt, buf.marks, r)
  BY <1>1, <1>2, ChangedIs
<1>4. /\ buf' = new /\ past' = Placelesses(Before(buf, new)) /\ pending' = NonePending /\ restPast' = <<>>
      /\ UNCHANGED <<disk, hasty, halved>>
  BY DEF Change, Edit, Placelesses
<1>5. /\ Kept(buf, g) /\ g \in Buffers /\ g.modified = TRUE /\ g.list = r.list /\ g.pt = buf.pt
      /\ g.text = Cased(buf.text, from, to) /\ g.marks = buf.marks
  BY <1>3 DEF Edited, Kept
<1>6. Len(g.text) = Len(buf.text)
  BY <1>1, <1>2, <1>5, CasedIsReplaced
<1>7. PICK M : M = Inside(buf, from, to)
  OBVIOUS
<1>8. M \in SUBSET Markers
  BY <1>7 DEF Inside
<1> HIDE DEF g, r
<1>9. /\ new \in Buffers /\ new.text = g.text /\ new.list = g.list /\ new.marks = g.marks /\ new.pt = g.pt
      /\ new.astray = g.astray \cup (M \cap Adjusted) /\ new.on = g.on /\ new.time = g.time
      /\ new.error = g.error /\ new.modified = g.modified
  <2>1. g.astray \cup (M \cap Adjusted) \in SUBSET Markers
    BY <1>5, <1>8 DEF Buffers
  <2>2. QED BY <1>5, <1>7, <2>1 DEF Buffers
<1>10. g.astray = buf.astray /\ g.on = buf.on /\ g.time = buf.time /\ g.error = buf.error
  BY <1>5 DEF Kept
<1> HIDE DEF new
<1>11. pending'.list = <<>> /\ ~pending'.tail
  BY <1>4 DEF NonePending
<1>12. TypeOK' /\ InText' /\ WhenOff' /\ Tailed' /\ UnmodifiedIsSaved'
  <2>1. TypeOK'
    <3>1. <<>> \in Seq(Records)
      OBVIOUS
    <3>2. QED BY <1>4, <1>9, <3>1 DEF UndoInv, TypeOK, NonePending
  <2>2. InText' /\ Tailed'
    BY <1>2, <1>4, <1>5, <1>6, <1>9, <1>10, <1>11 DEF UndoInv, InText, Tailed
  <2>3. UnmodifiedIsSaved'
    BY <1>4, <1>5, <1>9 DEF UnmodifiedIsSaved
  <2>4. WhenOff'
    <3>1. ASSUME ~buf.on PROVE g.list = buf.list
      <4>1. h.list = buf.list /\ ~h.on /\ h \in Buffers
        <5>1. CASE buf.modified
          <6>1. h = buf
            BY <1>2, <5>1, ChangingIs
          <6>2. QED BY <1>2, <3>1, <6>1
        <5>2. CASE ~buf.modified
          <6>1. h = [buf EXCEPT !.modified = TRUE]
            BY <1>2, <3>1, <5>2, NotRecorded DEF Changing
          <6>2. QED BY <1>2, <3>1, <6>1 DEF Buffers
        <5>3. QED BY <5>1, <5>2
      <4> HIDE DEF h
      <4>2. RecordDelete(h, from, str) = h
        BY <4>1, NotRecorded
      <4>3. RecordInsert(h, from, to - from) = h
        BY <4>1, NotRecorded
      <4>4. QED BY <1>5, <4>1, <4>2, <4>3 DEF r
    <3>2. QED BY <1>4, <1>9, <1>10, <1>11, <3>1 DEF UndoInv, WhenOff
  <2>5. QED BY <2>1, <2>2, <2>3, <2>4
<1>13. World' = World
  BY <1>2, <1>4, <1>9, <1>10, SameWorld
<1>14. RestRecalled'
  BY <1>4, <1>9, <1>11, NothingRecalled DEF RestRecalled
<1>15. PICK T, S, w, x, y, c : /\ T = Steady(buf) /\ S = Steady(buf') /\ w = World /\ c = new
                               /\ x = Before(buf, new) /\ y = past'
  OBVIOUS
<1>16. S \subseteq T /\ T \in SUBSET Markers /\ \A m \in S : m \in M => m \notin Adjusted
  BY <1>4, <1>9, <1>10, <1>15 DEF Steady
<1>17. c \in Buffers /\ c.text = g.text /\ c.list = g.list /\ c.marks = g.marks /\ y = Placelesses(x)
  BY <1>4, <1>9, <1>15
<1>18. Unadjusted(buf.list, S, M)
  <2>1. ASSUME NEW j \in 1 .. Len(buf.list), buf.list[j].kind = "adjust"
        PROVE  buf.list[j].marker \in Adjusted
    <3>1. buf.list[j] \in ToSet(buf.list)
      BY <1>2 DEF ToSet
    <3>2. QED BY <2>1, <3>1 DEF Adjusted
  <2>2. QED BY <1>16, <2>1 DEF Unadjusted
<1>19. RecalledAll(c.list, y, c, S, w)
  <2>1. RecalledAll(buf.list, past, buf, T, w)
    BY <1>15 DEF UndoInv, PastRecalled
  <2>2. CASE buf.on
    <3>1. PICK s : Good(buf.list, s, T, w) /\ Agree(buf, s[0], T) /\ Texts(buf.list, past, s)
      BY <2>1 DEF RecalledAll
    <3>2. Unmodified(buf, s, w) /\ w.time = buf.time
      BY <1>2, <1>15, <3>1, UnmodifiedNow, WorldIs
    <3>3. g = Changed(buf, from, to)
      BY DEF g
    <3>4. y = Placelesses(Before(buf, c))
      BY <1>15, <1>17
    <3>5. QED BY <1>1, <1>2, <1>7, <1>15, <1>16, <1>17, <1>18, <2>2, <3>1, <3>2, <3>3, <3>4, ChangeRecalled
  <2>3. CASE ~buf.on
    <3>1. buf.list = <<>> /\ c.list = <<>>
      BY <1>4, <1>9, <1>10, <1>12, <1>15, <2>3 DEF UndoInv, WhenOff
    <3>2. x = <<>>
      BY <1>2, <1>15, <1>17, <2>1, <3>1, NoPast
    <3>3. y = <<>>
      <4>1. DOMAIN x = {}
        BY <3>2
      <4>2. y = [i \in {} |-> Placeless(x[i])]
        BY <1>17, <4>1 DEF Placelesses
      <4>3. y \in Seq(Snaps) /\ Len(y) = 0
        <5>1. y = [i \in 1 .. 0 |-> Placeless(x[i])]
          BY <4>2
        <5>2. QED BY <5>1
      <4>4. QED BY <4>3
    <3>4. QED BY <1>17, <3>1, <3>3, NothingRecalled
  <2>4. QED BY <2>2, <2>3
<1>20. PastRecalled'
  BY <1>4, <1>13, <1>15, <1>19 DEF PastRecalled
<1>21. QED BY <1>12, <1>14, <1>20 DEF UndoInv

-----------------------------------------------------------------------------
(* What is remembered of a list that is cut before a boundary.                *)
LEMMA CutIs ==
  ASSUME NEW S, NEW l \in Seq(S), NEW h \in Nat, h <= Len(l), NEW c, c = SubSeq(l, 1, h)
  PROVE  c \in Seq(S) /\ Len(c) = h /\ \A i \in 1 .. h : c[i] = l[i]
<1>1. 1 \in Nat \ {0} /\ h + 1 \in Nat /\ 1 <= h + 1 /\ h + 1 <= Len(l) + 1
  OBVIOUS
<1>2. Part(l, 1, h + 1) = c
  <2>1. (h + 1) - 1 = h
    OBVIOUS
  <2>2. QED BY <2>1 DEF Part
<1>3. /\ c \in Seq(S) /\ Len(c) = (h + 1) - 1
      /\ \A i \in 1 .. (h + 1) - 1 : c[i] = l[i + 1 - 1]
  BY <1>1, <1>2, PartIs
<1>4. (h + 1) - 1 = h /\ \A i \in 1 .. h : i + 1 - 1 = i
  OBVIOUS
<1>5. QED BY <1>3, <1>4

Cut(snaps, h) == SubSeq(snaps, 1, h)

(* What is remembered of the part kept.                                     *)
LEMMA CutRemembered ==
  ASSUME NEW l \in Seq(Records), NEW c, NEW h, CutAt(l, c, h), NEW s, NEW snaps, Texts(l, snaps, s),
         NEW y, y = Cut(snaps, h), NEW T, NEW u, u = Prefix(s, h)
  PROVE  /\ Texts(c, y, u)
         /\ Marks(l, snaps, s, T) => Marks(c, y, u, T)
         /\ Points(l, snaps, s) => Points(c, y, u)
<1>1. PICK n \in Nat : n = Len(l)
  OBVIOUS
<1>2. h \in Nat /\ h <= n /\ Len(c) = h /\ snaps \in Seq(Snaps) /\ Len(snaps) = n
  BY <1>1 DEF CutAt, Texts
<1>3. y \in Seq(Snaps) /\ Len(y) = h /\ \A i \in 1 .. h : y[i] = snaps[i]
  BY <1>2, CutIs DEF Cut
<1>4. \A i \in 1 .. h : u[i] = s[i] /\ i \in 1 .. n
  BY <1>2 DEF Prefix
<1>5. ASSUME NEW i \in 1 .. h, EndsUnit(c, i) PROVE EndsUnit(l, i)
  BY <1>5, CutUnits
<1>6. Texts(c, y, u)
  BY <1>1, <1>2, <1>3, <1>4, <1>5 DEF Texts
<1>7. ASSUME Marks(l, snaps, s, T) PROVE Marks(c, y, u, T)
  BY <1>1, <1>2, <1>3, <1>4, <1>5, <1>7 DEF Marks
<1>8. ASSUME Points(l, snaps, s) PROVE Points(c, y, u)
  <2>1. ASSUME NEW i \in 1 .. h, EndsUnit(c, i), y[i].pt # Unknown
        PROVE  y[i].pt \in Nat \ {0} /\ PointBack(c, u, i, y[i].pt)
    <3>1. snaps[i].pt \in Nat \ {0} /\ PointBack(l, s, i, snaps[i].pt) /\ y[i] = snaps[i]
      BY <1>1, <1>3, <1>4, <1>5, <1>8, <2>1 DEF Points
    <3>2. QED BY <3>1, CutUnits
  <2>2. QED BY <1>2, <2>1 DEF Points
<1>9. QED BY <1>6, <1>7, <1>8

(* The part kept is recalled.                                               *)
LEMMA CutRecalled ==
  ASSUME NEW l \in Seq(Records), NEW c, NEW h, CutAt(l, c, h), NEW snaps,
         NEW y, y = Cut(snaps, h), NEW b, NEW T, NEW w
  PROVE  /\ Recalled(l, snaps, b, T, w) => Recalled(c, y, b, T, w)
         /\ RecalledAll(l, snaps, b, T, w) => RecalledAll(c, y, b, T, w)
<1>1. ASSUME NEW s, Good(l, s, T, w), Agree(b, s[0], T)
      PROVE  Good(c, Prefix(s, h), T, w) /\ Agree(b, Prefix(s, h)[0], T)
  <2>1. Prefix(s, h)[0] = s[0]
    BY DEF Prefix, CutAt
  <2>2. QED BY <1>1, <2>1, CutGood
<1>2. ASSUME Recalled(l, snaps, b, T, w) PROVE Recalled(c, y, b, T, w)
  <2>1. PICK s : Good(l, s, T, w) /\ Agree(b, s[0], T) /\ Texts(l, snaps, s) /\ Marks(l, snaps, s, T)
    BY <1>2 DEF Recalled
  <2>2. PICK u : u = Prefix(s, h)
    OBVIOUS
  <2>3. Texts(c, y, u) /\ Marks(c, y, u, T)
    BY <2>1, <2>2, CutRemembered
  <2>4. QED BY <1>1, <2>1, <2>2, <2>3 DEF Recalled
<1>3. ASSUME RecalledAll(l, snaps, b, T, w) PROVE RecalledAll(c, y, b, T, w)
  <2>1. PICK s : /\ Good(l, s, T, w) /\ Agree(b, s[0], T) /\ Texts(l, snaps, s) /\ Marks(l, snaps, s, T)
                 /\ Points(l, snaps, s)
    BY <1>3 DEF RecalledAll
  <2>2. PICK u : u = Prefix(s, h)
    OBVIOUS
  <2>3. Texts(c, y, u) /\ Marks(c, y, u, T) /\ Points(c, y, u)
    BY <2>1, <2>2, CutRemembered
  <2>4. QED BY <1>1, <2>1, <2>2, <2>3 DEF RecalledAll
<1>4. QED BY <1>2, <1>3

(* How much of the rest is cut with the list.                                 *)
LEMMA KeptIs ==
  ASSUME NEW n \in Nat, NEW k \in Nat, NEW h \in Nat, h < n, NEW cut \in Int, cut = h + k - n,
         cut > 0, k <= n
  PROVE  /\ cut \in Nat /\ cut <= k
         /\ cut + 1 \in 1 .. k /\ (cut + 1) + (n - k) = h + 1
OBVIOUS

(* truncate_undo_list keeps the invariant, also when the pending list       *)
(* shares the cells that are cut off.                                       *)
LEMMA TruncateStep ==
  ASSUME UndoInv, NEW i \in 2 .. Len(buf.list), Truncate(i)
  PROVE  UndoInv'
<1>1. PICK n \in Nat, k \in Nat : n = Len(buf.list) /\ k = Len(pending.list)
  BY DEF UndoInv, TypeOK, Buffers
<1>2. PICK cut, kept : cut = i - (n - k) - 1 /\ kept = IF pending.tail /\ cut > 0 THEN cut ELSE k
  OBVIOUS
<1>3. /\ buf.list[i].kind = "boundary"
      /\ buf' = [buf EXCEPT !.list = SubSeq(@, 1, i - 1)] /\ past' = SubSeq(past, 1, i - 1)
      /\ pending' = [list |-> SubSeq(pending.list, 1, kept), tail |-> pending.tail /\ cut > 0]
      /\ restPast' = SubSeq(restPast, 1, kept)
      /\ UNCHANGED <<disk, hasty, halved>>
  BY <1>1, <1>2 DEF Truncate
<1>4. /\ buf \in Buffers /\ buf.list \in Seq(Records) /\ pending.list \in Seq(Records)
      /\ pending.tail \in BOOLEAN
  BY DEF UndoInv, TypeOK, Buffers
<1>5. PICK h \in Nat : h = i - 1 /\ h + 1 = i /\ h < n /\ h > 0 /\ cut = h + k - n
  BY <1>1, <1>2
<1>6. PICK l, p : l = SubSeq(buf.list, 1, h) /\ p = SubSeq(pending.list, 1, kept)
  OBVIOUS
<1>7. l \in Seq(Records) /\ Len(l) = h /\ \A j \in 1 .. h : l[j] = buf.list[j]
  BY <1>1, <1>4, <1>5, <1>6, CutIs
<1>8. CutAt(buf.list, l, h)
  BY <1>1, <1>3, <1>5, <1>7 DEF CutAt
<1>9. ASSUME pending.tail PROVE k <= n /\ \A j \in 1 .. k : pending.list[j].kind = buf.list[j + (n - k)].kind
  BY <1>1, <1>9 DEF UndoInv, Tailed, SharedTail
<1>10. /\ kept \in Nat /\ kept <= k
       /\ pending.tail /\ cut > 0 => kept = h + k - n
       /\ pending.tail /\ cut > 0 => kept + 1 \in 1 .. k /\ (kept + 1) + (n - k) = h + 1
  <2>1. cut \in Int
    BY <1>1, <1>5
  <2>2. CASE pending.tail /\ cut > 0
    <3>1. kept = cut /\ k <= n
      BY <1>2, <1>9, <2>2
    <3>2. /\ cut \in Nat /\ cut <= k
          /\ cut + 1 \in 1 .. k /\ (cut + 1) + (n - k) = h + 1
      <4>1. cut > 0 /\ k <= n
        BY <2>2, <3>1
      <4>2. h < n /\ cut = h + k - n /\ h \in Nat
        BY <1>5
      <4>3. n \in Nat /\ k \in Nat
        BY <1>1
      <4>4. QED BY <2>1, <4>1, <4>2, <4>3, KeptIs
    <3>3. kept = h + k - n
      BY <1>5, <3>1
    <3>4. QED BY <3>1, <3>2, <3>3
  <2>3. CASE ~(pending.tail /\ cut > 0)
    <3>1. kept = k
      BY <1>2, <2>3
    <3>2. kept \in Nat /\ kept <= k
      BY <1>1, <3>1
    <3>3. QED BY <2>3, <3>2
  <2>4. QED BY <2>2, <2>3
<1>11. p \in Seq(Records) /\ Len(p) = kept /\ \A j \in 1 .. kept : p[j] = pending.list[j]
  BY <1>1, <1>4, <1>6, <1>10, CutIs
<1>12. CutAt(pending.list, p, kept)
  <2>1. CASE pending.tail /\ cut > 0
    <3>1. kept + 1 \in 1 .. k /\ (kept + 1) + (n - k) = i
      BY <1>5, <1>10, <2>1
    <3>2. pending.list[kept + 1].kind = "boundary"
      BY <1>3, <1>9, <2>1, <3>1
    <3>3. QED BY <1>1, <1>10, <1>11, <3>2 DEF CutAt
  <2>2. CASE ~(pending.tail /\ cut > 0)
    BY <1>1, <1>2, <1>10, <1>11, <2>2 DEF CutAt
  <2>3. QED BY <2>1, <2>2
<1>13. /\ buf' \in Buffers /\ buf'.list = l /\ buf'.text = buf.text /\ buf'.marks = buf.marks
       /\ buf'.error = buf.error /\ buf'.pt = buf.pt /\ buf'.modified = buf.modified /\ buf'.on = buf.on
       /\ buf'.astray = buf.astray /\ buf'.time = buf.time
  BY <1>3, <1>4, <1>5, <1>6, <1>7 DEF Buffers
<1>14. pending'.list = p /\ (pending'.tail <=> pending.tail /\ cut > 0)
  BY <1>3, <1>6
<1>15. Tailed'
  <2>1. ASSUME pending.tail, cut > 0 PROVE SharedTail(p, l)
    <3>1. k <= n /\ kept = h + k - n /\ kept <= h /\ h - kept = n - k
      BY <1>1, <1>5, <1>9, <1>10, <2>1
    <3>2. ASSUME NEW j \in 1 .. kept PROVE p[j].kind = l[j + (h - kept)].kind
      <4>1. j \in 1 .. k /\ j + (n - k) \in 1 .. h
        BY <1>1, <1>5, <1>10, <3>1
      <4>2. p[j] = pending.list[j] /\ l[j + (n - k)] = buf.list[j + (n - k)]
        BY <1>7, <1>11, <4>1
      <4>3. QED BY <1>9, <2>1, <3>1, <4>1, <4>2
    <3>3. QED BY <1>7, <1>11, <3>1, <3>2 DEF SharedTail
  <2>2. QED BY <1>13, <1>14, <2>1 DEF Tailed
<1>16. WhenOff'
  <2>1. ~buf.on => n = 0
    <3>1. Len(<<>>) = 0
      OBVIOUS
    <3>2. QED BY <1>1, <3>1 DEF UndoInv, WhenOff
  <2>2. buf.on
    BY <1>1, <1>5, <2>1
  <2>3. QED BY <1>13, <2>2 DEF WhenOff
<1>17. TypeOK' /\ InText' /\ UnmodifiedIsSaved'
  <2>1. pending' \in [list : Seq(Records), tail : BOOLEAN]
    BY <1>3, <1>4, <1>6, <1>11
  <2>2. TypeOK'
    BY <1>3, <1>13, <2>1 DEF UndoInv, TypeOK
  <2>3. InText'
    BY <1>13 DEF UndoInv, InText
  <2>4. UnmodifiedIsSaved'
    BY <1>3, <1>13 DEF UndoInv, UnmodifiedIsSaved
  <2>5. QED BY <2>2, <2>3, <2>4
<1>18. World' = World /\ Steady(buf') = Steady(buf)
  <2>1. World' = World
    BY <1>3, <1>4, <1>13, SameWorld
  <2>2. QED BY <1>13, <2>1 DEF Steady
<1>19. PICK T, w, x, y, c : T = Steady(buf) /\ w = World /\ x = past' /\ y = restPast' /\ c = buf'
  OBVIOUS
<1>20. w.time \in Nat /\ x = Cut(past, h) /\ y = Cut(restPast, kept)
  BY <1>3, <1>4, <1>5, <1>19, WorldIs DEF Cut
<1>21. RecalledAll(l, x, c, T, w)
  <2>1. RecalledAll(l, x, buf, T, w)
    <3>1. RecalledAll(buf.list, past, buf, T, w)
      BY <1>19 DEF UndoInv, PastRecalled
    <3>2. QED BY <1>4, <1>8, <1>20, <3>1, CutRecalled
  <2>2. QED BY <1>7, <1>13, <1>19, <1>20, <2>1, RecalledLater
<1>22. Recalled(p, y, c, T, w)
  <2>1. Recalled(p, y, buf, T, w)
    <3>1. Recalled(pending.list, restPast, buf, T, w)
      BY <1>19 DEF UndoInv, RestRecalled
    <3>2. QED BY <1>4, <1>12, <1>20, <3>1, CutRecalled
  <2>2. QED BY <1>11, <1>13, <1>19, <1>20, <2>1, RecalledLater
<1>23. PastRecalled' /\ RestRecalled'
  BY <1>13, <1>14, <1>18, <1>19, <1>21, <1>22 DEF PastRecalled, RestRecalled
<1>24. QED BY <1>15, <1>16, <1>17, <1>23 DEF UndoInv

-----------------------------------------------------------------------------
(* primitive-undo.  The records it makes come after a boundary, if one is due. *)
LEMMA GrowsAfter ==
  ASSUME NEW l \in Seq(Records), NEW c \in Seq(Records), NEW e \in Seq(Records), NEW s, NEW u, NEW v,
         NEW d \in Nat, NEW k \in Nat, Grows(l, s, c, u, d), u[0] = s[0], Grows(c, u, e, v, k)
  PROVE  Grows(l, s, e, v, d + k)
<1>1. PICK n \in Nat : n = Len(l)
  OBVIOUS
<1>2. Len(c) = n + d /\ Len(e) = (n + d) + k
  BY <1>1 DEF Grows
<1>3. ASSUME NEW i \in 1 .. n
      PROVE  /\ v[i + (d + k)] = s[i] /\ e[i + (d + k)].kind = l[i].kind
             /\ e[i + (d + k)] = l[i] \/ (i = 1 /\ l[i].kind = "insert")
  <2>1. i + d \in 1 .. n + d /\ (i + d) + k = i + (d + k) /\ (i + d = 1 => i = 1)
    OBVIOUS
  <2>2. u[i + d] = s[i] /\ c[i + d].kind = l[i].kind /\ (c[i + d] = l[i] \/ (i = 1 /\ l[i].kind = "insert"))
    BY <1>1 DEF Grows
  <2>3. /\ v[(i + d) + k] = u[i + d] /\ e[(i + d) + k].kind = c[i + d].kind
        /\ e[(i + d) + k] = c[i + d] \/ (i + d = 1 /\ c[i + d].kind = "insert")
    BY <1>2, <2>1 DEF Grows
  <2>4. QED BY <2>1, <2>2, <2>3
<1>4. ASSUME NEW i \in 1 .. d + k, EndsUnit(e, i) PROVE v[i] = s[0]
  <2>1. CASE i \in 1 .. k
    BY <1>4, <2>1 DEF Grows
  <2>2. CASE i \notin 1 .. k
    <3>1. PICK j \in 1 .. d : i = j + k
      <4>1. i - k \in 1 .. d /\ i = (i - k) + k
        BY <2>2
      <4>2. QED BY <4>1
    <3>2. j \in 1 .. n + d /\ j \in 1 .. Len(c)
      BY <1>2
    <3>3. v[i] = u[j] /\ EndsUnit(c, j)
      <4>1. v[j + k] = u[j]
        BY <3>2 DEF Grows
      <4>2. EndsUnit(e, j + k) <=> EndsUnit(c, j)
        BY <3>2, UnitKept
      <4>3. QED BY <1>4, <3>1, <4>1, <4>2
    <3>4. QED BY <3>3 DEF Grows
  <2>3. QED BY <2>1, <2>2
<1>5. Open(e) => v[0] = s[0]
  BY DEF Grows
<1>6. Len(e) = n + (d + k)
  BY <1>2
<1>7. QED BY <1>1, <1>3, <1>4, <1>5, <1>6 DEF Grows

(* Points recorded after a boundary are recorded right.                     *)
LEMMA PointsAfter ==
  ASSUME NEW l \in Seq(Records), NEW b, NEW s, NEW a, NEW v, NEW e \in Seq(Records), NEW u, NEW d, NEW k \in Nat,
         Separated(l, a.list, d), b.list = l, b.last = a.last, b.here = a.here, v[0] = s[0],
         Grows(a.list, v, e, u, k), NewPoints(a, v, e, u, k), NEW n, n = d + k
  PROVE  NewPoints(b, s, e, u, n)
<1>1. d \in {0, 1}
  BY DEF Separated
<1>2. b.list # <<>> => a.list # <<>>
  <2>1. CASE d = 0
    BY <2>1 DEF Separated
  <2>2. CASE d = 1
    <3>1. a.list = <<Boundary>> \o l
      BY <2>2 DEF Separated
    <3>2. Len(a.list) = Len(l) + 1
      BY <3>1, RecordsAre, PushedIs
    <3>3. Len(a.list) # 0
      BY <3>2
    <3>4. QED BY <3>3
  <2>3. QED BY <1>1, <2>1, <2>2
<1>3. ASSUME d = 1 PROVE e[k + 1].kind = "boundary"
  <2>1. a.list = <<Boundary>> \o l
    BY <1>3 DEF Separated
  <2>2. Len(a.list) = Len(l) + 1 /\ a.list[1] = Boundary
    BY <2>1, RecordsAre, PushedIs
  <2>3. 1 \in 1 .. Len(a.list) /\ 1 + k = k + 1
    BY <2>2
  <2>4. e[1 + k].kind = a.list[1].kind
    BY <2>3 DEF Grows
  <2>5. QED BY <2>2, <2>3, <2>4 DEF Boundary
<1>4. ASSUME NEW i \in 1 .. n, EndsUnit(e, i), BeginsByDeleting(e, i), b.here, b.list # <<>>
      PROVE  PointBack(e, u, i, Clip(b.last, Len(s[0].text)))
  <2>1. CASE i \in 1 .. k
    BY <1>2, <1>4, <2>1 DEF NewPoints
  <2>2. CASE i \notin 1 .. k
    <3>1. i = k + 1 /\ d = 1
      BY <1>1, <2>2
    <3>2. e[i].kind = "boundary"
      BY <1>3, <3>1
    <3>3. PICK j \in 1 .. i : /\ e[j].kind = "delete"
                              /\ \A q \in j + 1 .. i : e[q].kind \notin {"insert", "delete", "boundary"}
      BY <1>4 DEF BeginsByDeleting
    <3>4. CASE j = i
      BY <3>2, <3>3, <3>4
    <3>5. CASE j # i
      <4>1. i \in j + 1 .. i
        BY <3>1, <3>5
      <4>2. QED BY <3>2, <3>3, <4>1
    <3>6. QED BY <3>4, <3>5
  <2>3. QED BY <2>1, <2>2
<1>5. QED BY <1>4 DEF NewPoints

(* What is left to undo after a unit.                                         *)
IsRest(snaps, y, n, d) == y \in Seq(Snaps) /\ Len(y) = n - d /\ \A i \in 1 .. n - d : y[i] = snaps[i + d]

(* A list without its first unit and the boundary after it.                 *)
LEMMA RestIs ==
  ASSUME NEW S, NEW l \in Seq(S), NEW n \in Nat, n = Len(l), NEW k \in Nat, k < n,
         NEW c, c = SubSeq(l, k + 2, n)
  PROVE  c \in Seq(S) /\ Len(c) = n - (k + 1) /\ \A i \in 1 .. n - (k + 1) : c[i] = l[i + (k + 1)]
<1>1. k + 2 \in Int /\ n \in Int /\ \A i \in k + 2 .. n : l[i] \in S
  OBVIOUS
<1>2. /\ SubSeq(l, k + 2, n) \in Seq(S)
      /\ Len(SubSeq(l, k + 2, n)) = IF k + 2 <= n THEN n - (k + 2) + 1 ELSE 0
      /\ \A i \in 1 .. n - (k + 2) + 1 : SubSeq(l, k + 2, n)[i] = l[(k + 2) + i - 1]
  BY <1>1, SubSeqProperties
<1>3. /\ n - (k + 2) + 1 = n - (k + 1) /\ (k + 2 <= n \/ n - (k + 1) = 0)
      /\ \A i \in 1 .. n - (k + 1) : (k + 2) + i - 1 = i + (k + 1)
  OBVIOUS
<1>4. QED BY <1>2, <1>3

(* The rest of a list is recalled from where its first units lead to.       *)
LEMMA RestIsRecalled ==
  ASSUME NEW l \in Seq(Records), NEW n \in Nat, n = Len(l), NEW p, NEW d, RestAfter(l, p, d),
         NEW snaps, NEW y, IsRest(snaps, y, n, d), NEW T, NEW w, NEW z, Good(l, z, T, w),
         Texts(l, snaps, z), Marks(l, snaps, z, T), NEW c, Agree(c, z[d - 1], T)
  PROVE  Recalled(p, y, c, T, w)
<1>1. d \in 1 .. n /\ l[d].kind = "boundary" /\ p \in Seq(Records) /\ Len(p) = n - d
      /\ \A i \in 1 .. n - d : p[i] = l[i + d]
  BY DEF RestAfter
<1>2. PICK h \in Nat : h = n - d /\ n = h + d /\ d \in Nat \ {0}
  <2>1. n - d \in Nat /\ n = (n - d) + d /\ d \in Nat \ {0}
    BY <1>1
  <2>2. QED BY <2>1
<1>3. PICK u : u = Suffix(z, n, d)
  OBVIOUS
<1>4. \A i \in 0 .. h : u[i] = z[i + d]
  BY <1>2, <1>3 DEF Suffix
<1>5. Good(p, u, T, w)
  BY <1>3, RestGood
<1>6. Agree(c, u[0], T)
  <2>1. u[0] = z[d]
    <3>1. 0 \in 0 .. h /\ 0 + d = d
      BY <1>1, <1>2
    <3>2. u[0] = z[0 + d]
      BY <1>4, <3>1
    <3>3. QED BY <3>1, <3>2
  <2>2. Step(l[d], z[d - 1], z[d], T)
    BY <1>1 DEF Good, Chain
  <2>3. z[d].text = z[d - 1].text /\ \A m \in T : z[d].marks[m] = z[d - 1].marks[m]
    BY <1>1, <2>2 DEF Step, TextStep, MarkStep, IsText
  <2>4. QED BY <2>1, <2>3 DEF Agree
<1>7. ASSUME NEW i \in 1 .. h, EndsUnit(p, i) PROVE i + d \in 1 .. n /\ EndsUnit(l, i + d)
  <2>1. i + d \in 1 .. n
    BY <1>1, <1>2
  <2>2. CASE i = h
    BY <1>2, <2>1, <2>2 DEF EndsUnit
  <2>3. CASE i # h
    <3>1. i + 1 \in 1 .. h /\ (i + 1) + d = (i + d) + 1
      BY <1>2, <2>3
    <3>2. p[i + 1] = l[(i + d) + 1]
      BY <1>1, <1>2, <3>1
    <3>3. QED BY <1>1, <1>2, <1>7, <2>1, <2>3, <3>2 DEF EndsUnit
  <2>4. QED BY <2>2, <2>3
<1>8. y \in Seq(Snaps) /\ Len(y) = h /\ \A i \in 1 .. h : y[i] = snaps[i + d]
  BY <1>2 DEF IsRest
<1>9. \A i \in 1 .. h : u[i] = z[i + d]
  BY <1>4
<1>10. Texts(p, y, u)
  <2>1. ASSUME NEW i \in 1 .. h, EndsUnit(p, i) PROVE y[i].text = u[i].text
    BY <1>7, <1>8, <1>9, <2>1 DEF Texts
  <2>2. Len(p) = h
    BY <1>1, <1>2
  <2>3. QED BY <1>8, <2>1, <2>2 DEF Texts
<1>11. Marks(p, y, u, T)
  BY <1>1, <1>2, <1>7, <1>8, <1>9 DEF Marks
<1>12. QED BY <1>5, <1>6, <1>10, <1>11 DEF Recalled

(* The rest of a tail is a tail.                                            *)
LEMMA RestOfTail ==
  ASSUME NEW l \in Seq(Records), NEW p, NEW d, RestAfter(l, p, d), NEW x \in Seq(Records), SharedTail(l, x)
  PROVE  SharedTail(p, x)
<1>1. PICK n \in Nat, k \in Nat : n = Len(l) /\ k = Len(x)
  OBVIOUS
<1>2. PICK h \in Nat : n = h + d /\ h = n - d
  <2>1. d \in 1 .. n
    BY <1>1 DEF RestAfter
  <2>2. n - d \in Nat /\ n = (n - d) + d
    BY <2>1
  <2>3. QED BY <2>2
<1>3. d \in 1 .. n /\ Len(p) = h /\ \A i \in 1 .. h : p[i] = l[i + d]
  BY <1>1, <1>2 DEF RestAfter
<1>4. n <= k /\ \A i \in 1 .. n : l[i].kind = x[i + (k - n)].kind
  BY <1>1 DEF SharedTail
<1>5. ASSUME NEW i \in 1 .. h PROVE p[i].kind = x[i + (k - h)].kind
  <2>1. i + d \in 1 .. n /\ (i + d) + (k - n) = i + (k - h)
    BY <1>2, <1>3
  <2>2. QED BY <1>3, <1>4, <2>1
<1>6. h <= k
  BY <1>2, <1>3, <1>4
<1>7. QED BY <1>1, <1>3, <1>5, <1>6 DEF SharedTail

(* A list is a tail of itself, and so is the empty one.                     *)
LEMMA OwnTail ==
  ASSUME NEW l \in Seq(Records)
  PROVE  SharedTail(l, l) /\ SharedTail(<<>>, l)
<1>1. PICK n \in Nat : n = Len(l)
  OBVIOUS
<1>2. \A i \in 1 .. n : i + (n - n) = i
  OBVIOUS
<1>3. Len(<<>>) = 0 /\ 1 .. 0 = {} /\ 0 <= n /\ n <= n
  OBVIOUS
<1>4. QED BY <1>1, <1>2, <1>3 DEF SharedTail

(* The buffer B with the list of stages S, of which undoing L up to record K    *)
(* has made C, remembering X.                                                *)
UndoneWell(b, s, c, l, z, k, T, w, x) ==
  /\ c \in Buffers /\ c.astray = b.astray /\ c.on = b.on /\ c.time = b.time /\ c.error = b.error
  /\ c.pt <= Len(c.text) + 1 /\ Agree(c, z[k], T)
  /\ ~c.modified /\ w.ok => c.text = w.disk \/ TextLeft(l, k)
  /\ RecalledAll(c.list, x, c, T, w)
  /\ \E d \in Nat : \E u : Grows(b.list, s, c.list, u, d)

Starting(b) == [Bounded(b) EXCEPT !.last = b.pt, !.here = TRUE]
StartingAs(b) == [b EXCEPT !.last = b.pt, !.here = TRUE]

(* The buffer when `undo' calls primitive-undo.                             *)
LEMMA StartingIs ==
  ASSUME NEW b \in Buffers, NEW a, a = Starting(b), NEW h, h = StartingAs(b)
  PROVE  /\ a \in Buffers /\ h \in Buffers /\ (\E d : Separated(b.list, a.list, d)) /\ h.list = b.list
         /\ a.text = b.text /\ a.marks = b.marks /\ a.astray = b.astray /\ a.on = b.on /\ a.time = b.time
         /\ a.error = b.error /\ a.pt = b.pt /\ a.modified = b.modified /\ a.here = TRUE /\ a.last = b.pt
         /\ h.text = b.text /\ h.marks = b.marks /\ h.astray = b.astray /\ h.here = TRUE /\ h.last = b.pt
         /\ a.list = <<>> <=> b.list = <<>>
<1>1. PICK g : g = Bounded(b)
  OBVIOUS
<1>2. Recorded(b, g) /\ \E d : Separated(b.list, g.list, d)
  BY <1>1, BoundedSeparated
<1>3. g \in Buffers /\ b.pt \in Nat \ {0}
  BY <1>2 DEF Recorded, Buffers
<1>4. a = [g EXCEPT !.last = b.pt, !.here = TRUE]
  BY <1>1 DEF Starting
<1>5. /\ a \in Buffers /\ a.list = g.list /\ a.text = g.text /\ a.marks = g.marks /\ a.astray = g.astray
      /\ a.on = g.on /\ a.time = g.time /\ a.error = g.error /\ a.pt = g.pt /\ a.modified = g.modified
      /\ a.here = TRUE /\ a.last = b.pt
  BY <1>3, <1>4 DEF Buffers
<1>6. /\ h \in Buffers /\ h.list = b.list /\ h.text = b.text /\ h.marks = b.marks /\ h.astray = b.astray
      /\ h.here = TRUE /\ h.last = b.pt
  BY <1>3 DEF Buffers, StartingAs
<1>7. a.list = <<>> <=> b.list = <<>>
  <2>1. CASE g.list = <<Boundary>> \o b.list /\ b.list # <<>>
    <3>1. b.list \in Seq(Records)
      BY DEF Buffers
    <3>2. PICK n \in Nat : n = Len(b.list)
      BY <3>1
    <3>3. Len(g.list) = n + 1
      BY <2>1, <3>1, <3>2, RecordsAre, PushedIs
    <3>4. g.list # <<>>
      <4>1. Len(g.list) # 0
        BY <3>2, <3>3
      <4>2. QED BY <4>1
    <3>5. QED BY <1>5, <2>1, <3>4
  <2>2. CASE g.list = b.list
    BY <1>5, <2>2
  <2>3. QED BY <1>1, <2>1, <2>2, BoundedIs
<1>8. QED BY <1>2, <1>5, <1>6, <1>7 DEF Recorded

(* What is remembered does not depend on the boundary.                      *)
LEMMA BeforeStarting ==
  ASSUME NEW b \in Buffers, NEW a \in Buffers, a.list = <<>> <=> b.list = <<>>,
         a.text = b.text, a.marks = b.marks, a.astray = b.astray, a.last = b.last, a.here = b.here, NEW c
  PROVE  Before(a, c) = Before(b, c)
<1>1. \A q : Snap(a, q) = Snap(b, q)
  BY DEF Snap, Clipped
<1>2. QED BY <1>1 DEF Before

(* Undoing any number of records of a recalled list, which records again,   *)
(* leaves the buffer where they lead and all of its list recalled.          *)
LEMMA RecordsUndone ==
  ASSUME NEW b \in Buffers, b.on, ~b.error, b.pt <= Len(b.text) + 1, NEW T, T = Steady(b),
         NEW w, w.time = b.time, ~b.modified /\ w.ok => b.text = w.disk,
         NEW s, Good(b.list, s, T, w), Agree(b, s[0], T), Texts(b.list, past, s), Marks(b.list, past, s, T),
         Points(b.list, past, s),
         NEW a, a = Starting(b), NEW l \in Seq(Records), NEW z, Good(l, z, T, w), Agree(b, z[0], T),
         NEW k \in 1 .. Len(l), NEW c, c = UndoneRecords(a, l)[k], NEW x, x = Before(a, c)
  PROVE  UndoneWell(b, s, c, l, z, k, T, w, x)
<1>1. PICK h : h = StartingAs(b)
  OBVIOUS
<1>2. /\ a \in Buffers /\ h \in Buffers /\ (\E d : Separated(b.list, a.list, d)) /\ h.list = b.list
      /\ a.text = b.text /\ a.marks = b.marks /\ a.astray = b.astray /\ a.on = b.on /\ a.time = b.time
      /\ a.error = b.error /\ a.pt = b.pt /\ a.modified = b.modified /\ a.here = TRUE /\ a.last = b.pt
      /\ h.text = b.text /\ h.marks = b.marks /\ h.astray = b.astray /\ h.here = TRUE /\ h.last = b.pt
      /\ a.list = <<>> <=> b.list = <<>>
  BY <1>1, StartingIs, ZenonT(60)
<1>3. PICK d : Separated(b.list, a.list, d)
  BY <1>2
<1>4. BoundaryWritten(b, s, a.list, d, T, w) /\ a.list \in Seq(Records) /\ d \in Nat
  BY <1>3, BoundaryGood
<1>5. PICK v : Good(a.list, v, T, w) /\ Grows(b.list, s, a.list, v, d) /\ v[0] = s[0]
  BY <1>4 DEF BoundaryWritten
<1>6. Agree(a, v[0], T) /\ Agree(a, z[0], T)
  BY <1>2, <1>5 DEF Agree
<1>7. T \in SUBSET (Markers \ Advancing)
  BY DEF Steady
<1>8. Progress(a, v, l, z, k, c, T, w)
  <2>1. PICK n \in Nat : n = Len(l)
    OBVIOUS
  <2>2. \A i \in 0 .. n : Progress(a, v, l, z, i, UndoneRecords(a, l)[i], T, w)
    <3>1. a.on /\ ~a.error /\ a.pt <= Len(a.text) + 1 /\ w.time = a.time
      BY <1>2
    <3>2. ~a.modified /\ w.ok => a.text = w.disk
      BY <1>2
    <3>3. QED BY <1>2, <1>5, <1>6, <1>7, <2>1, <3>1, <3>2, ProgressMade
  <2>3. k \in 0 .. n
    BY <2>1
  <2>4. QED BY <2>2, <2>3
<1>9. Kept(a, c) /\ Agree(c, z[k], T) /\ c.pt <= Len(c.text) + 1
  BY <1>8 DEF Progress
<1>10. ~c.modified /\ w.ok => c.text = w.disk \/ TextLeft(l, k)
  BY <1>8 DEF Progress, InUnit
<1>11. PICK e \in Nat : \E u :
         /\ WroteAtAll(a, v, c, u, e, T, w) /\ Agree(c, u[0], T) /\ Good(c.list, u, T, w)
         /\ Unmodified(c, u, w)
  BY <1>2, <1>5, <1>8, ProgressStages
<1>12. PICK u : WroteAtAll(a, v, c, u, e, T, w) /\ Agree(c, u[0], T) /\ Good(c.list, u, T, w)
  BY <1>11
<1>13. c \in Buffers /\ c.list \in Seq(Records) /\ b.list \in Seq(Records)
  BY <1>9 DEF Kept, Buffers
<1>14. Grows(a.list, v, c.list, u, e) /\ NewPoints(a, v, c.list, u, e)
  <2>1. CASE c.list = a.list /\ u = v /\ e = 0
    <3>1. Grows(a.list, v, a.list, v, 0)
      BY <1>4, NotGrown
    <3>2. NewPoints(a, v, c.list, u, 0)
      BY DEF NewPoints
    <3>3. QED BY <2>1, <3>1, <3>2
  <2>2. CASE Wrote(a, v, c, u, e, T, w)
    BY <2>2 DEF Wrote
  <2>3. QED BY <1>12, <2>1, <2>2 DEF WroteAtAll
<1>15. PICK n \in Nat : n = d + e
  BY <1>4
<1>16. Grows(b.list, s, c.list, u, n)
  BY <1>4, <1>5, <1>13, <1>14, <1>15, GrowsAfter
<1>17. NewPoints(h, s, c.list, u, n)
  <2>1. h.list = b.list /\ h.last = a.last /\ h.here = a.here
    BY <1>2
  <2>2. QED BY <1>3, <1>5, <1>13, <1>14, <1>15, <2>1, PointsAfter
<1>18. x = Before(h, c)
  <2>1. /\ a.list = <<>> <=> h.list = <<>>
        /\ a.text = h.text /\ a.marks = h.marks /\ a.astray = h.astray /\ a.last = h.last /\ a.here = h.here
    BY <1>2
  <2>2. QED BY <1>2, <2>1, BeforeStarting
<1>19. RecalledAll(c.list, x, c, T, w)
  <2>1. T = Steady(h) /\ Agree(h, s[0], T)
    BY <1>2 DEF Steady, Agree
  <2>2. Texts(h.list, past, s) /\ Marks(h.list, past, s, T) /\ Points(h.list, past, s)
    BY <1>2
  <2>3. Grows(h.list, s, c.list, u, n)
    BY <1>2, <1>16
  <2>4. QED BY <1>2, <1>12, <1>13, <1>17, <1>18, <2>1, <2>2, <2>3, PastGrown
<1>20. c.astray = b.astray /\ c.on = b.on /\ c.time = b.time /\ c.error = b.error
  BY <1>2, <1>9 DEF Kept
<1>21. QED BY <1>9, <1>10, <1>13, <1>16, <1>19, <1>20 DEF UndoneWell

(* What primitive-undo is given, and where it leaves off.                      *)
ToUndo == IF pending.list # <<>> THEN pending.list ELSE buf.list
UndoSnaps == IF pending.list # <<>> THEN restPast ELSE past
UndoTail == pending.list # <<>> => pending.tail
Undoes(l, q, a, c, k) ==
  /\ buf.on /\ k \in 1 .. Len(l)
  /\ buf' = [c EXCEPT !.error = FALSE] /\ past' = Before(a, c)
  /\ UNCHANGED <<disk, hasty>>
  /\ IF EndsUnit(l, k) /\ ~c.error
     THEN /\ pending' = [list |-> SubSeq(l, k + 2, Len(l)), tail |-> UndoTail]
          /\ restPast' = SubSeq(q, k + 2, Len(l))
          /\ halved' = halved
     ELSE pending' = NonePending /\ restPast' = <<>> /\ halved' = TRUE

(* What `undo' does, in these words.                                        *)
LEMMA UndoIs ==
  ASSUME UndoInv, NEW k, Undo(k)
  PROVE  Undoes(ToUndo, UndoSnaps, Starting(buf), UndoneRecords(Starting(buf), ToUndo)[k], k)
<1>1. buf.list \in Seq(Records) /\ pending.list \in Seq(Records)
  BY DEF UndoInv, TypeOK, Buffers
<1>2. PICK n \in Nat : n = Len(ToUndo)
  BY <1>1 DEF ToUndo
<1>3. k \in (IF AtBoundary(ToUndo) THEN 2 ELSE 1) .. n
  BY <1>2 DEF Undo, ToUndo
<1>4. k \in 1 .. n
  <2>1. CASE AtBoundary(ToUndo)
    BY <1>3, <2>1
  <2>2. CASE ~AtBoundary(ToUndo)
    BY <1>3, <2>2
  <2>3. QED BY <2>1, <2>2
<1>5. QED BY <1>2, <1>4 DEF Undo, Undoes, ToUndo, UndoSnaps, UndoTail, Starting

(* What there is to undo is recalled.                                       *)
LEMMA ToUndoRecalled ==
  ASSUME UndoInv, NEW T, T = Steady(buf), NEW w, w = World
  PROVE  /\ ToUndo \in Seq(Records) /\ Recalled(ToUndo, UndoSnaps, buf, T, w)
         /\ UndoTail => SharedTail(ToUndo, buf.list)
<1>1. buf.list \in Seq(Records) /\ pending.list \in Seq(Records)
  BY DEF UndoInv, TypeOK, Buffers
<1>2. CASE pending.list # <<>>
  <2>1. ToUndo = pending.list /\ UndoSnaps = restPast
    BY <1>2 DEF ToUndo, UndoSnaps
  <2>2. Recalled(pending.list, restPast, buf, T, w)
    BY DEF UndoInv, RestRecalled
  <2>3. UndoTail => SharedTail(pending.list, buf.list)
    BY <1>2 DEF UndoTail, UndoInv, Tailed
  <2>4. QED BY <1>1, <2>1, <2>2, <2>3
<1>3. CASE pending.list = <<>>
  <2>1. ToUndo = buf.list /\ UndoSnaps = past
    BY <1>3 DEF ToUndo, UndoSnaps
  <2>2. RecalledAll(buf.list, past, buf, T, w)
    BY DEF UndoInv, PastRecalled
  <2>3. SharedTail(buf.list, buf.list)
    BY <1>1, OwnTail
  <2>4. QED BY <1>1, <2>1, <2>2, <2>3, AllRecalled
<1>4. QED BY <1>2, <1>3

(* The pending list after a unit.                                            *)
Rest(l, k, n) == SubSeq(l, k + 2, n)
TailsToo(l, p) == \A x \in Seq(Records) : SharedTail(l, x) => SharedTail(p, x)
Pending(l, p, y, c, k, n, T, w) == p \in Seq(Records) /\ Recalled(p, y, c, T, w) /\ TailsToo(l, p)

(* After a unit is undone the rest is recalled.                             *)
LEMMA UnitUndone ==
  ASSUME NEW l \in Seq(Records), NEW q, NEW z, NEW T, NEW w, Good(l, z, T, w), Texts(l, q, z), Marks(l, q, z, T),
         NEW k \in 1 .. Len(l), EndsUnit(l, k), NEW c \in Buffers, Agree(c, z[k], T), NEW n \in Nat, n = Len(l),
         NEW p, p = Rest(l, k, n), NEW y, y = Rest(q, k, n)
  PROVE  Pending(l, p, y, c, k, n, T, w)
<1>1. q \in Seq(Snaps) /\ Len(q) = n /\ k \in Nat \ {0} /\ k <= n
  BY DEF Texts
<1>2. CASE k = n
  <2>1. p = <<>> /\ y = <<>>
    <3>1. k + 2 \in Int /\ n \in Int /\ n < k + 2
      BY <1>1, <1>2
    <3>2. QED BY <3>1, SubSeqEmpty DEF Rest
  <2>2. Recalled(p, y, c, T, w) /\ p \in Seq(Records)
    BY <2>1, NothingRecalled
  <2>3. TailsToo(l, p)
    BY <2>1, OwnTail DEF TailsToo
  <2>4. QED BY <2>2, <2>3 DEF Pending
<1>3. CASE k # n
  <2>1. k \in Nat /\ k < n
    BY <1>1, <1>3
  <2>2. PICK d \in Nat : d = k + 1 /\ d \in 1 .. n /\ d - 1 = k
    BY <2>1
  <2>3. p \in Seq(Records) /\ Len(p) = n - (k + 1) /\ \A i \in 1 .. n - (k + 1) : p[i] = l[i + (k + 1)]
    BY <2>1, RestIs DEF Rest
  <2>4. y \in Seq(Snaps) /\ Len(y) = n - (k + 1) /\ \A i \in 1 .. n - (k + 1) : y[i] = q[i + (k + 1)]
    BY <1>1, <2>1, RestIs DEF Rest
  <2>5. l[d].kind = "boundary"
    BY <1>3, <2>2 DEF EndsUnit
  <2>6. RestAfter(l, p, d)
    BY <2>2, <2>3, <2>5 DEF RestAfter
  <2>7. IsRest(q, y, n, d)
    BY <2>2, <2>4 DEF IsRest
  <2>8. Agree(c, z[d - 1], T)
    BY <2>2
  <2>9. Recalled(p, y, c, T, w)
    BY <2>6, <2>7, <2>8, RestIsRecalled
  <2>10. TailsToo(l, p)
    BY <2>6, RestOfTail DEF TailsToo
  <2>11. QED BY <2>3, <2>9, <2>10 DEF Pending
<1>4. QED BY <1>2, <1>3

(* `undo' keeps the invariant, whether primitive-undo ends the unit or not. *)
LEMMA UndoStep ==
  ASSUME UndoInv, NEW k, Undo(k)
  PROVE  UndoInv'
<1>1. PICK T, w, l, q, a, c, x : /\ T = Steady(buf) /\ w = World /\ l = ToUndo /\ q = UndoSnaps
                              /\ a = Starting(buf) /\ c = UndoneRecords(a, l)[k] /\ x = Before(a, c)
  OBVIOUS
<1>2. Undoes(l, q, a, c, k)
  BY <1>1, UndoIs
<1>3. k \in 1 .. Len(l) /\ buf.on /\ past' = x /\ UNCHANGED <<disk, hasty>>
  BY <1>1, <1>2 DEF Undoes
<1>4. l \in Seq(Records) /\ Recalled(l, q, buf, T, w) /\ (UndoTail => SharedTail(l, buf.list))
  BY <1>1, ToUndoRecalled
<1>5. /\ buf \in Buffers /\ ~buf.error /\ buf.pt <= Len(buf.text) + 1 /\ buf.list \in Seq(Records)
      /\ w.time = buf.time /\ w.disk = disk /\ (w.ok <=> ~hasty /\ ~halved) /\ w.time \in Nat
  BY <1>1, WorldIs DEF UndoInv, TypeOK, InText, Buffers
<1>6. PICK s : /\ Good(buf.list, s, T, w) /\ Agree(buf, s[0], T) /\ Texts(buf.list, past, s)
               /\ Marks(buf.list, past, s, T) /\ Points(buf.list, past, s)
  BY <1>1 DEF UndoInv, PastRecalled, RecalledAll
<1>7. PICK z : Good(l, z, T, w) /\ Agree(buf, z[0], T) /\ Texts(l, q, z) /\ Marks(l, q, z, T)
  BY <1>4 DEF Recalled
<1>8. UndoneWell(buf, s, c, l, z, k, T, w, x)
  <2>1. ~buf.modified /\ w.ok => buf.text = w.disk
    BY <1>5 DEF UndoInv, UnmodifiedIsSaved
  <2>2. QED BY <1>1, <1>3, <1>4, <1>5, <1>6, <1>7, <2>1, RecordsUndone
<1>9. /\ c \in Buffers /\ c.astray = buf.astray /\ c.on = buf.on /\ c.time = buf.time /\ c.error = buf.error
      /\ c.pt <= Len(c.text) + 1 /\ Agree(c, z[k], T)
      /\ ~c.modified /\ w.ok => c.text = w.disk \/ TextLeft(l, k)
      /\ RecalledAll(c.list, x, c, T, w)
  BY <1>8 DEF UndoneWell
<1>10. ~c.error /\ buf' = c
  <2>1. ~c.error /\ c.error = FALSE
    BY <1>5, <1>9 DEF Buffers
  <2>2. [c EXCEPT !.error = FALSE] = c
    BY <1>9, <2>1 DEF Buffers
  <2>3. QED BY <1>2, <2>1, <2>2 DEF Undoes
<1>11. Steady(buf') = T /\ c.list \in Seq(Records)
  BY <1>1, <1>9, <1>10 DEF Steady, Buffers
<1>12. InText' /\ WhenOff'
  BY <1>3, <1>9, <1>10 DEF InText, WhenOff
<1>13. CASE EndsUnit(l, k)
  <2>1. /\ pending' = [list |-> SubSeq(l, k + 2, Len(l)), tail |-> UndoTail]
        /\ restPast' = SubSeq(q, k + 2, Len(l)) /\ halved' = halved
    BY <1>2, <1>10, <1>13 DEF Undoes
  <2>2. PICK n \in Nat : n = Len(l)
    BY <1>4
  <2>3. PICK p, y : p = Rest(l, k, n) /\ y = Rest(q, k, n)
    OBVIOUS
  <2>4. /\ p \in Seq(Records) /\ Recalled(p, y, c, T, w)
        /\ \A i \in Seq(Records) : SharedTail(l, i) => SharedTail(p, i)
    <3>1. Pending(l, p, y, c, k, n, T, w)
      BY <1>3, <1>4, <1>7, <1>9, <1>13, <2>2, <2>3, UnitUndone
    <3>2. QED BY <3>1 DEF Pending, TailsToo
  <2>5. pending'.list = p /\ (pending'.tail <=> UndoTail) /\ restPast' = y
    BY <2>1, <2>2, <2>3 DEF Rest
  <2>6. UndoTail \in BOOLEAN
    BY DEF UndoTail
  <2>7. TypeOK'
    BY <1>3, <1>9, <1>10, <2>1, <2>2, <2>3, <2>4, <2>6 DEF UndoInv, TypeOK, Rest
  <2>8. World' = w
    BY <1>1, <1>3, <1>5, <1>9, <1>10, <2>1, SameWorld
  <2>9. PastRecalled' /\ RestRecalled'
    BY <1>3, <1>9, <1>10, <1>11, <2>4, <2>5, <2>8 DEF PastRecalled, RestRecalled
  <2>10. Tailed'
    <3>1. ASSUME UndoTail PROVE SharedTail(p, c.list)
      <4>1. SharedTail(p, buf.list)
        BY <1>4, <1>5, <2>4, <3>1
      <4>2. PICK d \in Nat : \E u : Grows(buf.list, s, c.list, u, d)
        BY <1>8 DEF UndoneWell
      <4>3. PICK u : Grows(buf.list, s, c.list, u, d)
        BY <4>2
      <4>4. QED BY <1>5, <1>11, <2>4, <4>1, <4>3, TailKept
    <3>2. QED BY <1>10, <2>5, <3>1 DEF Tailed
  <2>11. ~TextLeft(l, k)
    <3>1. ASSUME NEW i \in k + 1 .. n, NoBoundary(l, k, i) PROVE FALSE
      <4>1. k # n /\ k + 1 \in k .. i
        BY <1>3, <2>2, <3>1
      <4>2. l[k + 1].kind = "boundary"
        BY <1>13, <2>2, <4>1 DEF EndsUnit
      <4>3. QED BY <3>1, <4>1, <4>2 DEF NoBoundary
    <3>2. QED BY <2>2, <3>1 DEF TextLeft
  <2>12. UnmodifiedIsSaved'
    BY <1>3, <1>5, <1>9, <1>10, <2>1, <2>11 DEF UnmodifiedIsSaved
  <2>13. QED BY <1>12, <2>7, <2>9, <2>10, <2>12 DEF UndoInv
<1>14. CASE ~EndsUnit(l, k)
  <2>1. pending' = NonePending /\ restPast' = <<>> /\ halved' = TRUE
    BY <1>2, <1>14 DEF Undoes
  <2>2. pending'.list = <<>> /\ ~pending'.tail /\ <<>> \in Seq(Records)
    BY <2>1 DEF NonePending
  <2>3. TypeOK' /\ Tailed' /\ UnmodifiedIsSaved'
    <3>1. TypeOK'
      BY <1>3, <1>9, <1>10, <2>1, <2>2 DEF UndoInv, TypeOK, NonePending
    <3>2. Tailed' /\ UnmodifiedIsSaved'
      BY <2>1, <2>2 DEF Tailed, UnmodifiedIsSaved
    <3>3. QED BY <3>1, <3>2
  <2>4. RestRecalled'
    BY <1>9, <1>10, <2>1, <2>2, NothingRecalled DEF RestRecalled
  <2>5. PastRecalled'
    <3>1. PICK v : v = World'
      OBVIOUS
    <3>2. v.time = w.time /\ ~v.ok
      BY <1>5, <1>9, <1>10, <2>1, <3>1 DEF World
    <3>3. v.time \in Nat /\ v.time >= w.time /\ (v.ok => v.time > w.time)
      BY <1>5, <3>2
    <3>4. RecalledAll(c.list, x, c, T, v)
      BY <1>5, <1>9, <1>11, <3>3, RecalledLater
    <3>5. QED BY <1>3, <1>10, <1>11, <3>1, <3>4 DEF PastRecalled
  <2>6. QED BY <1>12, <2>3, <2>4, <2>5 DEF UndoInv
<1>15. QED BY <1>13, <1>14

-----------------------------------------------------------------------------
(* Every step of the specification keeps the invariant.                       *)
LEMMA InvStays ==
  ASSUME UndoInv, [Next]_vars
  PROVE  UndoInv'
<1>1. CASE UNCHANGED vars
  <2>1. UNCHANGED <<buf, pending, disk, past, restPast, hasty, halved>>
    BY <1>1 DEF vars
  <2>2. TypeOK' /\ InText' /\ WhenOff' /\ Tailed' /\ UnmodifiedIsSaved'
    BY <2>1 DEF UndoInv, TypeOK, InText, WhenOff, Tailed, UnmodifiedIsSaved
  <2>3. World' = World /\ Steady(buf') = Steady(buf)
    BY <2>1 DEF World
  <2>4. PastRecalled' /\ RestRecalled'
    BY <2>1, <2>3 DEF UndoInv, PastRecalled, RestRecalled
  <2>5. QED BY <2>2, <2>4 DEF UndoInv
<1>2. CASE Next
  <2>1. ASSUME NEW boundary \in BOOLEAN, Command(boundary) PROVE UndoInv'
    BY <2>1, CommandStep
  <2>2. ASSUME NEW boundary \in BOOLEAN, EditElsewhere(boundary) PROVE UndoInv'
    BY <2>2, ElsewhereStep
  <2>3. ASSUME NEW boundary \in BOOLEAN, SetUndo(boundary) PROVE UndoInv'
    BY <2>3, SetUndoStep
  <2>4. CASE UndoBoundary
    BY <2>4, UndoBoundaryStep
  <2>5. ASSUME NEW p \in 1 .. MaxLen + 1, GotoChar(p) PROVE UndoInv'
    BY <2>5, GotoCharStep
  <2>6. ASSUME NEW s \in Strings, NEW before \in BOOLEAN, Insert(s, before) PROVE UndoInv'
    BY <2>6, InsertStep
  <2>7. ASSUME NEW from \in 1 .. MaxLen + 1, NEW to \in 1 .. MaxLen + 1, Delete(from, to) PROVE UndoInv'
    BY <2>7, DeleteStep
  <2>8. ASSUME NEW from \in 1 .. MaxLen + 1, NEW to \in 1 .. MaxLen + 1, Change(from, to) PROVE UndoInv'
    BY <2>8, ChangeStep
  <2>9. ASSUME NEW to \in 1 .. MaxLen + 1, NEW s \in Strings, Overwrite(to, s) PROVE UndoInv'
    BY <2>9, OverwriteStep
  <2>10. ASSUME NEW m \in Markers, NEW p \in Nowhere .. MaxLen + 1, SetMarker(m, p) PROVE UndoInv'
    BY <2>10, SetMarkerStep
  <2>11. ASSUME NEW time \in 0 .. MaxSaves, Save(time) PROVE UndoInv'
    BY <2>11, SaveStep
  <2>12. ASSUME NEW k \in 1 .. Len(buf.list), Undo(k) PROVE UndoInv'
    BY <2>12, UndoStep
  <2>13. ASSUME NEW i \in 2 .. Len(buf.list), Truncate(i) PROVE UndoInv'
    BY <2>13, TruncateStep
  <2>14. QED
    BY <1>2, <2>1, <2>2, <2>3, <2>4, <2>5, <2>6, <2>7, <2>8, <2>9, <2>10, <2>11, <2>12, <2>13 DEF Next
<1>3. QED BY <1>1, <1>2

(* The invariant holds always.                                              *)
LEMMA InvHolds == Spec => []UndoInv
<1>1. UndoInv /\ [Next]_vars => UndoInv'
  BY InvStays
<1>2. Init => UndoInv
  BY InvStarts
<1>3. QED BY <1>1, <1>2, PTL DEF Spec

-----------------------------------------------------------------------------
(* What is recalled is what undoing brings back.                              *)
LEMMA RecalledBack ==
  ASSUME buf \in Buffers, ~buf.error, NEW T, T = Steady(buf), NEW w, NEW l \in Seq(Records), NEW snaps,
         Recalled(l, snaps, buf, T, w)
  PROVE  TextBack(l, snaps) /\ MarkersBack(l, snaps)
<1>1. PICK z : Good(l, z, T, w) /\ Agree(buf, z[0], T) /\ Texts(l, snaps, z) /\ Marks(l, snaps, z, T)
  BY DEF Recalled
<1>2. PICK h : h = [buf EXCEPT !.on = FALSE]
  OBVIOUS
<1>3. h \in Buffers /\ h.text = buf.text /\ h.marks = buf.marks /\ ~h.error
  BY <1>2 DEF Buffers
<1>4. PICK n \in Nat : n = Len(l)
  OBVIOUS
<1>5. PICK b : b = UndoneRecords(h, l)
  OBVIOUS
<1>6. \A i \in 0 .. n : Kept(h, b[i]) /\ Agree(b[i], z[i], T)
  <2>1. T \in SUBSET (Markers \ Advancing) /\ Agree(h, z[0], T) /\ Chain(l, z, T)
    BY <1>1, <1>3 DEF Steady, Agree, Good
  <2>2. QED BY <1>3, <1>4, <1>5, <2>1, StagesReached
<1>7. Undone(l) = b /\ DOMAIN l = 1 .. n /\ \A i \in 1 .. n : i \in 0 .. n
  BY <1>2, <1>4, <1>5 DEF Undone
<1>8. ASSUME NEW i \in 1 .. n, EndsUnit(l, i)
      PROVE  /\ ~b[i].error /\ b[i].text = snaps[i].text
             /\ \A m \in Markers : snaps[i].marks[m] \in {Unknown, b[i].marks[m]}
  <2>1. Kept(h, b[i]) /\ Agree(b[i], z[i], T)
    BY <1>6, <1>7
  <2>2. snaps[i].text = z[i].text /\ \A m \in Markers : MarkFits(snaps[i], z[i], m, T)
    BY <1>1, <1>4, <1>8 DEF Texts, Marks
  <2>3. QED BY <1>3, <2>1, <2>2 DEF Kept, Agree, MarkFits
<1>9. Len(snaps) = Len(l)
  BY <1>1 DEF Texts
<1>10. TextBack(l, snaps)
  BY <1>7, <1>8, <1>9 DEF TextBack
<1>11. MarkersBack(l, snaps)
  BY <1>7, <1>8 DEF MarkersBack
<1>12. QED BY <1>10, <1>11

(* So is point.                                                             *)
LEMMA PointIsBack ==
  ASSUME UndoInv, NEW i \in DOMAIN buf.list, EndsUnit(buf.list, i)
  PROVE  past[i].pt \in {Unknown, Undone(buf.list)[i].pt}
<1>1. PICK T, w, l : T = Steady(buf) /\ w = World /\ l = buf.list
  OBVIOUS
<1>2. PICK z : Good(l, z, T, w) /\ Agree(buf, z[0], T) /\ Points(l, past, z)
  BY <1>1 DEF UndoInv, PastRecalled, RecalledAll
<1>3. buf \in Buffers /\ ~buf.error /\ l \in Seq(Records)
  BY <1>1 DEF UndoInv, TypeOK, InText, Buffers
<1>4. PICK h : h = [buf EXCEPT !.on = FALSE]
  OBVIOUS
<1>5. h \in Buffers /\ h.text = buf.text /\ h.marks = buf.marks /\ ~h.error
  BY <1>3, <1>4 DEF Buffers
<1>6. PICK n \in Nat : n = Len(l)
  BY <1>3
<1>7. i \in 1 .. n
  BY <1>1, <1>3, <1>6
<1>8. T \in SUBSET (Markers \ Advancing) /\ Agree(h, z[0], T) /\ Chain(l, z, T)
  BY <1>1, <1>2, <1>5 DEF Steady, Agree, Good
<1>9. CASE past[i].pt # Unknown
  <2>1. PICK p \in Nat \ {0} : p = past[i].pt /\ PointBack(l, z, i, p)
    BY <1>1, <1>2, <1>6, <1>7, <1>9 DEF Points
  <2>2. UndoneRecords(h, l)[i].pt = p
    BY <1>3, <1>5, <1>6, <1>7, <1>8, <2>1, PointReached
  <2>3. QED BY <1>1, <1>4, <2>1, <2>2 DEF Undone
<1>10. QED BY <1>9

(* At any moment, undoing unit after unit gives the text before each unit, and  *)
(* is never refused (primitive-undo in simple.el, with undo.c and insdel.c).    *)
THEOREM TextComesBack == Spec => []TextRestored
<1>1. UndoInv => TextRestored
  <2> SUFFICES ASSUME UndoInv PROVE TextRestored
    OBVIOUS
  <2>1. PICK T, w : T = Steady(buf) /\ w = World
    OBVIOUS
  <2>2. /\ buf \in Buffers /\ ~buf.error /\ buf.list \in Seq(Records) /\ pending.list \in Seq(Records)
    BY DEF UndoInv, TypeOK, InText, Buffers
  <2>3. Recalled(buf.list, past, buf, T, w)
    BY <2>1, AllRecalled DEF UndoInv, PastRecalled
  <2>4. Recalled(pending.list, restPast, buf, T, w)
    BY <2>1 DEF UndoInv, RestRecalled
  <2>5. QED BY <2>1, <2>2, <2>3, <2>4, RecalledBack DEF TextRestored
<1>2. QED BY <1>1, InvHolds, PTL

(* So are the markers that nobody moved meanwhile and that do not advance, and  *)
(* point, where a unit begins with a deletion.                                *)
THEOREM PlacesComeBack == Spec => []PlacesRestored
<1>1. UndoInv => PlacesRestored
  <2> SUFFICES ASSUME UndoInv PROVE PlacesRestored
    OBVIOUS
  <2>1. PICK T, w : T = Steady(buf) /\ w = World
    OBVIOUS
  <2>2. /\ buf \in Buffers /\ ~buf.error /\ buf.list \in Seq(Records) /\ pending.list \in Seq(Records)
    BY DEF UndoInv, TypeOK, InText, Buffers
  <2>3. Recalled(buf.list, past, buf, T, w)
    BY <2>1, AllRecalled DEF UndoInv, PastRecalled
  <2>4. Recalled(pending.list, restPast, buf, T, w)
    BY <2>1 DEF UndoInv, RestRecalled
  <2>5. MarkersBack(buf.list, past) /\ MarkersBack(pending.list, restPast)
    BY <2>1, <2>2, <2>3, <2>4, RecalledBack
  <2>6. QED BY <2>5, PointIsBack DEF PlacesRestored
<1>2. QED BY <1>1, InvHolds, PTL

(* A buffer that undo leaves unmodified is the file, unless the file was written *)
(* twice within a tick of its clock or a unit was only half undone (the time of  *)
(* the file that record_first_change records, and primitive-undo looks at).     *)
THEOREM OnlySavedUnmodified == Spec => []UnmodifiedIsSaved
<1>1. UndoInv => UnmodifiedIsSaved
  BY DEF UndoInv
<1>2. QED BY <1>1, InvHolds, PTL
=============================================================================
