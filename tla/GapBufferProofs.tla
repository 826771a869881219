--------------------------- MODULE GapBufferProofs ---------------------------
(***************************************************************************)
(* Proofs about GapBuffer for every set of characters, every size of the   *)
(* gap, of the spare space and of the chunks copied between two looks at   *)
(* quit-flag: the gap operations are lemmas about the characters of the    *)
(* text; the theorems follow action by action.                             *)
(***************************************************************************)
EXTENDS GapBuffer, TLAPS

(* The character at position I, wherever the gap is *)
CharAt(b, i) == b.mem[Address(b, i)]
SameChars(b, c) == c.z = b.z /\ \A i \in 1 .. Length(b) : CharAt(c, i) = CharAt(b, i)

-----------------------------------------------------------------------------
(* gap_left moves the gap down to P and keeps every character. *)
LEMMA MovedLeftSound ==
  ASSUME NEW b, Buffer(b), NEW p \in 1 .. b.gpt - 1
  PROVE  LET c == MovedLeft(b, p)
         IN Buffer(c) /\ c.gpt = p /\ c.gap = b.gap /\ SameChars(b, c)
<1> DEFINE c == MovedLeft(b, p)
           moved == [i \in DOMAIN b.mem |->
                IF i \in p + b.gap .. b.gpt + b.gap - 1 THEN b.mem[i - b.gap] ELSE b.mem[i]]
           mem == Anchored(b, moved, p)
<1>1. c = [mem |-> mem, gpt |-> p, gap |-> b.gap, z |-> b.z]
  BY DEF MovedLeft
<1>2. /\ b.gap \in Nat /\ b.z \in Nat /\ b.gpt \in 1 .. b.z
      /\ DOMAIN b.mem = 1 .. b.z - 1 + b.gap
      /\ \A i \in 1 .. b.z - 1 + b.gap : b.mem[i] \in Chars \cup {Nul}
  BY DEF Buffer
<1>3. moved \in [1 .. b.z - 1 + b.gap -> Chars \cup {Nul}]
  <2>1. \A i \in 1 .. b.z - 1 + b.gap :
          (IF i \in p + b.gap .. b.gpt + b.gap - 1 THEN b.mem[i - b.gap] ELSE b.mem[i]) \in Chars \cup {Nul}
    <3> TAKE i \in 1 .. b.z - 1 + b.gap
    <3>1. CASE i \in p + b.gap .. b.gpt + b.gap - 1
      <4>1. i - b.gap \in 1 .. b.z - 1 + b.gap BY <1>2, <3>1
      <4> QED BY <4>1, <3>1, <1>2
    <3>2. CASE ~(i \in p + b.gap .. b.gpt + b.gap - 1) BY <3>2, <1>2
    <3> QED BY <3>1, <3>2
  <2> QED BY <2>1, <1>2
<1>4. mem \in [1 .. b.z - 1 + b.gap -> Chars \cup {Nul}]
  BY <1>2, <1>3 DEF Anchored
<1>5. \A i \in 1 .. b.z - 1 + b.gap :
        mem[i] = IF b.gap > 0 /\ i = p THEN Nul
                 ELSE IF i \in p + b.gap .. b.gpt + b.gap - 1 THEN b.mem[i - b.gap] ELSE b.mem[i]
  BY <1>2, <1>3 DEF Anchored
<1> HIDE DEF mem, moved
<1>6. \A i \in 1 .. b.z - 1 : mem[IF i < p THEN i ELSE i + b.gap] = CharAt(b, i)
  <2> TAKE i \in 1 .. b.z - 1
  <2> DEFINE j == IF i < p THEN i ELSE i + b.gap
  <2>1. /\ j \in 1 .. b.z - 1 + b.gap /\ ~(b.gap > 0 /\ j = p)
    BY <1>2
  <2>2. (IF j \in p + b.gap .. b.gpt + b.gap - 1 THEN b.mem[j - b.gap] ELSE b.mem[j]) = b.mem[Address(b, i)]
    <3>1. CASE i < p BY <3>1, <1>2 DEF Address
    <3>2. CASE p <= i /\ i < b.gpt BY SMTT(30), <3>2, <1>2 DEF Address
    <3>3. CASE i >= b.gpt BY <3>3, <1>2 DEF Address
    <3> QED BY <3>1, <3>2, <3>3, <1>2
  <2> HIDE DEF j
  <2>3. mem[j] = CharAt(b, i) BY <2>1, <2>2, <1>5 DEF CharAt
  <2> QED BY <2>3 DEF j
<1>7. SameChars(b, c)
  BY <1>1, <1>6 DEF SameChars, CharAt, Address, Length
<1>8. Buffer(c)
  <2>1. \A i \in 1 .. Length(c) : c.mem[Address(c, i)] \in Chars
    BY <1>1, <1>7 DEF SameChars, CharAt, Buffer, Length
  <2>2. c.gap \in Nat /\ c.z \in Nat \ {0} /\ c.gpt \in 1 .. c.z
    BY <1>1, <1>2 DEF Buffer
  <2> QED BY <2>1, <2>2, <1>1, <1>4 DEF Buffer
<1> QED BY <1>1, <1>7, <1>8

(* gap_right moves the gap up to P and keeps every character. *)
LEMMA MovedRightSound ==
  ASSUME NEW b, Buffer(b), NEW p \in b.gpt + 1 .. b.z
  PROVE  LET c == MovedRight(b, p)
         IN Buffer(c) /\ c.gpt = p /\ c.gap = b.gap /\ SameChars(b, c)
<1> DEFINE c == MovedRight(b, p)
           moved == [i \in DOMAIN b.mem |->
                IF i \in b.gpt .. p - 1 THEN b.mem[i + b.gap] ELSE b.mem[i]]
           mem == Anchored(b, moved, p)
<1>1. c = [mem |-> mem, gpt |-> p, gap |-> b.gap, z |-> b.z]
  BY DEF MovedRight
<1>2. /\ b.gap \in Nat /\ b.z \in Nat /\ b.gpt \in 1 .. b.z
      /\ DOMAIN b.mem = 1 .. b.z - 1 + b.gap
      /\ \A i \in 1 .. b.z - 1 + b.gap : b.mem[i] \in Chars \cup {Nul}
  BY DEF Buffer
<1>3. moved \in [1 .. b.z - 1 + b.gap -> Chars \cup {Nul}]
  <2>1. \A i \in 1 .. b.z - 1 + b.gap :
          (IF i \in b.gpt .. p - 1 THEN b.mem[i + b.gap] ELSE b.mem[i]) \in Chars \cup {Nul}
    <3> TAKE i \in 1 .. b.z - 1 + b.gap
    <3>1. CASE i \in b.gpt .. p - 1
      <4>1. i + b.gap \in 1 .. b.z - 1 + b.gap BY <1>2, <3>1
      <4> QED BY <4>1, <3>1, <1>2
    <3>2. CASE ~(i \in b.gpt .. p - 1) BY <3>2, <1>2
    <3> QED BY <3>1, <3>2
  <2> QED BY <2>1, <1>2
<1>4. mem \in [1 .. b.z - 1 + b.gap -> Chars \cup {Nul}]
  BY <1>2, <1>3 DEF Anchored
<1>5. \A i \in 1 .. b.z - 1 + b.gap :
        mem[i] = IF b.gap > 0 /\ i = p THEN Nul
                 ELSE IF i \in b.gpt .. p - 1 THEN b.mem[i + b.gap] ELSE b.mem[i]
  BY <1>2, <1>3 DEF Anchored
<1> HIDE DEF mem, moved
<1>6. \A i \in 1 .. b.z - 1 : mem[IF i < p THEN i ELSE i + b.gap] = CharAt(b, i)
  <2> TAKE i \in 1 .. b.z - 1
  <2> DEFINE j == IF i < p THEN i ELSE i + b.gap
  <2>1. /\ j \in 1 .. b.z - 1 + b.gap /\ ~(b.gap > 0 /\ j = p)
    BY <1>2
  <2>2. (IF j \in b.gpt .. p - 1 THEN b.mem[j + b.gap] ELSE b.mem[j]) = b.mem[Address(b, i)]
    <3>1. CASE i < b.gpt BY <3>1, <1>2 DEF Address
    <3>2. CASE b.gpt <= i /\ i < p BY <3>2, <1>2 DEF Address
    <3>3. CASE i >= p BY <3>3, <1>2 DEF Address
    <3> QED BY <3>1, <3>2, <3>3, <1>2
  <2> HIDE DEF j
  <2>3. mem[j] = CharAt(b, i) BY <2>1, <2>2, <1>5 DEF CharAt
  <2> QED BY <2>3 DEF j
<1>7. SameChars(b, c)
  BY <1>1, <1>6 DEF SameChars, CharAt, Address, Length
<1>8. Buffer(c)
  <2>1. \A i \in 1 .. Length(c) : c.mem[Address(c, i)] \in Chars
    BY <1>1, <1>7 DEF SameChars, CharAt, Buffer, Length
  <2>2. c.gap \in Nat /\ c.z \in Nat \ {0} /\ c.gpt \in 1 .. c.z
    BY <1>1, <1>2 DEF Buffer
  <2> QED BY <2>1, <2>2, <1>1, <1>4 DEF Buffer
<1> QED BY <1>1, <1>7, <1>8

(* move_gap_both, to any position of the text *)
LEMMA MovedToSound ==
  ASSUME NEW b, Buffer(b), NEW p \in 1 .. b.z
  PROVE  LET c == MovedTo(b, p)
         IN Buffer(c) /\ c.gpt = p /\ c.gap = b.gap /\ SameChars(b, c)
<1>0. b.z \in Nat /\ b.gpt \in 1 .. b.z BY DEF Buffer
<1>1. CASE p < b.gpt
  <2>1. MovedTo(b, p) = MovedLeft(b, p) BY <1>1 DEF MovedTo
  <2>2. p \in 1 .. b.gpt - 1 BY <1>0, <1>1
  <2> QED BY <2>1, <2>2, MovedLeftSound
<1>2. CASE p > b.gpt
  <2>1. MovedTo(b, p) = MovedRight(b, p) BY <1>2, <1>0 DEF MovedTo
  <2>2. p \in b.gpt + 1 .. b.z BY <1>0, <1>2
  <2> QED BY <2>1, <2>2, MovedRightSound
<1>3. CASE p = b.gpt
  <2>1. MovedTo(b, p) = b BY <1>3, <1>0 DEF MovedTo
  <2> QED BY <2>1, <1>3 DEF SameChars
<1> QED BY <1>0, <1>1, <1>2, <1>3

(* make_gap keeps every character and leaves the gap where it is. *)
LEMMA EnlargedSound ==
  ASSUME NEW b, Buffer(b), NEW n \in Nat \ {0}
  PROVE  LET c == Enlarged(b, n)
         IN Buffer(c) /\ c.gpt = b.gpt /\ c.gap = b.gap + n + Spare /\ SameChars(b, c)
<1> DEFINE size == b.z - 1 + b.gap
           added == n + Spare
           wide == [i \in 1 .. size + added |-> IF i <= size THEN b.mem[i] ELSE Nul]
           atEnd == [mem |-> wide, gpt |-> b.z + b.gap, gap |-> added, z |-> b.z]
           q == b.gpt + b.gap
           moved == [i \in DOMAIN wide |->
                IF i \in q + added .. b.z + b.gap + added - 1 THEN wide[i - added] ELSE wide[i]]
           mem == [moved EXCEPT ![q] = Nul]
           c == Enlarged(b, n)
<1>0. /\ b.gap \in Nat /\ b.z \in Nat \ {0} /\ b.gpt \in 1 .. b.z /\ Spare \in Nat
      /\ size \in Nat /\ added \in Nat \ {0} /\ q \in 1 .. size + 1
      /\ \A i \in 1 .. size : b.mem[i] \in Chars \cup {Nul}
  BY SizeAssumption DEF Buffer
<1>2. MovedLeft(atEnd, q).mem = mem
  <2>1. MovedLeft(atEnd, q).mem = Anchored(atEnd, moved, q) BY DEF MovedLeft
  <2>2. atEnd.gap > 0 BY <1>0
  <2> QED BY <2>1, <2>2 DEF Anchored
<1>3. c = [mem |-> mem, gpt |-> b.gpt, gap |-> b.gap + added, z |-> b.z]
  BY <1>2 DEF Enlarged
<1>4. wide \in [1 .. size + added -> Chars \cup {Nul}]
  BY <1>0
<1>5. moved \in [1 .. size + added -> Chars \cup {Nul}]
  <2>1. \A i \in 1 .. size + added :
          (IF i \in q + added .. b.z + b.gap + added - 1 THEN wide[i - added] ELSE wide[i])
             \in Chars \cup {Nul}
    <3> TAKE i \in 1 .. size + added
    <3> HIDE DEF wide
    <3>1. CASE i \in q + added .. b.z + b.gap + added - 1
      <4>1. i - added \in 1 .. size + added BY <1>0, <3>1
      <4> QED BY <4>1, <3>1, <1>4
    <3>2. CASE ~(i \in q + added .. b.z + b.gap + added - 1) BY <3>2, <1>4
    <3> QED BY <3>1, <3>2
  <2>2. DOMAIN wide = 1 .. size + added OBVIOUS
  <2> HIDE DEF wide
  <2> QED BY <2>1, <2>2
<1>6. mem \in [1 .. size + added -> Chars \cup {Nul}]
  BY <1>5
<1>7. \A i \in 1 .. size + added :
        mem[i] = IF i = q THEN Nul
                 ELSE IF i \in q + added .. b.z + b.gap + added - 1 THEN wide[i - added] ELSE wide[i]
  BY <1>5, <1>4
<1>w. \A i \in 1 .. size : wide[i] = b.mem[i]
  BY <1>0
<1> HIDE DEF mem, moved, wide
<1>8. \A i \in 1 .. b.z - 1 : mem[IF i < b.gpt THEN i ELSE i + (b.gap + added)] = CharAt(b, i)
  <2> TAKE i \in 1 .. b.z - 1
  <2>1. CASE i < b.gpt
    <3>1. /\ i \in 1 .. size + added /\ i \in 1 .. size
          /\ i # q /\ i \notin q + added .. b.z + b.gap + added - 1
      BY <2>1, <1>0
    <3>2. mem[i] = b.mem[i] BY <3>1, <1>7, <1>w
    <3> QED BY <2>1, <3>2, <1>0 DEF CharAt, Address
  <2>2. CASE i >= b.gpt
    <3> DEFINE j == i + (b.gap + added)
    <3>1. /\ j \in 1 .. size + added /\ j # q
          /\ j \in q + added .. b.z + b.gap + added - 1
          /\ j - added = i + b.gap /\ i + b.gap \in 1 .. size
      BY <2>2, <1>0
    <3>2. mem[j] = b.mem[i + b.gap]
      <4> HIDE DEF j
      <4> QED BY <3>1, <1>7, <1>w
    <3> QED BY <2>2, <3>2, <1>0 DEF CharAt, Address
  <2> QED BY <2>1, <2>2, <1>0
<1>9. SameChars(b, c)
  BY <1>3, <1>8 DEF SameChars, CharAt, Address, Length
<1>10. Buffer(c)
  <2>1. \A i \in 1 .. Length(c) : c.mem[Address(c, i)] \in Chars
    BY <1>3, <1>9 DEF SameChars, CharAt, Buffer, Length
  <2>2. c.z - 1 + c.gap = size + added
    BY <1>3, <1>0
  <2>3. c.gap \in Nat /\ c.z \in Nat \ {0} /\ c.gpt \in 1 .. c.z
    BY <1>3, <1>0
  <2> QED BY <2>1, <2>2, <2>3, <1>3, <1>6 DEF Buffer
<1> QED BY <1>3, <1>9, <1>10, <1>0

(* The gap is made large enough when it is too small. *)
LEMMA RoomySound ==
  ASSUME NEW b, Buffer(b), NEW n \in Nat
  PROVE  LET c == Roomy(b, n)
         IN Buffer(c) /\ c.gpt = b.gpt /\ n <= c.gap /\ SameChars(b, c)
<1>0. b.gap \in Nat /\ Spare \in Nat BY SizeAssumption DEF Buffer
<1>1. CASE b.gap < n
  <2>1. Roomy(b, n) = Enlarged(b, n - b.gap) BY <1>1 DEF Roomy
  <2>2. n - b.gap \in Nat \ {0} BY <1>0, <1>1
  <2>3. LET c == Enlarged(b, n - b.gap)
        IN Buffer(c) /\ c.gpt = b.gpt /\ c.gap = b.gap + (n - b.gap) + Spare /\ SameChars(b, c)
    BY <2>2, EnlargedSound
  <2> QED BY <2>1, <2>3, <1>0
<1>2. CASE ~(b.gap < n)
  BY <1>0, <1>2 DEF Roomy, SameChars
<1> QED BY <1>1, <1>2

(* insert_1_both puts the new characters before the gap. *)
LEMMA FilledSound ==
  ASSUME NEW b, Buffer(b), NEW n \in Nat, n <= b.gap, NEW s \in [1 .. n -> Chars]
  PROVE  LET c == Filled(b, n, s)
         IN /\ Buffer(c) /\ c.gpt = b.gpt + n /\ c.z = b.z + n
            /\ \A i \in 1 .. Length(c) :
                 CharAt(c, i) = IF i < b.gpt THEN CharAt(b, i)
                                ELSE IF i < b.gpt + n THEN s[i - b.gpt + 1] ELSE CharAt(b, i - n)
<1> DEFINE c == Filled(b, n, s)
           size == b.z - 1 + b.gap
           mem == [i \in DOMAIN b.mem |->
                IF i \in b.gpt .. b.gpt + n - 1 THEN s[i - b.gpt + 1]
                ELSE IF i = b.gpt + n /\ b.gap > n THEN Nul ELSE b.mem[i]]
<1>1. c = [mem |-> mem, gpt |-> b.gpt + n, gap |-> b.gap - n, z |-> b.z + n]
  BY DEF Filled
<1>0. /\ b.gap \in Nat /\ b.z \in Nat \ {0} /\ b.gpt \in 1 .. b.z /\ size \in Nat /\ n <= b.gap
  BY DEF Buffer
<1>2. /\ DOMAIN b.mem = 1 .. size
      /\ \A i \in 1 .. size : b.mem[i] \in Chars \cup {Nul}
      /\ \A i \in 1 .. n : s[i] \in Chars
  BY DEF Buffer
<1>3. \A i \in 1 .. size :
        mem[i] = IF i \in b.gpt .. b.gpt + n - 1 THEN s[i - b.gpt + 1]
                 ELSE IF i = b.gpt + n /\ b.gap > n THEN Nul ELSE b.mem[i]
  BY <1>0, <1>2
<1>4. DOMAIN mem = 1 .. size /\ mem = [i \in 1 .. size |-> mem[i]]
  BY <1>0, <1>2
<1> HIDE DEF mem
<1>5. mem \in [1 .. size -> Chars \cup {Nul}]
  <2>1. \A i \in 1 .. size : mem[i] \in Chars \cup {Nul}
    <3> TAKE i \in 1 .. size
    <3>1. CASE i \in b.gpt .. b.gpt + n - 1
      <4>1. i - b.gpt + 1 \in 1 .. n BY <3>1, <1>0
      <4> QED BY <3>1, <4>1, <1>0, <1>2, <1>3
    <3>2. CASE i \notin b.gpt .. b.gpt + n - 1 BY <3>2, <1>0, <1>2, <1>3
    <3> QED BY <3>1, <3>2
  <2> QED BY <2>1, <1>4
<1>6. \A i \in 1 .. b.z + n - 1 :
        mem[IF i < b.gpt + n THEN i ELSE i + (b.gap - n)]
          = IF i < b.gpt THEN CharAt(b, i)
            ELSE IF i < b.gpt + n THEN s[i - b.gpt + 1] ELSE CharAt(b, i - n)
  <2> TAKE i \in 1 .. b.z + n - 1
  <2>1. CASE i < b.gpt
    <3>1. i \in 1 .. size /\ i \notin b.gpt .. b.gpt + n - 1 /\ i # b.gpt + n
      BY <2>1, <1>0
    <3> QED BY <2>1, <3>1, <1>0, <1>2, <1>3 DEF CharAt, Address
  <2>2. CASE b.gpt <= i /\ i < b.gpt + n
    <3>1. i \in 1 .. size /\ i \in b.gpt .. b.gpt + n - 1
      BY <2>2, <1>0
    <3> QED BY <2>2, <3>1, <1>0, <1>2, <1>3
  <2>3. CASE i >= b.gpt + n
    <3>0. i - n >= b.gpt /\ (i - n) + b.gap = i + (b.gap - n)
      BY <2>3, <1>0
    <3>1. /\ i + (b.gap - n) \in 1 .. size
          /\ i + (b.gap - n) \notin b.gpt .. b.gpt + n - 1
          /\ ~(i + (b.gap - n) = b.gpt + n /\ b.gap > n)
          /\ Address(b, i - n) = i + (b.gap - n)
      <4>1. Address(b, i - n) = (i - n) + b.gap
        BY <3>0, <1>0 DEF Address
      <4>2. i + (b.gap - n) \in 1 .. size
        <5>1. i \in Int /\ 1 <= i /\ i <= b.z + n - 1 BY <1>0
        <5>2. 1 <= i + (b.gap - n) /\ i + (b.gap - n) <= b.z - 1 + b.gap
          BY <5>1, <1>0
        <5> QED BY <5>1, <5>2, <1>0
      <4>3. i + (b.gap - n) \notin b.gpt .. b.gpt + n - 1
        BY <2>3, <1>0
      <4>4. ~(i + (b.gap - n) = b.gpt + n /\ b.gap > n)
        BY <2>3, <1>0
      <4> QED BY <3>0, <4>1, <4>2, <4>3, <4>4
    <3>2. mem[i + (b.gap - n)] = b.mem[i + (b.gap - n)]
      BY <3>1, <1>3
    <3> QED BY SMTT(30), <2>3, <3>1, <3>2, <1>0, <1>2 DEF CharAt
  <2> QED BY <2>1, <2>2, <2>3, <1>0, <1>2
<1>7. \A i \in 1 .. Length(c) :
        CharAt(c, i) = IF i < b.gpt THEN CharAt(b, i)
                       ELSE IF i < b.gpt + n THEN s[i - b.gpt + 1] ELSE CharAt(b, i - n)
  <2>1. Length(c) = b.z + n - 1 BY SMTT(30), <1>1, <1>0 DEF Length
  <2>2. \A i : CharAt(c, i) = mem[IF i < b.gpt + n THEN i ELSE i + (b.gap - n)]
    BY <1>1 DEF CharAt, Address
  <2> QED BY <2>1, <2>2, <1>6
<1>8. Buffer(c)
  <2>1. c.gap \in Nat /\ c.z \in Nat \ {0} /\ c.gpt \in 1 .. c.z /\ c.z - 1 + c.gap = size
    <3>1. c.gap = b.gap - n /\ c.z = b.z + n /\ c.gpt = b.gpt + n BY <1>1
    <3> HIDE DEF c
    <3>2. b.gap - n \in Nat /\ b.z + n \in Nat \ {0} /\ b.gpt + n \in 1 .. b.z + n BY <1>0
    <3>3. (b.z + n) - 1 + (b.gap - n) = size BY <1>0
    <3> QED BY <3>1, <3>2, <3>3
  <2>2. \A i \in 1 .. Length(c) : CharAt(c, i) \in Chars
    <3> TAKE i \in 1 .. Length(c)
    <3>0. Length(c) = b.z + n - 1 BY SMTT(30), <1>1, <1>0 DEF Length
    <3>1. CASE i < b.gpt
      <4>1. i \in 1 .. Length(b) BY <3>1, <1>0, <3>0 DEF Length
      <4> QED BY <3>1, <4>1, <1>7 DEF CharAt, Buffer
    <3>2. CASE b.gpt <= i /\ i < b.gpt + n
      <4>1. i - b.gpt + 1 \in 1 .. n BY <3>2, <1>0, <3>0
      <4> QED BY <3>2, <4>1, <1>7, <1>0, <1>2
    <3>3. CASE i >= b.gpt + n
      <4>1. i - n \in 1 .. Length(b) BY <3>3, <1>0, <3>0 DEF Length
      <4>2. CharAt(c, i) = CharAt(b, i - n) BY <3>3, <1>7, <1>0, <1>2, <3>0
      <4> QED BY <4>1, <4>2 DEF CharAt, Buffer
    <3> QED BY <3>0, <3>1, <3>2, <3>3, <1>0, <1>2
  <2>3. c.mem \in [1 .. c.z - 1 + c.gap -> Chars \cup {Nul}]
    BY <2>1, <1>1, <1>5
  <2>4. c = [mem |-> c.mem, gpt |-> c.gpt, gap |-> c.gap, z |-> c.z]
    BY <1>1
  <2> QED BY <2>1, <2>2, <2>3, <2>4 DEF Buffer, CharAt
<1> QED BY <1>1, <1>7, <1>8

(* del_range_2 lets the gap swallow the deleted characters. *)
LEMMA EmptiedSound ==
  ASSUME NEW b, Buffer(b), NEW from \in 1 .. b.z, NEW to \in 1 .. b.z,
         from < to \/ (from = to /\ b.gap > 0), from <= b.gpt, b.gpt <= to
  PROVE  LET c == Emptied(b, from, to)
         IN /\ Buffer(c) /\ c.gpt = from /\ c.z = b.z - (to - from)
            /\ \A i \in 1 .. Length(c) :
                 CharAt(c, i) = IF i < from THEN CharAt(b, i) ELSE CharAt(b, i + (to - from))
<1> DEFINE c == Emptied(b, from, to)
           size == b.z - 1 + b.gap
           mem == [b.mem EXCEPT ![from] = Nul]
<1>1. c = [mem |-> mem, gpt |-> from, gap |-> b.gap + (to - from), z |-> b.z - (to - from)]
  BY DEF Emptied
<1>0. /\ b.gap \in Nat /\ b.z \in Nat \ {0} /\ b.gpt \in 1 .. b.z /\ size \in Nat
      /\ from \in 1 .. size /\ to \in from .. b.z /\ b.gpt \in from .. to
      /\ b.gap + (to - from) > 0
  BY DEF Buffer
<1>2. b.mem \in [1 .. size -> Chars \cup {Nul}]
  BY DEF Buffer
<1>3. mem \in [1 .. size -> Chars \cup {Nul}]
  BY <1>0, <1>2
<1>4. \A i \in 1 .. size : i # from => mem[i] = b.mem[i]
  BY <1>2
<1> HIDE DEF mem
<1>5. \A i \in 1 .. b.z - (to - from) - 1 :
        mem[IF i < from THEN i ELSE i + (b.gap + (to - from))]
          = IF i < from THEN CharAt(b, i) ELSE CharAt(b, i + (to - from))
  <2> TAKE i \in 1 .. b.z - (to - from) - 1
  <2>1. CASE i < from
    <3>1. i \in 1 .. size /\ i # from /\ Address(b, i) = i BY <2>1, <1>0 DEF Address
    <3> QED BY <2>1, <3>1, <1>4 DEF CharAt
  <2>2. CASE i >= from
    <3> DEFINE j == i + (b.gap + (to - from))
    <3>1. j \in 1 .. size /\ j # from /\ Address(b, i + (to - from)) = j
      <4>1. i + (to - from) >= b.gpt BY <2>2, <1>0
      <4>2. Address(b, i + (to - from)) = (i + (to - from)) + b.gap
        BY <4>1, <1>0 DEF Address
      <4>3. j \in 1 .. size /\ j # from BY <2>2, <1>0
      <4>4. (i + (to - from)) + b.gap = j BY <1>0
      <4> QED BY <4>2, <4>3, <4>4
    <3>2. mem[j] = b.mem[j]
      <4> HIDE DEF j
      <4> QED BY <3>1, <1>4
    <3>3. (IF i < from THEN i ELSE i + (b.gap + (to - from))) = j /\ ~(i < from)
      BY <2>2, <1>0
    <3> HIDE DEF j
    <3> QED BY <3>1, <3>2, <3>3 DEF CharAt
  <2> QED BY <2>1, <2>2, <1>0
<1>6. Length(c) = b.z - (to - from) - 1
  BY <1>1 DEF Length
<1>7. \A i \in 1 .. Length(c) :
        CharAt(c, i) = IF i < from THEN CharAt(b, i) ELSE CharAt(b, i + (to - from))
  <2>1. \A i : CharAt(c, i) = mem[IF i < from THEN i ELSE i + (b.gap + (to - from))]
    BY <1>1 DEF CharAt, Address
  <2> QED BY <2>1, <1>5, <1>6
<1>8. Buffer(c)
  <2>1. c.gap \in Nat /\ c.z \in Nat \ {0} /\ c.gpt \in 1 .. c.z /\ c.z - 1 + c.gap = size
    BY <1>1, <1>0
  <2>2. \A i \in 1 .. Length(c) : CharAt(c, i) \in Chars
    <3> TAKE i \in 1 .. Length(c)
    <3>1. i \in 1 .. Length(b) /\ i + (to - from) \in 1 .. Length(b)
      BY <1>0, <1>6 DEF Length
    <3> QED BY <3>1, <1>7 DEF CharAt, Buffer
  <2>3. c.mem \in [1 .. c.z - 1 + c.gap -> Chars \cup {Nul}]
    BY <2>1, <1>1, <1>3
  <2>4. c = [mem |-> c.mem, gpt |-> c.gpt, gap |-> c.gap, z |-> c.z]
    BY <1>1
  <2> QED BY <2>1, <2>2, <2>3, <2>4 DEF Buffer, CharAt
<1> QED BY <1>1, <1>7, <1>8

-----------------------------------------------------------------------------
(* insert_1_both at point: the text before point, the new characters, the    *)
(* rest of the text.                                                         *)
LEMMA InsertedSound ==
  ASSUME Buffer(buf), PointInText, NEW n \in Nat, NEW s \in [1 .. n -> Chars]
  PROVE  LET c == Inserted(n, s)
         IN /\ Buffer(c) /\ c.gpt = pt + n /\ c.z = buf.z + n
            /\ \A i \in 1 .. Length(c) :
                 CharAt(c, i) = IF i < pt THEN CharAt(buf, i)
                                ELSE IF i < pt + n THEN s[i - pt + 1] ELSE CharAt(buf, i - n)
<1> DEFINE a == MovedTo(buf, pt)
           b == Roomy(a, n)
           c == Inserted(n, s)
<1>0. buf.z \in Nat \ {0} /\ pt \in 1 .. buf.z
  BY DEF Buffer, PointInText, Positions
<1>1. Buffer(a) /\ a.gpt = pt /\ SameChars(buf, a)
  BY <1>0, MovedToSound
<1>2. Buffer(b) /\ b.gpt = pt /\ n <= b.gap /\ SameChars(a, b)
  BY <1>1, RoomySound
<1>3. c = Filled(b, n, s)
  BY DEF Inserted
<1>4. /\ Buffer(c) /\ c.gpt = pt + n /\ c.z = b.z + n
      /\ \A i \in 1 .. Length(c) :
           CharAt(c, i) = IF i < pt THEN CharAt(b, i)
                          ELSE IF i < pt + n THEN s[i - pt + 1] ELSE CharAt(b, i - n)
  BY <1>2, <1>3, FilledSound
<1> HIDE DEF a, b, c
<1>5. b.z = buf.z /\ \A i \in 1 .. buf.z - 1 : CharAt(b, i) = CharAt(buf, i)
  BY <1>1, <1>2 DEF SameChars, Length
<1>6. \A i \in 1 .. Length(c) :
        CharAt(c, i) = IF i < pt THEN CharAt(buf, i)
                       ELSE IF i < pt + n THEN s[i - pt + 1] ELSE CharAt(buf, i - n)
  <2> TAKE i \in 1 .. Length(c)
  <2>0. Length(c) = buf.z + n - 1 BY <1>4, <1>5, <1>0 DEF Length
  <2>1. i < pt => i \in 1 .. buf.z - 1 BY <1>0, <2>0
  <2>2. ~(i < pt) /\ ~(i < pt + n) => i - n \in 1 .. buf.z - 1 BY <1>0, <2>0
  <2> QED BY <2>1, <2>2, <1>4, <1>5
<1> QED BY <1>4, <1>5, <1>6 DEF c

(* The gap never has to be moved over text that is kept. *)
LEMMA AdjacentSound ==
  ASSUME Buffer(buf), NEW from \in Positions, NEW to \in Positions, from <= to
  PROVE  Adjacent(from, to) \in from .. to /\ Adjacent(from, to) \in 1 .. buf.z
BY DEF Adjacent, Buffer, Positions

(* del_range_2: the text before FROM and the text from TO on. *)
LEMMA DeletedSound ==
  ASSUME Buffer(buf), NEW from \in Positions, NEW to \in Positions,
         from < to \/ (from = to /\ buf.gap > 0)
  PROVE  LET c == Deleted(from, to)
         IN /\ Buffer(c) /\ c.gpt = from /\ c.z = buf.z - (to - from)
            /\ \A i \in 1 .. Length(c) :
                 CharAt(c, i) = IF i < from THEN CharAt(buf, i) ELSE CharAt(buf, i + (to - from))
<1> DEFINE b == MovedTo(buf, Adjacent(from, to))
           c == Deleted(from, to)
<1>0. buf.z \in Nat \ {0} /\ from \in 1 .. buf.z /\ to \in 1 .. buf.z
  BY DEF Buffer, Positions
<1>a. Adjacent(from, to) \in from .. to /\ Adjacent(from, to) \in 1 .. buf.z
  <2>1. from <= to
    BY <1>0
  <2> QED BY <2>1, AdjacentSound
<1>1. /\ Buffer(b) /\ b.gpt = Adjacent(from, to) /\ SameChars(buf, b)
  BY <1>a, MovedToSound
<1>2. b.z = buf.z /\ \A i \in 1 .. buf.z - 1 : CharAt(b, i) = CharAt(buf, i)
  BY <1>1 DEF SameChars, Length
<1>3. c = Emptied(b, from, to) /\ b.gap = buf.gap
  BY DEF Deleted, MovedTo, MovedLeft, MovedRight
<1> HIDE DEF b, c
<1>4. from \in 1 .. b.z /\ to \in 1 .. b.z /\ from <= b.gpt /\ b.gpt <= to
  BY <1>0, <1>1, <1>2, <1>a
<1>5. /\ Buffer(c) /\ c.gpt = from /\ c.z = b.z - (to - from)
      /\ \A i \in 1 .. Length(c) :
           CharAt(c, i) = IF i < from THEN CharAt(b, i) ELSE CharAt(b, i + (to - from))
  BY <1>1, <1>3, <1>4, EmptiedSound
<1>6. \A i \in 1 .. Length(c) :
        CharAt(c, i) = IF i < from THEN CharAt(buf, i) ELSE CharAt(buf, i + (to - from))
  <2> TAKE i \in 1 .. Length(c)
  <2>1. i \in 1 .. buf.z - 1 /\ i + (to - from) \in 1 .. buf.z - 1
    BY <1>0, <1>2, <1>5 DEF Length
  <2> QED BY <2>1, <1>2, <1>5
<1> QED BY <1>2, <1>5, <1>6 DEF c

(* replace_range: the text before FROM, the new characters, the text from TO on. *)
LEMMA ReplacedSound ==
  ASSUME Buffer(buf), NEW from \in Positions, NEW to \in Positions,
         from < to \/ (from = to /\ buf.gap > 0),
         NEW n \in Nat, NEW s \in [1 .. n -> Chars]
  PROVE  LET c == Filled(Roomy(Deleted(from, to), n), n, s)
         IN /\ Buffer(c) /\ c.gpt = from + n /\ c.z = buf.z - (to - from) + n
            /\ \A i \in 1 .. Length(c) :
                 CharAt(c, i) = IF i < from THEN CharAt(buf, i)
                                ELSE IF i < from + n THEN s[i - from + 1]
                                ELSE CharAt(buf, i - n + (to - from))
<1> DEFINE a == Deleted(from, to)
           b == Roomy(a, n)
           c == Filled(b, n, s)
<1>0. buf.z \in Nat \ {0} /\ from \in 1 .. buf.z /\ to \in 1 .. buf.z
  BY DEF Buffer, Positions
<1>1. /\ Buffer(a) /\ a.gpt = from /\ a.z = buf.z - (to - from)
      /\ \A i \in 1 .. Length(a) :
           CharAt(a, i) = IF i < from THEN CharAt(buf, i) ELSE CharAt(buf, i + (to - from))
  BY DeletedSound
<1> HIDE DEF a
<1>2. Buffer(b) /\ b.gpt = from /\ n <= b.gap /\ SameChars(a, b)
  BY <1>1, RoomySound
<1> HIDE DEF b
<1>3. /\ Buffer(c) /\ c.gpt = from + n /\ c.z = b.z + n
      /\ \A i \in 1 .. Length(c) :
           CharAt(c, i) = IF i < from THEN CharAt(b, i)
                          ELSE IF i < from + n THEN s[i - from + 1] ELSE CharAt(b, i - n)
  BY <1>2, FilledSound
<1> HIDE DEF c
<1>4. b.z = a.z /\ \A i \in 1 .. a.z - 1 : CharAt(b, i) = CharAt(a, i)
  BY <1>2 DEF SameChars, Length
<1>5. \A i \in 1 .. a.z - 1 :
        CharAt(b, i) = IF i < from THEN CharAt(buf, i) ELSE CharAt(buf, i + (to - from))
  BY <1>1, <1>4 DEF Length
<1>6. a.z \in Nat \ {0} BY <1>1 DEF Buffer
<1>7. \A i \in 1 .. Length(c) :
        CharAt(c, i) = IF i < from THEN CharAt(buf, i)
                       ELSE IF i < from + n THEN s[i - from + 1]
                       ELSE CharAt(buf, i - n + (to - from))
  <2> TAKE i \in 1 .. Length(c)
  <2>0. Length(c) = a.z + n - 1 BY <1>3, <1>4, <1>6 DEF Length
  <2>1. CASE i < from
    <3>1. i \in 1 .. a.z - 1 BY <2>1, <2>0, <1>0, <1>1
    <3> QED BY <2>1, <3>1, <1>3, <1>5
  <2>2. CASE from <= i /\ i < from + n
    <3>1. ~(i < from) /\ i < from + n BY <2>2, <2>0, <1>0, <1>6
    <3> QED BY <3>1, <1>3
  <2>3. CASE i >= from + n
    <3>1. i - n \in 1 .. a.z - 1 /\ ~(i - n < from) /\ ~(i < from) /\ ~(i < from + n)
      BY <2>3, <2>0, <1>0, <1>6
    <3>2. CharAt(c, i) = CharAt(b, i - n) BY <3>1, <1>3
    <3> QED BY <3>1, <3>2, <1>5
  <2> QED BY <2>1, <2>2, <2>3, <2>0, <1>0, <1>6
<1>8. c.z = buf.z - (to - from) + n BY <1>3, <1>4, <1>1
<1> QED BY <1>3, <1>7, <1>8 DEF c, b, a

(* The same of the step that calls replace_range. *)
LEMMA ReplaceSound ==
  ASSUME Buffer(buf), NEW from \in Positions, NEW to \in Positions,
         NEW n \in Nat, NEW s \in [1 .. n -> Chars], Replace(from, to, n, s)
  PROVE  /\ from <= to
         /\ Buffer(buf') /\ buf'.gpt = from + n /\ buf'.z = buf.z - (to - from) + n
         /\ \A i \in 1 .. Length(buf') :
              CharAt(buf', i) = IF i < from THEN CharAt(buf, i)
                                ELSE IF i < from + n THEN s[i - from + 1]
                                ELSE CharAt(buf, i - n + (to - from))
<1>1. from < to \/ (from = to /\ buf.gap > 0)
  BY DEF Replace
<1>2. from <= to
  BY <1>1 DEF Buffer, Positions
<1> DEFINE c == Filled(Roomy(Deleted(from, to), n), n, s)
<1>3. buf' = c
  BY DEF Replace
<1>4. /\ Buffer(c) /\ c.gpt = from + n /\ c.z = buf.z - (to - from) + n
      /\ \A i \in 1 .. Length(c) :
           CharAt(c, i) = IF i < from THEN CharAt(buf, i)
                          ELSE IF i < from + n THEN s[i - from + 1]
                          ELSE CharAt(buf, i - n + (to - from))
  BY <1>1, ReplacedSound
<1> HIDE DEF c
<1> QED BY <1>2, <1>3, <1>4

(* translate-region changes the characters from FROM to TO where they are. *)
LEMMA TranslatedSound ==
  ASSUME NEW b, Buffer(b), NEW from \in 1 .. b.z, NEW to \in 1 .. b.z,
         NEW table \in [Chars -> Chars]
  PROVE  LET c == Translated(b, from, to, table)
         IN /\ Buffer(c) /\ c.gpt = b.gpt /\ c.z = b.z
            /\ \A i \in 1 .. Length(c) :
                 CharAt(c, i) = IF i \in from .. to - 1 THEN table[CharAt(b, i)] ELSE CharAt(b, i)
<1> DEFINE c == Translated(b, from, to, table)
           size == b.z - 1 + b.gap
           mem == [a \in DOMAIN b.mem |->
                    IF \E i \in from .. to - 1 : a = Address(b, i)
                    THEN table[b.mem[a]] ELSE b.mem[a]]
<1>1. c = [mem |-> mem, gpt |-> b.gpt, gap |-> b.gap, z |-> b.z]
  BY DEF Translated
<1>0. b.gap \in Nat /\ b.z \in Nat \ {0} /\ b.gpt \in 1 .. b.z /\ size \in Nat
  BY DEF Buffer
<1>2. b.mem \in [1 .. size -> Chars \cup {Nul}] /\ DOMAIN b.mem = 1 .. size
  BY DEF Buffer
<1>3. \A i \in 1 .. b.z - 1 : Address(b, i) \in 1 .. size
  BY <1>0 DEF Address
<1>4. \A i, j \in 1 .. b.z - 1 : Address(b, i) = Address(b, j) => i = j
  BY <1>0 DEF Address
<1>5. from .. to - 1 \subseteq 1 .. b.z - 1
  BY <1>0
<1>6. \A i \in 1 .. b.z - 1 : CharAt(b, i) \in Chars
  BY DEF Buffer, CharAt, Length
<1>7. \A i \in 1 .. b.z - 1 :
        mem[Address(b, i)] = IF i \in from .. to - 1 THEN table[CharAt(b, i)] ELSE CharAt(b, i)
  <2> TAKE i \in 1 .. b.z - 1
  <2>1. (\E j \in from .. to - 1 : Address(b, i) = Address(b, j)) <=> i \in from .. to - 1
    BY <1>4, <1>5
  <2>2. mem[Address(b, i)] = IF \E j \in from .. to - 1 : Address(b, i) = Address(b, j)
                             THEN table[CharAt(b, i)] ELSE CharAt(b, i)
    BY <1>2, <1>3 DEF CharAt
  <2> QED BY <2>1, <2>2
<1>8. mem \in [1 .. size -> Chars \cup {Nul}]
  <2>1. \A a \in 1 .. size : mem[a] \in Chars \cup {Nul}
    <3> TAKE a \in 1 .. size
    <3>1. CASE \E i \in from .. to - 1 : a = Address(b, i)
      <4>1. PICK i \in from .. to - 1 : a = Address(b, i) BY <3>1
      <4>2. b.mem[a] \in Chars BY <4>1, <1>5, <1>6 DEF CharAt
      <4> QED BY <3>1, <4>2, <1>2
    <3>2. CASE ~ \E i \in from .. to - 1 : a = Address(b, i)
      BY <3>2, <1>2
    <3> QED BY <3>1, <3>2
  <2>2. DOMAIN mem = 1 .. size /\ mem = [a \in 1 .. size |-> mem[a]] BY <1>2
  <2> HIDE DEF mem
  <2> QED BY <2>1, <2>2
<1> HIDE DEF mem, c
<1>9. Length(c) = b.z - 1 /\ \A i : CharAt(c, i) = mem[Address(b, i)]
  BY <1>1 DEF CharAt, Address, Length
<1>10. \A i \in 1 .. Length(c) :
        CharAt(c, i) = IF i \in from .. to - 1 THEN table[CharAt(b, i)] ELSE CharAt(b, i)
  BY <1>7, <1>9
<1>11. Buffer(c)
  <2>1. \A i \in 1 .. Length(c) : CharAt(c, i) \in Chars
    BY <1>6, <1>9, <1>10
  <2>2. c.mem \in [1 .. c.z - 1 + c.gap -> Chars \cup {Nul}]
    BY <1>1, <1>8
  <2>3. /\ c.gap \in Nat /\ c.z \in Nat \ {0} /\ c.gpt \in 1 .. c.z
        /\ c = [mem |-> c.mem, gpt |-> c.gpt, gap |-> c.gap, z |-> c.z]
    BY <1>0, <1>1
  <2> QED BY <2>1, <2>2, <2>3 DEF Buffer, CharAt
<1> QED BY <1>1, <1>10, <1>11 DEF c

-----------------------------------------------------------------------------
(* What is noted for redisplay is always a pair of counts. *)
LEMMA NotedIsCounts ==
  ASSUME NEW b, Buffer(b), NEW p \in 1 .. b.z, NEW u \in [beg : Nat, end : Nat]
  PROVE  Noted(b, u, p) \in [beg : Nat, end : Nat]
<1>1. /\ b.z \in Nat \ {0} /\ b.gpt \in 1 .. b.z /\ u.beg \in Nat /\ u.end \in Nat
      /\ p - 1 \in Nat /\ b.z - p \in Nat /\ b.gpt - 1 \in Nat /\ b.z - b.gpt \in Nat
  BY DEF Buffer
<1>2. \A x, y \in Nat : Smaller(x, y) \in Nat
  BY DEF Smaller
<1> QED BY <1>1, <1>2 DEF Noted

(* A deletion leaves the counts of unchanged characters natural numbers.     *)
LEMMA NotedDeletionIsCounts ==
  ASSUME Buffer(buf), NEW from \in Positions, NEW to \in Positions, from <= to,
         unchanged \in [beg : Nat, end : Nat]
  PROVE  NotedDeletion(from, to) \in [beg : Nat, end : Nat]
<1>1. Noted(buf, unchanged, Adjacent(from, to)) \in [beg : Nat, end : Nat]
  BY AdjacentSound, NotedIsCounts
<1>2. from - 1 \in Nat /\ buf.z - to \in Nat
  BY DEF Buffer, Positions
<1>3. \A x, y \in Nat : Smaller(x, y) \in Nat
  BY DEF Smaller
<1> QED BY <1>1, <1>2, <1>3 DEF NotedDeletion

(* Where a quit stops the gap is a position of the text. *)
LEMMA StopsInText ==
  ASSUME NEW b, NEW p \in 1 .. b.z, NEW q \in Stops(b, p)
  PROVE  q \in 1 .. b.z
BY DEF Stops

(* Every step keeps the types.                                               *)
LEMMA TypeStep == TypeOK /\ [Next]_vars => TypeOK'
<1> SUFFICES ASSUME TypeOK, [Next]_vars PROVE TypeOK'
  OBVIOUS
<1>a. ahead' \in BOOLEAN
  BY DEF TypeOK, Next, vars
<1>0. /\ Buffer(buf) /\ PointInText /\ unchanged \in [beg : Nat, end : Nat]
      /\ textSeen \in BOOLEAN /\ facesSeen \in BOOLEAN /\ ahead' \in BOOLEAN
      /\ buf.z \in Nat \ {0} /\ buf.gpt \in 1 .. buf.z /\ pt \in 1 .. buf.z
      /\ Positions = 1 .. buf.z
  BY <1>a DEF TypeOK, Buffer, PointInText, Positions
<1>n. \A x, y \in Nat : Smaller(x, y) \in Nat
  BY DEF Smaller
<1>1. ASSUME NEW p \in Positions, MoveGap(p) PROVE TypeOK'
  <2>1. PICK q \in Stops(buf, p) : buf' = MovedTo(buf, q) BY <1>1 DEF MoveGap
  <2>2. q \in 1 .. buf.z BY <2>1, <1>0, StopsInText
  <2>3. Buffer(buf') /\ buf'.z = buf.z BY <2>1, <2>2, <1>0, MovedToSound DEF SameChars
  <2>4. unchanged' \in [beg : Nat, end : Nat]
    <3>1. Noted(buf, unchanged, p) \in [beg : Nat, end : Nat] BY <1>0, NotedIsCounts
    <3> QED BY <3>1, <1>1 DEF MoveGap
  <2> QED BY <2>3, <2>4, <1>0, <1>1 DEF MoveGap, TypeOK, PointInText, Positions
<1>2. ASSUME NEW p \in Positions, GotoChar(p) PROVE TypeOK'
  BY <1>0, <1>2 DEF GotoChar, TypeOK, PointInText, Positions
<1>3. ASSUME NEW n \in 1 .. MaxIns, NEW s \in [1 .. n -> Chars], Insert(n, s) PROVE TypeOK'
  <2>0. n \in Nat BY BoundAssumption
  <2>1. Buffer(buf') /\ buf'.z = buf.z + n
    BY <2>0, <1>0, <1>3, InsertedSound DEF Insert
  <2>2. unchanged' \in [beg : Nat, end : Nat]
    <3>1. Noted(buf, unchanged, pt) \in [beg : Nat, end : Nat] BY <1>0, NotedIsCounts
    <3> QED BY <3>1, <1>3 DEF Insert
  <2>3. pt' \in 1 .. buf'.z BY <2>0, <2>1, <1>0, <1>3 DEF Insert
  <2> QED BY <2>1, <2>2, <2>3, <1>0, <1>3 DEF Insert, TypeOK, PointInText, Positions
<1>4. ASSUME NEW s \in [1 .. 1 -> Chars], InsertAndShow(s) PROVE TypeOK'
  <2>1. Buffer(buf') /\ buf'.z = buf.z + 1
    BY <1>0, <1>4, InsertedSound DEF InsertAndShow
  <2>2. unchanged' \in [beg : Nat, end : Nat]
    <3>1. Noted(buf, unchanged, pt) \in [beg : Nat, end : Nat] BY <1>0, NotedIsCounts
    <3>2. buf'.gpt - 1 \in Nat BY <2>1 DEF Buffer
    <3> QED BY <3>1, <3>2, <1>4 DEF InsertAndShow
  <2>3. pt' \in 1 .. buf'.z BY <2>1, <1>0, <1>4 DEF InsertAndShow
  <2> QED BY <2>1, <2>2, <2>3, <1>0, <1>4 DEF InsertAndShow, TypeOK, PointInText, Positions
<1>5. ASSUME NEW from \in Positions, NEW to \in Positions, Delete(from, to) PROVE TypeOK'
  <2>0. from < to /\ from \in 1 .. buf.z /\ to \in 1 .. buf.z BY <1>0, <1>5 DEF Delete
  <2>1. Buffer(buf') /\ buf'.z = buf.z - (to - from)
    BY <2>0, <1>0, <1>5, DeletedSound DEF Delete
  <2>2. unchanged' \in [beg : Nat, end : Nat]
    BY <2>0, <1>0, <1>5, NotedDeletionIsCounts DEF Delete
  <2>3. pt' \in 1 .. buf'.z
    <3>1. pt' = IF from < pt THEN pt + from - (IF pt < to THEN pt ELSE to) ELSE pt
      BY <1>5 DEF Delete, Smaller
    <3> QED BY <3>1, <2>0, <2>1, <1>0
  <2> QED BY <2>1, <2>2, <2>3, <1>0, <1>5 DEF Delete, TypeOK, PointInText, Positions
<1>6. ASSUME NEW from \in Positions, NEW to \in Positions, NEW n \in 0 .. MaxIns,
             NEW s \in [1 .. n -> Chars], Replace(from, to, n, s)
      PROVE TypeOK'
  <2>0. /\ from <= to /\ from \in 1 .. buf.z /\ to \in 1 .. buf.z /\ n \in Nat
    BY <1>0, <1>6, BoundAssumption, ReplaceSound
  <2>1. Buffer(buf') /\ buf'.z = buf.z - (to - from) + n
    BY <2>0, <1>0, <1>6, ReplaceSound
  <2>2. unchanged' \in [beg : Nat, end : Nat]
    BY <2>0, <1>0, <1>6, NotedDeletionIsCounts DEF Replace
  <2>3. pt' \in 1 .. buf'.z
    <3>1. pt' = IF from < pt THEN pt + from + n - (IF pt < to THEN pt ELSE to) ELSE pt
      BY <1>6 DEF Replace, Smaller
    <3> QED BY <3>1, <2>0, <2>1, <1>0
  <2> QED BY <2>1, <2>2, <2>3, <1>0, <1>6 DEF Replace, TypeOK, PointInText, Positions
<1>7. ASSUME NEW from \in Positions, NEW to \in Positions, NEW table \in [Chars -> Chars],
             Translate(from, to, table)
      PROVE TypeOK'
  <2>1. Buffer(buf') /\ buf'.z = buf.z
    BY <1>0, <1>7, TranslatedSound DEF Translate
  <2>2. unchanged' \in [beg : Nat, end : Nat]
    <3>1. from - 1 \in Nat /\ buf.z - to \in Nat BY <1>0
    <3> QED BY <3>1, <1>0, <1>7 DEF Translate
  <2> QED BY <2>1, <2>2, <1>0, <1>7 DEF Translate, TypeOK, PointInText, Positions
<1>8. ASSUME NEW from \in Positions, NEW to \in Positions, ModifyOverlay(from, to) PROVE TypeOK'
  <2>1. unchanged' \in [beg : Nat, end : Nat]
    <3>1. from - 1 \in Nat /\ buf.z - to \in Nat BY <1>0
    <3> QED BY <3>1, <1>0, <1>8, <1>n DEF ModifyOverlay
  <2> QED BY <2>1, <1>0, <1>8 DEF ModifyOverlay, TypeOK, PointInText, Positions
<1>9. ASSUME Redisplay PROVE TypeOK'
  <2>1. buf.gpt - 1 \in Nat /\ buf.z - buf.gpt \in Nat BY <1>0
  <2> QED BY <2>1, <1>0, <1>9 DEF Redisplay, TypeOK, PointInText, Positions
<1>10. ASSUME ForgetUnchanged PROVE TypeOK'
  BY <1>0, <1>10 DEF ForgetUnchanged, TypeOK, PointInText, Positions
<1>11. ASSUME UNCHANGED vars PROVE TypeOK'
  BY <1>0, <1>11 DEF vars, TypeOK, PointInText, Positions
<1> QED BY <1>1, <1>2, <1>3, <1>4, <1>5, <1>6, <1>7, <1>8, <1>9, <1>10, <1>11 DEF Next, Edit

(* Type correctness: the text, the gap and point stay consistent, whatever   *)
(* the sizes and wherever quits stop the gap (insdel.c).                     *)
THEOREM TypeCorrect == Spec => []TypeOK
<1>1. Init => TypeOK
  <2> SUFFICES ASSUME Init PROVE TypeOK
    OBVIOUS
  <2>1. buf.mem \in [1 .. NewGap -> Chars \cup {Nul}] BY DEF Init
  <2>2. buf.z - 1 + buf.gap = NewGap BY SizeAssumption DEF Init
  <2>3. 1 .. Length(buf) = {} BY DEF Init, Length
  <2>4. Buffer(buf) BY <2>1, <2>2, <2>3, SizeAssumption DEF Init, Buffer
  <2>5. pt \in 1 .. buf.z BY DEF Init
  <2> QED BY <2>4, <2>5 DEF Init, TypeOK, PointInText, Positions
<1> QED BY <1>1, TypeStep, PTL DEF Spec

-----------------------------------------------------------------------------
(* The text has a length.                                                    *)
LEMMA LengthIsNat ==
  ASSUME NEW b, Buffer(b)
  PROVE  Length(b) \in Nat /\ Length(b) = b.z - 1
BY DEF Buffer, Length

(* The text is known by its length and its characters. *)
LEMMA TextIsChars ==
  ASSUME NEW b
  PROVE  Text(b) = [i \in 1 .. Length(b) |-> CharAt(b, i)]
BY DEF Text, CharAt

(* The same characters are the same text.                                    *)
LEMMA SameText ==
  ASSUME NEW b, NEW c, SameChars(b, c)
  PROVE  Text(c) = Text(b) /\ Length(c) = Length(b)
<1>1. Length(c) = Length(b) BY DEF SameChars, Length
<1>2. \A i \in 1 .. Length(b) : CharAt(c, i) = CharAt(b, i) BY DEF SameChars
<1> QED BY <1>1, <1>2, TextIsChars

(* From the characters of a changed buffer to the abstract text *)
LEMMA SplicedText ==
  ASSUME NEW b, Buffer(b), NEW c, Buffer(c),
         NEW from \in 1 .. b.z, NEW to \in from .. b.z, NEW n \in Nat, NEW s,
         c.z = b.z - (to - from) + n,
         \A i \in 1 .. Length(c) :
           CharAt(c, i) = IF i < from THEN CharAt(b, i)
                          ELSE IF i < from + n THEN s[i - from + 1]
                          ELSE CharAt(b, i - n + (to - from))
  PROVE  /\ Text(c) = Edited!Spliced(Text(b), Length(b), from, to, n, s)
         /\ Length(c) = Length(b) - (to - from) + n
<1>0. b.z \in Nat \ {0} /\ from \in 1 .. b.z /\ to \in from .. b.z
  BY DEF Buffer
<1>1. Length(c) = Length(b) - (to - from) + n /\ Length(b) = b.z - 1
  BY <1>0 DEF Length
<1>2. \A i \in 1 .. Length(b) : Text(b)[i] = CharAt(b, i)
  BY TextIsChars
<1>3. \A i \in 1 .. Length(c) :
        CharAt(c, i) = IF i < from THEN Text(b)[i]
                       ELSE IF i < from + n THEN s[i - from + 1]
                       ELSE Text(b)[i - n + (to - from)]
  <2> TAKE i \in 1 .. Length(c)
  <2>1. i < from => i \in 1 .. Length(b)
    BY <1>0, <1>1
  <2>2. ~(i < from) /\ ~(i < from + n) => i - n + (to - from) \in 1 .. Length(b)
    BY <1>0, <1>1
  <2> QED BY <2>1, <2>2, <1>2
<1>4. Text(c) = [i \in 1 .. Length(c) |-> IF i < from THEN Text(b)[i]
                       ELSE IF i < from + n THEN s[i - from + 1]
                       ELSE Text(b)[i - n + (to - from)]]
  BY <1>3, TextIsChars
<1> QED BY <1>1, <1>4 DEF Edited!Spliced

(* Every step edits the text as the abstract text is edited, or leaves it    *)
(* alone.                                                                    *)
LEMMA RefinementStep == TypeOK /\ [Next]_vars => [Edited!Next]_(Edited!vars)
<1> SUFFICES ASSUME TypeOK, [Next]_vars PROVE [Edited!Next]_(Edited!vars)
  OBVIOUS
<1>0. /\ Buffer(buf) /\ PointInText
      /\ buf.z \in Nat \ {0} /\ buf.gpt \in 1 .. buf.z /\ pt \in 1 .. buf.z
      /\ Positions = 1 .. buf.z /\ Length(buf) + 1 = buf.z
  BY DEF TypeOK, Buffer, PointInText, Positions, Length
<1>s. ASSUME Text(buf)' = Text(buf), Length(buf)' = Length(buf), pt' = pt
      PROVE  UNCHANGED Edited!vars
  BY <1>s DEF Edited!vars
<1>1. ASSUME NEW p \in Positions, MoveGap(p) PROVE UNCHANGED Edited!vars
  <2>1. PICK q \in Stops(buf, p) : buf' = MovedTo(buf, q) BY <1>1 DEF MoveGap
  <2>2. q \in 1 .. buf.z BY <2>1, <1>0, StopsInText
  <2>3. SameChars(buf, buf') BY <2>1, <2>2, <1>0, MovedToSound
  <2>4. Text(buf') = Text(buf) /\ Length(buf') = Length(buf) BY <2>3, SameText
  <2> QED BY <2>4, <1>1, <1>s DEF MoveGap
<1>2. ASSUME NEW p \in Positions, GotoChar(p) PROVE Edited!Next
  <2>1. p \in 1 .. Length(buf) + 1 BY <1>0
  <2>2. Edited!GotoChar(p) BY <1>2 DEF GotoChar, Edited!GotoChar
  <2> QED BY <2>1, <2>2 DEF Edited!Next
<1>i. ASSUME NEW n \in Nat, NEW s \in [1 .. n -> Chars], buf' = Inserted(n, s), pt' = pt + n
      PROVE  Edited!Insert(n, s)
  <2>1. /\ Buffer(buf') /\ buf'.z = buf.z + n
        /\ \A i \in 1 .. Length(buf') :
             CharAt(buf', i) = IF i < pt THEN CharAt(buf, i)
                               ELSE IF i < pt + n THEN s[i - pt + 1] ELSE CharAt(buf, i - n)
    BY <1>0, <1>i, InsertedSound
  <2>2. Length(buf') = buf.z + n - 1 BY <2>1, <1>0 DEF Length
  <2>3. pt \in pt .. buf.z /\ buf'.z = buf.z - (pt - pt) + n BY <2>1, <1>0
  <2>4. \A i \in 1 .. Length(buf') : i - n + (pt - pt) = i - n BY <2>2, <1>0
  <2>5. /\ Text(buf') = Edited!Spliced(Text(buf), Length(buf), pt, pt, n, s)
        /\ Length(buf') = Length(buf) - (pt - pt) + n
    <3>1. \A i \in 1 .. Length(buf') :
             CharAt(buf', i) = IF i < pt THEN CharAt(buf, i)
                               ELSE IF i < pt + n THEN s[i - pt + 1]
                               ELSE CharAt(buf, i - n + (pt - pt))
      BY <2>1, <2>4
    <3> QED BY <3>1, <2>1, <2>3, <1>0, SplicedText
  <2>6. Length(buf') = Length(buf) + n BY <2>1, <2>2, <1>0, LengthIsNat
  <2> QED BY <2>5, <2>6, <1>i DEF Edited!Insert
<1>3. ASSUME NEW n \in 1 .. MaxIns, NEW s \in [1 .. n -> Chars], Insert(n, s) PROVE Edited!Next
  <2>1. n \in Nat /\ buf' = Inserted(n, s) /\ pt' = pt + n BY <1>3, BoundAssumption DEF Insert
  <2>2. Edited!Insert(n, s) BY <2>1, <1>i
  <2> QED BY <2>2 DEF Edited!Next
<1>5. ASSUME NEW from \in Positions, NEW to \in Positions, Delete(from, to) PROVE Edited!Next
  <2> DEFINE none == [i \in 1 .. 0 |-> Nul]
  <2>0. from < to /\ from \in 1 .. buf.z /\ to \in from .. buf.z BY <1>0, <1>5 DEF Delete
  <2>1. /\ Buffer(buf') /\ buf'.z = buf.z - (to - from)
        /\ \A i \in 1 .. Length(buf') :
             CharAt(buf', i) = IF i < from THEN CharAt(buf, i) ELSE CharAt(buf, i + (to - from))
    BY <2>0, <1>0, <1>5, DeletedSound DEF Delete
  <2>2. Length(buf') = buf.z - (to - from) - 1 BY <2>1 DEF Length
  <2>3. buf'.z = buf.z - (to - from) + 0 BY <2>0, <2>1, <1>0
  <2>4. \A i \in 1 .. Length(buf') :
          CharAt(buf', i) = IF i < from THEN CharAt(buf, i)
                            ELSE IF i < from + 0 THEN none[i - from + 1]
                            ELSE CharAt(buf, i - 0 + (to - from))
    <3> TAKE i \in 1 .. Length(buf')
    <3>1. i - 0 + (to - from) = i + (to - from) /\ from + 0 = from BY <2>0, <2>2, <1>0
    <3> QED BY <3>1, <2>1
  <2>5. /\ Text(buf') = Edited!Spliced(Text(buf), Length(buf), from, to, 0, none)
        /\ Length(buf') = Length(buf) - (to - from) + 0
    BY <2>0, <2>1, <2>3, <2>4, <1>0, SplicedText
  <2>6. pt' = IF pt <= from THEN pt ELSE IF pt <= to THEN from + 0 ELSE pt - (to - from) + 0
    <3>1. pt' = IF from < pt THEN pt + from - (IF pt < to THEN pt ELSE to) ELSE pt
      BY <1>5 DEF Delete, Smaller
    <3> QED BY <3>1, <2>0, <1>0
  <2>7. Edited!Replace(from, to, 0, none) BY <2>5, <2>6 DEF Edited!Replace
  <2>8. 0 \in 0 .. MaxIns /\ none \in [1 .. 0 -> Chars] BY BoundAssumption
  <2>9. from \in 1 .. Length(buf) + 1 /\ to \in 1 .. Length(buf) + 1 /\ from <= to
    BY <2>0, <1>0
  <2> QED BY <2>7, <2>8, <2>9 DEF Edited!Next
<1>6. ASSUME NEW from \in Positions, NEW to \in Positions, NEW n \in 0 .. MaxIns,
             NEW s \in [1 .. n -> Chars], Replace(from, to, n, s)
      PROVE Edited!Next
  <2>0. /\ from <= to /\ from \in 1 .. buf.z /\ to \in from .. buf.z /\ n \in Nat
    BY <1>0, <1>6, BoundAssumption, ReplaceSound
  <2>1. /\ Buffer(buf') /\ buf'.z = buf.z - (to - from) + n
        /\ \A i \in 1 .. Length(buf') :
             CharAt(buf', i) = IF i < from THEN CharAt(buf, i)
                               ELSE IF i < from + n THEN s[i - from + 1]
                               ELSE CharAt(buf, i - n + (to - from))
    BY <2>0, <1>0, <1>6, ReplaceSound
  <2>5. /\ Text(buf') = Edited!Spliced(Text(buf), Length(buf), from, to, n, s)
        /\ Length(buf') = Length(buf) - (to - from) + n
    BY SMTT(30), <2>0, <2>1, <1>0, SplicedText
  <2>6. pt' = IF pt <= from THEN pt ELSE IF pt <= to THEN from + n ELSE pt - (to - from) + n
    <3>1. pt' = IF from < pt THEN pt + from + n - (IF pt < to THEN pt ELSE to) ELSE pt
      BY <1>6 DEF Replace, Smaller
    <3> QED BY <3>1, <2>0, <1>0
  <2>7. Edited!Replace(from, to, n, s) BY <2>5, <2>6 DEF Edited!Replace
  <2>9. from \in 1 .. Length(buf) + 1 /\ to \in 1 .. Length(buf) + 1 BY <2>0, <1>0
  <2> QED BY <2>0, <2>7, <2>9 DEF Edited!Next
<1>4. ASSUME NEW s \in [1 .. 1 -> Chars], InsertAndShow(s) PROVE Edited!Next
  <2>1. buf' = Inserted(1, s) /\ pt' = pt + 1 BY <1>4 DEF InsertAndShow
  <2>2. Edited!Insert(1, s) BY <2>1, <1>i
  <2>3. 1 \in 1 .. MaxIns BY BoundAssumption
  <2> QED BY <2>2, <2>3 DEF Edited!Next
<1>7. ASSUME NEW from \in Positions, NEW to \in Positions, NEW table \in [Chars -> Chars],
             Translate(from, to, table)
      PROVE Edited!Next
  <2>0. from <= to /\ from \in 1 .. buf.z /\ to \in 1 .. buf.z BY <1>0, <1>7 DEF Translate
  <2>1. /\ Buffer(buf') /\ buf'.z = buf.z
        /\ \A i \in 1 .. Length(buf') :
             CharAt(buf', i) = IF i \in from .. to - 1 THEN table[CharAt(buf, i)] ELSE CharAt(buf, i)
    BY <2>0, <1>0, <1>7, TranslatedSound DEF Translate
  <2>2. Length(buf') = Length(buf) BY <2>1 DEF Length
  <2>3. \A i \in 1 .. Length(buf) : Text(buf)[i] = CharAt(buf, i) BY TextIsChars
  <2>4. Text(buf') = [i \in 1 .. Length(buf) |->
                        IF i \in from .. to - 1 THEN table[Text(buf)[i]] ELSE Text(buf)[i]]
    BY <2>1, <2>2, <2>3, TextIsChars
  <2>5. Edited!Translate(from, to, table) BY <2>2, <2>4, <1>7 DEF Translate, Edited!Translate
  <2>6. from \in 1 .. Length(buf) + 1 /\ to \in 1 .. Length(buf) + 1 BY <2>0, <1>0
  <2> QED BY <2>0, <2>5, <2>6 DEF Edited!Next
<1>8. ASSUME NEW from \in Positions, NEW to \in Positions, ModifyOverlay(from, to)
      PROVE UNCHANGED Edited!vars
  BY <1>8, <1>s DEF ModifyOverlay
<1>9. ASSUME Redisplay PROVE UNCHANGED Edited!vars
  BY <1>9, <1>s DEF Redisplay
<1>10. ASSUME ForgetUnchanged PROVE UNCHANGED Edited!vars
  BY <1>10, <1>s DEF ForgetUnchanged
<1>11. ASSUME UNCHANGED vars PROVE UNCHANGED Edited!vars
  BY <1>11, <1>s DEF vars
<1> QED BY <1>1, <1>2, <1>3, <1>4, <1>5, <1>6, <1>7, <1>8, <1>9, <1>10, <1>11 DEF Next, Edit

(* Whatever the gap does, the text is only changed as the editing functions  *)
(* promise: the buffer with a gap implements the text without one.           *)
THEOREM TextImplemented == Spec => ImplementsText
<1>1. Init => Edited!Init
  <2> SUFFICES ASSUME Init PROVE Edited!Init
    OBVIOUS
  <2>1. Length(buf) = 0 BY DEF Init, Length
  <2>2. Text(buf) = [i \in 1 .. 0 |-> 0]
    <3>1. \A i \in 1 .. 0 : CharAt(buf, i) = 0 OBVIOUS
    <3> QED BY <2>1, <3>1, TextIsChars
  <2> QED BY <2>1, <2>2 DEF Init, Edited!Init
<1>2. QED BY <1>1, TypeCorrect, RefinementStep, PTL DEF Spec, ImplementsText, Edited!Spec

-----------------------------------------------------------------------------
(* The number of characters redisplay takes for unchanged at the end does    *)
(* not grow by a motion of the gap towards P, wherever the motion stops.     *)
LEMMA NotedEnd ==
  ASSUME NEW b, Buffer(b), NEW u \in [beg : Nat, end : Nat], NEW p \in 1 .. b.z, NEW q \in Int,
         q \in b.gpt .. p \/ q \in p .. b.gpt, ~(textSeen /\ facesSeen)
  PROVE  Smaller(Noted(b, u, p).end, b.z - q) <= Smaller(u.end, b.z - b.gpt)
<1>0. b.z \in Nat \ {0} /\ b.gpt \in 1 .. b.z /\ u.end \in Nat
  BY DEF Buffer
<1>1. CASE p < b.gpt
  <2>1. Noted(b, u, p).end = Smaller(b.z - b.gpt, u.end)
    BY <1>1 DEF Noted
  <2> QED BY <2>1, <1>0, <1>1 DEF Smaller
<1>2. CASE p > b.gpt
  <2>1. Noted(b, u, p).end = IF b.z - p - 1 < u.end THEN b.z - p ELSE u.end
    BY <1>0, <1>2 DEF Noted
  <2> QED BY <2>1, <1>0, <1>2 DEF Smaller
<1>3. CASE p = b.gpt
  <2>1. Noted(b, u, p) = u BY <1>0, <1>3 DEF Noted
  <2>2. q = b.gpt BY <1>0, <1>3
  <2> QED BY <2>1, <2>2, <1>0 DEF Smaller
<1> QED BY <1>0, <1>1, <1>2, <1>3

(* A quit stops the gap between where it was and where it was to go. *)
LEMMA StopsBetween ==
  ASSUME NEW b, Buffer(b), NEW p \in 1 .. b.z, NEW q \in Stops(b, p)
  PROVE  q \in Int /\ (q \in b.gpt .. p \/ q \in p .. b.gpt)
<1>0. b.z \in Nat \ {0} /\ b.gpt \in 1 .. b.z /\ Chunk \in Nat
  BY SizeAssumption DEF Buffer
<1>1. CASE q = p BY <1>0, <1>1
<1>2. ASSUME NEW k \in 0 .. b.z, q = b.gpt - k * Chunk, p < q PROVE q \in p .. b.gpt
  <2>1. k * Chunk \in Nat BY <1>0
  <2> QED BY <2>1, <1>0, <1>2
<1>3. ASSUME NEW k \in 0 .. b.z, q = b.gpt + k * Chunk, q < p PROVE q \in b.gpt .. p
  <2>1. k * Chunk \in Nat BY <1>0
  <2> QED BY <2>1, <1>0, <1>3
<1>4. q \in Int BY DEF Stops
<1> QED BY <1>1, <1>2, <1>3, <1>4 DEF Stops

(* The last K characters of the text are the last ones of what was shown. *)
SuffixOf(b, sh, k) ==
  \A i \in 1 .. k : i <= sh.length /\ CharAt(b, b.z - i) = sh.text[sh.length + 1 - i]

(* What SuffixShown says, in terms of the characters of the buffer.          *)
LEMMA SuffixShownIs ==
  ASSUME NEW b, Buffer(b), NEW u \in [beg : Nat, end : Nat], NEW sh
  PROVE  LET k == Smaller(u.end, b.z - b.gpt)
         IN /\ k \in Nat /\ k <= Length(b)
            /\ (\A i \in 1 .. k : i <= sh.length /\ Text(b)[b.z - i] = sh.text[sh.length + 1 - i])
                 <=> SuffixOf(b, sh, k)
<1> DEFINE k == Smaller(u.end, b.z - b.gpt)
<1>1. b.z \in Nat \ {0} /\ b.gpt \in 1 .. b.z /\ u.end \in Nat /\ Length(b) = b.z - 1
  BY DEF Buffer, Length
<1>2. k \in Nat /\ k <= Length(b)
  BY <1>1 DEF Smaller
<1>3. \A i \in 1 .. Length(b) : Text(b)[i] = CharAt(b, i)
  BY TextIsChars
<1> HIDE DEF k
<1>4. \A i \in 1 .. k : b.z - i \in 1 .. Length(b)
  BY <1>1, <1>2
<1> QED BY <1>2, <1>3, <1>4 DEF SuffixOf, k

(* Every suffix of a text is one of what redisplay shows of it. *)
LEMMA SeenSuffix ==
  ASSUME NEW b, Buffer(b), NEW k \in 0 .. Length(b)
  PROVE  SuffixOf(b, View(b), k)
<1>1. View(b).length = Length(b) /\ View(b).text = Text(b)
  BY DEF View
<1>2. Length(b) \in Nat /\ b.z = Length(b) + 1
  BY DEF Buffer, Length
<1>3. \A i \in 1 .. Length(b) : Text(b)[i] = CharAt(b, i)
  BY TextIsChars
<1> SUFFICES ASSUME NEW i \in 1 .. k
             PROVE  /\ i <= View(b).length
                    /\ CharAt(b, b.z - i) = View(b).text[View(b).length + 1 - i]
  BY DEF SuffixOf
<1>4. i <= Length(b) /\ b.z - i = Length(b) + 1 - i /\ b.z - i \in 1 .. Length(b)
  BY <1>2
<1> QED BY <1>1, <1>3, <1>4

(* A deletion keeps what is after it, and so do the notes it takes. *)
LEMMA NotedDeletionEnd ==
  ASSUME Buffer(buf), unchanged \in [beg : Nat, end : Nat],
         NEW from \in Positions, NEW to \in Positions, from <= to
  PROVE  LET k == Smaller(NotedDeletion(from, to).end, buf.z - to)
         IN k <= buf.z - to /\ ((textSeen /\ facesSeen) \/ k <= UnchangedEnd)
<1> DEFINE a == Adjacent(from, to)
           u == Noted(buf, unchanged, a)
           k == Smaller(NotedDeletion(from, to).end, buf.z - to)
<1>0. /\ buf.z \in Nat \ {0} /\ buf.gpt \in 1 .. buf.z /\ unchanged.end \in Nat
      /\ from \in 1 .. buf.z /\ to \in 1 .. buf.z /\ from <= to
  BY DEF Buffer, Positions
<1>1. u.end \in Nat
  BY AdjacentSound, NotedIsCounts
<1> HIDE DEF u
<1>2. NotedDeletion(from, to).end = Smaller(buf.z - to, u.end)
  BY DEF NotedDeletion, u
<1>3. k = Smaller(u.end, buf.z - to) /\ k <= buf.z - to
  BY <1>0, <1>1, <1>2 DEF Smaller
<1> HIDE DEF k
<1>4. ASSUME ~(textSeen /\ facesSeen) PROVE k <= UnchangedEnd
  <2> DEFINE q == IF to < buf.gpt THEN buf.gpt ELSE a
  <2>1. a = IF from > buf.gpt THEN from ELSE IF to < buf.gpt THEN to ELSE buf.gpt
    BY DEF Adjacent
  <2>2. a \in 1 .. buf.z /\ q \in Int /\ (q \in buf.gpt .. a \/ q \in a .. buf.gpt)
    BY <2>1, <1>0
  <2>3. Smaller(u.end, buf.z - q) <= Smaller(unchanged.end, buf.z - buf.gpt)
    <3> HIDE DEF a, q
    <3> QED BY <2>2, <1>4, NotedEnd DEF u
  <2>4. CASE to < buf.gpt
    <3>1. u.end = Smaller(buf.z - buf.gpt, unchanged.end)
      <4>1. a = to /\ to # buf.gpt /\ a < buf.gpt BY <2>1, <2>4, <1>0
      <4> HIDE DEF a
      <4> QED BY <4>1, <1>4 DEF Noted, u
    <3> QED BY <3>1, <1>0, <1>1, <1>3 DEF Smaller, UnchangedEnd
  <2>5. CASE ~(to < buf.gpt)
    <3>1. q = a /\ a <= to BY <2>1, <2>5, <1>0
    <3> HIDE DEF a, q
    <3>2. Smaller(u.end, buf.z - to) <= Smaller(u.end, buf.z - a)
      BY <3>1, <2>2, <1>0, <1>1 DEF Smaller
    <3>3. /\ Smaller(u.end, buf.z - to) \in Int /\ Smaller(u.end, buf.z - a) \in Int
          /\ Smaller(unchanged.end, buf.z - buf.gpt) \in Int
      BY <2>2, <1>0, <1>1 DEF Smaller
    <3> QED BY <3>1, <3>2, <3>3, <2>3, <1>3 DEF UnchangedEnd
  <2> QED BY <2>4, <2>5
<1> QED BY <1>3, <1>4 DEF k

(* Every step keeps the end of the text that redisplay takes for unchanged   *)
(* as it was shown.                                                          *)
LEMMA SuffixStep ==
  TypeOK /\ SuffixShown /\ NothingUnseen /\ [Next]_vars => SuffixShown' /\ NothingUnseen'
<1> SUFFICES ASSUME TypeOK, SuffixShown, NothingUnseen, [Next]_vars
             PROVE  SuffixShown' /\ NothingUnseen'
  OBVIOUS
<1> DEFINE seen == textSeen /\ facesSeen
           Same(k) == \A i \in 1 .. k : CharAt(buf', buf'.z - i) = CharAt(buf, buf.z - i)
<1>0. /\ Buffer(buf) /\ PointInText /\ unchanged \in [beg : Nat, end : Nat]
      /\ buf.z \in Nat \ {0} /\ buf.gpt \in 1 .. buf.z /\ pt \in 1 .. buf.z
      /\ unchanged.end \in Nat /\ Positions = 1 .. buf.z /\ Length(buf) = buf.z - 1
      /\ UnchangedEnd \in Nat
  BY DEF TypeOK, Buffer, PointInText, Positions, Length, UnchangedEnd, Smaller
<1>t. Buffer(buf') /\ unchanged' \in [beg : Nat, end : Nat]
  BY TypeStep DEF TypeOK
(* What is on the screen of the text before the step *)
<1>k. ASSUME NEW k \in Nat, k <= Length(buf), seen \/ k <= UnchangedEnd
      PROVE  SuffixOf(buf, shown, k)
  <2>1. CASE seen BY <2>1, <1>k, <1>0, SeenSuffix DEF NothingUnseen
  <2>2. CASE k <= UnchangedEnd
    <3>1. SuffixOf(buf, shown, UnchangedEnd)
      BY <1>0, SuffixShownIs DEF SuffixShown, UnchangedEnd
    <3> QED BY <3>1, <2>2, <1>0 DEF SuffixOf
  <2> QED BY <2>1, <2>2, <1>k
(* What is left of it after a step that does not show anything *)
<1>p. ASSUME NEW k \in Int, k = Smaller(unchanged'.end, buf'.z - buf'.gpt), shown' = shown,
             k <= Length(buf), seen \/ k <= UnchangedEnd, Same(k)
      PROVE  SuffixShown'
  <2>1. /\ k \in Nat
        /\ (\A i \in 1 .. k : i <= shown.length
              /\ Text(buf')[buf'.z - i] = shown.text[shown.length + 1 - i])
             <=> SuffixOf(buf', shown, k)
    BY <1>p, <1>t, SuffixShownIs
  <2>2. SuffixOf(buf, shown, k) BY <2>1, <1>p, <1>k
  <2>3. SuffixOf(buf', shown, k) BY <2>2, <1>p DEF SuffixOf
  <2> QED BY <2>1, <2>3, <1>p DEF SuffixShown, UnchangedEnd
(* Steps that show everything *)
<1>v. ASSUME shown' = View(buf') PROVE SuffixShown' /\ NothingUnseen'
  <2> DEFINE k == Smaller(unchanged'.end, buf'.z - buf'.gpt)
  <2>1. /\ k \in Nat /\ k <= Length(buf')
        /\ (\A i \in 1 .. k : i <= shown'.length
              /\ Text(buf')[buf'.z - i] = shown'.text[shown'.length + 1 - i])
             <=> SuffixOf(buf', shown', k)
    BY <1>t, SuffixShownIs
  <2>2. Length(buf') \in Nat BY <1>t, LengthIsNat
  <2>3. SuffixOf(buf', shown', k) BY <2>1, <2>2, <1>v, <1>t, SeenSuffix
  <2>4. SuffixShown' BY <2>1, <2>3 DEF SuffixShown, UnchangedEnd
  <2> QED BY <2>4, <1>v DEF NothingUnseen, View, Text, Length, Address
(* Steps that change no text and note nothing *)
<1>u. ASSUME UNCHANGED <<buf, unchanged, shown>>, textSeen' => textSeen
      PROVE  SuffixShown' /\ NothingUnseen'
  BY <1>u DEF SuffixShown, UnchangedEnd, NothingUnseen, View, Text, Length, Address
<1>1. ASSUME NEW p \in Positions, MoveGap(p) PROVE SuffixShown' /\ NothingUnseen'
  <2>1. PICK q \in Stops(buf, p) : buf' = MovedTo(buf, q) BY <1>1 DEF MoveGap
  <2>2. q \in 1 .. buf.z BY <2>1, <1>0, StopsInText
  <2>3. buf'.gpt = q /\ SameChars(buf, buf')
    BY <2>1, <2>2, <1>0, MovedToSound
  <2>4. buf'.z = buf.z /\ \A i \in 1 .. Length(buf) : CharAt(buf', i) = CharAt(buf, i)
    BY <2>3 DEF SameChars
  <2> DEFINE k == Smaller(unchanged'.end, buf'.z - buf'.gpt)
  <2>5. k \in Nat /\ k <= Length(buf)
    BY <2>2, <2>3, <2>4, <1>0, <1>t DEF Smaller
  <2>6. seen \/ k <= UnchangedEnd
    <3>1. ASSUME ~seen PROVE k <= UnchangedEnd
      <4>1. k = Smaller(Noted(buf, unchanged, p).end, buf.z - q)
        BY <2>3, <2>4, <1>1 DEF MoveGap
      <4>2. q \in Int /\ (q \in buf.gpt .. p \/ q \in p .. buf.gpt)
        BY <2>1, <1>0, StopsBetween
      <4> HIDE DEF k
      <4> QED BY <3>1, <4>1, <4>2, <1>0, NotedEnd DEF UnchangedEnd
    <3> QED BY <3>1
  <2>7. Same(k)
    <3> HIDE DEF k
    <3>1. \A i \in 1 .. k : buf.z - i \in 1 .. Length(buf) BY <2>5, <1>0
    <3> QED BY <3>1, <2>4
  <2>8. shown' = shown /\ textSeen' = textSeen BY <1>1 DEF MoveGap
  <2>9. SuffixShown'
    <3> HIDE DEF Same
    <3> QED BY <2>5, <2>6, <2>7, <2>8, <1>p
  <2>10. View(buf') = View(buf) BY <2>3, SameText DEF View
  <2> QED BY <2>8, <2>9, <2>10 DEF NothingUnseen
<1>2. ASSUME NEW p \in Positions, GotoChar(p) PROVE SuffixShown' /\ NothingUnseen'
  BY <1>2, <1>u DEF GotoChar
<1>3. ASSUME NEW n \in 1 .. MaxIns, NEW s \in [1 .. n -> Chars], Insert(n, s)
      PROVE SuffixShown' /\ NothingUnseen'
  <2>0. n \in Nat BY BoundAssumption
  <2>1. /\ buf'.gpt = pt + n /\ buf'.z = buf.z + n
        /\ \A i \in 1 .. Length(buf') :
             CharAt(buf', i) = IF i < pt THEN CharAt(buf, i)
                               ELSE IF i < pt + n THEN s[i - pt + 1] ELSE CharAt(buf, i - n)
    BY <2>0, <1>0, <1>3, InsertedSound DEF Insert
  <2> DEFINE k == Smaller(unchanged'.end, buf'.z - buf'.gpt)
  <2>2. buf'.z - buf'.gpt = buf.z - pt /\ Length(buf') = buf.z + n - 1
    BY <2>0, <2>1, <1>0 DEF Length
  <2>3. k \in Nat /\ k <= buf.z - pt /\ k <= Length(buf)
    BY <2>2, <1>0, <1>t DEF Smaller
  <2>4. seen \/ k <= UnchangedEnd
    <3>1. ASSUME ~seen PROVE k <= UnchangedEnd
      <4>1. k = Smaller(Noted(buf, unchanged, pt).end, buf.z - pt)
        BY <2>2, <1>3 DEF Insert
      <4>2. pt \in Int /\ (pt \in buf.gpt .. pt \/ pt \in pt .. buf.gpt)
        BY <1>0
      <4> HIDE DEF k
      <4> QED BY <3>1, <4>1, <4>2, <1>0, NotedEnd DEF UnchangedEnd
    <3> QED BY <3>1
  <2> HIDE DEF k
  <2>5. Same(k)
    <3> SUFFICES ASSUME NEW i \in 1 .. k PROVE CharAt(buf', buf'.z - i) = CharAt(buf, buf.z - i)
      OBVIOUS
    <3>1. /\ buf'.z - i \in 1 .. Length(buf') /\ ~(buf'.z - i < pt) /\ ~(buf'.z - i < pt + n)
          /\ (buf'.z - i) - n = buf.z - i
      <4>1. buf'.z = buf.z + n /\ Length(buf') = buf.z + n - 1 BY <2>1, <2>2
      <4>2. i \in Nat \ {0} /\ i <= buf.z - pt BY <2>3, <1>0
      <4> QED BY SMTT(30), <4>1, <4>2, <2>0, <1>0
    <3> QED BY <3>1, <2>1
  <2>6. shown' = shown /\ textSeen' = FALSE BY <1>3 DEF Insert
  <2> HIDE DEF Same
  <2> QED BY <2>3, <2>4, <2>5, <2>6, <1>p DEF NothingUnseen, k
<1>4. ASSUME NEW s \in [1 .. 1 -> Chars], InsertAndShow(s) PROVE SuffixShown' /\ NothingUnseen'
  BY <1>4, <1>v DEF InsertAndShow
<1>5. ASSUME NEW from \in Positions, NEW to \in Positions, Delete(from, to)
      PROVE SuffixShown' /\ NothingUnseen'
  <2>0. from < to /\ from \in 1 .. buf.z /\ to \in 1 .. buf.z BY <1>0, <1>5 DEF Delete
  <2>1. /\ buf'.gpt = from /\ buf'.z = buf.z - (to - from)
        /\ \A i \in 1 .. Length(buf') :
             CharAt(buf', i) = IF i < from THEN CharAt(buf, i) ELSE CharAt(buf, i + (to - from))
    BY <2>0, <1>0, <1>5, DeletedSound DEF Delete
  <2> DEFINE k == Smaller(unchanged'.end, buf'.z - buf'.gpt)
  <2>2. buf'.z - buf'.gpt = buf.z - to /\ Length(buf') = buf.z - (to - from) - 1
    BY <2>0, <2>1, <1>0 DEF Length
  <2>3. k \in Nat /\ k <= Length(buf)
    BY <2>2, <2>0, <1>0, <1>t DEF Smaller
  <2>4. k <= buf.z - to /\ (seen \/ k <= UnchangedEnd)
    <3>1. k = Smaller(NotedDeletion(from, to).end, buf.z - to)
      BY <2>2, <1>5 DEF Delete
    <3> HIDE DEF k
    <3> QED BY <3>1, <2>0, <1>0, NotedDeletionEnd
  <2> HIDE DEF k
  <2>5. Same(k)
    <3> SUFFICES ASSUME NEW i \in 1 .. k PROVE CharAt(buf', buf'.z - i) = CharAt(buf, buf.z - i)
      OBVIOUS
    <3>1. /\ buf'.z - i \in 1 .. Length(buf') /\ ~(buf'.z - i < from)
          /\ (buf'.z - i) + (to - from) = buf.z - i
      <4>1. buf'.z = buf.z - (to - from) /\ Length(buf') = buf.z - (to - from) - 1 BY <2>1, <2>2
      <4>2. i \in Nat \ {0} /\ i <= buf.z - to BY <2>3, <2>4, <2>0, <1>0
      <4> QED BY SMTT(30), <4>1, <4>2, <2>0, <1>0
    <3> QED BY <3>1, <2>1
  <2>6. shown' = shown /\ textSeen' = FALSE BY <1>5 DEF Delete
  <2> HIDE DEF Same
  <2> QED BY <2>3, <2>4, <2>5, <2>6, <1>p DEF NothingUnseen, k
<1>6. ASSUME NEW from \in Positions, NEW to \in Positions, NEW n \in 0 .. MaxIns,
             NEW s \in [1 .. n -> Chars], Replace(from, to, n, s)
      PROVE SuffixShown' /\ NothingUnseen'
  <2>0. /\ from <= to /\ from \in 1 .. buf.z /\ to \in 1 .. buf.z /\ n \in Nat
    BY <1>0, <1>6, BoundAssumption, ReplaceSound
  <2>1. /\ buf'.gpt = from + n /\ buf'.z = buf.z - (to - from) + n
        /\ \A i \in 1 .. Length(buf') :
             CharAt(buf', i) = IF i < from THEN CharAt(buf, i)
                               ELSE IF i < from + n THEN s[i - from + 1]
                               ELSE CharAt(buf, i - n + (to - from))
    BY <2>0, <1>0, <1>6, ReplaceSound
  <2> DEFINE k == Smaller(unchanged'.end, buf'.z - buf'.gpt)
  <2>2. buf'.z - buf'.gpt = buf.z - to /\ Length(buf') = buf.z - (to - from) + n - 1
    BY <2>0, <2>1, <1>0 DEF Length
  <2>3. k \in Nat /\ k <= Length(buf)
    BY SMTT(30), <2>2, <2>0, <1>0, <1>t DEF Smaller
  <2>4. k <= buf.z - to /\ (seen \/ k <= UnchangedEnd)
    <3>1. k = Smaller(NotedDeletion(from, to).end, buf.z - to)
      BY <2>2, <1>6 DEF Replace
    <3> HIDE DEF k
    <3> QED BY <3>1, <2>0, <1>0, NotedDeletionEnd
  <2> HIDE DEF k
  <2>5. Same(k)
    <3> SUFFICES ASSUME NEW i \in 1 .. k PROVE CharAt(buf', buf'.z - i) = CharAt(buf, buf.z - i)
      OBVIOUS
    <3>1. /\ buf'.z - i \in 1 .. Length(buf') /\ ~(buf'.z - i < from) /\ ~(buf'.z - i < from + n)
          /\ (buf'.z - i) - n + (to - from) = buf.z - i
      <4>1. buf'.z = buf.z - (to - from) + n /\ k <= buf.z - to BY <2>1, <2>4
      <4>2. i \in Nat \ {0} /\ i <= buf.z - to BY <4>1, <2>0, <2>3, <1>0
      <4>3. (buf'.z - i) - n + (to - from) = buf.z - i BY <4>1, <4>2, <2>0, <1>0
      <4>4. buf'.z - i >= from + n /\ buf'.z - i \in Int BY <4>1, <4>2, <2>0, <1>0
      <4>5. buf'.z - i <= Length(buf') /\ Length(buf') \in Int
        BY <4>1, <4>2, <2>2, <2>0, <1>0
      <4>6. buf'.z - i \in 1 .. Length(buf')
        BY <4>4, <4>5, <2>0
      <4>7. ~(buf'.z - i < from) /\ ~(buf'.z - i < from + n)
        BY <4>4, <2>0
      <4> QED BY <4>3, <4>6, <4>7
    <3> QED BY <3>1, <2>1
  <2>6. shown' = shown /\ textSeen' = FALSE BY <1>6 DEF Replace
  <2> HIDE DEF Same
  <2> QED BY <2>3, <2>4, <2>5, <2>6, <1>p DEF NothingUnseen, k
<1>7. ASSUME NEW from \in Positions, NEW to \in Positions, NEW table \in [Chars -> Chars],
             Translate(from, to, table)
      PROVE SuffixShown' /\ NothingUnseen'
  <2>0. from <= to /\ from \in 1 .. buf.z /\ to \in 1 .. buf.z BY <1>0, <1>7 DEF Translate
  <2>1. /\ buf'.gpt = buf.gpt /\ buf'.z = buf.z
        /\ \A i \in 1 .. Length(buf') :
             CharAt(buf', i) = IF i \in from .. to - 1 THEN table[CharAt(buf, i)] ELSE CharAt(buf, i)
    BY <2>0, <1>0, <1>7, TranslatedSound DEF Translate
  <2> DEFINE k == Smaller(unchanged'.end, buf'.z - buf'.gpt)
  <2>2. unchanged'.end = IF buf.z - to < unchanged.end \/ (textSeen /\ facesSeen)
                         THEN buf.z - to ELSE unchanged.end
    BY <1>7 DEF Translate
  <2>3. k \in Nat /\ k <= Length(buf) /\ k <= buf.z - to
    BY SMTT(30), <2>0, <2>1, <2>2, <1>0, <1>t DEF Smaller
  <2>4. seen \/ k <= UnchangedEnd
    BY <2>0, <2>1, <2>2, <1>0 DEF Smaller, UnchangedEnd
  <2> HIDE DEF k
  <2>5. Same(k)
    <3> SUFFICES ASSUME NEW i \in 1 .. k PROVE CharAt(buf', buf'.z - i) = CharAt(buf, buf.z - i)
      OBVIOUS
    <3>1. /\ buf'.z - i = buf.z - i /\ buf.z - i \in 1 .. Length(buf')
          /\ buf.z - i \notin from .. to - 1
      BY <2>0, <2>1, <2>3, <1>0 DEF Length
    <3> QED BY <3>1, <2>1
  <2>6. shown' = shown /\ textSeen' = FALSE BY <1>7 DEF Translate
  <2> HIDE DEF Same
  <2> QED BY <2>3, <2>4, <2>5, <2>6, <1>p DEF NothingUnseen, k
<1>8. ASSUME NEW from \in Positions, NEW to \in Positions, ModifyOverlay(from, to)
      PROVE SuffixShown' /\ NothingUnseen'
  <2>0. buf' = buf /\ shown' = shown /\ textSeen' = textSeen BY <1>8 DEF ModifyOverlay
  <2> DEFINE k == Smaller(unchanged'.end, buf'.z - buf'.gpt)
  <2>1. k \in Nat /\ k <= Length(buf)
    BY <2>0, <1>0, <1>t DEF Smaller
  <2>2. seen \/ k <= UnchangedEnd
    <3>1. ASSUME ~seen PROVE unchanged'.end = Smaller(buf.z - to, unchanged.end)
      BY <1>8, <3>1 DEF ModifyOverlay
    <3>2. buf.z - to \in Nat BY <1>0
    <3> QED BY <3>1, <3>2, <2>0, <1>0 DEF Smaller, UnchangedEnd
  <2> HIDE DEF k
  <2>3. Same(k) BY <2>0
  <2>4. NothingUnseen' BY <2>0 DEF NothingUnseen, View, Text, Length, Address
  <2> HIDE DEF Same
  <2> QED BY <2>0, <2>1, <2>2, <2>3, <2>4, <1>p DEF k
<1>9. ASSUME Redisplay PROVE SuffixShown' /\ NothingUnseen'
  <2>1. shown' = View(buf') BY <1>9 DEF Redisplay, View, Text, Length, Address
  <2> QED BY <2>1, <1>v
<1>10. ASSUME ForgetUnchanged PROVE SuffixShown' /\ NothingUnseen'
  <2>0. buf' = buf /\ shown' = shown /\ textSeen' = textSeen BY <1>10 DEF ForgetUnchanged
  <2>1. unchanged'.end = 0 BY <1>10 DEF ForgetUnchanged
  <2>2. Smaller(unchanged'.end, buf'.z - buf'.gpt) = 0 BY <2>0, <2>1, <1>0 DEF Smaller
  <2>3. SuffixShown' BY <2>2 DEF SuffixShown, UnchangedEnd
  <2> QED BY <2>0, <2>3 DEF NothingUnseen, View, Text, Length, Address
<1>11. ASSUME UNCHANGED vars PROVE SuffixShown' /\ NothingUnseen'
  BY <1>11, <1>u DEF vars
<1> QED BY <1>1, <1>2, <1>3, <1>4, <1>5, <1>6, <1>7, <1>8, <1>9, <1>10, <1>11 DEF Next, Edit

(* What redisplay takes for unchanged at the end of the text is on the       *)
(* screen (insdel.c, xdisp.c try_window_id).  The invariant needs also that  *)
(* MODIFF tells every change, which make_gap's errors in replace_range would *)
(* break.                                                                    *)
THEOREM SuffixIsShown == Spec => [](SuffixShown /\ NothingUnseen)
<1>1. Init => SuffixShown /\ NothingUnseen
  <2> SUFFICES ASSUME Init PROVE SuffixShown /\ NothingUnseen
    OBVIOUS
  <2>1. UnchangedEnd = 0 BY DEF Init, UnchangedEnd, Smaller
  <2> QED BY <2>1 DEF Init, SuffixShown, NothingUnseen
<1>2. QED BY <1>1, TypeCorrect, SuffixStep, PTL DEF Spec

-----------------------------------------------------------------------------
(* The first K characters of the text are the first ones of what was shown.  *)
PrefixOf(b, sh, k) ==
  \A i \in 1 .. k : i <= sh.length /\ CharAt(b, i) = sh.text[i]

(* While beg_unchanged was never beyond the gap, no more than its first      *)
(* characters but one were left alone: so much survives an insertion at the  *)
(* gap, which is not noted, and the comparison in gap_left.                  *)
BeginningKept == ~ahead => unchanged.beg <= buf.gpt /\ PrefixOf(buf, shown, unchanged.beg - 1)

(* Every prefix of a text is one of what redisplay shows of it.              *)
LEMMA SeenPrefix ==
  ASSUME NEW b, Buffer(b), NEW k \in Int, k <= Length(b)
  PROVE  PrefixOf(b, View(b), k)
<1>1. View(b).length = Length(b) /\ View(b).text = Text(b)
  BY DEF View
<1>2. Length(b) \in Nat
  BY LengthIsNat
<1>3. \A i \in 1 .. Length(b) : Text(b)[i] = CharAt(b, i)
  BY TextIsChars
<1>4. \A i \in 1 .. k : i \in 1 .. Length(b) /\ i <= Length(b)
  BY <1>2
<1> QED BY <1>1, <1>3, <1>4 DEF PrefixOf

(* A motion to P leaves beg_unchanged at most P, and does not raise it but   *)
(* when it is the first to be noted since redisplay.                         *)
LEMMA NotedBeg ==
  ASSUME NEW b, Buffer(b), NEW u \in [beg : Nat, end : Nat], NEW p \in 1 .. b.z, u.beg <= b.gpt
  PROVE  /\ Noted(b, u, p).beg <= p
         /\ (textSeen /\ facesSeen) \/ Noted(b, u, p).beg <= u.beg
<1>0. b.z \in Nat \ {0} /\ b.gpt \in 1 .. b.z /\ u.beg \in Nat /\ p \in Nat
  BY DEF Buffer
<1>1. CASE p = b.gpt
  <2>1. Noted(b, u, p) = u BY <1>0, <1>1 DEF Noted
  <2> QED BY <2>1, <1>0, <1>1
<1>2. CASE p # b.gpt /\ textSeen /\ facesSeen
  <2>1. Noted(b, u, p).beg = p - 1 BY <1>2 DEF Noted
  <2> QED BY <2>1, <1>0, <1>2
<1>3. CASE p < b.gpt /\ ~(textSeen /\ facesSeen)
  <2>1. Noted(b, u, p).beg = IF p < u.beg THEN p - 1 ELSE u.beg
    BY <1>3 DEF Noted
  <2> QED BY <2>1, <1>0
<1>4. CASE p > b.gpt /\ ~(textSeen /\ facesSeen)
  <2>1. Noted(b, u, p).beg = Smaller(b.gpt - 1, u.beg)
    BY <1>0, <1>4 DEF Noted
  <2> QED BY <2>1, <1>0, <1>4 DEF Smaller
<1> QED BY <1>0, <1>1, <1>2, <1>3, <1>4

(* Every step keeps the beginning of the text as it was shown.               *)
LEMMA PrefixStep ==
  TypeOK /\ BeginningKept /\ NothingUnseen /\ [Next]_vars => BeginningKept'
<1> SUFFICES ASSUME TypeOK, BeginningKept, NothingUnseen, [Next]_vars PROVE BeginningKept'
  OBVIOUS
<1> DEFINE seen == textSeen /\ facesSeen
           k == unchanged'.beg - 1
           Same == \A i \in 1 .. k : CharAt(buf', i) = CharAt(buf, i)
<1>0. /\ Buffer(buf) /\ PointInText /\ unchanged \in [beg : Nat, end : Nat]
      /\ buf.z \in Nat \ {0} /\ buf.gpt \in 1 .. buf.z /\ pt \in 1 .. buf.z
      /\ unchanged.beg \in Nat /\ Positions = 1 .. buf.z /\ Length(buf) = buf.z - 1
  BY DEF TypeOK, Buffer, PointInText, Positions, Length
<1>t. Buffer(buf') /\ unchanged' \in [beg : Nat, end : Nat]
  BY TypeStep DEF TypeOK
<1>g. /\ buf'.z \in Nat \ {0} /\ buf'.gpt \in 1 .. buf'.z /\ Length(buf') = buf'.z - 1
      /\ unchanged'.beg \in Nat /\ k \in Int
  BY <1>t DEF Buffer, Length
<1> HIDE DEF k, Same, seen
<1>u. CASE UNCHANGED vars
  BY <1>u DEF vars, BeginningKept, PrefixOf, CharAt, Address
<1>c. CASE Next
  <2> SUFFICES ASSUME ~ahead' PROVE unchanged'.beg <= buf'.gpt /\ PrefixOf(buf', shown', k)
    BY DEF BeginningKept, k
  <2>1. ~(unchanged'.beg > buf'.gpt) /\ (~ahead \/ View(buf') = shown')
    BY <1>c DEF Next
  <2>2. unchanged'.beg <= buf'.gpt
    BY <2>1, <1>g
  <2>v. CASE View(buf') = shown'
    <3>1. k <= Length(buf')
      BY <2>2, <1>g DEF k
    <3> QED BY <2>2, <2>v, <3>1, <1>g, <1>t, SeenPrefix
  <2>n. CASE ~ahead /\ View(buf') # shown'
    <3>0. unchanged.beg <= buf.gpt /\ PrefixOf(buf, shown, unchanged.beg - 1)
      BY <2>n DEF BeginningKept
    (* What is left of it after a step that does not show anything *)
    <3>p. ASSUME shown' = shown, k <= Length(buf), seen \/ unchanged'.beg <= unchanged.beg, Same
          PROVE  PrefixOf(buf', shown', k)
      <4>1. PrefixOf(buf, shown, k)
        <5>1. CASE seen
          BY <5>1, <3>p, <1>0, <1>g, SeenPrefix DEF NothingUnseen, seen
        <5>2. CASE unchanged'.beg <= unchanged.beg
          <6>1. \A i \in 1 .. k : i \in 1 .. unchanged.beg - 1
            BY <5>2, <1>0, <1>g DEF k
          <6> QED BY <6>1, <3>0 DEF PrefixOf
        <5> QED BY <3>p, <5>1, <5>2
      <4> QED BY <4>1, <3>p DEF PrefixOf, Same
    (* A position up to which every step below leaves the text alone *)
    <3>s. ASSUME NEW q \in 1 .. buf.z, k < q, shown' = shown,
                 seen \/ unchanged'.beg <= unchanged.beg,
                 \A i \in 1 .. q - 1 : CharAt(buf', i) = CharAt(buf, i)
          PROVE  PrefixOf(buf', shown', k)
      <4>1. \A i \in 1 .. k : i \in 1 .. q - 1
        BY <3>s, <1>0, <1>g
      <4>2. k <= Length(buf)
        BY <3>s, <1>0, <1>g
      <4> QED BY <3>p, <3>s, <4>1, <4>2 DEF Same
    <3>1. ASSUME NEW p \in Positions, MoveGap(p) PROVE PrefixOf(buf', shown', k)
      <4>1. PICK q \in Stops(buf, p) : buf' = MovedTo(buf, q) BY <3>1 DEF MoveGap
      <4>2. q \in 1 .. buf.z BY <4>1, <1>0, StopsInText
      <4>3. \A i \in 1 .. buf.z - 1 : CharAt(buf', i) = CharAt(buf, i)
        BY <4>1, <4>2, <1>0, MovedToSound DEF SameChars
      <4>4. unchanged' = Noted(buf, unchanged, p) /\ shown' = shown
        BY <3>1 DEF MoveGap
      <4>5. unchanged'.beg <= p /\ (seen \/ unchanged'.beg <= unchanged.beg)
        BY <4>4, <3>0, <1>0, NotedBeg DEF seen
      <4>6. k < buf.z /\ buf.z \in 1 .. buf.z
        BY <4>5, <1>0, <1>g DEF k
      <4> QED BY <3>s, <4>3, <4>4, <4>5, <4>6
    <3>2. ASSUME NEW p \in Positions, GotoChar(p) PROVE PrefixOf(buf', shown', k)
      BY <3>2, <3>0 DEF GotoChar, PrefixOf, k
    <3>3. ASSUME NEW n \in 1 .. MaxIns, NEW s \in [1 .. n -> Chars], Insert(n, s)
          PROVE PrefixOf(buf', shown', k)
      <4>0. n \in Nat BY BoundAssumption
      <4>1. /\ buf'.z = buf.z + n
            /\ \A i \in 1 .. Length(buf') :
                 CharAt(buf', i) = IF i < pt THEN CharAt(buf, i)
                                   ELSE IF i < pt + n THEN s[i - pt + 1] ELSE CharAt(buf, i - n)
        BY <4>0, <1>0, <3>3, InsertedSound DEF Insert
      <4>2. \A i \in 1 .. pt - 1 : i \in 1 .. Length(buf') /\ i < pt
        BY <4>0, <4>1, <1>0, <1>g
      <4>3. unchanged' = Noted(buf, unchanged, pt) /\ shown' = shown
        BY <3>3 DEF Insert
      <4>4. unchanged'.beg <= pt /\ (seen \/ unchanged'.beg <= unchanged.beg)
        BY <4>3, <3>0, <1>0, NotedBeg DEF seen
      <4>5. k < pt
        BY <4>4, <1>0, <1>g DEF k
      <4> QED BY <3>s, <4>1, <4>2, <4>3, <4>4, <4>5, <1>0
    (* What a deletion notes *)
    <3>d. ASSUME NEW from \in Positions, NEW to \in Positions, from <= to,
                 unchanged' = NotedDeletion(from, to), shown' = shown,
                 \A i \in 1 .. from - 1 : CharAt(buf', i) = CharAt(buf, i)
          PROVE  PrefixOf(buf', shown', k)
      <4>1. Adjacent(from, to) \in 1 .. buf.z
        BY <3>d, <1>0, AdjacentSound
      <4>2. /\ (seen \/ Noted(buf, unchanged, Adjacent(from, to)).beg <= unchanged.beg)
            /\ Noted(buf, unchanged, Adjacent(from, to)).beg \in Nat
        BY <4>1, <3>0, <1>0, NotedBeg, NotedIsCounts DEF seen
      <4>3. unchanged'.beg = Smaller(from - 1, Noted(buf, unchanged, Adjacent(from, to)).beg)
        BY <3>d DEF NotedDeletion
      <4>4. from - 1 \in Nat /\ from \in 1 .. buf.z
        BY <1>0
      <4>5. unchanged'.beg <= from - 1
            /\ unchanged'.beg <= Noted(buf, unchanged, Adjacent(from, to)).beg
        BY <4>2, <4>3, <4>4 DEF Smaller
      <4>6. seen \/ unchanged'.beg <= unchanged.beg
        BY <4>2, <4>5, <1>0, <1>g
      <4>7. k < from
        BY <4>4, <4>5, <1>g DEF k
      <4> QED BY <3>d, <3>s, <4>4, <4>6, <4>7
    <3>5. ASSUME NEW from \in Positions, NEW to \in Positions, Delete(from, to)
          PROVE PrefixOf(buf', shown', k)
      <4>0. from < to /\ from \in 1 .. buf.z /\ to \in 1 .. buf.z BY <1>0, <3>5 DEF Delete
      <4>1. /\ buf'.z = buf.z - (to - from)
            /\ \A i \in 1 .. Length(buf') :
                 CharAt(buf', i) = IF i < from THEN CharAt(buf, i) ELSE CharAt(buf, i + (to - from))
        BY <4>0, <1>0, <3>5, DeletedSound DEF Delete
      <4>2. \A i \in 1 .. from - 1 : i \in 1 .. Length(buf') /\ i < from
        BY <4>0, <4>1, <1>0, <1>g
      <4>3. unchanged' = NotedDeletion(from, to) /\ shown' = shown
        BY <3>5 DEF Delete
      <4> QED BY <3>d, <4>0, <4>1, <4>2, <4>3
    <3>6. ASSUME NEW from \in Positions, NEW to \in Positions, NEW n \in 0 .. MaxIns,
                 NEW s \in [1 .. n -> Chars], Replace(from, to, n, s)
          PROVE PrefixOf(buf', shown', k)
      <4>0. /\ from <= to /\ from \in 1 .. buf.z /\ to \in 1 .. buf.z /\ n \in Nat
        BY <1>0, <3>6, BoundAssumption, ReplaceSound
      <4>1. /\ buf'.z = buf.z - (to - from) + n
            /\ \A i \in 1 .. Length(buf') :
                 CharAt(buf', i) = IF i < from THEN CharAt(buf, i)
                                   ELSE IF i < from + n THEN s[i - from + 1]
                                   ELSE CharAt(buf, i - n + (to - from))
        BY <4>0, <1>0, <3>6, ReplaceSound
      <4>2. \A i \in 1 .. from - 1 : i \in 1 .. Length(buf') /\ i < from
        BY <4>0, <4>1, <1>0, <1>g
      <4>3. unchanged' = NotedDeletion(from, to) /\ shown' = shown
        BY <3>6 DEF Replace
      <4> QED BY <3>d, <4>0, <4>1, <4>2, <4>3
    <3>7. ASSUME NEW from \in Positions, NEW to \in Positions, NEW table \in [Chars -> Chars],
                 Translate(from, to, table)
          PROVE PrefixOf(buf', shown', k)
      <4>0. from <= to /\ from \in 1 .. buf.z /\ to \in 1 .. buf.z BY <1>0, <3>7 DEF Translate
      <4>1. /\ buf'.z = buf.z
            /\ \A i \in 1 .. Length(buf') :
                 CharAt(buf', i) = IF i \in from .. to - 1 THEN table[CharAt(buf, i)] ELSE CharAt(buf, i)
        BY <4>0, <1>0, <3>7, TranslatedSound DEF Translate
      <4>2. \A i \in 1 .. from - 1 : i \in 1 .. Length(buf') /\ i \notin from .. to - 1
        BY <4>0, <4>1, <1>0, <1>g
      <4>3. /\ unchanged'.beg = (IF from - 1 < unchanged.beg \/ seen THEN from - 1 ELSE unchanged.beg)
            /\ shown' = shown
        BY <3>7 DEF Translate, seen
      <4>4. unchanged'.beg <= from - 1 /\ (seen \/ unchanged'.beg <= unchanged.beg)
        BY <4>0, <4>3, <1>0
      <4>5. k < from
        BY <4>0, <4>4, <1>g DEF k
      <4> QED BY <3>s, <4>0, <4>1, <4>2, <4>3, <4>4, <4>5
    <3>8. ASSUME NEW from \in Positions, NEW to \in Positions, ModifyOverlay(from, to)
          PROVE PrefixOf(buf', shown', k)
      <4>1. /\ unchanged'.beg = (IF seen THEN from - 1 ELSE Smaller(from - 1, unchanged.beg))
            /\ buf' = buf /\ shown' = shown
        BY <3>8 DEF ModifyOverlay, seen
      <4>2. from - 1 \in Nat /\ from \in 1 .. buf.z
        BY <1>0
      <4>3. unchanged'.beg <= from - 1 /\ (seen \/ unchanged'.beg <= unchanged.beg)
        BY <4>1, <4>2, <1>0 DEF Smaller
      <4>4. k < from
        BY <4>2, <4>3, <1>g DEF k
      <4> QED BY <3>s, <4>1, <4>2, <4>3, <4>4
    <3>9. ASSUME Redisplay \/ \E s \in [1 .. 1 -> Chars] : InsertAndShow(s) PROVE FALSE
      <4>1. shown' = View(buf')
        BY <3>9 DEF Redisplay, InsertAndShow, View, Text, Length, Address
      <4> QED BY <4>1, <2>n
    <3>10. ASSUME ForgetUnchanged PROVE PrefixOf(buf', shown', k)
      <4>1. k = -1 BY <3>10 DEF ForgetUnchanged, k
      <4> QED BY <4>1 DEF PrefixOf
    <3> QED BY <1>c, <2>2, <3>1, <3>2, <3>3, <3>5, <3>6, <3>7, <3>8, <3>9, <3>10 DEF Next, Edit
  <2> QED BY <2>1, <2>v, <2>n
<1> QED BY <1>u, <1>c

(* What redisplay takes for unchanged at the beginning is on the screen, but *)
(* for its last character, as long as beg_unchanged was never beyond the gap *)
(* (insdel.c, xdisp.c try_window_id).                                        *)
THEOREM PrefixIsNearlyShown == Spec => []PrefixNearlyShown
<1>1. Init => BeginningKept
  <2> SUFFICES ASSUME Init PROVE BeginningKept
    OBVIOUS
  <2>1. unchanged.beg = 0 /\ buf.gpt = 1 BY DEF Init
  <2> QED BY <2>1 DEF BeginningKept, PrefixOf
<1>2. TypeOK /\ BeginningKept => PrefixNearlyShown
  <2> SUFFICES ASSUME TypeOK, BeginningKept, ~ahead, NEW i \in 1 .. UnchangedBeg - 1
               PROVE  i <= shown.length /\ Text(buf)[i] = shown.text[i]
    BY DEF PrefixNearlyShown
  <2>1. /\ Buffer(buf) /\ buf.z \in Nat \ {0} /\ buf.gpt \in 1 .. buf.z /\ unchanged.beg \in Nat
        /\ Length(buf) = buf.z - 1
    BY DEF TypeOK, Buffer, Length
  <2>2. i \in 1 .. unchanged.beg - 1 /\ i \in 1 .. Length(buf)
    BY <2>1 DEF UnchangedBeg, Smaller
  <2>3. Text(buf)[i] = CharAt(buf, i)
    BY <2>1, <2>2, TextIsChars
  <2> QED BY <2>2, <2>3 DEF BeginningKept, PrefixOf
<1>3. Spec => []NothingUnseen
  BY SuffixIsShown, PTL
<1> QED BY <1>1, <1>2, <1>3, TypeCorrect, PrefixStep, PTL DEF Spec
=============================================================================
