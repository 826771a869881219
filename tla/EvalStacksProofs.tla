-------------------------- MODULE EvalStacksProofs --------------------------
(***************************************************************************)
(* Proofs about EvalStacks, for any variables, values, tags and limits:    *)
(* the five stacks are restored whichever way a form is left, the forms of *)
(* an unwind-protect are run once and a C-g is kept.  The argument is that *)
(* every frame of the C stack fits the frames under it and the levels it   *)
(* began at, and every unwind form on specpdl the catches it lies between. *)
(* Shallow binding is shown to implement deep binding: specpdl is read as  *)
(* the stack of bindings, a saved value as that of the binding below.      *)
(***************************************************************************)
EXTENDS EvalStacks, SequenceTheorems, FiniteSetTheorems, WellFoundedInduction, TLAPS

Kinds == {"catch", "command", "let", "protect", "condition", "jumped", "handler", "unbind", "forms"}
Catching == {"catch", "condition", "command"}
Frames == [kind : Kinds, what : Conditions \cup Tags \cup {None}, var : Vars \cup {None}, link : Nat,
           depth : Nat, count : Nat, catches : Seq(Nat), handlers : Seq(Nat), quitf : BOOLEAN,
           entered : BOOLEAN, cleaned : Nat]
Entries == [var : Vars \cup {None}, old : Values, owner : Nat]

Typed ==
  /\ stack \in Seq(Frames) /\ pdl \in Seq(Entries) /\ catchlist \in Seq(Nat) /\ handlerlist \in Seq(Nat)
  /\ depth \in Nat /\ value \in [Vars -> Values] /\ quit \in BOOLEAN

(* The levels at which frame I of the stack S is the innermost one.  An      *)
(* unwind_to_catch has reached the innermost catch left.                     *)
Bindings(f) == IF f.kind \in {"let", "protect"} \/ (f.kind = "handler" /\ f.var # None) THEN 1 ELSE 0
Caught(f, i) == IF f.kind \in Catching THEN <<i>> ELSE <<>>
Handled(f, i) == IF f.kind \in {"condition", "command"} THEN <<i>> ELSE <<>>
Within(s, i, d, n, cs, hs) ==
  /\ s[i].kind \notin {"unbind", "forms"} =>
       /\ d = s[i].depth /\ n = s[i].count + Bindings(s[i])
       /\ cs = s[i].catches \o Caught(s[i], i) /\ hs = s[i].handlers \o Handled(s[i], i)
  /\ s[i].kind = "forms" =>
       d = s[i].depth /\ n + 1 = s[i].count /\ cs = s[i].catches /\ hs = s[i].handlers
  /\ s[i].kind = "unbind" /\ s[i].link = 0 =>
       /\ d = s[i - 1].depth /\ n \in {s[i].count, s[i].count + 1}
       /\ cs = s[i - 1].catches /\ hs = s[i - 1].handlers
  /\ s[i].kind = "unbind" /\ s[i].link # 0 =>
       /\ s[i].link \in ToSet(cs)
       /\ s[i].count = s[cs[Len(cs)]].count

(* Frame I began at levels that fit the frame under it.  The forms of an     *)
(* unwind-protect start one entry of specpdl lower.                          *)
Outer(f) == IF f.kind = "forms" THEN f.depth ELSE f.depth - 1
Bottom(f) == IF f.kind = "forms" THEN f.count - 1 ELSE f.count
Catches(s, i) ==
  /\ \A c \in ToSet(s[i].catches) : c \in 1 .. i - 1
  /\ s[i].kind # "unbind" => \A c \in ToSet(s[i].catches) : s[c].count <= Bottom(s[i])
  /\ \A j \in 1 .. i - 1 : s[j].catches = s[i].catches => s[j].handlers = s[i].handlers
  /\ ToSet(s[i].handlers) \subseteq ToSet(s[i].catches) /\ 2 \in ToSet(s[i].handlers)
FrameOK(s, i) ==
  /\ s[i].kind # "command" /\ (s[i].kind = "jumped" => s[i].var # None)
  /\ Catches(s, i)
  /\ s[i].kind # "unbind" => Within(s, i - 1, Outer(s[i]), Bottom(s[i]), s[i].catches, s[i].handlers)
  /\ s[i].kind \notin {"unbind", "forms"} => s[i].depth \in 1 .. MaxDepth
  /\ s[i].kind = "forms" =>
       /\ s[i].link \in 1 .. i - 1 /\ s[s[i].link].kind = "protect" /\ s[i].count = s[s[i].link].count + 1
       /\ s[i].catches = s[s[i].link].catches /\ s[i].handlers = s[s[i].link].handlers
       /\ s[i].depth <= MaxDepth \/ s[i].depth + s[i].count <= MaxDepth + MaxPdl + 1
  /\ s[i].kind = "unbind" /\ s[i].link = 0 =>
       s[i - 1].kind \in {"let", "protect", "handler"} /\ s[i].count = s[i - 1].count
Sound(s) ==
  /\ Len(s) >= 2 /\ s[1] = Base[1] /\ s[2] = Base[2]
  /\ \A i \in 3 .. Len(s) : FrameOK(s, i)

(* Every catch on the list CS remembers the catches before it, and the       *)
(* handlers belong to the catches.                                           *)
Chained(s, cs) ==
  \A k \in 1 .. Len(cs) :
    cs[k] \in 1 .. Len(s) /\ s[cs[k]].kind \in Catching /\ s[cs[k]].catches = SubSeq(cs, 1, k - 1)
Paired(s, cs, hs) ==
  /\ \A i \in 1 .. Len(s) : s[i].catches = cs => s[i].handlers = hs
  /\ ToSet(hs) \subseteq ToSet(cs)

(* Entry N of specpdl belongs to the unwind-protect O: the catches around it *)
(* are those with lower levels.                                              *)
Owned(s, o, n, cs) ==
  /\ o \in 1 .. Len(s) /\ s[o].kind = "protect" /\ s[o].count + 1 = n
  /\ Len(s[o].catches) <= Len(cs) /\ s[o].catches = SubSeq(cs, 1, Len(s[o].catches))
  /\ \A k \in 1 .. Len(cs) : IF k <= Len(s[o].catches) THEN cs[k] < o /\ s[cs[k]].count < n
                             ELSE cs[k] > o /\ s[cs[k]].count >= n
Owners(s, p, cs) == \A n \in 1 .. Len(p) : p[n].owner # 0 => Owned(s, p[n].owner, n, cs)

Owns(p, i) == \E n \in 1 .. Len(p) : p[n].owner = i
Cleaned(s, p) ==
  \A i \in 1 .. Len(s) : s[i].kind = "protect" => s[i].cleaned = IF Owns(p, i) THEN 0 ELSE 1

(* Calls nest deeper than max_lisp_eval_depth only by signals out of unwind  *)
(* forms, each of which takes an entry of specpdl.                           *)
Shallow(s, n, d) ==
  /\ n <= MaxPdl
  /\ s[Len(s)].kind = "unbind" => d <= MaxDepth \/ d + n <= MaxDepth + MaxPdl + 1

Inv ==
  /\ Typed /\ Sound(stack)
  /\ Within(stack, Len(stack), depth, Len(pdl), catchlist, handlerlist)
  /\ Chained(stack, catchlist) /\ Paired(stack, catchlist, handlerlist)
  /\ Owners(stack, pdl, catchlist) /\ Cleaned(stack, pdl)
  /\ Shallow(stack, Len(pdl), depth)

-----------------------------------------------------------------------------
(* Sequences. *)
LEMMA Prefix ==
  ASSUME NEW S, NEW s \in Seq(S), NEW m \in 0 .. Len(s)
  PROVE  /\ SubSeq(s, 1, m) \in Seq(S) /\ Len(SubSeq(s, 1, m)) = m
         /\ \A i \in 1 .. m : SubSeq(s, 1, m)[i] = s[i]
BY SubSeqProperties

(* A prefix of a prefix is a prefix.                                         *)
LEMMA PrefixOfPrefix ==
  ASSUME NEW S, NEW s \in Seq(S), NEW m \in 0 .. Len(s), NEW k \in 0 .. m
  PROVE  SubSeq(SubSeq(s, 1, m), 1, k) = SubSeq(s, 1, k)
<1> DEFINE t == SubSeq(s, 1, m)
<1>1. t \in Seq(S) /\ Len(t) = m /\ \A i \in 1 .. m : t[i] = s[i]
  BY Prefix
<1> HIDE DEF t
<1>2. k \in 0 .. Len(t) /\ k \in 0 .. Len(s)
  BY <1>1
<1>3. /\ SubSeq(t, 1, k) \in Seq(S) /\ Len(SubSeq(t, 1, k)) = k
      /\ \A i \in 1 .. k : SubSeq(t, 1, k)[i] = t[i]
  BY <1>1, <1>2, Prefix
<1>4. /\ SubSeq(s, 1, k) \in Seq(S) /\ Len(SubSeq(s, 1, k)) = k
      /\ \A i \in 1 .. k : SubSeq(s, 1, k)[i] = s[i]
  BY <1>2, Prefix
<1>5. QED BY <1>1, <1>3, <1>4, SeqEqual DEF t

(* A sequence is its longest prefix.                                         *)
LEMMA WholeIsPrefix ==
  ASSUME NEW S, NEW s \in Seq(S)
  PROVE  SubSeq(s, 1, Len(s)) = s
BY SubSeqFull

(* What Append adds, and what it leaves as it was.                           *)
LEMMA Added ==
  ASSUME NEW S, NEW s \in Seq(S), NEW x \in S
  PROVE  /\ Append(s, x) \in Seq(S) /\ Len(Append(s, x)) = Len(s) + 1 /\ Append(s, x)[Len(s) + 1] = x
         /\ \A i \in 1 .. Len(s) : Append(s, x)[i] = s[i]
         /\ \A m \in 0 .. Len(s) : SubSeq(Append(s, x), 1, m) = SubSeq(s, 1, m)
         /\ s \o <<x>> = Append(s, x)
<1> DEFINE t == Append(s, x)
<1>1. /\ t \in Seq(S) /\ Len(t) = Len(s) + 1 /\ t[Len(s) + 1] = x
      /\ \A i \in 1 .. Len(s) : t[i] = s[i]
      /\ s \o <<x>> = t
  OBVIOUS
<1> HIDE DEF t
<1>2. ASSUME NEW m \in 0 .. Len(s) PROVE SubSeq(t, 1, m) = SubSeq(s, 1, m)
  <2>1. m \in 0 .. Len(t)
    BY <1>1
  <2>2. /\ SubSeq(t, 1, m) \in Seq(S) /\ Len(SubSeq(t, 1, m)) = m
        /\ \A i \in 1 .. m : SubSeq(t, 1, m)[i] = t[i]
    BY <1>1, <2>1, Prefix
  <2>3. /\ SubSeq(s, 1, m) \in Seq(S) /\ Len(SubSeq(s, 1, m)) = m
        /\ \A i \in 1 .. m : SubSeq(s, 1, m)[i] = s[i]
    BY Prefix
  <2>4. QED BY <1>1, <2>2, <2>3, SeqEqual
<1>3. QED BY <1>1, <1>2 DEF t

(* Two elements less.                                                        *)
LEMMA TwiceWithout ==
  ASSUME NEW S, NEW s \in Seq(S), Len(s) >= 2
  PROVE  Without(Without(s)) = SubSeq(s, 1, Len(s) - 2)
<1>1. Len(s) - 1 \in 0 .. Len(s) /\ Len(s) - 2 \in 0 .. Len(s) - 1 /\ Len(s) - 1 - 1 = Len(s) - 2
  OBVIOUS
<1>2. Len(Without(s)) = Len(s) - 1
  BY <1>1, Prefix DEF Without
<1>3. Without(Without(s)) = SubSeq(SubSeq(s, 1, Len(s) - 1), 1, Len(s) - 2)
  BY <1>1, <1>2 DEF Without
<1>4. QED BY <1>1, <1>3, PrefixOfPrefix

(* The members of the set of a sequence are its elements.                    *)
LEMMA Members ==
  ASSUME NEW S, NEW s \in Seq(S), NEW x
  PROVE  x \in ToSet(s) <=> \E i \in 1 .. Len(s) : s[i] = x
BY DEF ToSet

-----------------------------------------------------------------------------
(* Two stacks are alike up to frame K, whichever unwind forms were run and     *)
(* whatever C-g unbind_to hides.                                             *)
Alike(s, t, k) ==
  \A i \in 1 .. k :
    /\ t[i].kind = s[i].kind /\ t[i].link = s[i].link /\ t[i].var = s[i].var /\ t[i].depth = s[i].depth
    /\ t[i].count = s[i].count /\ t[i].catches = s[i].catches /\ t[i].handlers = s[i].handlers

(* The levels at a frame are the same in stacks that are alike up to it.     *)
LEMMA AlikeWithin ==
  ASSUME NEW s \in Seq(Frames), NEW t \in Seq(Frames), NEW k \in 2 .. Len(s), k <= Len(t), Alike(s, t, k),
         s[2].kind = "command",
         NEW d, NEW n, NEW cs \in Seq(Nat), NEW hs, \A c \in ToSet(cs) : c \in 1 .. k,
         Within(s, k, d, n, cs, hs)
  PROVE  Within(t, k, d, n, cs, hs)
<1>1. k \in 1 .. k /\ k - 1 \in 1 .. k
  OBVIOUS
<1>0. /\ t[k].kind = s[k].kind /\ t[k].link = s[k].link /\ t[k].var = s[k].var /\ t[k].depth = s[k].depth
      /\ t[k].count = s[k].count /\ t[k].catches = s[k].catches /\ t[k].handlers = s[k].handlers
  BY <1>1 DEF Alike
<1>2. CASE t[k].kind = "unbind" /\ t[k].link # 0
  <2>1. cs # <<>>
    BY <1>2 DEF Within, Alike, ToSet
  <2>2. cs[Len(cs)] \in 1 .. k
    BY <2>1 DEF ToSet
  <2>3. s[cs[Len(cs)]].count = t[cs[Len(cs)]].count
    BY <2>2 DEF Alike
  <2>4. QED BY <1>0, <1>2, <2>3 DEF Within
<1>3. CASE t[k].kind = "unbind" /\ t[k].link = 0
  <2>1. /\ t[k - 1].depth = s[k - 1].depth /\ t[k - 1].catches = s[k - 1].catches
        /\ t[k - 1].handlers = s[k - 1].handlers
    BY <1>1 DEF Alike
  <2>2. QED BY <1>0, <1>3, <2>1 DEF Within
<1>4. CASE t[k].kind # "unbind"
  BY <1>0, <1>4 DEF Within, Bindings, Caught, Handled
<1>5. QED BY <1>2, <1>3, <1>4

(* A frame that fits one stack fits another that is alike up to it.          *)
LEMMA AlikeFrame ==
  ASSUME NEW s \in Seq(Frames), NEW t \in Seq(Frames), NEW i \in 3 .. Len(s), i <= Len(t), Alike(s, t, i),
         s[2].kind = "command", FrameOK(s, i)
  PROVE  FrameOK(t, i)
<1>1. i \in 1 .. i /\ i - 1 \in 1 .. i
  OBVIOUS
<1>2. t[i].catches = s[i].catches /\ s[i].catches \in Seq(Nat) /\ \A c \in ToSet(s[i].catches) : c \in 1 .. i - 1
  <2>1. s[i] \in Frames
    OBVIOUS
  <2>2. s[i].catches \in Seq(Nat)
    BY <2>1 DEF Frames
  <2>3. QED BY <1>1, <2>2 DEF Alike, FrameOK, Catches
<1>3. Catches(t, i)
  BY <1>1, <1>2 DEF Alike, FrameOK, Catches, Bottom
<1>4. t[i].kind # "unbind" => Within(t, i - 1, Outer(t[i]), Bottom(t[i]), t[i].catches, t[i].handlers)
  <2> SUFFICES ASSUME s[i].kind # "unbind"
               PROVE  Within(t, i - 1, Outer(s[i]), Bottom(s[i]), s[i].catches, s[i].handlers)
    BY <1>1 DEF Alike, Outer, Bottom
  <2>1. Within(s, i - 1, Outer(s[i]), Bottom(s[i]), s[i].catches, s[i].handlers)
    BY DEF FrameOK
  <2>2. Alike(s, t, i - 1) /\ i - 1 \in 2 .. Len(s) /\ i - 1 <= Len(t)
    BY DEF Alike
  <2>3. QED BY <1>2, <2>1, <2>2, AlikeWithin
<1>5. QED BY <1>1, <1>3, <1>4 DEF Alike, FrameOK

(* A stack fits if it is alike to one that does and the frames above fit.    *)
LEMMA AlikeSound ==
  ASSUME NEW s \in Seq(Frames), Sound(s), NEW t \in Seq(Frames), NEW k \in 2 .. Len(s), k <= Len(t),
         Alike(s, t, k), t[1] = s[1], t[2] = s[2],
         \A i \in k + 1 .. Len(t) : i >= 3 => FrameOK(t, i)
  PROVE  Sound(t)
<1>1. s[2].kind = "command"
  BY DEF Sound, Base, Loop
<1>2. ASSUME NEW i \in 3 .. Len(t), i <= k PROVE FrameOK(t, i)
  <2>1. i \in 3 .. Len(s) /\ Alike(s, t, i) /\ FrameOK(s, i)
    BY <1>2 DEF Alike, Sound
  <2>2. QED BY <1>1, <2>1, AlikeFrame
<1>3. QED BY <1>2 DEF Sound

(* Catches are chained alike in stacks that are alike up to the last of      *)
(* them.                                                                     *)
LEMMA AlikeChained ==
  ASSUME NEW s, NEW t, NEW k \in Nat, k <= Len(t), Len(t) \in Nat, Alike(s, t, k),
         NEW cs \in Seq(Nat), \A j \in 1 .. Len(cs) : cs[j] \in 1 .. k, Chained(s, cs)
  PROVE  Chained(t, cs)
<1> SUFFICES ASSUME NEW j \in 1 .. Len(cs)
             PROVE  cs[j] \in 1 .. Len(t) /\ t[cs[j]].kind \in Catching /\ t[cs[j]].catches = SubSeq(cs, 1, j - 1)
  BY DEF Chained
<1>1. s[cs[j]].kind \in Catching /\ s[cs[j]].catches = SubSeq(cs, 1, j - 1)
  BY DEF Chained
<1>2. cs[j] \in 1 .. k /\ t[cs[j]].kind = s[cs[j]].kind /\ t[cs[j]].catches = s[cs[j]].catches
  BY DEF Alike
<1>3. QED BY <1>1, <1>2

(* Entries of specpdl are owned alike.                                       *)
LEMMA AlikeOwners ==
  ASSUME NEW s, NEW t, NEW k \in Nat, k <= Len(t), Len(t) \in Nat, Alike(s, t, k),
         NEW cs \in Seq(Nat), \A j \in 1 .. Len(cs) : cs[j] \in 1 .. k,
         NEW o \in 1 .. k, NEW n, Owned(s, o, n, cs)
  PROVE  Owned(t, o, n, cs)
<1>1. /\ t[o].kind = s[o].kind /\ t[o].count = s[o].count /\ t[o].catches = s[o].catches
      /\ \A j \in 1 .. Len(cs) : t[cs[j]].count = s[cs[j]].count
  BY DEF Alike
<1>2. o \in 1 .. Len(t)
  OBVIOUS
<1>3. QED BY <1>1, <1>2 DEF Owned

-----------------------------------------------------------------------------
(* The frames of the command loop are outermost. *)
LEMMA Loops ==
  ASSUME NEW s, Sound(s)
  PROVE  /\ s[1].kind = "catch" /\ s[1].catches = <<>> /\ s[1].handlers = <<>> /\ s[1].count = 0
         /\ s[2].kind = "command" /\ s[2].catches = <<1>> /\ s[2].handlers = <<>> /\ s[2].count = 0
         /\ s[1].depth = 0 /\ s[2].depth = 0
BY DEF Sound, Base, Loop

(* What the invariant says of the top of the stack and of the lists.         *)
LEMMA Innermosts ==
  ASSUME Inv
  PROVE  /\ stack \in Seq(Frames) /\ Len(stack) \in Nat /\ Len(stack) >= 2 /\ Top = stack[Len(stack)]
         /\ Top \in Frames /\ Top.catches \in Seq(Nat) /\ Top.handlers \in Seq(Nat)
         /\ catchlist \in Seq(Nat) /\ handlerlist \in Seq(Nat) /\ pdl \in Seq(Entries) /\ Len(pdl) \in Nat
         /\ \A k \in 1 .. Len(catchlist) : catchlist[k] \in 1 .. Len(stack)
         /\ \A c \in ToSet(catchlist) : c \in 1 .. Len(stack)
         /\ Len(stack) = 2 \/ FrameOK(stack, Len(stack))
<1>1. stack \in Seq(Frames) /\ catchlist \in Seq(Nat) /\ pdl \in Seq(Entries) /\ handlerlist \in Seq(Nat)
      /\ Sound(stack) /\ Chained(stack, catchlist)
  BY DEF Inv, Typed
<1>2. Len(stack) \in Nat /\ Len(stack) >= 2 /\ Top = stack[Len(stack)] /\ Top \in Frames
  BY <1>1 DEF Sound, Top
<1>3. Top.catches \in Seq(Nat) /\ Top.handlers \in Seq(Nat)
  BY <1>2 DEF Frames
<1>4. \A k \in 1 .. Len(catchlist) : catchlist[k] \in 1 .. Len(stack)
  BY <1>1 DEF Chained
<1>5. \A c \in ToSet(catchlist) : c \in 1 .. Len(stack)
  BY <1>1, <1>4, Members
<1>6. Len(stack) = 2 \/ FrameOK(stack, Len(stack))
  <2>1. Len(stack) = 2 \/ Len(stack) \in 3 .. Len(stack)
    BY <1>2
  <2>2. QED BY <1>1, <2>1 DEF Sound
<1>7. QED BY <1>1, <1>2, <1>3, <1>4, <1>5, <1>6

(* Handlers belong to the catches around a frame. *)
LEMMA SamePairs ==
  ASSUME NEW s \in Seq(Frames), Sound(s), NEW i \in 1 .. Len(s), NEW j \in 1 .. Len(s), s[i].catches = s[j].catches
  PROVE  s[i].handlers = s[j].handlers
<1>1. ASSUME NEW a \in 1 .. Len(s), NEW b \in 1 .. Len(s), a < b, s[a].catches = s[b].catches
      PROVE  s[a].handlers = s[b].handlers
  <2>1. CASE b >= 3
    BY <1>1, <2>1 DEF Sound, FrameOK, Catches
  <2>2. CASE b < 3
    BY <1>1, <2>2, Loops
  <2>3. QED BY <2>1, <2>2
<1>2. QED BY <1>1

(* Where Lisp runs, or is about to, all catches lie at or under the top of   *)
(* specpdl and the command loop handles every condition.                     *)
LEMMA Levels ==
  ASSUME Inv, Top.kind # "unbind"
  PROVE  /\ \A c \in ToSet(catchlist) : stack[c].count <= Len(pdl)
         /\ 2 \in ToSet(handlerlist) /\ ToSet(handlerlist) \subseteq ToSet(catchlist)
         /\ Top.kind # "forms" => depth <= MaxDepth /\ depth = Top.depth
<1>1. /\ stack \in Seq(Frames) /\ Len(stack) \in Nat /\ Len(stack) >= 2 /\ Top = stack[Len(stack)]
      /\ Top \in Frames /\ Top.catches \in Seq(Nat) /\ Top.handlers \in Seq(Nat)
      /\ (Len(stack) = 2 \/ FrameOK(stack, Len(stack)))
      /\ Len(pdl) \in Nat
  BY Innermosts
<1>2. Sound(stack) /\ Within(stack, Len(stack), depth, Len(pdl), catchlist, handlerlist)
      /\ ToSet(handlerlist) \subseteq ToSet(catchlist)
  BY DEF Inv, Paired
<1>3. CASE Len(stack) = 2
  <2>1. /\ Top.kind = "command" /\ Top.catches = <<1>> /\ Top.handlers = <<>> /\ Top.count = 0 /\ Top.depth = 0
        /\ stack[1].count = 0
    BY <1>1, <1>2, <1>3, Loops
  <2>2. catchlist = <<1>> \o << 2 >> /\ handlerlist = <<>> \o << 2 >> /\ depth = 0
    BY <1>1, <1>2, <1>3, <2>1 DEF Within, Caught, Handled, Catching
  <2>3. ToSet(catchlist) = {1, 2} /\ ToSet(handlerlist) = {2}
    <3>1. <<1>> \in Seq(Nat) /\ Len(<<1>>) = 1 /\ <<1>>[1] = 1 /\ <<>> \in Seq(Nat) /\ Len(<<>>) = 0
      OBVIOUS
    <3>2. catchlist = Append(<<1>>, 2) /\ handlerlist = Append(<<>>, 2)
      BY <2>2, <3>1, Added
    <3>3. catchlist \in Seq(Nat) /\ Len(catchlist) = 2 /\ catchlist[1] = 1 /\ catchlist[2] = 2
      BY <3>1, <3>2, Added
    <3>4. handlerlist \in Seq(Nat) /\ Len(handlerlist) = 1 /\ handlerlist[1] = 2
      BY <3>1, <3>2, Added
    <3>5. ToSet(catchlist) = {catchlist[1], catchlist[2]}
      BY <3>3 DEF ToSet
    <3>6. ToSet(handlerlist) = {handlerlist[1]}
      BY <3>4 DEF ToSet
    <3>7. QED BY <3>3, <3>4, <3>5, <3>6
  <2>4. MaxDepth \in Nat
    BY BoundAssumption
  <2>5. QED BY <1>1, <1>2, <1>3, <2>1, <2>2, <2>3, <2>4
<1>4. CASE Len(stack) # 2
  <2>0. FrameOK(stack, Len(stack))
    BY <1>1, <1>4
  <2>1. FrameOK(stack, Len(stack)) /\ Len(stack) \in 3 .. Len(stack)
    <3>1. Len(stack) \in Nat /\ Len(stack) >= 2 /\ Len(stack) # 2
      BY <1>1, <1>4
    <3>2. \A l \in Nat : l >= 2 /\ l # 2 => l \in 3 .. l
      OBVIOUS
    <3>3. QED BY <2>0, <3>1, <3>2
  <2>2. /\ \A c \in ToSet(Top.catches) : c \in 1 .. Len(stack) - 1 /\ stack[c].count <= Bottom(Top)
        /\ 2 \in ToSet(Top.handlers)
    BY <1>1, <2>1 DEF FrameOK, Catches
  <2>3. CASE Top.kind = "forms"
    <3>1. Len(pdl) + 1 = Top.count /\ catchlist = Top.catches /\ handlerlist = Top.handlers
      BY <1>1, <1>2, <2>3 DEF Within
    <3>2. Bottom(Top) = Len(pdl)
      <4>1. Top.count \in Nat /\ Bottom(Top) = Top.count - 1
        BY <1>1, <2>3 DEF Bottom, Frames
      <4>2. QED BY <1>1, <3>1, <4>1
    <3>3. QED BY <1>2, <2>2, <2>3, <3>1, <3>2
  <2>4. CASE Top.kind # "forms"
    <3>1. /\ Len(pdl) = Top.count + Bindings(Top) /\ depth = Top.depth /\ depth <= MaxDepth
          /\ catchlist = Top.catches \o Caught(Top, Len(stack)) /\ handlerlist = Top.handlers \o Handled(Top, Len(stack))
      <4>1. Top.kind \notin {"unbind", "forms"}
        BY <2>4
      <4>2. Top.depth \in 1 .. MaxDepth /\ MaxDepth \in Nat
        BY <1>1, <2>1, <4>1, BoundAssumption DEF FrameOK
      <4>3. /\ depth = Top.depth /\ Len(pdl) = Top.count + Bindings(Top)
            /\ catchlist = Top.catches \o Caught(Top, Len(stack)) /\ handlerlist = Top.handlers \o Handled(Top, Len(stack))
        BY <1>1, <1>2, <4>1 DEF Within
      <4>4. QED BY <4>2, <4>3
    <3>2. /\ \A c \in ToSet(catchlist) : c \in ToSet(Top.catches) \/ (c = Len(stack) /\ Bindings(Top) = 0)
      <4>1. CASE Top.kind \in Catching
        <5>1. catchlist = Append(Top.catches, Len(stack)) /\ Bindings(Top) = 0
          BY <1>1, <3>1, <4>1, Added DEF Caught, Bindings, Catching
        <5>2. QED BY <1>1, <5>1, Added DEF ToSet
      <4>2. CASE Top.kind \notin Catching
        BY <1>1, <3>1, <4>2 DEF Caught
      <4>3. QED BY <4>1, <4>2
    <3>3. 2 \in ToSet(handlerlist)
      <4>1. PICK k \in 1 .. Len(Top.handlers) : Top.handlers[k] = 2
        BY <1>1, <2>2, Members
      <4>2. Handled(Top, Len(stack)) \in Seq(Nat)
        BY <1>1 DEF Handled
      <4>3. k \in 1 .. Len(handlerlist) /\ handlerlist[k] = 2
        <5> DEFINE h == Handled(Top, Len(stack))
                   t == Top.handlers
        <5>1. t \in Seq(Nat) /\ h \in Seq(Nat) /\ handlerlist = t \o h /\ k \in 1 .. Len(t) /\ t[k] = 2
          BY <1>1, <3>1, <4>1, <4>2
        <5> HIDE DEF h, t
        <5>2. QED BY <5>1
      <4>4. QED BY <4>3 DEF ToSet
    <3>4. Bottom(Top) = Top.count /\ Top.count \in Nat /\ Bindings(Top) \in Nat
      BY <1>1, <2>4 DEF Bottom, Frames, Bindings
    <3>5. ASSUME NEW c \in ToSet(catchlist) PROVE stack[c].count <= Len(pdl)
      <4>1. CASE c \in ToSet(Top.catches)
        <5>1. stack[c].count <= Top.count /\ stack[c] \in Frames
          BY <1>1, <2>2, <3>4, <4>1
        <5>2. QED BY <3>1, <3>4, <5>1 DEF Frames
      <4>2. CASE c = Len(stack) /\ Bindings(Top) = 0
        BY <1>1, <3>1, <3>4, <4>2
      <4>3. QED BY <3>2, <4>1, <4>2
    <3>6. QED BY <1>2, <3>1, <3>3, <3>5
  <2>5. QED BY <1>2, <2>3, <2>4
<1>5. QED BY <1>3, <1>4

-----------------------------------------------------------------------------
(* A frame F is pushed, and perhaps the forms of a frame under it are noted  *)
(* as run: T is the new stack.                                               *)
LEMMA Pushed ==
  ASSUME Inv, NEW t \in Seq(Frames), Len(t) = Len(stack) + 1, Alike(stack, t, Len(stack)),
         t[1] = stack[1], t[2] = stack[2],
         t[Len(t)].catches = catchlist, t[Len(t)].handlers = handlerlist
  PROVE  /\ FrameOK(t, Len(t)) => Sound(t)
         /\ Chained(t, catchlist) /\ Owners(t, pdl, catchlist) /\ Paired(t, catchlist, handlerlist)
         /\ 2 \in ToSet(handlerlist) /\ (t[Len(t)].kind # "unbind" => \A c \in ToSet(catchlist) : stack[c].count <= Bottom(t[Len(t)]))
              => Catches(t, Len(t))
<1> DEFINE k == Len(stack)
<1>1. /\ stack \in Seq(Frames) /\ k \in Nat /\ k >= 2 /\ catchlist \in Seq(Nat) /\ pdl \in Seq(Entries)
      /\ \A j \in 1 .. Len(catchlist) : catchlist[j] \in 1 .. k
      /\ \A c \in ToSet(catchlist) : c \in 1 .. k
  BY Innermosts
<1>2. /\ Sound(stack) /\ Chained(stack, catchlist) /\ Owners(stack, pdl, catchlist) /\ Paired(stack, catchlist, handlerlist)
  BY DEF Inv
<1>3. Len(t) = k + 1 /\ Alike(stack, t, k) /\ k <= Len(t) /\ k \in 2 .. Len(stack)
  BY <1>1
<1> HIDE DEF k
<1>4. ASSUME FrameOK(t, Len(t)) PROVE Sound(t)
  <2>1. \A i \in k + 1 .. Len(t) : i = Len(t)
    BY <1>1, <1>3
  <2>2. \A i \in k + 1 .. Len(t) : i >= 3 => FrameOK(t, i)
    BY <1>4, <2>1
  <2>3. Sound(stack) /\ Alike(stack, t, k) /\ k \in 2 .. Len(stack) /\ k <= Len(t)
    BY <1>2, <1>3
  <2>4. QED BY <1>1, <2>2, <2>3, AlikeSound
<1>5. Chained(t, catchlist)
  <2>1. Len(t) \in Nat /\ k \in Nat /\ k <= Len(t) /\ Alike(stack, t, k) /\ Chained(stack, catchlist)
    BY <1>1, <1>2, <1>3
  <2>2. QED BY <1>1, <2>1, AlikeChained
<1>6. Owners(t, pdl, catchlist)
  <2> SUFFICES ASSUME NEW n \in 1 .. Len(pdl), pdl[n].owner # 0
               PROVE  Owned(t, pdl[n].owner, n, catchlist)
    BY DEF Owners
  <2>1. Owned(stack, pdl[n].owner, n, catchlist)
    BY <1>2 DEF Owners
  <2>2. pdl[n].owner \in 1 .. k
    BY <2>1 DEF Owned, k
  <2>3. QED BY SMTT(30), <1>1, <1>3, <2>1, <2>2, AlikeOwners
<1>7. \A i \in 1 .. k : t[i].catches = stack[i].catches /\ t[i].handlers = stack[i].handlers /\ t[i].count = stack[i].count
  BY <1>3 DEF Alike
<1>8. Paired(t, catchlist, handlerlist)
  <2>1. \A i \in 1 .. Len(t) : i = Len(t) \/ i \in 1 .. k
    BY <1>1, <1>3
  <2>2. \A i \in 1 .. k : stack[i].catches = catchlist => stack[i].handlers = handlerlist
    BY <1>2 DEF Paired, k
  <2>3. QED BY <1>2, <1>7, <2>1, <2>2 DEF Paired
<1>9. ASSUME 2 \in ToSet(handlerlist),
             t[Len(t)].kind # "unbind" => \A c \in ToSet(catchlist) : stack[c].count <= Bottom(t[Len(t)])
      PROVE  Catches(t, Len(t))
  <2>1. Len(t) - 1 = k
    BY <1>1, <1>3
  <2>2. \A i \in 1 .. k : t[i].catches = catchlist => t[i].handlers = handlerlist
    BY <1>7, <1>2 DEF Paired, k
  <2>3. ToSet(handlerlist) \subseteq ToSet(catchlist)
    BY <1>2 DEF Paired
  <2>4. QED BY <1>1, <1>7, <1>9, <2>1, <2>2, <2>3 DEF Catches
<1>10. QED BY <1>4, <1>5, <1>6, <1>8, <1>9

(* unbind_to and unwind_to_catch begin. *)
LEMMA UnwindStep ==
  ASSUME Inv, NEW f \in Frames, f.kind = "unbind", f.catches = catchlist, f.handlers = handlerlist,
         Top.kind # "unbind",
         \/ /\ f.link = 0 /\ Top.kind \in {"let", "protect", "handler"}
            /\ f.count = Top.count /\ depth' = depth
         \/ /\ f.link # 0 /\ f.link \in ToSet(catchlist)
            /\ f.count = stack[catchlist[Len(catchlist)]].count /\ depth' \in {depth, depth + 1},
         stack' = Append(stack, f), quit' \in BOOLEAN, UNCHANGED <<pdl, catchlist, handlerlist, value>>
  PROVE  Inv'
<1> DEFINE k == Len(stack)
           t == Append(stack, f)
<1>1. /\ stack \in Seq(Frames) /\ k \in Nat /\ k >= 2 /\ Top = stack[k] /\ Top \in Frames /\ Top.catches \in Seq(Nat)
      /\ Top.handlers \in Seq(Nat) /\ catchlist \in Seq(Nat) /\ Len(pdl) \in Nat
      /\ (k = 2 \/ FrameOK(stack, k))
      /\ \A c \in ToSet(catchlist) : c \in 1 .. k
  BY Innermosts
<1>2. /\ t \in Seq(Frames) /\ Len(t) = k + 1 /\ t[k + 1] = f /\ \A i \in 1 .. k : t[i] = stack[i]
  BY <1>1, Added
<1>3. stack' = t
  OBVIOUS
<1> HIDE DEF k, t
<1>4. t[1] = stack[1] /\ t[2] = stack[2] /\ t[k] = stack[k] /\ Alike(stack, t, k)
  BY SMTT(30), <1>1, <1>2 DEF Alike
<1>5. /\ 2 \in ToSet(handlerlist)
      /\ Top.kind # "forms" => depth <= MaxDepth /\ depth = Top.depth
  BY Levels
<1>6. /\ FrameOK(t, Len(t)) => Sound(t)
      /\ Chained(t, catchlist) /\ Owners(t, pdl, catchlist) /\ Paired(t, catchlist, handlerlist)
      /\ Catches(t, Len(t))
  BY <1>2, <1>4, <1>5, Pushed DEF k
<1>7. FrameOK(t, Len(t))
  <2>1. f.link = 0 => t[k].kind \in {"let", "protect", "handler"} /\ f.count = t[k].count
    BY <1>1, <1>4
  <2>2. Len(t) - 1 = k
    BY <1>1, <1>2
  <2>3. QED BY <1>2, <1>6, <2>1, <2>2 DEF FrameOK
<1>8. Within(t, Len(t), depth', Len(pdl), catchlist, handlerlist)
  <2>1. CASE f.link = 0
    <3>1. Within(stack, k, depth, Len(pdl), catchlist, handlerlist) /\ Top.kind \in {"let", "protect", "handler"}
      BY <2>1 DEF Inv, k
    <3>2. /\ depth = Top.depth /\ Len(pdl) = Top.count + Bindings(Top)
          /\ catchlist = Top.catches \o <<>> /\ handlerlist = Top.handlers \o <<>>
      BY <1>1, <3>1 DEF Within, Caught, Handled, Catching
    <3>3. catchlist = Top.catches /\ handlerlist = Top.handlers
      BY <1>1, <3>2
    <3>4. Len(pdl) \in {Top.count, Top.count + 1}
      <4>1. Bindings(Top) \in {0, 1} /\ Top.count \in Nat
        BY <1>1 DEF Bindings, Frames
      <4>2. QED BY <3>2, <4>1
    <3>5. depth' = Top.depth /\ f.count = Top.count
      BY <2>1, <3>2
    <3>6. Len(t) - 1 = k /\ t[Len(t)] = f /\ t[k] = Top
      BY <1>1, <1>2, <1>4
    <3>7. QED BY <2>1, <3>3, <3>4, <3>5, <3>6 DEF Within
  <2>2. CASE f.link # 0
    <3>1. catchlist[Len(catchlist)] \in 1 .. k
      BY <1>1, <2>2 DEF ToSet
    <3>2. t[catchlist[Len(catchlist)]] = stack[catchlist[Len(catchlist)]]
      BY <1>2, <3>1
    <3>3. t[Len(t)] = f
      BY <1>2
    <3>4. QED BY <2>2, <3>2, <3>3 DEF Within
  <2>3. QED BY <2>1, <2>2
<1>9. Cleaned(t, pdl)
  <2>1. \A i \in 1 .. Len(t) : i = k + 1 \/ i \in 1 .. k
    BY <1>1, <1>2
  <2>2. Cleaned(stack, pdl)
    BY DEF Inv
  <2>3. QED BY <1>2, <2>1, <2>2 DEF Cleaned, k
<1>10. Shallow(t, Len(pdl), depth')
  <2>0. MaxDepth \in Nat /\ MaxPdl \in Nat /\ depth \in Nat
    BY BoundAssumption DEF Inv, Typed
  <2>1. Len(pdl) <= MaxPdl
    BY DEF Inv, Shallow
  <2>2. depth' \in {depth, depth + 1}
    OBVIOUS
  <2>3. CASE depth <= MaxDepth
    <3>1. depth' <= MaxDepth \/ depth' + Len(pdl) <= MaxDepth + MaxPdl + 1
      BY <1>1, <2>0, <2>1, <2>2, <2>3
    <3>2. QED BY <2>1, <3>1 DEF Shallow
  <2>4. CASE ~(depth <= MaxDepth)
    <3>1. Top.kind = "forms"
      BY <1>5, <2>4
    <3>2. k # 2
      BY <1>1, <3>1, Loops DEF Inv
    <3>3. FrameOK(stack, k)
      BY <1>1, <3>2
    <3>4. Within(stack, k, depth, Len(pdl), catchlist, handlerlist)
      BY DEF Inv, k
    <3>5. depth = Top.depth /\ Len(pdl) + 1 = Top.count
      BY <1>1, <3>1, <3>4 DEF Within
    <3>6. Top.depth <= MaxDepth \/ Top.depth + Top.count <= MaxDepth + MaxPdl + 1
      BY <1>1, <3>1, <3>3 DEF FrameOK
    <3>7. depth' + Len(pdl) <= MaxDepth + MaxPdl + 1
      <4>1. depth + Top.count <= MaxDepth + MaxPdl + 1
        BY <2>4, <3>5, <3>6
      <4>2. Top.count \in Nat
        BY <1>1 DEF Frames
      <4>3. Len(pdl) + 1 = Top.count
        BY <3>5
      <4> HIDE DEF k
      <4>4. QED BY SMTT(30), <1>1, <2>0, <2>2, <4>1, <4>2, <4>3
    <3>8. QED BY <2>1, <3>7 DEF Shallow
  <2>5. QED BY <2>3, <2>4
<1>11. Typed'
  <2>1. depth' \in Nat
    BY DEF Inv, Typed
  <2>2. QED BY <1>2, <1>3, <2>1 DEF Inv, Typed
<1>12. QED BY <1>3, <1>6, <1>7, <1>8, <1>9, <1>10, <1>11 DEF Inv

(* A special form begins: its frame F fits. *)
LEMMA Begins ==
  ASSUME Inv, Top.kind \notin {"unbind", "jumped"}, depth < MaxDepth,
         NEW f \in Frames, f.kind \in {"let", "protect", "catch", "condition"}, f.depth = depth + 1,
         f.count = Len(pdl), f.catches = catchlist, f.handlers = handlerlist
  PROVE  LET k == Len(stack)
             t == Append(stack, f)
         IN /\ t \in Seq(Frames) /\ Len(t) = k + 1 /\ t[k + 1] = f /\ \A i \in 1 .. k : t[i] = stack[i]
            /\ Sound(t) /\ Chained(t, catchlist) /\ Owners(t, pdl, catchlist) /\ Paired(t, catchlist, handlerlist)
            /\ \A i \in 1 .. Len(t) : \A c \in ToSet(t[i].catches) : c < i
<1> DEFINE k == Len(stack)
           t == Append(stack, f)
<1>1. /\ stack \in Seq(Frames) /\ k \in Nat /\ k >= 2 /\ Top = stack[k] /\ Top \in Frames
      /\ catchlist \in Seq(Nat) /\ Len(pdl) \in Nat
      /\ \A c \in ToSet(catchlist) : c \in 1 .. k
  BY Innermosts
<1>2. /\ t \in Seq(Frames) /\ Len(t) = k + 1 /\ t[k + 1] = f /\ \A i \in 1 .. k : t[i] = stack[i]
  BY <1>1, Added
<1> HIDE DEF k, t
<1>3. t[1] = stack[1] /\ t[2] = stack[2] /\ Alike(stack, t, k)
  BY <1>1, <1>2 DEF Alike
<1>4. /\ 2 \in ToSet(handlerlist)
      /\ \A c \in ToSet(catchlist) : stack[c].count <= Len(pdl)
  BY Levels
<1>5. Bottom(f) = Len(pdl) /\ Outer(f) = depth
  <2>1. depth \in Nat
    BY DEF Inv, Typed
  <2>2. QED BY <2>1 DEF Bottom, Outer
<1>6. /\ FrameOK(t, Len(t)) => Sound(t)
      /\ Chained(t, catchlist) /\ Owners(t, pdl, catchlist) /\ Paired(t, catchlist, handlerlist)
      /\ Catches(t, Len(t))
  BY <1>2, <1>3, <1>4, <1>5, Pushed DEF k
<1>7. FrameOK(t, Len(t))
  <2>1. Within(stack, k, depth, Len(pdl), catchlist, handlerlist) /\ stack[2].kind = "command"
    BY Loops DEF Inv, k
  <2>2. Within(t, k, depth, Len(pdl), catchlist, handlerlist)
    <3>1. k \in 2 .. Len(stack) /\ k <= Len(t)
      BY <1>1, <1>2 DEF k
    <3>2. QED BY SMTT(30), <1>1, <1>2, <1>3, <2>1, <3>1, AlikeWithin
  <2>3. Len(t) - 1 = k /\ t[Len(t)] = f
    BY <1>1, <1>2
  <2>4. f.depth \in 1 .. MaxDepth
    BY BoundAssumption DEF Inv, Typed
  <2>5. QED BY <1>5, <1>6, <2>2, <2>3, <2>4 DEF FrameOK
<1>8. Sound(t)
  BY <1>6, <1>7
<1>9. ASSUME NEW i \in 1 .. Len(t), NEW c \in ToSet(t[i].catches) PROVE c < i
  <2>1. CASE i < 3
    <3>1. i = 1 \/ i = 2
      BY <1>1, <1>2, <2>1
    <3>2. ToSet(<<>>) = {} /\ ToSet(<<1>>) = {1}
      BY DEF ToSet
    <3>3. QED BY <1>8, <1>9, <3>1, <3>2, Loops
  <2>2. CASE i >= 3
    <3>1. i \in 3 .. Len(t)
      BY <2>2
    <3>2. c \in 1 .. i - 1
      BY <1>8, <1>9, <3>1 DEF Sound, FrameOK, Catches
    <3>3. QED BY <3>1, <3>2
  <2>3. QED BY <1>1, <1>2, <2>1, <2>2
<1>10. QED BY <1>2, <1>6, <1>8, <1>9 DEF k, t

(* let, and unwind-protect: an entry E of specpdl. *)
LEMMA BindStep ==
  ASSUME Inv, Top.kind \notin {"unbind", "jumped"}, depth < MaxDepth, Len(pdl) < MaxPdl,
         NEW f \in Frames, f.kind \in {"let", "protect"}, f.depth = depth + 1,
         f.count = Len(pdl), f.catches = catchlist, f.handlers = handlerlist, f.cleaned = 0,
         NEW e \in Entries, e.owner = IF f.kind = "protect" THEN Len(stack) + 1 ELSE 0,
         stack' = Append(stack, f), depth' = depth + 1, pdl' = Append(pdl, e), value' \in [Vars -> Values],
         UNCHANGED <<catchlist, handlerlist, quit>>
  PROVE  Inv'
<1> DEFINE k == Len(stack)
           t == Append(stack, f)
           p == Append(pdl, e)
<1>1. /\ stack \in Seq(Frames) /\ k \in Nat /\ k >= 2 /\ catchlist \in Seq(Nat) /\ handlerlist \in Seq(Nat)
      /\ pdl \in Seq(Entries) /\ Len(pdl) \in Nat
      /\ \A j \in 1 .. Len(catchlist) : catchlist[j] \in 1 .. k /\ stack[catchlist[j]].count <= Len(pdl)
  <2>1. /\ stack \in Seq(Frames) /\ k \in Nat /\ k >= 2 /\ catchlist \in Seq(Nat) /\ handlerlist \in Seq(Nat)
        /\ pdl \in Seq(Entries) /\ Len(pdl) \in Nat
        /\ \A j \in 1 .. Len(catchlist) : catchlist[j] \in 1 .. k
    BY Innermosts
  <2>2. \A c \in ToSet(catchlist) : stack[c].count <= Len(pdl)
    BY Levels
  <2>3. \A j \in 1 .. Len(catchlist) : catchlist[j] \in ToSet(catchlist)
    BY DEF ToSet
  <2> HIDE DEF k
  <2>4. QED BY <2>1, <2>2, <2>3
<1>2. /\ t \in Seq(Frames) /\ Len(t) = k + 1 /\ t[k + 1] = f /\ \A i \in 1 .. k : t[i] = stack[i]
      /\ Sound(t) /\ Chained(t, catchlist) /\ Owners(t, pdl, catchlist) /\ Paired(t, catchlist, handlerlist)
  BY Begins
<1>3. /\ p \in Seq(Entries) /\ Len(p) = Len(pdl) + 1 /\ p[Len(pdl) + 1] = e
      /\ \A n \in 1 .. Len(pdl) : p[n] = pdl[n]
  BY <1>1, Added
<1>4. stack' = t /\ pdl' = p
  OBVIOUS
<1> HIDE DEF k, t, p
<1>5. Within(t, Len(t), depth', Len(p), catchlist, handlerlist)
  <2>1. f.kind \notin {"unbind", "forms"} /\ Bindings(f) = 1 /\ Caught(f, Len(t)) = <<>> /\ Handled(f, Len(t)) = <<>>
    BY DEF Bindings, Caught, Handled, Catching
  <2>2. catchlist = catchlist \o <<>> /\ handlerlist = handlerlist \o <<>>
    BY <1>1
  <2>3. QED BY <1>2, <1>3, <2>1, <2>2 DEF Within
<1>6. \A n \in 1 .. Len(p) : n \in 1 .. Len(pdl) \/ n = Len(pdl) + 1
  BY <1>1, <1>3
<1>7. Owners(t, p, catchlist)
  <2>1. ASSUME f.kind = "protect" PROVE Owned(t, k + 1, Len(pdl) + 1, catchlist)
    <3>1. k + 1 \in 1 .. Len(t) /\ t[k + 1].kind = "protect" /\ t[k + 1].count + 1 = Len(pdl) + 1
      BY <1>1, <1>2, <2>1
    <3>2. t[k + 1].catches = SubSeq(catchlist, 1, Len(t[k + 1].catches))
      BY <1>1, <1>2, WholeIsPrefix
    <3>3. \A j \in 1 .. Len(catchlist) : catchlist[j] < k + 1 /\ t[catchlist[j]].count < Len(pdl) + 1
      <4> SUFFICES ASSUME NEW j \in 1 .. Len(catchlist)
                   PROVE  catchlist[j] < k + 1 /\ t[catchlist[j]].count < Len(pdl) + 1
        OBVIOUS
      <4>1. catchlist[j] \in 1 .. k /\ t[catchlist[j]] = stack[catchlist[j]] /\ stack[catchlist[j]].count <= Len(pdl)
            /\ stack[catchlist[j]] \in Frames
        BY <1>1, <1>2 DEF k
      <4>2. stack[catchlist[j]].count \in Nat
        BY <4>1 DEF Frames
      <4>3. QED BY SMTT(30), <1>1, <4>1, <4>2
    <3>4. t[k + 1].catches = catchlist
      BY <1>2
    <3>5. QED BY <1>1, <3>1, <3>2, <3>3, <3>4 DEF Owned
  <2>2. QED BY <1>2, <1>3, <1>6, <2>1 DEF Owners, k
<1>8. Cleaned(t, p)
  <2> SUFFICES ASSUME NEW i \in 1 .. Len(t), t[i].kind = "protect"
               PROVE  t[i].cleaned = IF Owns(p, i) THEN 0 ELSE 1
    BY DEF Cleaned
  <2>1. CASE i = k + 1
    <3>1. f.kind = "protect" /\ p[Len(pdl) + 1].owner = i /\ Len(pdl) + 1 \in 1 .. Len(p)
      BY <1>1, <1>2, <1>3, <2>1 DEF k
    <3>2. QED BY <1>2, <2>1, <3>1 DEF Owns
  <2>2. CASE i # k + 1
    <3>0. Len(t) = k + 1 /\ k \in Nat
      BY <1>1, <1>2
    <3>1. i \in 1 .. k /\ t[i] = stack[i]
      <4>1. i \in 1 .. k
        BY <2>2, <3>0
      <4>2. QED BY <1>2, <4>1
    <3>2. e.owner # i
      BY <1>1, <3>1 DEF k
    <3>3. Owns(p, i) <=> Owns(pdl, i)
      <4>1. \A n \in 1 .. Len(pdl) : n \in 1 .. Len(p) /\ p[n].owner = pdl[n].owner
        BY <1>1, <1>3
      <4>2. \A n \in 1 .. Len(p) : p[n].owner = i => n \in 1 .. Len(pdl)
        BY <1>3, <1>6, <3>2
      <4>3. QED BY <4>1, <4>2 DEF Owns
    <3>4. QED BY <3>1, <3>3 DEF Inv, Cleaned, k
  <2>3. QED BY <2>1, <2>2
<1>9. Shallow(t, Len(p), depth')
  BY <1>1, <1>2, <1>3, BoundAssumption DEF Shallow
<1>10. Typed'
  BY <1>2, <1>3, <1>4 DEF Inv, Typed
<1>11. QED BY <1>2, <1>4, <1>5, <1>7, <1>8, <1>9, <1>10 DEF Inv

(* catch and condition-case: the frame is a catch, and perhaps a handler. *)
LEMMA CatchStep ==
  ASSUME Inv, Top.kind \notin {"unbind", "jumped"}, depth < MaxDepth,
         NEW f \in Frames, f.kind \in {"catch", "condition"}, f.depth = depth + 1,
         f.count = Len(pdl), f.catches = catchlist, f.handlers = handlerlist,
         stack' = Append(stack, f), depth' = depth + 1,
         catchlist' = Append(catchlist, Len(stack) + 1),
         handlerlist' = IF f.kind = "condition" THEN Append(handlerlist, Len(stack) + 1) ELSE handlerlist,
         UNCHANGED <<pdl, value, quit>>
  PROVE  Inv'
<1> DEFINE k == Len(stack)
           t == Append(stack, f)
           cs == Append(catchlist, k + 1)
           hs == handlerlist'
           l == Len(catchlist)
<1>1. /\ stack \in Seq(Frames) /\ k \in Nat /\ k >= 2 /\ catchlist \in Seq(Nat) /\ handlerlist \in Seq(Nat)
      /\ pdl \in Seq(Entries) /\ Len(pdl) \in Nat /\ l \in Nat /\ k + 1 \in Nat
      /\ ToSet(handlerlist) \subseteq ToSet(catchlist)
  BY Innermosts, Levels
<1>2. /\ t \in Seq(Frames) /\ Len(t) = k + 1 /\ t[k + 1] = f /\ \A i \in 1 .. k : t[i] = stack[i]
      /\ Sound(t) /\ Chained(t, catchlist) /\ Owners(t, pdl, catchlist) /\ Paired(t, catchlist, handlerlist)
      /\ \A i \in 1 .. Len(t) : \A c \in ToSet(t[i].catches) : c < i
  BY Begins
<1>3. /\ cs \in Seq(Nat) /\ Len(cs) = l + 1 /\ cs[l + 1] = k + 1
      /\ \A j \in 1 .. l : cs[j] = catchlist[j]
      /\ \A m \in 0 .. l : SubSeq(cs, 1, m) = SubSeq(catchlist, 1, m)
      /\ catchlist \o <<k + 1>> = cs
  BY <1>1, Added
<1>4. /\ hs \in Seq(Nat) /\ ToSet(hs) \subseteq ToSet(handlerlist) \cup {k + 1}
      /\ hs = handlerlist \o IF f.kind = "condition" THEN <<k + 1>> ELSE <<>>
  <2>1. CASE f.kind = "condition"
    <3>1. hs = Append(handlerlist, k + 1)
      BY <2>1
    <3>2. /\ hs \in Seq(Nat) /\ Len(hs) = Len(handlerlist) + 1 /\ hs[Len(handlerlist) + 1] = k + 1
          /\ (\A j \in 1 .. Len(handlerlist) : hs[j] = handlerlist[j]) /\ hs = handlerlist \o <<k + 1>>
      BY <1>1, <3>1, Added
    <3>3. ASSUME NEW x \in ToSet(hs) PROVE x \in ToSet(handlerlist) \cup {k + 1}
      <4>1. PICK j \in 1 .. Len(hs) : hs[j] = x
        <5>1. hs \in Seq(Nat) /\ x \in ToSet(hs)
          BY <3>2
        <5> HIDE DEF hs
        <5>2. QED BY <5>1, Members
      <4>2. j = Len(handlerlist) + 1 \/ j \in 1 .. Len(handlerlist)
        BY <1>1, <3>2
      <4>3. QED BY <1>1, <3>2, <4>1, <4>2, Members
    <3>4. QED BY <2>1, <3>2, <3>3
  <2>2. CASE f.kind # "condition"
    <3>1. hs = handlerlist /\ handlerlist \o <<>> = handlerlist
      BY <1>1, <2>2
    <3>2. QED BY <1>1, <2>2, <3>1
  <2>3. QED BY <2>1, <2>2
<1>5. stack' = t /\ catchlist' = cs /\ pdl' = pdl /\ l + 1 \in 1 .. Len(cs) /\ k + 1 \in 1 .. Len(t)
  BY <1>1, <1>2, <1>3
<1> HIDE DEF k, t, cs, hs, l
<1>6. \A j \in 1 .. Len(cs) : j = l + 1 \/ j \in 1 .. l
  BY <1>1, <1>3
<1>7. k + 1 \in ToSet(cs) /\ ToSet(catchlist) \subseteq ToSet(cs)
  <2>1. \A j \in 1 .. l : j \in 1 .. Len(cs)
    BY <1>1, <1>3
  <2>2. k + 1 \in ToSet(cs)
    BY <1>3, <1>5, Members
  <2>3. ASSUME NEW x \in ToSet(catchlist) PROVE x \in ToSet(cs)
    <3>1. PICK j \in 1 .. l : catchlist[j] = x
      BY <1>1, Members DEF l
    <3>2. j \in 1 .. Len(cs) /\ cs[j] = x
      BY <1>3, <2>1, <3>1
    <3>3. QED BY <1>3, <3>2, Members
  <2>4. QED BY <2>2, <2>3
<1>8. Within(t, Len(t), depth', Len(pdl), cs, hs)
  <2>1. f.kind \notin {"unbind", "forms"} /\ Bindings(f) = 0 /\ Caught(f, k + 1) = <<k + 1>>
        /\ Handled(f, k + 1) = IF f.kind = "condition" THEN <<k + 1>> ELSE <<>>
    BY DEF Bindings, Caught, Handled, Catching
  <2>2. depth' = f.depth /\ Len(pdl) = f.count + Bindings(f)
    BY <1>1, <2>1
  <2>3. QED BY <1>2, <1>3, <1>4, <2>1, <2>2 DEF Within
<1>9. Chained(t, cs)
  <2>1. ASSUME NEW j \in 1 .. Len(cs), j \in 1 .. l
        PROVE  cs[j] \in 1 .. Len(t) /\ t[cs[j]].kind \in Catching /\ t[cs[j]].catches = SubSeq(cs, 1, j - 1)
    <3>1. j - 1 \in 0 .. l
      BY <1>1, <2>1
    <3>2. SubSeq(cs, 1, j - 1) = SubSeq(catchlist, 1, j - 1) /\ cs[j] = catchlist[j]
      BY <1>3, <2>1, <3>1
    <3>3. QED BY <1>2, <2>1, <3>2 DEF Chained, l
  <2>2. cs[l + 1] \in 1 .. Len(t) /\ t[cs[l + 1]].kind \in Catching /\ t[cs[l + 1]].catches = SubSeq(cs, 1, l + 1 - 1)
    <3>1. l \in 0 .. l /\ l + 1 - 1 = l
      BY <1>1
    <3>2. SubSeq(cs, 1, l + 1 - 1) = catchlist
      <4>1. SubSeq(cs, 1, l) = SubSeq(catchlist, 1, l)
        BY <1>3, <3>1
      <4>2. QED BY <1>1, <3>1, <4>1, WholeIsPrefix DEF l
    <3>3. QED BY <1>2, <1>3, <1>5, <3>2 DEF Catching
  <2>3. ASSUME NEW j \in 1 .. Len(cs)
        PROVE  cs[j] \in 1 .. Len(t) /\ t[cs[j]].kind \in Catching /\ t[cs[j]].catches = SubSeq(cs, 1, j - 1)
    <3>1. CASE j \in 1 .. l
      BY <2>1, <3>1
    <3>2. CASE j = l + 1
      <4>1. cs[j] = cs[l + 1]
        BY <3>2
      <4>2. j - 1 = l + 1 - 1
        BY <1>1, <3>2
      <4>3. SubSeq(cs, 1, j - 1) = SubSeq(cs, 1, l + 1 - 1)
        BY <4>2, Zenon
      <4>4. QED BY <2>2, <4>1, <4>3
    <3>3. QED BY <1>6, <3>1, <3>2
  <2>4. QED BY <2>3 DEF Chained
<1>10. Paired(t, cs, hs)
  <2>1. ASSUME NEW i \in 1 .. Len(t), t[i].catches = cs PROVE FALSE
    <3>1. k + 1 < i
      BY <1>2, <1>7, <2>1
    <3>2. QED BY <1>1, <1>2, <3>1
  <2>2. QED BY <1>1, <1>4, <1>7, <2>1 DEF Paired
<1>11. Owners(t, pdl, cs)
  <2> SUFFICES ASSUME NEW n \in 1 .. Len(pdl), pdl[n].owner # 0
               PROVE  Owned(t, pdl[n].owner, n, cs)
    BY DEF Owners
  <2> DEFINE o == pdl[n].owner
             m == Len(t[o].catches)
  <2>1. Owned(t, o, n, catchlist)
    BY <1>2 DEF Owners
  <2>2. /\ o \in 1 .. Len(t) /\ t[o].kind = "protect" /\ t[o].count + 1 = n
        /\ m <= l /\ t[o].catches = SubSeq(catchlist, 1, m)
    BY <2>1 DEF Owned, l
  <2>3. m \in 0 .. l /\ m \in Nat
    <3>1. t[o] \in Frames
      BY <1>2, <2>2
    <3>2. m \in Nat
      BY SMTT(30), <3>1 DEF Frames
    <3>3. QED BY SMTT(30), <1>1, <2>2, <3>2
  <2>4. o # k + 1
    BY <1>2, <2>2
  <2>5. o < k + 1
    BY <1>1, <1>2, <2>2, <2>4
  <2>6. t[o].catches = SubSeq(cs, 1, m) /\ m <= Len(cs)
    <3>1. SubSeq(cs, 1, m) = SubSeq(catchlist, 1, m)
      BY <1>3, <2>3
    <3>2. m <= Len(cs)
      BY SMTT(30), <1>1, <1>3, <2>3
    <3>3. QED BY <2>2, <3>1, <3>2
  <2>7. ASSUME NEW j \in 1 .. Len(cs)
        PROVE  IF j <= m THEN cs[j] < o /\ t[cs[j]].count < n ELSE cs[j] > o /\ t[cs[j]].count >= n
    <3>1. CASE j \in 1 .. l
      BY <1>3, <2>1, <3>1 DEF Owned, l
    <3>2. CASE j = l + 1
      <4>1. ~(j <= m)
        BY <1>1, <2>3, <3>2
      <4>2. cs[j] > o /\ t[cs[j]].count >= n
        <5>1. cs[j] = k + 1 /\ t[cs[j]] = f
          BY <1>2, <1>3, <3>2
        <5>2. cs[j] > o
          BY <5>1, <2>5, <1>1
        <5>3. t[cs[j]].count >= n
          BY <5>1, <1>1
        <5>4. QED BY <5>2, <5>3
      <4>3. QED BY <4>1, <4>2
    <3>3. QED BY <1>6, <3>1, <3>2
  <2>8. QED BY <2>2, <2>6, <2>7 DEF Owned
<1>12. Cleaned(t, pdl)
  <2>1. \A i \in 1 .. Len(t) : t[i].kind = "protect" => i \in 1 .. k
    BY <1>1, <1>2
  <2>2. QED BY <1>2, <2>1 DEF Inv, Cleaned, k
<1>13. Shallow(t, Len(pdl), depth')
  BY <1>2 DEF Inv, Shallow
<1>14. Typed'
  <2>1. depth' \in Nat /\ hs \in Seq(Nat) /\ handlerlist' = hs
    BY <1>4 DEF Inv, Typed, hs
  <2>2. QED BY <1>2, <1>3, <1>5, <2>1 DEF Inv, Typed
<1>15. QED BY <1>2, <1>5, <1>8, <1>9, <1>10, <1>11, <1>12, <1>13, <1>14 DEF Inv, hs

-----------------------------------------------------------------------------
(* The stack is cut before frame I, whose entries of specpdl are unbound: T  *)
(* is a stack that starts with the frames left, M the catches left.          *)
CutAt(i, m) ==
  /\ stack[i].kind \notin {"unbind", "forms", "command"} /\ Len(pdl) = stack[i].count
  /\ stack[i].catches = SubSeq(catchlist, 1, m)
  /\ \/ m < Len(catchlist) /\ catchlist[m + 1] = i
     \/ m = Len(catchlist) /\ i = Len(stack) - 1 /\ Top.kind = "unbind"

(* The frames that are left when those from frame I on are gone fit the      *)
(* lists frame I kept.                                                       *)
LEMMA Cut ==
  ASSUME Inv, NEW i \in 3 .. Len(stack), NEW m \in 0 .. Len(catchlist), CutAt(i, m),
         NEW t \in Seq(Frames), Len(t) >= i - 1, \A j \in 1 .. i - 1 : t[j] = stack[j]
  PROVE  /\ (\A j \in i .. Len(t) : FrameOK(t, j)) => Sound(t)
         /\ Within(t, i - 1, stack[i].depth - 1, Len(pdl), stack[i].catches, stack[i].handlers)
         /\ Chained(t, stack[i].catches) /\ Owners(t, pdl, stack[i].catches)
         /\ \A j \in 1 .. i - 1 : t[j].catches = stack[i].catches => t[j].handlers = stack[i].handlers
         /\ ToSet(stack[i].handlers) \subseteq ToSet(stack[i].catches)
         /\ \A n \in 1 .. Len(pdl) : pdl[n].owner < i
         /\ stack[i].depth \in 1 .. MaxDepth /\ stack[i].catches \in Seq(Nat) /\ stack[i].handlers \in Seq(Nat)
<1> DEFINE f == stack[i]
           cs == f.catches
           k == i - 1
<1>1. /\ stack \in Seq(Frames) /\ Len(stack) \in Nat /\ i \in Nat /\ k \in Nat /\ k >= 2 /\ f \in Frames
      /\ catchlist \in Seq(Nat) /\ Len(catchlist) \in Nat /\ Len(t) \in Nat /\ i = k + 1
      /\ pdl \in Seq(Entries) /\ Len(pdl) \in Nat
  BY Innermosts
<1>2. cs \in Seq(Nat) /\ f.handlers \in Seq(Nat) /\ f.count \in Nat
  BY <1>1 DEF Frames
<1>3. FrameOK(stack, i) /\ Sound(stack) /\ Chained(stack, catchlist) /\ Owners(stack, pdl, catchlist)
  BY DEF Inv, Sound
<1>4. f.kind \notin {"unbind", "forms", "command"} /\ Len(pdl) = f.count /\ cs = SubSeq(catchlist, 1, m)
  BY DEF CutAt
<1>5. /\ \A c \in ToSet(cs) : c \in 1 .. k
      /\ \A j \in 1 .. k : stack[j].catches = cs => stack[j].handlers = f.handlers
      /\ ToSet(f.handlers) \subseteq ToSet(cs)
      /\ Within(stack, k, f.depth - 1, f.count, cs, f.handlers) /\ f.depth \in 1 .. MaxDepth
  BY <1>3, <1>4 DEF FrameOK, Catches, Outer, Bottom
<1>6. k \in 2 .. Len(stack) /\ k <= Len(t) /\ \A j \in 1 .. k : t[j] = stack[j]
  BY <1>1
<1> HIDE DEF f, cs, k
<1>7. Alike(stack, t, k) /\ t[1] = stack[1] /\ t[2] = stack[2]
  BY <1>1, <1>6 DEF Alike
<1>8. ASSUME \A j \in i .. Len(t) : FrameOK(t, j) PROVE Sound(t)
  <2>1. \A j \in k + 1 .. Len(t) : FrameOK(t, j)
    BY <1>1, <1>8
  <2>2. QED BY <1>1, <1>3, <1>6, <1>7, <2>1, AlikeSound
<1>9. Within(t, k, f.depth - 1, f.count, cs, f.handlers)
  <2>1. stack[2].kind = "command"
    BY <1>3, Loops
  <2>2. QED BY <1>1, <1>2, <1>5, <1>6, <1>7, <2>1, AlikeWithin
<1>10. Len(cs) = m /\ (\A j \in 1 .. m : cs[j] = catchlist[j]) /\ \A j \in 1 .. Len(cs) : cs[j] \in 1 .. k
  <2>1. Len(cs) = m /\ \A j \in 1 .. m : cs[j] = catchlist[j]
    BY <1>1, <1>4, Prefix
  <2>2. \A j \in 1 .. Len(cs) : cs[j] \in 1 .. k
    BY <1>2, <1>5, Members
  <2>3. QED BY <2>1, <2>2
<1>11. Chained(stack, cs)
  <2> SUFFICES ASSUME NEW j \in 1 .. Len(cs)
               PROVE  cs[j] \in 1 .. Len(stack) /\ stack[cs[j]].kind \in Catching
                      /\ stack[cs[j]].catches = SubSeq(cs, 1, j - 1)
    BY DEF Chained
  <2>1. j \in 1 .. Len(catchlist) /\ j - 1 \in 0 .. m /\ cs[j] = catchlist[j]
    BY <1>1, <1>10
  <2>2. SubSeq(cs, 1, j - 1) = SubSeq(catchlist, 1, j - 1)
    BY <1>1, <1>4, <2>1, PrefixOfPrefix
  <2>3. QED BY <1>3, <2>1, <2>2 DEF Chained
<1>12. Chained(t, cs)
  BY <1>1, <1>2, <1>6, <1>7, <1>10, <1>11, AlikeChained
<1>13. ASSUME NEW n \in 1 .. Len(pdl), pdl[n].owner # 0
       PROVE  pdl[n].owner \in 1 .. k /\ Owned(stack, pdl[n].owner, n, cs)
  <2> DEFINE o == pdl[n].owner
             K == Len(stack[o].catches)
  <2>1. Owned(stack, o, n, catchlist)
    BY <1>3, <1>13 DEF Owners
  <2>2. /\ o \in 1 .. Len(stack) /\ stack[o].kind = "protect" /\ stack[o].count + 1 = n
        /\ K <= Len(catchlist) /\ stack[o].catches = SubSeq(catchlist, 1, K)
        /\ \A j \in 1 .. Len(catchlist) : IF j <= K THEN catchlist[j] < o /\ stack[catchlist[j]].count < n
                                          ELSE catchlist[j] > o /\ stack[catchlist[j]].count >= n
    BY <2>1 DEF Owned
  <2>3. K \in Nat /\ o \in Nat /\ stack[o].count \in Nat /\ n <= f.count
    <3>1. stack[o] \in Frames
      BY <1>1, <2>2
    <3>2. stack[o].catches \in Seq(Nat) /\ stack[o].count \in Nat
      BY <3>1 DEF Frames
    <3>3. n <= f.count
      BY <1>1, <1>4
    <3>4. o \in Nat
      BY <1>1, <2>2
    <3>5. QED BY <3>2, <3>3, <3>4
  <2> HIDE DEF K
  <2>4. K <= m /\ o <= k
    <3>1. CASE m < Len(catchlist) /\ catchlist[m + 1] = i
      <4>1. m + 1 \in 1 .. Len(catchlist)
        BY <1>1, <3>1
      <4>2. IF m + 1 <= K THEN f.count < n ELSE i > o
        BY <2>2, <3>1, <4>1 DEF f
      <4>3. QED BY <1>1, <1>2, <2>3, <4>2
    <3>2. CASE m = Len(catchlist) /\ i = Len(stack) - 1 /\ Top.kind = "unbind"
      <4>1. o # Len(stack)
        BY <2>2, <3>2 DEF Top
      <4>2. o # i
        <5>1. o = i => f.count + 1 = n
          BY <2>2 DEF f
        <5>2. QED BY <1>2, <2>3, <5>1
      <4>3. QED BY <1>1, <2>2, <2>3, <3>2, <4>1, <4>2
    <3>3. QED BY <3>1, <3>2 DEF CutAt
  <2>5. stack[o].catches = SubSeq(cs, 1, K)
    <3>1. K \in 0 .. m
      BY <2>3, <2>4
    <3>2. SubSeq(cs, 1, K) = SubSeq(catchlist, 1, K)
      BY <1>1, <1>4, <3>1, PrefixOfPrefix
    <3>3. QED BY <2>2, <3>2
  <2>6. ASSUME NEW j \in 1 .. Len(cs)
        PROVE  IF j <= K THEN cs[j] < o /\ stack[cs[j]].count < n ELSE cs[j] > o /\ stack[cs[j]].count >= n
    <3>1. j \in 1 .. Len(catchlist) /\ cs[j] = catchlist[j]
      BY <1>1, <1>10
    <3>2. QED BY <2>2, <3>1
  <2>7. o \in 1 .. k
    BY <1>1, <2>2, <2>3, <2>4
  <2>8. QED BY <1>10, <2>2, <2>4, <2>5, <2>6, <2>7 DEF Owned, K
<1>14. Owners(t, pdl, cs)
  <2> SUFFICES ASSUME NEW n \in 1 .. Len(pdl), pdl[n].owner # 0
               PROVE  Owned(t, pdl[n].owner, n, cs)
    BY DEF Owners
  <2>1. QED BY <1>1, <1>2, <1>6, <1>7, <1>10, <1>13, AlikeOwners
<1>15. \A n \in 1 .. Len(pdl) : pdl[n].owner < i
  <2> SUFFICES ASSUME NEW n \in 1 .. Len(pdl) PROVE pdl[n].owner < i
    OBVIOUS
  <2>1. pdl[n].owner = 0 \/ pdl[n].owner \in 1 .. k
    BY <1>13
  <2>2. QED BY <1>1, <2>1
<1>16. QED BY <1>2, <1>4, <1>5, <1>6, <1>8, <1>9, <1>12, <1>14, <1>15 DEF f, cs, k

(* A form is left: its frame and those above it are gone. *)
LEMMA CutStep ==
  ASSUME Inv, NEW i \in 3 .. Len(stack), NEW m \in 0 .. Len(catchlist), CutAt(i, m),
         stack' = SubSeq(stack, 1, i - 1), catchlist' = stack[i].catches, handlerlist' = stack[i].handlers,
         depth' = stack[i].depth - 1, quit' \in BOOLEAN, UNCHANGED <<pdl, value>>
  PROVE  Inv'
<1> DEFINE t == SubSeq(stack, 1, i - 1)
<1>1. stack \in Seq(Frames) /\ Len(stack) \in Nat /\ i - 1 \in 0 .. Len(stack) /\ i - 1 >= 2 /\ Len(pdl) \in Nat
  BY Innermosts
<1>2. t \in Seq(Frames) /\ Len(t) = i - 1 /\ \A j \in 1 .. i - 1 : t[j] = stack[j]
  BY <1>1, Prefix
<1>3. stack' = t /\ Len(t) >= i - 1 /\ \A j \in i .. Len(t) : FALSE
  BY <1>1, <1>2
<1> HIDE DEF t
<1>4. /\ Sound(t)
      /\ Within(t, i - 1, stack[i].depth - 1, Len(pdl), stack[i].catches, stack[i].handlers)
      /\ Chained(t, stack[i].catches) /\ Owners(t, pdl, stack[i].catches)
      /\ \A j \in 1 .. i - 1 : t[j].catches = stack[i].catches => t[j].handlers = stack[i].handlers
      /\ ToSet(stack[i].handlers) \subseteq ToSet(stack[i].catches)
      /\ stack[i].depth \in 1 .. MaxDepth /\ stack[i].catches \in Seq(Nat) /\ stack[i].handlers \in Seq(Nat)
  BY <1>2, <1>3, Cut
<1>5. Paired(t, stack[i].catches, stack[i].handlers)
  BY <1>2, <1>4 DEF Paired
<1>6. Cleaned(t, pdl)
  <2>1. \A j \in 1 .. Len(t) : j \in 1 .. Len(stack) /\ t[j] = stack[j]
    BY <1>1, <1>2
  <2>2. QED BY <2>1 DEF Inv, Cleaned
<1>7. depth' \in Nat /\ depth' <= MaxDepth
  BY <1>4, BoundAssumption
<1>8. Shallow(t, Len(pdl), depth')
  BY <1>7 DEF Inv, Shallow
<1>9. Typed'
  BY <1>2, <1>3, <1>4, <1>7 DEF Inv, Typed
<1>10. QED BY <1>2, <1>3, <1>4, <1>5, <1>6, <1>8, <1>9 DEF Inv

(* longjmp to a condition-case: F is its frame from now on. *)
LEMMA HandlerStep ==
  ASSUME Inv, NEW i \in 3 .. Len(stack), NEW m \in 0 .. Len(catchlist), CutAt(i, m),
         stack[i].kind = "condition",
         NEW f \in Frames, f = [stack[i] EXCEPT !.kind = IF stack[i].var = None THEN "handler" ELSE "jumped"],
         stack' = Append(SubSeq(stack, 1, i - 1), f),
         catchlist' = stack[i].catches, handlerlist' = stack[i].handlers,
         depth' = stack[i].depth, quit' \in BOOLEAN, UNCHANGED <<pdl, value>>
  PROVE  Inv'
<1> DEFINE u == SubSeq(stack, 1, i - 1)
           t == Append(u, f)
           c == stack[i]
<1>1. /\ stack \in Seq(Frames) /\ Len(stack) \in Nat /\ i \in Nat /\ i - 1 \in 0 .. Len(stack) /\ i - 1 >= 2
      /\ Len(pdl) \in Nat /\ c \in Frames
  BY SMTT(30), Innermosts
<1>2. u \in Seq(Frames) /\ Len(u) = i - 1 /\ \A j \in 1 .. i - 1 : u[j] = stack[j]
  BY <1>1, Prefix
<1>3. t \in Seq(Frames) /\ Len(t) = i - 1 + 1 /\ t[i - 1 + 1] = f /\ \A j \in 1 .. i - 1 : t[j] = u[j]
  <2> HIDE DEF u
  <2>1. /\ t \in Seq(Frames) /\ Len(t) = Len(u) + 1 /\ t[Len(u) + 1] = f /\ \A j \in 1 .. Len(u) : t[j] = u[j]
    BY <1>2, Added
  <2>2. QED BY <1>2, <2>1
<1>4. stack' = t /\ i - 1 + 1 = i
  BY <1>1
<1> HIDE DEF u, t
<1>5. t \in Seq(Frames) /\ Len(t) = i /\ t[i] = f /\ (\A j \in 1 .. i - 1 : t[j] = stack[j]) /\ Len(t) >= i - 1
      /\ \A j \in i .. Len(t) : j = i
  BY <1>1, <1>2, <1>3, <1>4
<1>6. /\ (\A j \in i .. Len(t) : FrameOK(t, j)) => Sound(t)
      /\ Within(t, i - 1, c.depth - 1, Len(pdl), c.catches, c.handlers)
      /\ Chained(t, c.catches) /\ Owners(t, pdl, c.catches)
      /\ \A j \in 1 .. i - 1 : t[j].catches = c.catches => t[j].handlers = c.handlers
      /\ ToSet(c.handlers) \subseteq ToSet(c.catches)
      /\ c.depth \in 1 .. MaxDepth /\ c.catches \in Seq(Nat) /\ c.handlers \in Seq(Nat)
  BY <1>5, Cut
<1>7. /\ f.kind \in {"handler", "jumped"} /\ (f.kind = "jumped" <=> f.var # None)
      /\ f.var = c.var /\ f.depth = c.depth /\ f.count = c.count /\ f.catches = c.catches /\ f.handlers = c.handlers
  BY <1>1 DEF Frames
<1>8. Catches(stack, i) /\ Len(pdl) = c.count
  BY DEF Inv, Sound, FrameOK, CutAt
<1>9. FrameOK(t, i)
  <2>1. Bottom(f) = c.count /\ Bottom(c) = c.count /\ Outer(f) = c.depth - 1
    BY <1>7 DEF Bottom, Outer
  <2>2. Catches(t, i)
    BY ZenonT(30), <1>5, <1>6, <1>7, <1>8, <2>1 DEF Catches
  <2>3. QED BY <1>5, <1>6, <1>7, <1>8, <2>1, <2>2 DEF FrameOK
<1>10. Sound(t)
  BY <1>5, <1>6, <1>9
<1>11. Within(t, i, c.depth, Len(pdl), c.catches, c.handlers)
  <2>1. Bindings(f) = 0 /\ Caught(f, i) = <<>> /\ Handled(f, i) = <<>> /\ f.kind \notin {"unbind", "forms"}
    BY <1>7 DEF Bindings, Caught, Handled, Catching
  <2>2. c.catches \o <<>> = c.catches /\ c.handlers \o <<>> = c.handlers /\ c.count + 0 = c.count
    BY <1>1, <1>6, <1>8
  <2>3. QED BY ZenonT(30), <1>5, <1>7, <1>8, <2>1, <2>2 DEF Within
<1>12. Paired(t, c.catches, c.handlers)
  <2>1. \A j \in 1 .. Len(t) : j = i \/ j \in 1 .. i - 1
    BY <1>1, <1>5
  <2>2. QED BY <1>5, <1>6, <1>7, <2>1 DEF Paired
<1>13. Cleaned(t, pdl)
  <2>1. ASSUME NEW j \in 1 .. Len(t), t[j].kind = "protect" PROVE j \in 1 .. Len(stack) /\ t[j] = stack[j]
    <3>1. j # i
      BY <1>5, <1>7, <2>1
    <3>2. j \in 1 .. i - 1
      BY <1>1, <1>5, <3>1
    <3>3. QED BY <1>1, <1>5, <3>2
  <2>2. QED BY <2>1 DEF Inv, Cleaned
<1>14. Shallow(t, Len(pdl), depth')
  BY <1>5, <1>7 DEF Inv, Shallow
<1>15. Typed'
  <2>1. depth' \in Nat
    BY <1>6
  <2>2. QED BY <1>4, <1>5, <1>6, <2>1 DEF Inv, Typed
<1>16. QED BY <1>4, <1>5, <1>6, <1>10, <1>11, <1>12, <1>13, <1>14, <1>15 DEF Inv

-----------------------------------------------------------------------------
(* The command loop as it begins fits. *)
LEMMA Beginning ==
  /\ Base \in Seq(Frames) /\ Len(Base) = 2 /\ <<1, 2>> \in Seq(Nat) /\ << 2 >> \in Seq(Nat)
  /\ Sound(Base) /\ Within(Base, 2, 0, 0, <<1, 2>>, << 2 >>) /\ Chained(Base, <<1, 2>>)
  /\ Paired(Base, <<1, 2>>, << 2 >>)
  /\ \A p : Len(p) = 0 => Owners(Base, p, <<1, 2>>) /\ Cleaned(Base, p)
  /\ Shallow(Base, 0, 0)
<1>1. /\ Base[1] \in Frames /\ Base[1].kind = "catch" /\ Base[1].catches = <<>> /\ Base[1].handlers = <<>>
      /\ Base[2] \in Frames /\ Base[2].kind = "command" /\ Base[2].catches = <<1>> /\ Base[2].handlers = <<>>
      /\ Base[2].depth = 0 /\ Base[2].count = 0
  <2>1. <<1>> \in Seq(Nat) /\ <<>> \in Seq(Nat) /\ 0 \in Nat
    OBVIOUS
  <2>2. Loop("catch", TopLevel, <<>>) \in Frames
    BY <2>1, VarAssumption DEF Loop, Frames, Kinds
  <2>3. Loop("command", None, <<1>>) \in Frames
    BY <2>1 DEF Loop, Frames, Kinds
  <2>4. QED BY <2>2, <2>3 DEF Base, Loop
<1>2. Base \in Seq(Frames) /\ Len(Base) = 2
  BY <1>1 DEF Base
<1>3. <<1, 2>> \in Seq(Nat) /\ << 2 >> \in Seq(Nat) /\ <<1>> \o << 2 >> = <<1, 2>> /\ <<>> \o << 2 >> = << 2 >>
  <2>1. <<1, 2>> \in Seq(Nat) /\ << 2 >> \in Seq(Nat) /\ <<1>> \in Seq(Nat) /\ Len(<<1, 2>>) = 2
    OBVIOUS
  <2>2. <<1>> \o << 2 >> \in Seq(Nat) /\ Len(<<1>> \o << 2 >>) = 2
    BY <2>1
  <2>3. \A i \in 1 .. 2 : (<<1>> \o << 2 >>)[i] = <<1, 2>>[i]
    OBVIOUS
  <2>4. <<1>> \o << 2 >> = <<1, 2>>
    BY <2>1, <2>2, <2>3, SeqEqual
  <2>5. <<>> \o << 2 >> = << 2 >>
    BY <2>1
  <2>6. QED BY <2>1, <2>4, <2>5
<1>4. Sound(Base)
  BY <1>2 DEF Sound
<1>5. Within(Base, 2, 0, 0, <<1, 2>>, << 2 >>)
  BY <1>1, <1>3 DEF Within, Bindings, Caught, Handled, Catching
<1>6. Chained(Base, <<1, 2>>)
  <2> DEFINE cs == <<1, 2>>
  <2>1. cs \in Seq(Nat) /\ Len(cs) = 2 /\ cs[1] = 1 /\ cs[2] = 2
    OBVIOUS
  <2> HIDE DEF cs
  <2>2. SubSeq(cs, 1, 0) = <<>> /\ SubSeq(cs, 1, 1) = <<1>>
    <3>1. SubSeq(cs, 1, 0) \in Seq(Nat) /\ Len(SubSeq(cs, 1, 0)) = 0
      BY <2>1, Prefix
    <3>2. SubSeq(cs, 1, 1) \in Seq(Nat) /\ Len(SubSeq(cs, 1, 1)) = 1 /\ SubSeq(cs, 1, 1)[1] = 1
      BY <2>1, Prefix
    <3>3. <<1>> \in Seq(Nat) /\ Len(<<1>>) = 1 /\ <<1>>[1] = 1
      OBVIOUS
    <3>4. SubSeq(cs, 1, 1) = <<1>>
      <4>1. \A i \in 1 .. 1 : SubSeq(cs, 1, 1)[i] = <<1>>[i]
        BY <3>2, <3>3
      <4>2. QED BY <3>2, <3>3, <4>1, SeqEqual
    <3>5. QED BY <3>1, <3>4
  <2>3. ASSUME NEW k \in 1 .. Len(cs)
        PROVE  cs[k] \in 1 .. Len(Base) /\ Base[cs[k]].kind \in Catching /\ Base[cs[k]].catches = SubSeq(cs, 1, k - 1)
    <3>1. (k = 1 /\ k - 1 = 0) \/ (k = 2 /\ k - 1 = 1)
      BY <2>1
    <3>2. cs[1] \in 1 .. Len(Base) /\ cs[2] \in 1 .. Len(Base)
      BY <1>2, <2>1
    <3>3. QED BY <1>1, <2>1, <2>2, <3>1, <3>2 DEF Catching
  <2>4. Chained(Base, cs)
    BY <2>3 DEF Chained
  <2>5. QED BY <2>4 DEF cs
<1>7. Paired(Base, <<1, 2>>, << 2 >>)
  <2>1. ToSet(<< 2 >>) = {2} /\ 2 \in ToSet(<<1, 2>>)
    BY DEF ToSet
  <2>2. \A i \in 1 .. Len(Base) : i = 1 \/ i = 2
    BY <1>2
  <2>3. <<>> # <<1, 2>> /\ <<1>> # <<1, 2>>
    OBVIOUS
  <2>4. QED BY <1>1, <2>1, <2>2, <2>3 DEF Paired
<1>8. \A p : Len(p) = 0 => Owners(Base, p, <<1, 2>>) /\ Cleaned(Base, p)
  <2>1. \A i \in 1 .. Len(Base) : Base[i].kind # "protect"
    <3>1. \A i \in 1 .. Len(Base) : i = 1 \/ i = 2
      BY <1>2
    <3>2. QED BY <1>1, <3>1
  <2>2. QED BY <2>1 DEF Owners, Cleaned
<1>9. Shallow(Base, 0, 0)
  BY <1>1, <1>2, BoundAssumption DEF Shallow
<1>10. QED BY <1>2, <1>3, <1>4, <1>5, <1>6, <1>7, <1>8, <1>9

(* Back in the command loop everything is unbound. *)
LEMMA BeginsAgain ==
  ASSUME Inv, Len(pdl) = 0, stack' = Base, catchlist' = <<1, 2>>, handlerlist' = << 2 >>, depth' = 0,
         pdl' = pdl, value' \in [Vars -> Values], quit' \in BOOLEAN
  PROVE  Inv'
<1>1. Typed'
  BY Beginning DEF Inv, Typed
<1>2. Shallow(Base, Len(pdl), depth') /\ Within(Base, Len(Base), depth', Len(pdl), <<1, 2>>, << 2 >>)
  BY Beginning
<1>3. Owners(Base, pdl, <<1, 2>>) /\ Cleaned(Base, pdl)
  BY Beginning
<1>4. QED BY <1>1, <1>2, <1>3, Beginning DEF Inv

(* specpdl and the stacks are empty when Emacs starts. *)
LEMMA InitInv == Init => Inv
<1> SUFFICES ASSUME Init PROVE Inv
  OBVIOUS
<1>1. stack = Base /\ catchlist = <<1, 2>> /\ handlerlist = << 2 >> /\ Len(pdl) = 0 /\ pdl \in Seq(Entries) /\ depth = 0
  BY DEF Init
<1>2. Typed
  <2>1. Base \in Seq(Frames) /\ <<1, 2>> \in Seq(Nat) /\ << 2 >> \in Seq(Nat)
    BY Beginning
  <2>2. value \in [Vars -> Values] /\ quit \in BOOLEAN /\ depth \in Nat
    BY DEF Init
  <2>3. QED BY <1>1, <2>1, <2>2 DEF Typed
<1>3. Owners(Base, pdl, <<1, 2>>) /\ Cleaned(Base, pdl)
  BY <1>1, Beginning
<1>4. QED BY <1>1, <1>2, <1>3, Beginning DEF Inv

(* unbind_to works for the form whose frame is under its own. *)
LEMMA Returning ==
  ASSUME Inv, Top.kind = "unbind", Top.link = 0
  PROVE  LET i == Len(stack) - 1
         IN /\ i \in 3 .. Len(stack) /\ FrameOK(stack, i) /\ stack[i].kind \in {"let", "protect", "handler"}
            /\ Top.count = stack[i].count /\ depth = stack[i].depth
            /\ catchlist = stack[i].catches /\ handlerlist = stack[i].handlers
<1> DEFINE i == Len(stack) - 1
<1>1. /\ Len(stack) \in Nat /\ Len(stack) >= 2 /\ Top = stack[Len(stack)]
      /\ (Len(stack) = 2 \/ FrameOK(stack, Len(stack)))
  BY Innermosts
<1>2. Sound(stack) /\ Within(stack, Len(stack), depth, Len(pdl), catchlist, handlerlist)
  BY DEF Inv
<1>3. Len(stack) # 2 /\ stack[1].kind = "catch" /\ stack[2].kind = "command"
  BY <1>1, <1>2, Loops
<1>4. stack[i].kind \in {"let", "protect", "handler"} /\ Top.count = stack[i].count
  BY <1>1, <1>3 DEF FrameOK
<1>5. depth = stack[i].depth /\ catchlist = stack[i].catches /\ handlerlist = stack[i].handlers
  BY <1>1, <1>2 DEF Within
<1>6. i \in 3 .. Len(stack)
  <2>1. i # 1 /\ i # 2
    BY <1>3, <1>4
  <2>2. \A l \in Nat : l >= 2 /\ l # 2 /\ l - 1 # 2 => l - 1 \in 3 .. l
    OBVIOUS
  <2>3. QED BY <1>1, <1>3, <2>1, <2>2
<1>7. FrameOK(stack, i)
  BY <1>2, <1>6 DEF Sound
<1>8. QED BY <1>4, <1>5, <1>6, <1>7

(* The list of catches never runs empty: the command loop handles everything. *)
LEMMA Caughts ==
  ASSUME Inv
  PROVE  /\ Len(catchlist) \in Nat /\ Len(catchlist) >= 1 /\ Innermost(catchlist) = catchlist[Len(catchlist)]
         /\ Innermost(catchlist) \in 1 .. Len(stack) /\ stack[Innermost(catchlist)].kind \in Catching
         /\ stack[Innermost(catchlist)].catches = Without(catchlist)
         /\ Innermost(catchlist) >= 3 \/ Innermost(catchlist) = 1 \/ stack[Innermost(catchlist)].kind = "command"
<1>1. catchlist \in Seq(Nat) /\ Sound(stack) /\ Chained(stack, catchlist) /\ ToSet(handlerlist) \subseteq ToSet(catchlist)
  BY DEF Inv, Typed, Paired
<1>2. \E x : x \in ToSet(catchlist)
  <2>1. CASE Top.kind # "unbind"
    BY <2>1, Levels
  <2>2. CASE Top.kind = "unbind" /\ Top.link = 0
    <3>1. FrameOK(stack, Len(stack) - 1) /\ catchlist = stack[Len(stack) - 1].catches
      BY <2>2, Returning
    <3>2. QED BY <3>1 DEF FrameOK, Catches
  <2>3. CASE Top.kind = "unbind" /\ Top.link # 0
    BY <2>3 DEF Inv, Within, Top
  <2>4. QED BY <2>1, <2>2, <2>3
<1>3. Len(catchlist) \in Nat /\ Len(catchlist) >= 1 /\ Innermost(catchlist) = catchlist[Len(catchlist)]
  BY <1>1, <1>2 DEF ToSet, Innermost
<1>4. Len(catchlist) \in 1 .. Len(catchlist)
  BY <1>3
<1>5. /\ Innermost(catchlist) \in 1 .. Len(stack) /\ stack[Innermost(catchlist)].kind \in Catching
      /\ stack[Innermost(catchlist)].catches = Without(catchlist)
  BY <1>1, <1>3, <1>4 DEF Chained, Without
<1>6. Innermost(catchlist) >= 3 \/ Innermost(catchlist) = 1 \/ stack[Innermost(catchlist)].kind = "command"
  BY <1>1, <1>5, Loops
<1>7. QED BY <1>3, <1>5, <1>6

(* The end of an unwinding: the innermost catch left is the one thrown to. *)
LEMMA Arriving ==
  ASSUME Inv, NEW kind, Arrived(kind)
  PROVE  LET i == Top.link
         IN /\ i \in 1 .. Len(stack) /\ stack[i].catches = Without(catchlist) /\ Len(pdl) = stack[i].count
            /\ i = 1 \/ kind = "command" => Len(pdl) = 0
            /\ i # 1 /\ kind \in {"catch", "condition"} =>
                 i \in 3 .. Len(stack) /\ Len(catchlist) - 1 \in 0 .. Len(catchlist) /\ CutAt(i, Len(catchlist) - 1)
<1> DEFINE i == Top.link
           l == Len(catchlist)
<1>1. /\ l \in Nat /\ l >= 1 /\ Innermost(catchlist) = catchlist[l]
      /\ Innermost(catchlist) \in 1 .. Len(stack) /\ stack[Innermost(catchlist)].kind \in Catching
      /\ stack[Innermost(catchlist)].catches = Without(catchlist)
      /\ Innermost(catchlist) >= 3 \/ Innermost(catchlist) = 1 \/ stack[Innermost(catchlist)].kind = "command"
  BY Caughts
<1>2. /\ Top.kind = "unbind" /\ Len(pdl) = Top.count /\ Innermost(catchlist) = i /\ stack[i].kind = kind
  BY DEF Arrived, Unbound
<1>3. Len(stack) \in Nat /\ Top = stack[Len(stack)] /\ Sound(stack)
  BY Innermosts DEF Inv
<1>4. i # 0
  BY <1>1, <1>2
<1>5. Top.count = stack[i].count
  BY <1>1, <1>2, <1>3, <1>4 DEF Inv, Within
<1>6. i = 1 \/ kind = "command" => Len(pdl) = 0
  <2>1. CASE i = 1
    BY <1>2, <1>3, <1>5, <2>1, Loops
  <2>2. CASE kind = "command"
    <3>1. i = 2
      <4>1. i \in 3 .. Len(stack) => FALSE
        BY <1>2, <1>3, <2>2 DEF Sound, FrameOK
      <4>2. i # 1
        BY <1>2, <1>3, <2>2, Loops
      <4>3. QED BY <1>1, <1>2, <4>1, <4>2
    <3>2. QED BY <1>2, <1>3, <1>5, <3>1, Loops
  <2>3. QED BY <2>1, <2>2
<1>7. ASSUME i # 1, kind \in {"catch", "condition"}
      PROVE  i \in 3 .. Len(stack) /\ l - 1 \in 0 .. l /\ CutAt(i, l - 1)
  <2>1. i \in 3 .. Len(stack)
    BY <1>1, <1>2, <1>3, <1>7
  <2>2. l - 1 \in 0 .. l /\ l - 1 < l /\ l - 1 + 1 = l
    BY <1>1
  <2>3. QED BY <1>1, <1>2, <1>5, <1>7, <2>1, <2>2 DEF CutAt, Without
<1>8. QED BY <1>1, <1>2, <1>5, <1>6, <1>7

(* A catch returns when nothing inside it is left on any stack. *)
LEMMA ReturnCatchKeeps == ASSUME Inv, ReturnCatch PROVE Inv'
<1> DEFINE k == Len(stack)
           m == Len(Top.catches)
<1>1. /\ stack \in Seq(Frames) /\ k \in Nat /\ k >= 2 /\ Top = stack[k] /\ Top \in Frames /\ Top.catches \in Seq(Nat)
      /\ catchlist \in Seq(Nat) /\ Len(pdl) \in Nat
  BY Innermosts
<1>2. /\ Sound(stack) /\ Within(stack, k, depth, Len(pdl), catchlist, handlerlist) /\ quit \in BOOLEAN
  BY DEF Inv, Typed
<1>3. /\ Top.kind \in {"catch", "condition"} /\ catchlist' = Top.catches /\ handlerlist' = Top.handlers
      /\ stack' = SubSeq(stack, 1, k - 1) /\ depth' = depth - 1 /\ UNCHANGED <<pdl, value, quit>>
  BY DEF ReturnCatch, Without
<1>4. k \in 3 .. k
  <2>1. k # 2
    BY <1>1, <1>2, <1>3, Loops
  <2>2. \A l \in Nat : l >= 2 /\ l # 2 => l \in 3 .. l
    OBVIOUS
  <2>3. k \in Nat /\ k >= 2
    BY <1>1
  <2> HIDE DEF k
  <2>4. QED BY <2>1, <2>2, <2>3
<1>5. /\ depth = Top.depth /\ Len(pdl) = Top.count + Bindings(Top) /\ Bindings(Top) = 0
      /\ catchlist = Top.catches \o <<k>>
  BY <1>1, <1>2, <1>3 DEF Within, Bindings, Caught, Catching
<1>6. m \in Nat /\ Len(catchlist) = m + 1 /\ catchlist[m + 1] = k /\ Top.catches = SubSeq(catchlist, 1, m)
  <2> DEFINE c == Top.catches
  <2>1. c \in Seq(Nat) /\ k \in Nat /\ catchlist = c \o <<k>>
    BY <1>1, <1>5
  <2> HIDE DEF c, k
  <2>2. catchlist = Append(c, k) /\ Len(c) \in Nat
    BY <2>1, Added
  <2>3. Len(catchlist) = Len(c) + 1 /\ catchlist[Len(c) + 1] = k /\ SubSeq(catchlist, 1, Len(c)) = SubSeq(c, 1, Len(c))
    BY <2>1, <2>2, Added
  <2>4. QED BY <2>1, <2>2, <2>3, WholeIsPrefix DEF c
<1> HIDE DEF k, m
<1>7. m \in 0 .. Len(catchlist) /\ m < Len(catchlist)
  BY <1>6
<1>8. CutAt(k, m)
  <2>1. Len(pdl) = stack[k].count
    <3>1. Top.count \in Nat
      BY <1>1 DEF Frames
    <3>2. QED BY <1>1, <1>5, <3>1
  <2>2. QED BY <1>1, <1>3, <1>6, <1>7, <2>1 DEF CutAt
<1>9. depth' = stack[k].depth - 1
  BY <1>1, <1>3, <1>5
<1>10. k \in 3 .. Len(stack)
  BY <1>4 DEF k
<1>11. QED BY <1>1, <1>2, <1>3, <1>7, <1>8, <1>9, <1>10, CutStep

(* unbind_to returns to its form, which returns. *)
LEMMA UnboundReturnKeeps == ASSUME Inv, UnboundReturn PROVE Inv'
<1> DEFINE i == Len(stack) - 1
           m == Len(catchlist)
<1>1. stack \in Seq(Frames) /\ Len(stack) \in Nat /\ catchlist \in Seq(Nat) /\ m \in Nat
  BY Innermosts
<1>2. /\ Top.kind = "unbind" /\ Top.link = 0 /\ Len(pdl) = Top.count /\ quit' = PendingQuit
      /\ stack' = Without(Without(stack)) /\ depth' = depth - 1 /\ UNCHANGED <<pdl, catchlist, handlerlist, value>>
  BY DEF UnboundReturn, Unbound
<1>3. /\ i \in 3 .. Len(stack) /\ stack[i].kind \in {"let", "protect", "handler"}
      /\ Top.count = stack[i].count /\ depth = stack[i].depth
      /\ catchlist = stack[i].catches /\ handlerlist = stack[i].handlers
  BY <1>2, Returning
<1>4. m \in 0 .. Len(catchlist) /\ CutAt(i, m)
  BY <1>1, <1>2, <1>3, WholeIsPrefix DEF CutAt
<1>5. stack' = SubSeq(stack, 1, i - 1)
  <2>1. Len(stack) >= 2 /\ i - 1 = Len(stack) - 2
    BY <1>1, <1>3
  <2>2. QED BY <1>1, <1>2, <2>1, TwiceWithout
<1>6. quit' \in BOOLEAN
  <2>1. Top.quitf \in BOOLEAN /\ quit \in BOOLEAN
    BY Innermosts DEF Inv, Typed, Frames
  <2>2. QED BY <1>2, <2>1 DEF PendingQuit
<1>7. catchlist' = stack[i].catches /\ handlerlist' = stack[i].handlers /\ depth' = stack[i].depth - 1
  BY <1>2, <1>3
<1> HIDE DEF i, m
<1>8. QED BY <1>2, <1>3, <1>4, <1>5, <1>6, <1>7, CutStep

(* longjmp: what was above the frame is gone, and nothing else. *)
LEMMA ArriveKeeps == ASSUME Inv, ArriveAtCatch \/ ArriveAtHandler \/ CmdError PROVE Inv'
<1> DEFINE i == Top.link
           m == Len(catchlist) - 1
<1>1. PendingQuit \in BOOLEAN /\ value \in [Vars -> Values] /\ i \in Nat /\ Len(stack) \in Nat
  BY Innermosts DEF PendingQuit, Inv, Typed, Frames
<1>2. CASE CmdError
  <2>1. Len(pdl) = 0
    BY <1>2, Arriving DEF CmdError
  <2>2. value' \in [Vars -> Values]
    BY <1>1, <1>2, VarAssumption DEF CmdError
  <2>3. stack' = Base /\ catchlist' = <<1, 2>> /\ handlerlist' = << 2 >> /\ depth' = 0 /\ pdl' = pdl /\ quit' \in BOOLEAN
    BY <1>2 DEF CmdError
  <2>4. QED BY <2>1, <2>2, <2>3, BeginsAgain
<1>3. CASE ArriveAtCatch /\ i = 1
  <2>1. Len(pdl) = 0
    BY <1>3, Arriving DEF ArriveAtCatch
  <2>2. /\ stack' = Base /\ catchlist' = <<1, 2>> /\ handlerlist' = << 2 >> /\ depth' = 0 /\ pdl' = pdl
        /\ quit' = PendingQuit /\ value' = value
    BY <1>3 DEF ArriveAtCatch
  <2>3. QED BY <1>1, <2>1, <2>2, BeginsAgain
<1>4. CASE ArriveAtCatch /\ i # 1
  <2>1. i \in 3 .. Len(stack) /\ m \in 0 .. Len(catchlist) /\ CutAt(i, m) /\ stack[i].catches = Without(catchlist)
    BY <1>4, Arriving DEF ArriveAtCatch
  <2>2. /\ stack' = SubSeq(stack, 1, i - 1) /\ catchlist' = stack[i].catches
        /\ handlerlist' = stack[i].handlers /\ depth' = stack[i].depth - 1
        /\ quit' = PendingQuit /\ UNCHANGED <<pdl, value>>
    BY <1>4, <2>1 DEF ArriveAtCatch
  <2> HIDE DEF i, m
  <2>3. QED BY <1>1, <2>1, <2>2, CutStep
<1>5. CASE ArriveAtHandler
  <2>0. stack[i].kind = "condition" /\ Len(pdl) = stack[i].count /\ stack[i].catches = Without(catchlist)
    BY <1>5, Arriving DEF ArriveAtHandler, Arrived
  <2>1. i # 1
    BY <2>0, Loops DEF Inv
  <2>2. i \in 3 .. Len(stack) /\ m \in 0 .. Len(catchlist) /\ CutAt(i, m)
    BY <1>5, <2>1, Arriving DEF ArriveAtHandler
  <2> DEFINE f == [stack[i] EXCEPT !.kind = IF stack[i].var = None THEN "handler" ELSE "jumped"]
  <2>3. f \in Frames
    <3>1. stack[i] \in Frames
      BY <2>2, Innermosts
    <3>2. QED BY <3>1 DEF Frames, Kinds
  <2>4. /\ stack' = Append(SubSeq(stack, 1, i - 1), f) /\ catchlist' = stack[i].catches
        /\ handlerlist' = stack[i].handlers /\ depth' = stack[i].depth
        /\ quit' = PendingQuit /\ UNCHANGED <<pdl, value>>
    BY <1>5, <2>0 DEF ArriveAtHandler
  <2>5. f = [stack[i] EXCEPT !.kind = IF stack[i].var = None THEN "handler" ELSE "jumped"]
    OBVIOUS
  <2> HIDE DEF i, m, f
  <2>6. QED BY <1>1, <2>0, <2>2, <2>3, <2>4, <2>5, HandlerStep
<1>6. QED BY <1>2, <1>3, <1>4, <1>5

-----------------------------------------------------------------------------
(* A set of numbers has a least one; of numbers with a bound, a greatest.    *)
LEMMA LeastNumber ==
  ASSUME NEW T \in SUBSET Nat, T # {}
  PROVE  \E n \in T : \A m \in T : n <= m
<1> DEFINE I == {0 .. n : n \in T}
<1>1. I \subseteq FiniteSubsetsOf(Nat)
  <2>1. ASSUME NEW n \in T PROVE 0 .. n \in SUBSET Nat /\ IsFiniteSet(0 .. n)
    BY FS_Interval
  <2>2. QED BY <2>1 DEF FiniteSubsetsOf
<1>2. I # {}
  OBVIOUS
<1>3. IsWellFoundedOn(StrictSubsetOrdering(Nat), FiniteSubsetsOf(Nat))
  BY FS_StrictSubsetOrderingWellFounded
<1>4. PICK x \in I : \A y \in I : <<y, x>> \notin StrictSubsetOrdering(Nat)
  BY <1>1, <1>2, <1>3, WFMin
<1>5. PICK n \in T : x = 0 .. n
  OBVIOUS
<1>6. ASSUME NEW m \in T, m < n PROVE FALSE
  <2>1. 0 .. m \in I
    OBVIOUS
  <2>2. <<0 .. m, 0 .. n>> \in StrictSubsetOrdering(Nat)
    BY <1>6 DEF StrictSubsetOrdering
  <2>3. QED BY <2>1, <2>2, <1>4, <1>5
<1>7. QED BY <1>6

(* Max of a set of numbers with a bound is its greatest element.             *)
LEMMA GreatestNumber ==
  ASSUME NEW n \in Nat, NEW T \in SUBSET (0 .. n), T # {}
  PROVE  Max(T) \in T /\ \A y \in T : y <= Max(T)
<1> DEFINE U == {n - x : x \in T}
<1>1. U \in SUBSET Nat /\ U # {}
  <2>1. ASSUME NEW x \in T PROVE n - x \in Nat
    <3>1. x \in 0 .. n
      OBVIOUS
    <3>2. QED BY <3>1
  <2>2. QED BY <2>1
<1>2. PICK u \in U : \A v \in U : u <= v
  BY <1>1, LeastNumber
<1>3. PICK x \in T : u = n - x
  OBVIOUS
<1>4. ASSUME NEW y \in T PROVE x >= y
  <2>1. n - y \in U
    OBVIOUS
  <2>2. n - x <= n - y
    BY <1>2, <1>3, <2>1
  <2>3. x \in Nat /\ y \in Nat
    OBVIOUS
  <2>4. QED BY <2>2, <2>3
<1>5. \E z \in T : \A y \in T : z >= y
  BY <1>4
<1>6. Max(T) \in T /\ \A y \in T : Max(T) >= y
  BY <1>5 DEF Max
<1>7. QED BY <1>6

(* unwind_to_catch starts from where Lisp runs, or a handler is to. *)
LEMMA UnwindKeeps ==
  ASSUME Inv, Top.kind # "unbind", NEW goal \in ToSet(catchlist), NEW level \in {depth, depth + 1},
         NEW pending \in BOOLEAN, UnwindToCatch(goal, level, pending)
  PROVE  Inv'
<1> DEFINE n == stack[catchlist[Len(catchlist)]].count
           f == [Frame("unbind", None, goal, depth) EXCEPT !.count = n, !.quitf = pending, !.entered = TRUE]
<1>1. /\ stack' = Append(stack, f) /\ quit' = pending /\ depth' = level
      /\ UNCHANGED <<pdl, catchlist, handlerlist, value>>
  BY DEF UnwindToCatch, UnbindFrom, Innermost
<1>2. n \in Nat /\ goal \in Nat /\ goal # 0
  <2>1. /\ stack \in Seq(Frames) /\ catchlist[Len(catchlist)] \in 1 .. Len(stack)
        /\ \A c \in ToSet(catchlist) : c \in 1 .. Len(stack)
    BY Innermosts, Caughts
  <2>2. stack[catchlist[Len(catchlist)]] \in Frames /\ goal \in 1 .. Len(stack)
    BY <2>1
  <2>3. QED BY <2>2 DEF Frames
<1>3. /\ f \in Frames /\ f.kind = "unbind" /\ f.catches = catchlist /\ f.handlers = handlerlist
      /\ f.link = goal /\ f.count = n
  <2>1. catchlist \in Seq(Nat) /\ handlerlist \in Seq(Nat) /\ depth \in Nat /\ Len(pdl) \in Nat
    BY Innermosts DEF Inv, Typed
  <2> HIDE DEF n
  <2>2. QED BY <1>2, <2>1 DEF Frame, Frames, Kinds
<1> HIDE DEF n, f
<1>4. f.count = stack[catchlist[Len(catchlist)]].count
  BY <1>3 DEF n
<1>5. QED BY <1>1, <1>2, <1>3, <1>4, UnwindStep

(* signal: the handler exists, the command loop's if no other. *)
LEMMA SignalKeeps ==
  ASSUME Inv, Top.kind # "unbind", NEW condition, NEW level \in {depth, depth + 1},
         NEW pending \in BOOLEAN, Signal(condition, level, pending)
  PROVE  Inv'
<1> DEFINE T == {h \in ToSet(handlerlist) : stack[h].kind = "command" \/ stack[h].what = condition}
<1>1. 2 \in ToSet(handlerlist) /\ ToSet(handlerlist) \subseteq ToSet(catchlist)
  BY Levels
<1>2. stack[2].kind = "command" /\ Len(stack) \in Nat /\ \A c \in ToSet(catchlist) : c \in 1 .. Len(stack)
  BY Innermosts, Loops DEF Inv
<1>3. T # {} /\ T \in SUBSET (0 .. Len(stack)) /\ T \subseteq ToSet(catchlist)
  BY <1>1, <1>2
<1>4. UnwindToCatch(Max(T), level, pending)
  BY DEF Signal
<1> HIDE DEF T
<1>5. Max(T) \in ToSet(catchlist)
  BY <1>2, <1>3, GreatestNumber
<1>6. QED BY <1>4, <1>5, UnwindKeeps

(* Every way a throw or a signal starts. *)
LEMMA UnwindsKeep ==
  ASSUME Inv,
         \/ EvalQuit \/ EvalTooDeep \/ EvalPdlFull \/ HandlerPdlFull
         \/ (\E condition \in Conditions : EvalSignal(condition))
         \/ (\E tag \in Tags : Throw(tag))
  PROVE  Inv'
<1>1. quit \in BOOLEAN
  BY DEF Inv, Typed
<1>2. CASE EvalQuit
  <2>1. PICK again \in BOOLEAN : Signal("quit", depth, again)
    BY <1>2 DEF EvalQuit
  <2>2. QED BY <1>2, <2>1, SignalKeeps DEF EvalQuit, Running
<1>3. CASE EvalTooDeep
  BY <1>1, <1>3, SignalKeeps DEF EvalTooDeep, Running
<1>4. CASE EvalPdlFull
  BY <1>1, <1>4, SignalKeeps DEF EvalPdlFull, Evaluates, Running
<1>5. CASE HandlerPdlFull
  BY <1>1, <1>5, SignalKeeps DEF HandlerPdlFull
<1>6. CASE \E condition \in Conditions : EvalSignal(condition)
  BY <1>1, <1>6, SignalKeeps DEF EvalSignal, Evaluates, Running
<1>7. CASE \E tag \in Tags : Throw(tag)
  <2>1. PICK tag \in Tags : Throw(tag)
    BY <1>7
  <2> DEFINE T == {c \in ToSet(catchlist) : stack[c].kind = "catch" /\ stack[c].what = tag}
  <2>2. Top.kind # "unbind"
    BY <2>1 DEF Throw, Evaluates, Running
  <2>3. IF T = {} THEN Signal("error", depth + 1, quit) ELSE UnwindToCatch(Max(T), depth + 1, quit)
    BY <2>1 DEF Throw
  <2>4. CASE T = {}
    BY <1>1, <2>2, <2>3, <2>4, SignalKeeps
  <2>5. CASE T # {}
    <3>1. T \in SUBSET (0 .. Len(stack)) /\ T \subseteq ToSet(catchlist) /\ Len(stack) \in Nat
      BY Innermosts
    <3> HIDE DEF T
    <3>2. Max(T) \in ToSet(catchlist)
      BY <2>5, <3>1, GreatestNumber
    <3>3. QED BY <1>1, <2>2, <2>3, <2>5, <3>2, UnwindKeeps
  <2>6. QED BY <2>4, <2>5
<1>8. QED BY <1>2, <1>3, <1>4, <1>5, <1>6, <1>7

(* A form that bound something is done: unbind_to starts. *)
LEMMA ReturnUnbindingKeeps == ASSUME Inv, ReturnUnbinding PROVE Inv'
<1> DEFINE f == [Frame("unbind", None, 0, depth) EXCEPT !.count = Top.count, !.quitf = quit, !.entered = TRUE]
<1>1. /\ Top.kind \in {"let", "protect", "handler"} /\ stack' = Append(stack, f) /\ quit' = quit
      /\ UNCHANGED <<pdl, catchlist, handlerlist, depth, value>>
  BY DEF ReturnUnbinding, UnbindFrom
<1>2. /\ f \in Frames /\ f.kind = "unbind" /\ f.catches = catchlist /\ f.handlers = handlerlist
      /\ f.link = 0 /\ f.count = Top.count
  <2>1. /\ catchlist \in Seq(Nat) /\ handlerlist \in Seq(Nat) /\ depth \in Nat /\ quit \in BOOLEAN
        /\ Len(pdl) \in Nat /\ Top \in Frames
    BY Innermosts DEF Inv, Typed
  <2>2. QED BY <2>1 DEF Frame, Frames, Kinds
<1> HIDE DEF f
<1>3. quit' \in BOOLEAN
  BY <1>1 DEF Inv, Typed
<1>4. QED BY <1>1, <1>2, <1>3, UnwindStep

-----------------------------------------------------------------------------
(* The catches left when the innermost ones are gone. *)
LEMMA ChainPrefix ==
  ASSUME NEW s, NEW cs \in Seq(Nat), Chained(s, cs), NEW m \in 0 .. Len(cs)
  PROVE  Chained(s, SubSeq(cs, 1, m))
<1> DEFINE r == SubSeq(cs, 1, m)
<1>1. r \in Seq(Nat) /\ Len(r) = m /\ \A j \in 1 .. m : r[j] = cs[j]
  BY Prefix
<1> SUFFICES ASSUME NEW j \in 1 .. Len(r)
             PROVE  r[j] \in 1 .. Len(s) /\ s[r[j]].kind \in Catching /\ s[r[j]].catches = SubSeq(r, 1, j - 1)
  BY DEF Chained
<1>2. j \in 1 .. Len(cs) /\ j \in 1 .. m /\ j - 1 \in 0 .. m
  BY <1>1
<1>3. SubSeq(r, 1, j - 1) = SubSeq(cs, 1, j - 1)
  BY <1>2, PrefixOfPrefix
<1> HIDE DEF r
<1>4. QED BY <1>1, <1>2, <1>3 DEF Chained

(* An unwind-protect keeps its entry when only catches inside it go.         *)
LEMMA OwnedPrefix ==
  ASSUME NEW s, NEW cs \in Seq(Nat), NEW o, NEW n, Owned(s, o, n, cs), s[o].catches \in Seq(Nat),
         NEW m \in 0 .. Len(cs), Len(s[o].catches) <= m
  PROVE  Owned(s, o, n, SubSeq(cs, 1, m))
<1> DEFINE r == SubSeq(cs, 1, m)
           K == Len(s[o].catches)
<1>1. r \in Seq(Nat) /\ Len(r) = m /\ (\A j \in 1 .. m : r[j] = cs[j]) /\ m \in Nat /\ K \in Nat
  BY Prefix
<1>2. SubSeq(r, 1, K) = SubSeq(cs, 1, K)
  <2>1. K \in 0 .. m
    BY <1>1
  <2> HIDE DEF K
  <2>2. QED BY <2>1, PrefixOfPrefix
<1>3. s[o].catches = SubSeq(r, 1, K) /\ K <= Len(r)
  BY <1>1, <1>2 DEF Owned
<1>4. \A j \in 1 .. Len(r) : j \in 1 .. Len(cs) /\ r[j] = cs[j]
  BY <1>1
<1> HIDE DEF r
<1>5. QED BY <1>3, <1>4 DEF Owned

(* unwind_to_catch goes out of a catch it does not throw to. *)
LEMMA UnboundNextKeeps == ASSUME Inv, UnboundNext PROVE Inv'
<1> DEFINE k == Len(stack)
           L == Len(catchlist)
           I == catchlist[L]
           cs == catchlist'
           hs == handlerlist'
           t == stack'
<1>1. /\ stack \in Seq(Frames) /\ k \in Nat /\ k >= 2 /\ Top = stack[k] /\ Top \in Frames
      /\ catchlist \in Seq(Nat) /\ pdl \in Seq(Entries) /\ Len(pdl) \in Nat /\ (k = 2 \/ FrameOK(stack, k))
      /\ \A c \in ToSet(catchlist) : c \in 1 .. k
  BY Innermosts
<1>2. /\ L \in Nat /\ L >= 1 /\ I \in 1 .. k /\ stack[I].catches = Without(catchlist) /\ Innermost(catchlist) = I
  BY Caughts
<1>3. /\ Top.kind = "unbind" /\ Len(pdl) = Top.count /\ Top.link # 0 /\ I # Top.link
      /\ cs = Without(catchlist) /\ hs = stack[I].handlers
      /\ t = [stack EXCEPT ![k].count = stack[Innermost(cs)].count, ![k].quitf = PendingQuit,
                           ![k].entered = TRUE]
      /\ quit' = PendingQuit /\ UNCHANGED <<pdl, depth, value>>
  BY <1>2 DEF UnboundNext, Unbound
<1>4. /\ Sound(stack) /\ Chained(stack, catchlist) /\ Owners(stack, pdl, catchlist) /\ Cleaned(stack, pdl)
      /\ Top.link \in ToSet(catchlist) /\ Top.count = stack[I].count
  BY <1>1, <1>3 DEF Inv, Within
<1>5. k # 2 /\ k \in 3 .. k
  <2>1. k # 2
    BY <1>1, <1>3, <1>4, Loops
  <2>2. \A l \in Nat : l >= 2 /\ l # 2 => l \in 3 .. l
    OBVIOUS
  <2>3. k \in Nat /\ k >= 2
    BY <1>1
  <2> HIDE DEF k
  <2>4. QED BY <2>1, <2>2, <2>3
<1> HIDE DEF k, L, cs, hs, t
<1>6. L - 1 \in 0 .. L /\ cs = SubSeq(catchlist, 1, L - 1)
  BY <1>2, <1>3 DEF Without, L
<1>7. cs \in Seq(Nat) /\ Len(cs) = L - 1 /\ \A j \in 1 .. L - 1 : cs[j] = catchlist[j]
  BY <1>1, <1>6, Prefix DEF L
<1>8. Top.link \in ToSet(cs)
  <2>1. PICK j \in 1 .. L : catchlist[j] = Top.link
    BY <1>1, <1>4, Members DEF L
  <2>2. j # L
    BY <1>3, <2>1
  <2>3. j \in 1 .. L - 1
    BY <1>2, <2>1, <2>2
  <2>4. QED BY <1>7, <2>1, <2>3, Members
<1>9. \A j \in 1 .. Len(cs) : cs[j] \in 1 .. k - 1
  <2> SUFFICES ASSUME NEW j \in 1 .. Len(cs) PROVE cs[j] \in 1 .. k - 1
    OBVIOUS
  <2>1. j \in 1 .. L /\ cs[j] = catchlist[j]
    BY <1>2, <1>7
  <2>2. cs[j] \in 1 .. k /\ stack[cs[j]].kind \in Catching
    BY <1>4, <2>1 DEF Chained, L, k
  <2>3. cs[j] # k
    BY <1>1, <1>3, <2>2 DEF Catching
  <2>4. QED BY <1>1, <2>2, <2>3
<1>10. Innermost(cs) = cs[Len(cs)] /\ Len(cs) \in 1 .. Len(cs) /\ Innermost(cs) \in 1 .. k - 1
  <2>1. Len(cs) \in 1 .. Len(cs)
    BY <1>7, <1>8 DEF ToSet
  <2>2. QED BY <1>9, <2>1 DEF Innermost
<1>11. /\ t \in Seq(Frames) /\ Len(t) = k /\ \A j \in 1 .. k - 1 : t[j] = stack[j]
       /\ t[k].count = stack[Innermost(cs)].count /\ t[k].kind = "unbind" /\ t[k].link = Top.link
       /\ t[k].catches = Top.catches /\ t[k].handlers = Top.handlers
  <2> DEFINE n == stack[Innermost(cs)].count
             q == PendingQuit
             f == [Top EXCEPT !.count = n, !.quitf = q, !.entered = TRUE]
  <2>1. n \in Nat /\ q \in BOOLEAN
    <3>1. Innermost(cs) \in 1 .. k
      BY <1>1, <1>10
    <3>2. stack[Innermost(cs)] \in Frames
      BY <1>1, <3>1 DEF k
    <3>3. Top.quitf \in BOOLEAN /\ quit \in BOOLEAN
      BY <1>1 DEF Frames, Inv, Typed
    <3>4. QED BY <3>2, <3>3 DEF Frames, PendingQuit
  <2> HIDE DEF n, q
  <2>2. f \in Frames
    BY <1>1, <2>1 DEF Frames
  <2>3. f.count = n /\ f.kind = "unbind" /\ f.link = Top.link /\ f.catches = Top.catches /\ f.handlers = Top.handlers
    BY <1>1, <1>3 DEF Frames
  <2>4. t = [stack EXCEPT ![k] = f]
    BY <1>1, <1>3 DEF n, q
  <2> HIDE DEF f
  <2>5. t \in Seq(Frames) /\ Len(t) = k /\ t[k] = f /\ \A j \in 1 .. k - 1 : t[j] = stack[j]
    BY <1>1, <1>5, <2>2, <2>4 DEF k
  <2>6. QED BY <2>3, <2>5 DEF n
<1>12. /\ Alike(stack, t, k - 1) /\ k - 1 \in 2 .. Len(stack) /\ k - 1 <= Len(t) /\ t[1] = stack[1] /\ t[2] = stack[2]
       /\ \A i \in k - 1 + 1 .. Len(t) : i = k
  BY <1>1, <1>5, <1>11 DEF Alike, k
<1>13. FrameOK(t, k)
  <2>1. FrameOK(stack, k)
    BY <1>1, <1>5
  <2>2. Catches(t, k)
    BY <1>1, <1>3, <1>11, <2>1 DEF FrameOK, Catches
  <2>3. QED BY <1>3, <1>11, <2>2 DEF FrameOK
<1>14. Sound(t)
  BY <1>1, <1>4, <1>11, <1>12, <1>13, AlikeSound
<1>15. Within(t, k, depth, Len(pdl), cs, hs)
  BY <1>3, <1>8, <1>10, <1>11 DEF Within
<1>16. Chained(t, cs)
  <2>1. Chained(stack, cs)
    BY <1>1, <1>4, <1>6, ChainPrefix DEF L
  <2>2. k - 1 \in Nat /\ k - 1 <= Len(t) /\ Len(t) \in Nat
    BY <1>1, <1>5, <1>11
  <2>3. QED BY <1>7, <1>9, <1>12, <2>1, <2>2, AlikeChained
<1>17. Paired(t, cs, hs)
  <2>1. \A i \in 1 .. k : t[i].catches = stack[i].catches /\ t[i].handlers = stack[i].handlers
    <3>1. \A i \in 1 .. k : i = k \/ i \in 1 .. k - 1
      BY <1>1
    <3>2. QED BY <1>1, <1>11, <3>1
  <2>2. \A i \in 1 .. k : stack[i].catches = cs => stack[i].handlers = hs
    BY <1>1, <1>2, <1>3, <1>4, SamePairs DEF k
  <2>3. ToSet(hs) \subseteq ToSet(cs)
    <3>1. CASE I >= 3
      <4>1. FrameOK(stack, I)
        BY <1>1, <1>2, <1>4, <3>1 DEF Sound, k
      <4>2. QED BY <1>2, <1>3, <4>1 DEF FrameOK, Catches
    <3>2. CASE ~(I >= 3)
      <4>1. hs = <<>>
        BY <1>2, <1>3, <1>4, <3>2, Loops
      <4>2. QED BY <4>1 DEF ToSet
    <3>3. QED BY <3>1, <3>2
  <2>4. QED BY <1>11, <2>1, <2>2, <2>3 DEF Paired
<1>18. Owners(t, pdl, cs)
  <2> SUFFICES ASSUME NEW n \in 1 .. Len(pdl), pdl[n].owner # 0
               PROVE  Owned(t, pdl[n].owner, n, cs)
    BY DEF Owners
  <2> DEFINE o == pdl[n].owner
             K == Len(stack[o].catches)
  <2>1. Owned(stack, o, n, catchlist)
    BY <1>4 DEF Owners
  <2>2. /\ o \in 1 .. k /\ stack[o].kind = "protect" /\ K <= L
        /\ IF L <= K THEN stack[I].count < n ELSE I > o
    <3>1. L \in 1 .. L
      BY <1>2
    <3>2. QED BY <2>1, <3>1 DEF Owned, k, L
  <2>3. stack[o].catches \in Seq(Nat) /\ K \in Nat /\ stack[I].count \in Nat
    <3>1. stack[o] \in Frames /\ stack[I] \in Frames
      BY <1>1, <1>2, <2>2 DEF k
    <3>2. stack[o].catches \in Seq(Nat) /\ stack[I].count \in Nat
      BY <3>1 DEF Frames
    <3>3. QED BY <3>2
  <2>4. K <= L - 1
    <3>1. n <= stack[I].count
      BY <1>3, <1>4
    <3> HIDE DEF K
    <3>2. QED BY <1>1, <1>2, <2>2, <2>3, <3>1
  <2>5. o \in 1 .. k - 1
    <3>1. o # k
      BY <1>1, <1>3, <2>2
    <3>2. QED BY <1>1, <2>2, <3>1
  <2>6. Owned(stack, o, n, cs)
    BY <1>1, <1>6, <2>1, <2>3, <2>4, OwnedPrefix DEF L
  <2>7. k - 1 \in Nat /\ k - 1 <= Len(t) /\ Len(t) \in Nat
    BY <1>1, <1>5, <1>11
  <2>8. QED BY <1>7, <1>9, <1>12, <2>5, <2>6, <2>7, AlikeOwners
<1>19. Cleaned(t, pdl)
  <2>1. \A i \in 1 .. Len(t) : t[i].kind = "protect" => i \in 1 .. k - 1
    BY <1>1, <1>11
  <2>2. \A i \in 1 .. k - 1 : i \in 1 .. Len(stack)
    BY <1>1 DEF k
  <2>3. QED BY <1>4, <1>11, <2>1, <2>2 DEF Cleaned
<1>20. Shallow(t, Len(pdl), depth)
  BY <1>1, <1>3, <1>11 DEF Inv, Shallow, k
<1>21. hs \in Seq(Nat)
  <2>1. stack[I] \in Frames
    BY <1>1, <1>2 DEF k
  <2>2. QED BY <1>3, <2>1 DEF Frames
<1>22. Typed'
  <2>1. quit' \in BOOLEAN
    <3>1. Top.quitf \in BOOLEAN /\ quit \in BOOLEAN
      BY <1>1 DEF Frames, Inv, Typed
    <3>2. QED BY <1>3, <3>1 DEF PendingQuit
  <2>2. QED BY <1>3, <1>7, <1>11, <1>21, <2>1 DEF Inv, Typed, cs, hs, t
<1>23. QED BY <1>3, <1>11, <1>14, <1>15, <1>16, <1>17, <1>18, <1>19, <1>20, <1>22 DEF Inv, cs, hs, t

-----------------------------------------------------------------------------
(* condition-case binds its variable for the handler. *)
LEMMA HandlerBindsKeeps == ASSUME Inv, NEW val \in Values, HandlerBinds(val) PROVE Inv'
<1> DEFINE k == Len(stack)
           t == stack'
           e == [var |-> Top.var, old |-> value[Top.var], owner |-> 0]
           p == Append(pdl, e)
<1>1. /\ stack \in Seq(Frames) /\ k \in Nat /\ k >= 2 /\ Top = stack[k] /\ Top \in Frames
      /\ Top.catches \in Seq(Nat) /\ Top.handlers \in Seq(Nat)
      /\ catchlist \in Seq(Nat) /\ pdl \in Seq(Entries) /\ Len(pdl) \in Nat /\ (k = 2 \/ FrameOK(stack, k))
  BY Innermosts
<1>2. /\ Sound(stack) /\ Chained(stack, catchlist) /\ Owners(stack, pdl, catchlist) /\ Cleaned(stack, pdl)
      /\ Paired(stack, catchlist, handlerlist)
      /\ Within(stack, k, depth, Len(pdl), catchlist, handlerlist) /\ value \in [Vars -> Values]
  BY DEF Inv, Typed
<1>3. /\ Top.kind = "jumped" /\ Len(pdl) < MaxPdl /\ pdl' = p
      /\ t = [stack EXCEPT ![k].kind = "handler"] /\ value' = [value EXCEPT ![Top.var] = val]
      /\ UNCHANGED <<catchlist, handlerlist, depth, quit>>
  BY DEF HandlerBinds
<1>4. k # 2 /\ k \in 3 .. k
  <2>1. k # 2
    BY <1>1, <1>2, <1>3, Loops
  <2>2. \A l \in Nat : l >= 2 /\ l # 2 => l \in 3 .. l
    OBVIOUS
  <2>3. k \in Nat /\ k >= 2
    BY <1>1
  <2> HIDE DEF k
  <2>4. QED BY <2>1, <2>2, <2>3
<1> HIDE DEF k, t, p
<1>5. FrameOK(stack, k) /\ Top.var \in Vars
  <2>1. FrameOK(stack, k) /\ Top.var \in Vars \cup {None}
    BY <1>1, <1>4 DEF Frames
  <2>2. QED BY <1>1, <1>3, <2>1 DEF FrameOK
<1>6. /\ depth = Top.depth /\ Len(pdl) = Top.count /\ catchlist = Top.catches /\ handlerlist = Top.handlers
  <2>1. Bindings(Top) = 0 /\ Caught(Top, k) = <<>> /\ Handled(Top, k) = <<>>
    BY <1>3 DEF Bindings, Caught, Handled, Catching
  <2>2. /\ depth = Top.depth /\ Len(pdl) = Top.count + 0
        /\ catchlist = Top.catches \o <<>> /\ handlerlist = Top.handlers \o <<>>
    BY <1>1, <1>2, <1>3, <2>1 DEF Within
  <2>3. Top.count \in Nat
    BY <1>1 DEF Frames
  <2>4. QED BY <1>1, <2>2, <2>3
<1>7. /\ t \in Seq(Frames) /\ Len(t) = k /\ (\A j \in 1 .. k - 1 : t[j] = stack[j])
      /\ t[k].kind = "handler" /\ t[k].var = Top.var /\ t[k].depth = Top.depth /\ t[k].count = Top.count
      /\ t[k].catches = Top.catches /\ t[k].handlers = Top.handlers
  <2> DEFINE f == [Top EXCEPT !.kind = "handler"]
  <2>1. f \in Frames
    BY <1>1 DEF Frames, Kinds
  <2>2. /\ f.kind = "handler" /\ f.var = Top.var /\ f.depth = Top.depth /\ f.count = Top.count
        /\ f.catches = Top.catches /\ f.handlers = Top.handlers
    BY <1>1 DEF Frames
  <2>3. t = [stack EXCEPT ![k] = f]
    BY <1>1, <1>3
  <2> HIDE DEF f
  <2>4. t \in Seq(Frames) /\ Len(t) = k /\ t[k] = f /\ \A j \in 1 .. k - 1 : t[j] = stack[j]
    BY <1>1, <1>4, <2>1, <2>3 DEF k
  <2>5. QED BY <2>2, <2>4
<1>8. /\ Alike(stack, t, k - 1) /\ k - 1 \in 2 .. Len(stack) /\ k - 1 <= Len(t) /\ t[1] = stack[1] /\ t[2] = stack[2]
      /\ k - 1 \in Nat /\ Len(t) \in Nat
      /\ \A i \in k - 1 + 1 .. Len(t) : i = k
  BY <1>1, <1>4, <1>7 DEF Alike, k
<1>9. (\A c \in ToSet(catchlist) : c \in 1 .. k - 1) /\ \A j \in 1 .. Len(catchlist) : catchlist[j] \in 1 .. k - 1
  <2>1. \A c \in ToSet(catchlist) : c \in 1 .. k - 1
    BY <1>1, <1>5, <1>6 DEF FrameOK, Catches
  <2>2. QED BY <1>1, <2>1, Members
<1>10. FrameOK(t, k)
  <2>1. Bottom(t[k]) = Bottom(Top) /\ Outer(t[k]) = Outer(Top)
    BY <1>3, <1>7 DEF Bottom, Outer
  <2>2. Catches(t, k)
    BY <1>1, <1>3, <1>5, <1>7, <2>1 DEF FrameOK, Catches
  <2>3. Within(stack, k - 1, Outer(Top), Bottom(Top), catchlist, handlerlist)
    BY <1>1, <1>3, <1>5, <1>6 DEF FrameOK
  <2>4. stack[2].kind = "command"
    BY <1>2, Loops
  <2>5. Within(t, k - 1, Outer(Top), Bottom(Top), catchlist, handlerlist)
    BY <1>1, <1>7, <1>8, <1>9, <2>3, <2>4, AlikeWithin
  <2>6. Top.depth \in 1 .. MaxDepth
    BY <1>1, <1>3, <1>5 DEF FrameOK
  <2>7. QED BY <1>6, <1>7, <2>1, <2>2, <2>5, <2>6 DEF FrameOK
<1>11. Sound(t)
  BY <1>1, <1>2, <1>7, <1>8, <1>10, AlikeSound
<1>12. /\ p \in Seq(Entries) /\ Len(p) = Len(pdl) + 1 /\ p[Len(pdl) + 1].owner = 0
       /\ \A n \in 1 .. Len(pdl) : p[n] = pdl[n]
  <2>1. value[Top.var] \in Values
    BY <1>2, <1>5
  <2>2. e \in Entries
    BY <1>5, <2>1 DEF Entries
  <2>3. p = Append(pdl, e) /\ e.owner = 0
    BY DEF p
  <2> HIDE DEF e
  <2>4. QED BY <1>1, <2>2, <2>3, Added
<1>13. Within(t, k, depth, Len(p), catchlist, handlerlist)
  <2>1. t[k].var # None
    BY <1>1, <1>3, <1>5, <1>7 DEF FrameOK
  <2>2. Bindings(t[k]) = 1 /\ Caught(t[k], k) = <<>> /\ Handled(t[k], k) = <<>>
    BY <1>7, <2>1 DEF Bindings, Caught, Handled, Catching
  <2>3. catchlist \o <<>> = catchlist /\ handlerlist \o <<>> = handlerlist
    BY <1>1, <1>6
  <2>4. QED BY <1>6, <1>7, <1>12, <2>2, <2>3 DEF Within
<1>14. Chained(t, catchlist)
  BY <1>1, <1>2, <1>8, <1>9, AlikeChained
<1>15. Paired(t, catchlist, handlerlist)
  <2>1. \A i \in 1 .. k : t[i].catches = stack[i].catches /\ t[i].handlers = stack[i].handlers
    <3>1. \A i \in 1 .. k : i = k \/ i \in 1 .. k - 1
      BY <1>1
    <3>2. QED BY <1>1, <1>7, <3>1
  <2>2. QED BY <1>2, <1>7, <2>1 DEF Paired, k
<1>16. \A n \in 1 .. Len(p) : n \in 1 .. Len(pdl) \/ n = Len(pdl) + 1
  BY <1>1, <1>12
<1>17. Owners(t, p, catchlist)
  <2> SUFFICES ASSUME NEW n \in 1 .. Len(p), p[n].owner # 0
               PROVE  Owned(t, p[n].owner, n, catchlist)
    BY DEF Owners
  <2>1. n \in 1 .. Len(pdl) /\ p[n] = pdl[n]
    BY <1>12, <1>16
  <2>2. Owned(stack, pdl[n].owner, n, catchlist)
    BY <1>2, <2>1 DEF Owners
  <2>3. pdl[n].owner \in 1 .. k /\ pdl[n].owner # k
    BY <1>1, <1>3, <2>2 DEF Owned, k
  <2>4. pdl[n].owner \in 1 .. k - 1
    BY <1>1, <2>3
  <2>5. Owned(t, pdl[n].owner, n, catchlist)
    BY <1>1, <1>8, <1>9, <2>2, <2>4, AlikeOwners
  <2>6. QED BY <2>1, <2>5
<1>18. Cleaned(t, p)
  <2>1. ASSUME NEW i \in 1 .. Len(t), t[i].kind = "protect" PROVE i \in 1 .. Len(stack) /\ t[i] = stack[i] /\ i # 0
    <3>1. i # k
      BY <1>7, <2>1
    <3>2. i \in 1 .. k - 1
      BY <1>1, <1>7, <3>1
    <3>3. i \in 1 .. k /\ i # 0
      BY <1>1, <3>2
    <3>4. QED BY <1>7, <3>2, <3>3 DEF k
  <2>2. ASSUME NEW i, i # 0 PROVE Owns(p, i) <=> Owns(pdl, i)
    <3>1. \A n \in 1 .. Len(pdl) : n \in 1 .. Len(p)
      BY <1>1, <1>12
    <3>2. QED BY <1>12, <1>16, <2>2, <3>1 DEF Owns
  <2>3. QED BY <1>2, <2>1, <2>2 DEF Cleaned
<1>19. Shallow(t, Len(p), depth)
  BY <1>1, <1>3, <1>7, <1>12, BoundAssumption DEF Shallow
<1>20. value' \in [Vars -> Values]
  BY <1>2, <1>3
<1>21. Typed'
  BY <1>3, <1>7, <1>12, <1>20 DEF Inv, Typed, t
<1>22. QED BY <1>3, <1>7, <1>11, <1>13, <1>14, <1>15, <1>17, <1>18, <1>19, <1>21 DEF Inv, t

(* unbind_to clears quit-flag: of its frame, only the mark that it was entered *)
(* changes.                                                                    *)
LEMMA TopMarked ==
  ASSUME Inv, HideQuit
  PROVE  /\ stack' \in Seq(Frames) /\ Len(stack') = Len(stack)
         /\ Alike(stack, stack', Len(stack))
         /\ \A i \in 1 .. Len(stack) :
              /\ stack'[i].kind = stack[i].kind /\ stack'[i].quitf = stack[i].quitf
              /\ stack'[i].cleaned = stack[i].cleaned
<1> DEFINE k == Len(stack)
           f == [Top EXCEPT !.entered = FALSE]
<1>1. stack \in Seq(Frames) /\ k \in Nat /\ k >= 2 /\ Top = stack[k] /\ Top \in Frames
  BY Innermosts
<1>2. f \in Frames
  BY <1>1 DEF Frames
<1>3. /\ f.kind = Top.kind /\ f.link = Top.link /\ f.var = Top.var /\ f.depth = Top.depth
      /\ f.count = Top.count /\ f.catches = Top.catches /\ f.handlers = Top.handlers
      /\ f.quitf = Top.quitf /\ f.cleaned = Top.cleaned
  BY <1>1 DEF Frames
<1>4. stack' = [stack EXCEPT ![k] = f]
  BY <1>1 DEF HideQuit
<1> HIDE DEF f
<1>5. stack' \in Seq(Frames) /\ Len(stack') = k /\ \A i \in 1 .. k : stack'[i] = IF i = k THEN f ELSE stack[i]
  BY <1>1, <1>2, <1>4
<1>6. QED BY <1>1, <1>3, <1>5 DEF Alike

(* unbind_to hides what was pending: the levels stay what they were.         *)
LEMMA HideQuitKeeps == ASSUME Inv, HideQuit PROVE Inv'
<1> DEFINE k == Len(stack)
           t == stack'
<1>1. /\ stack \in Seq(Frames) /\ k \in Nat /\ k >= 2
      /\ \A c \in ToSet(catchlist) : c \in 1 .. k
  BY Innermosts
<1>2. /\ t \in Seq(Frames) /\ Len(t) = k /\ Alike(stack, t, k)
      /\ \A i \in 1 .. k : t[i].kind = stack[i].kind /\ t[i].cleaned = stack[i].cleaned
  BY TopMarked
<1>3. quit' = FALSE /\ UNCHANGED <<pdl, catchlist, handlerlist, depth, value>>
  BY DEF HideQuit
<1>4. /\ Sound(stack) /\ Chained(stack, catchlist) /\ Paired(stack, catchlist, handlerlist)
      /\ Owners(stack, pdl, catchlist) /\ Cleaned(stack, pdl) /\ Shallow(stack, Len(pdl), depth)
      /\ Within(stack, k, depth, Len(pdl), catchlist, handlerlist)
      /\ catchlist \in Seq(Nat) /\ \A j \in 1 .. Len(catchlist) : catchlist[j] \in 1 .. k
  BY Innermosts DEF Inv
<1>5. t[1] = stack[1] /\ t[2] = stack[2]
  <2>1. k # 1 /\ k # 2
    <3>1. stack[k].kind = "unbind"
      BY DEF HideQuit, Top
    <3>2. stack[1].kind = "catch" /\ stack[2].kind = "command"
      BY <1>4, Loops
    <3>3. QED BY <3>1, <3>2
  <2>2. 1 \in 1 .. k /\ 2 \in 1 .. k
    BY <1>1
  <2>3. QED BY <1>1, <2>1, <2>2 DEF HideQuit
<1> HIDE DEF k, t
<1>6. k \in 2 .. Len(stack) /\ k <= Len(t) /\ Len(t) \in Nat /\ stack[2].kind = "command" /\ k \in 1 .. k
  BY <1>1, <1>2, <1>4, Loops DEF k
<1>7. Sound(t)
  <2>1. \A i \in k + 1 .. Len(t) : i >= 3 => FrameOK(t, i)
    BY <1>1, <1>2
  <2>2. QED BY <1>1, <1>2, <1>4, <1>5, <1>6, <2>1, AlikeSound
<1>8. Within(t, k, depth, Len(pdl), catchlist, handlerlist)
  BY <1>1, <1>2, <1>4, <1>6, AlikeWithin
<1>9. Chained(t, catchlist)
  BY <1>1, <1>2, <1>4, <1>6, AlikeChained
<1>10. Paired(t, catchlist, handlerlist)
  BY <1>2, <1>4 DEF Paired, Alike, k
<1>11. Owners(t, pdl, catchlist)
  <2> SUFFICES ASSUME NEW n \in 1 .. Len(pdl), pdl[n].owner # 0
               PROVE  Owned(t, pdl[n].owner, n, catchlist)
    BY DEF Owners
  <2>1. Owned(stack, pdl[n].owner, n, catchlist)
    BY <1>4 DEF Owners
  <2>2. pdl[n].owner \in 1 .. k
    BY <2>1 DEF Owned, k
  <2>3. QED BY <1>1, <1>2, <1>4, <1>6, <2>1, <2>2, AlikeOwners
<1>12. Cleaned(t, pdl)
  BY <1>2, <1>4 DEF Cleaned, k
<1>13. Shallow(t, Len(pdl), depth)
  BY <1>2, <1>4, <1>6 DEF Shallow, k
<1>14. Typed'
  BY <1>2, <1>3 DEF Inv, Typed, t
<1>15. QED BY <1>2, <1>3, <1>7, <1>8, <1>9, <1>10, <1>11, <1>12, <1>13, <1>14 DEF Inv, t

(* unbind_to takes the last entry of specpdl. *)
LEMMA Popped ==
  ASSUME Inv, Unbinds
  PROVE  LET n == Len(pdl)
             p == Without(pdl)
         IN /\ n \in Nat /\ n > 0 /\ n - 1 \in Nat /\ Innermost(pdl) = pdl[n] /\ pdl[n] \in Entries
            /\ p \in Seq(Entries) /\ Len(p) = n - 1 /\ \A j \in 1 .. n - 1 : p[j] = pdl[j] /\ j \in 1 .. n
            /\ \A j \in 1 .. n : j = n \/ j \in 1 .. n - 1
            /\ Top.kind = "unbind" /\ Top.count \in Nat /\ Top.count < n
            /\ Top.link = 0 => Top.count = n - 1
            /\ Within(stack, Len(stack), depth, n - 1, catchlist, handlerlist)
            /\ Shallow(stack, n - 1, depth)
<1> DEFINE n == Len(pdl)
           p == Without(pdl)
<1>1. /\ pdl \in Seq(Entries) /\ n \in Nat /\ Top = stack[Len(stack)] /\ Top \in Frames
  BY Innermosts
<1>2. Top.kind = "unbind" /\ n > Top.count
  BY DEF Unbinds
<1>3. Top.count \in Nat
  BY <1>1 DEF Frames
<1>4. n > 0 /\ n - 1 \in Nat /\ n \in 1 .. n /\ n - 1 \in 0 .. n /\ (\A j \in 1 .. n - 1 : j \in 1 .. n)
      /\ \A j \in 1 .. n : j = n \/ j \in 1 .. n - 1
  BY <1>1, <1>2, <1>3
<1>5. Innermost(pdl) = pdl[n] /\ pdl[n] \in Entries
  BY <1>1, <1>4 DEF Innermost
<1>6. p \in Seq(Entries) /\ Len(p) = n - 1 /\ \A j \in 1 .. n - 1 : p[j] = pdl[j]
  BY <1>1, <1>4, Prefix DEF Without
<1>7. Within(stack, Len(stack), depth, n, catchlist, handlerlist)
  BY DEF Inv
<1>8. Top.link = 0 => Top.count = n - 1
  <2>1. Top.link = 0 => n \in {Top.count, Top.count + 1}
    BY <1>1, <1>2, <1>7 DEF Within
  <2>2. QED BY <1>1, <1>2, <1>3, <2>1
<1> HIDE DEF n, p
<1>9. Within(stack, Len(stack), depth, n - 1, catchlist, handlerlist)
  BY <1>1, <1>2, <1>7, <1>8 DEF Within
<1>10. Shallow(stack, n - 1, depth)
  <2>1. Shallow(stack, n, depth) /\ depth \in Nat
    BY DEF Inv, Typed, n
  <2>2. n - 1 <= MaxPdl
    BY <1>1, <2>1, BoundAssumption DEF Shallow
  <2>3. depth <= MaxDepth \/ depth + (n - 1) <= MaxDepth + MaxPdl + 1
    BY <1>1, <1>2, <2>1, BoundAssumption DEF Shallow
  <2>4. QED BY <2>2, <2>3 DEF Shallow
<1>11. QED BY <1>1, <1>2, <1>3, <1>4, <1>5, <1>6, <1>8, <1>9, <1>10 DEF n, p

(* unbind_to restores a variable. *)
LEMMA UnbindVariableKeeps == ASSUME Inv, UnbindVariable PROVE Inv'
<1> DEFINE n == Len(pdl)
           p == Without(pdl)
<1>1. /\ n \in Nat /\ n > 0 /\ Innermost(pdl) = pdl[n] /\ pdl[n] \in Entries
      /\ p \in Seq(Entries) /\ Len(p) = n - 1 /\ (\A j \in 1 .. n - 1 : p[j] = pdl[j] /\ j \in 1 .. n)
      /\ (\A j \in 1 .. n : j = n \/ j \in 1 .. n - 1)
      /\ Within(stack, Len(stack), depth, n - 1, catchlist, handlerlist)
      /\ Shallow(stack, n - 1, depth)
  BY Popped DEF UnbindVariable
<1>2. /\ Unbinds /\ pdl[n].owner = 0 /\ pdl' = p
      /\ value' = [value EXCEPT ![pdl[n].var] = pdl[n].old]
      /\ UNCHANGED <<stack, catchlist, handlerlist, depth, quit>>
  BY <1>1 DEF UnbindVariable
<1> HIDE DEF n, p
<1>3. value' \in [Vars -> Values]
  <2>1. pdl[n].old \in Values /\ value \in [Vars -> Values]
    BY <1>1 DEF Entries, Inv, Typed
  <2>2. QED BY <1>2, <2>1
<1>4. Owners(stack, p, catchlist)
  BY <1>1 DEF Inv, Owners, n
<1>5. Cleaned(stack, p)
  <2>1. ASSUME NEW i \in 1 .. Len(stack) PROVE Owns(p, i) <=> Owns(pdl, i)
    <3>1. i # 0
      OBVIOUS
    <3>2. QED BY <1>1, <1>2, <3>1 DEF Owns, n
  <2>2. QED BY <2>1 DEF Inv, Cleaned
<1>6. Typed'
  BY <1>1, <1>2, <1>3 DEF Inv, Typed
<1>7. QED BY <1>1, <1>2, <1>4, <1>5, <1>6 DEF Inv

(* unbind_to runs the forms of the unwind-protect O, whose entry N of specpdl *)
(* is the last: they find the catches and the handlers around it.             *)
LEMMA FormsFit ==
  ASSUME Inv, Unbinds, Innermost(pdl).owner # 0
  PROVE  LET n == Len(pdl)
             o == Innermost(pdl).owner
         IN /\ o \in 1 .. Len(stack) /\ stack[o].kind = "protect" /\ stack[o].count + 1 = n
            /\ stack[o].catches = catchlist /\ stack[o].handlers = handlerlist /\ 2 \in ToSet(handlerlist)
            /\ \A c \in ToSet(catchlist) : stack[c].count <= n - 1
            /\ \A j \in 1 .. n - 1 : pdl[j].owner # o
<1> DEFINE n == Len(pdl)
           o == Innermost(pdl).owner
           K == Len(stack[o].catches)
           L == Len(catchlist)
<1>1. /\ n \in Nat /\ n > 0 /\ Innermost(pdl) = pdl[n] /\ (\A j \in 1 .. n - 1 : j \in 1 .. n)
      /\ Top.kind = "unbind" /\ Top.count \in Nat /\ Top.count < n
  BY Popped
<1>2. /\ Sound(stack) /\ Paired(stack, catchlist, handlerlist) /\ Owners(stack, pdl, catchlist)
      /\ catchlist \in Seq(Nat) /\ stack \in Seq(Frames)
  BY DEF Inv, Typed
<1>3. Owned(stack, o, n, catchlist) /\ o # 0 /\ n \in 1 .. n
  BY <1>1, <1>2 DEF Owners
<1>4. /\ o \in 1 .. Len(stack) /\ stack[o].kind = "protect" /\ stack[o].count + 1 = n
      /\ K <= L /\ stack[o].catches = SubSeq(catchlist, 1, K)
      /\ \A j \in 1 .. L : IF j <= K THEN catchlist[j] < o /\ stack[catchlist[j]].count < n
                           ELSE catchlist[j] > o /\ stack[catchlist[j]].count >= n
  BY <1>3 DEF Owned
<1>5. L \in Nat /\ L >= 1 /\ L \in 1 .. L /\ catchlist[L] \in 1 .. Len(stack)
  BY Caughts
<1>6. stack[o] \in Frames /\ stack[catchlist[L]] \in Frames
  BY <1>2, <1>4, <1>5
<1>7. stack[o].catches \in Seq(Nat) /\ stack[o].count \in Nat /\ stack[catchlist[L]].count \in Nat
  BY <1>6 DEF Frames
<1>8. K \in Nat
  BY <1>7
<1> HIDE DEF n, o, K, L
<1>9. stack[catchlist[L]].count <= Top.count
  <2>1. CASE Top.link = 0
    <3>1. /\ Len(stack) - 1 \in 3 .. Len(stack) /\ FrameOK(stack, Len(stack) - 1)
          /\ stack[Len(stack) - 1].kind \in {"let", "protect", "handler"}
          /\ Top.count = stack[Len(stack) - 1].count /\ catchlist = stack[Len(stack) - 1].catches
      BY <1>1, <2>1, Returning
    <3>2. catchlist[L] \in ToSet(catchlist)
      BY <1>2, <1>5, Members DEF L
    <3>3. QED BY <3>1, <3>2 DEF FrameOK, Catches, Bottom
  <2>2. CASE Top.link # 0
    BY <1>1, <1>7, <2>2 DEF Inv, Within, Top, L
  <2>3. QED BY <2>1, <2>2
<1>10. K = L
  BY <1>1, <1>4, <1>5, <1>7, <1>8, <1>9
<1>11. stack[o].catches = catchlist
  BY <1>2, <1>4, <1>10, WholeIsPrefix DEF L
<1>12. stack[o].handlers = handlerlist
  BY <1>2, <1>4, <1>11 DEF Paired
<1>13. 2 \in ToSet(handlerlist)
  <2>1. o # 1 /\ o # 2
    BY <1>2, <1>4, Loops
  <2>2. FrameOK(stack, o)
    BY <1>2, <1>4, <2>1 DEF Sound
  <2>3. QED BY <1>12, <2>2 DEF FrameOK, Catches
<1>14. ASSUME NEW c \in ToSet(catchlist) PROVE stack[c].count <= n - 1
  <2>1. PICK j \in 1 .. L : catchlist[j] = c
    BY <1>2, Members DEF L
  <2>2. stack[c].count < n
    BY <1>4, <1>5, <1>10, <2>1
  <2>3. c \in 1 .. Len(stack)
    BY Innermosts
  <2>4. stack[c].count \in Nat
    <3>1. stack[c] \in Frames
      BY <1>2, <2>3
    <3>2. QED BY <3>1 DEF Frames
  <2>5. QED BY <1>1, <2>2, <2>4
<1>15. ASSUME NEW j \in 1 .. n - 1, pdl[j].owner = o PROVE FALSE
  <2>1. Owned(stack, o, j, catchlist)
    BY <1>1, <1>2, <1>3, <1>15 DEF Owners, n
  <2>2. stack[o].count + 1 = j
    BY <2>1 DEF Owned
  <2>3. QED BY <1>1, <1>4, <2>2
<1>16. QED BY <1>4, <1>11, <1>12, <1>13, <1>14, <1>15 DEF n, o

(* unbind_to runs unwind forms.                                              *)
LEMMA RunFormsKeeps == ASSUME Inv, RunForms PROVE Inv'
<1> DEFINE k == Len(stack)
           n == Len(pdl)
           o == Innermost(pdl).owner
           p == Without(pdl)
           u == [stack EXCEPT ![o].cleaned = @ + 1]
           f == Frame("forms", None, o, depth)
           t == Append(u, f)
<1>1. /\ stack \in Seq(Frames) /\ k \in Nat /\ k >= 2 /\ Top = stack[k]
      /\ catchlist \in Seq(Nat) /\ handlerlist \in Seq(Nat)
      /\ \A c \in ToSet(catchlist) : c \in 1 .. k
  BY Innermosts
<1>2. /\ n \in Nat /\ n > 0 /\ Innermost(pdl) = pdl[n]
      /\ p \in Seq(Entries) /\ Len(p) = n - 1 /\ (\A j \in 1 .. n - 1 : p[j] = pdl[j] /\ j \in 1 .. n)
      /\ (\A j \in 1 .. n : j = n \/ j \in 1 .. n - 1)
      /\ Top.kind = "unbind"
      /\ Within(stack, k, depth, n - 1, catchlist, handlerlist)
      /\ Shallow(stack, n - 1, depth)
  BY Popped DEF RunForms
<1>3. /\ o \in 1 .. k /\ stack[o].kind = "protect" /\ stack[o].count + 1 = n
      /\ stack[o].catches = catchlist /\ stack[o].handlers = handlerlist /\ 2 \in ToSet(handlerlist)
      /\ (\A c \in ToSet(catchlist) : stack[c].count <= n - 1)
      /\ \A j \in 1 .. n - 1 : pdl[j].owner # o
  BY FormsFit DEF RunForms
<1>4. stack' = t /\ pdl' = p /\ UNCHANGED <<catchlist, handlerlist, depth, value, quit>>
  BY DEF RunForms
<1>5. Sound(stack) /\ Cleaned(stack, pdl) /\ Shallow(stack, n, depth) /\ depth \in Nat
  BY DEF Inv, Typed
<1> HIDE DEF k, n, o, p
<1>6. /\ u \in Seq(Frames) /\ Len(u) = k /\ u[o].cleaned = stack[o].cleaned + 1
      /\ \A i \in 1 .. k : i # o => u[i] = stack[i]
  <2> DEFINE g == [stack[o] EXCEPT !.cleaned = @ + 1]
  <2>1. stack[o] \in Frames
    BY <1>1, <1>3 DEF k
  <2>2. g \in Frames /\ g.cleaned = stack[o].cleaned + 1
    <3> DEFINE h == stack[o]
               c == h.cleaned + 1
    <3>1. h \in Frames /\ c \in Nat
      BY <2>1 DEF Frames
    <3>2. g = [h EXCEPT !.cleaned = c]
      OBVIOUS
    <3> HIDE DEF h, c
    <3>3. g \in Frames /\ g.cleaned = c
      BY <3>1, <3>2 DEF Frames
    <3>4. QED BY <3>3 DEF h, c
  <2>3. u = [stack EXCEPT ![o] = g]
    BY <1>1, <1>3
  <2> HIDE DEF g
  <2>4. u \in Seq(Frames) /\ Len(u) = k /\ u[o] = g /\ \A i \in 1 .. k : i # o => u[i] = stack[i]
    <3>1. o \in 1 .. Len(stack) /\ k = Len(stack)
      BY <1>3 DEF k
    <3> HIDE DEF u
    <3>2. QED BY <1>1, <2>2, <2>3, <3>1
  <2>5. QED BY <2>2, <2>4
<1>7. Alike(stack, u, k)
  <2> SUFFICES ASSUME NEW i \in 1 .. k
               PROVE  /\ u[i].kind = stack[i].kind /\ u[i].link = stack[i].link /\ u[i].var = stack[i].var
                      /\ u[i].depth = stack[i].depth /\ u[i].count = stack[i].count
                      /\ u[i].catches = stack[i].catches /\ u[i].handlers = stack[i].handlers
    BY DEF Alike
  <2>1. CASE i = o
    <3>1. u[i] = [stack[i] EXCEPT !.cleaned = @ + 1] /\ stack[i] \in Frames
      BY <1>1, <2>1 DEF k
    <3>2. QED BY <3>1 DEF Frames
  <2>2. CASE i # o
    BY <1>6, <2>2
  <2>3. QED BY <2>1, <2>2
<1>8. /\ f \in Frames /\ f.kind = "forms" /\ f.link = o /\ f.depth = depth /\ f.count = n
      /\ f.catches = catchlist /\ f.handlers = handlerlist
  <2>1. o \in Nat /\ n \in Nat
    BY <1>1, <1>2, <1>3
  <2>2. QED BY <1>1, <1>5, <2>1 DEF Frame, Frames, Kinds, n
<1> HIDE DEF u, f
<1>9. /\ t \in Seq(Frames) /\ Len(t) = k + 1 /\ t[k + 1] = f /\ \A i \in 1 .. k : t[i] = u[i]
  <2>1. /\ t \in Seq(Frames) /\ Len(t) = Len(u) + 1 /\ t[Len(u) + 1] = f /\ \A i \in 1 .. Len(u) : t[i] = u[i]
    BY <1>6, <1>8, Added
  <2>2. QED BY <1>6, <2>1
<1> HIDE DEF t
<1>10. Alike(stack, t, k)
  BY <1>7, <1>9 DEF Alike
<1>11. t[1] = stack[1] /\ t[2] = stack[2] /\ Len(t) - 1 = k /\ t[Len(t)] = f
  <2>1. o # 1 /\ o # 2
    BY <1>3, <1>5, Loops
  <2>2. 1 \in 1 .. k /\ 2 \in 1 .. k
    BY <1>1
  <2>3. t[1] = stack[1] /\ t[2] = stack[2]
    BY <1>6, <1>9, <2>1, <2>2
  <2>4. QED BY <1>1, <1>9, <2>3
<1>12. Bottom(f) = n - 1 /\ Outer(f) = depth
  BY <1>8 DEF Bottom, Outer
<1>13. /\ FrameOK(t, Len(t)) => Sound(t)
       /\ Chained(t, catchlist) /\ Owners(t, pdl, catchlist) /\ Paired(t, catchlist, handlerlist)
       /\ Catches(t, Len(t))
  BY <1>3, <1>8, <1>9, <1>10, <1>11, <1>12, Pushed DEF k
<1>14. Within(t, k, depth, n - 1, catchlist, handlerlist)
  <2>1. stack[2].kind = "command" /\ k \in 2 .. Len(stack) /\ k <= Len(t)
    BY <1>1, <1>5, <1>9, Loops DEF k
  <2>2. QED BY <1>1, <1>2, <1>9, <1>10, <2>1, AlikeWithin
<1>15. FrameOK(t, Len(t))
  <2>1. o \in 1 .. k /\ t[o].kind = "protect" /\ t[o].count = stack[o].count
        /\ t[o].catches = catchlist /\ t[o].handlers = handlerlist
    BY <1>3, <1>10 DEF Alike
  <2>2. f.depth <= MaxDepth \/ f.depth + f.count <= MaxDepth + MaxPdl + 1
    BY <1>1, <1>2, <1>5, <1>8 DEF Shallow, k
  <2>3. QED BY <1>3, <1>8, <1>11, <1>12, <1>13, <1>14, <2>1, <2>2 DEF FrameOK
<1>16. Within(t, Len(t), depth, Len(p), catchlist, handlerlist)
  BY <1>2, <1>8, <1>11 DEF Within
<1>17. Owners(t, p, catchlist)
  BY <1>2, <1>13 DEF Owners, n
<1>18. Cleaned(t, p)
  <2> SUFFICES ASSUME NEW i \in 1 .. Len(t), t[i].kind = "protect"
               PROVE  t[i].cleaned = IF Owns(p, i) THEN 0 ELSE 1
    BY DEF Cleaned
  <2>1. i \in 1 .. k
    <3>1. i # Len(t)
      BY <1>8, <1>11
    <3>2. QED BY <1>1, <1>9, <3>1
  <2>2. stack[i].kind = "protect" /\ t[i] = u[i]
    BY <1>9, <1>10, <2>1 DEF Alike
  <2>3. stack[i].cleaned = IF Owns(pdl, i) THEN 0 ELSE 1
    BY <1>5, <2>1, <2>2 DEF Cleaned, k
  <2>4. CASE i = o
    <3>1. Owns(pdl, i) /\ ~Owns(p, i)
      <4>1. n \in 1 .. n /\ pdl[n].owner = i
        BY <1>2, <2>4 DEF o
      <4>2. QED BY <1>2, <1>3, <2>4, <4>1 DEF Owns, n
    <3>2. QED BY <1>6, <2>2, <2>3, <2>4, <3>1
  <2>5. CASE i # o
    <3>1. Owns(p, i) <=> Owns(pdl, i)
      <4>1. pdl[n].owner # i
        BY <1>2, <2>5 DEF o
      <4>2. QED BY <1>2, <4>1 DEF Owns, n
    <3>2. QED BY <1>6, <2>1, <2>2, <2>3, <2>5, <3>1
  <2>6. QED BY <2>4, <2>5
<1>19. Shallow(t, Len(p), depth)
  BY <1>2, <1>8, <1>11 DEF Shallow
<1>20. Typed'
  BY <1>2, <1>4, <1>9 DEF Inv, Typed
<1>21. QED BY <1>4, <1>13, <1>15, <1>16, <1>17, <1>18, <1>19, <1>20 DEF Inv

(* Unwind forms are done: unbind_to goes on. *)
LEMMA ReturnFormsKeeps == ASSUME Inv, ReturnForms PROVE Inv'
<1> DEFINE k == Len(stack)
           n == Len(pdl)
           t == Without(stack)
<1>1. /\ stack \in Seq(Frames) /\ k \in Nat /\ k >= 2 /\ Top = stack[k] /\ Top \in Frames
      /\ Top.catches \in Seq(Nat) /\ Top.handlers \in Seq(Nat)
      /\ catchlist \in Seq(Nat) /\ n \in Nat /\ (k = 2 \/ FrameOK(stack, k))
  BY Innermosts
<1>2. /\ Sound(stack) /\ Within(stack, k, depth, n, catchlist, handlerlist) /\ Chained(stack, catchlist)
      /\ Paired(stack, catchlist, handlerlist) /\ Owners(stack, pdl, catchlist) /\ Cleaned(stack, pdl)
      /\ Shallow(stack, n, depth) /\ depth \in Nat
  BY DEF Inv, Typed
<1>3. Top.kind = "forms" /\ stack' = t /\ UNCHANGED <<pdl, catchlist, handlerlist, depth, value, quit>>
  BY DEF ReturnForms
<1>4. k # 2 /\ k \in 3 .. k
  <2>1. k # 2
    BY <1>1, <1>2, <1>3, Loops
  <2>2. \A l \in Nat : l >= 2 /\ l # 2 => l \in 3 .. l
    OBVIOUS
  <2>3. k \in Nat /\ k >= 2
    BY <1>1
  <2> HIDE DEF k
  <2>4. QED BY <2>1, <2>2, <2>3
<1> HIDE DEF k, n, t
<1>5. FrameOK(stack, k) /\ Top.count \in Nat
  BY <1>1, <1>4 DEF Frames
<1>6. depth = Top.depth /\ n + 1 = Top.count /\ catchlist = Top.catches /\ handlerlist = Top.handlers
  BY <1>1, <1>2, <1>3 DEF Within
<1>7. /\ t \in Seq(Frames) /\ Len(t) = k - 1 /\ (\A j \in 1 .. k - 1 : t[j] = stack[j])
      /\ k - 1 \in 2 .. Len(stack) /\ k - 1 \in Nat /\ k - 1 <= Len(t) /\ Len(t) \in Nat
      /\ 1 \in 1 .. k - 1 /\ 2 \in 1 .. k - 1 /\ \A i \in k - 1 + 1 .. Len(t) : FALSE
  <2>1. k - 1 \in 0 .. Len(stack) /\ k - 1 \in 2 .. Len(stack) /\ t = SubSeq(stack, 1, k - 1)
        /\ 1 \in 1 .. k - 1 /\ 2 \in 1 .. k - 1
    BY <1>1, <1>4 DEF Without, k, t
  <2>2. t \in Seq(Frames) /\ Len(t) = k - 1 /\ \A j \in 1 .. k - 1 : t[j] = stack[j]
    BY <1>1, <2>1, Prefix
  <2>3. QED BY <1>1, <2>1, <2>2
<1>8. Alike(stack, t, k - 1) /\ t[1] = stack[1] /\ t[2] = stack[2]
  BY <1>7 DEF Alike
<1>9. (\A c \in ToSet(catchlist) : c \in 1 .. k - 1) /\ \A j \in 1 .. Len(catchlist) : catchlist[j] \in 1 .. k - 1
  <2>1. \A c \in ToSet(catchlist) : c \in 1 .. k - 1
    BY <1>1, <1>5, <1>6 DEF FrameOK, Catches
  <2>2. QED BY <1>1, <2>1, Members
<1>10. Sound(t)
  BY <1>1, <1>2, <1>7, <1>8, AlikeSound
<1>11. Within(t, k - 1, depth, n, catchlist, handlerlist)
  <2>0. Outer(Top) = Top.depth /\ Bottom(Top) = Top.count - 1
    BY <1>3 DEF Outer, Bottom
  <2>1. Outer(Top) = depth /\ Bottom(Top) = n
    <3>1. \A c \in Nat : n + 1 = c => c - 1 = n
      BY <1>1
    <3>2. QED BY <1>5, <1>6, <2>0, <3>1
  <2>2. Within(stack, k - 1, depth, n, catchlist, handlerlist)
    BY <1>1, <1>3, <1>5, <1>6, <2>1 DEF FrameOK
  <2>3. stack[2].kind = "command"
    BY <1>2, Loops
  <2>4. QED BY <1>1, <1>7, <1>8, <1>9, <2>2, <2>3, AlikeWithin
<1>12. Chained(t, catchlist)
  BY <1>1, <1>2, <1>7, <1>8, <1>9, AlikeChained
<1>13. \A i \in 1 .. k - 1 : i \in 1 .. k
  BY <1>1
<1>14. Paired(t, catchlist, handlerlist)
  BY <1>2, <1>7, <1>13 DEF Paired, k
<1>15. Owners(t, pdl, catchlist)
  <2> SUFFICES ASSUME NEW m \in 1 .. Len(pdl), pdl[m].owner # 0
               PROVE  Owned(t, pdl[m].owner, m, catchlist)
    BY DEF Owners
  <2>1. Owned(stack, pdl[m].owner, m, catchlist)
    BY <1>2 DEF Owners
  <2>2. pdl[m].owner \in 1 .. k /\ pdl[m].owner # k
    BY <1>1, <1>3, <2>1 DEF Owned, k
  <2>3. pdl[m].owner \in 1 .. k - 1
    BY <1>1, <2>2
  <2>4. QED BY <1>1, <1>7, <1>8, <1>9, <2>1, <2>3, AlikeOwners
<1>16. Cleaned(t, pdl)
  BY <1>2, <1>7, <1>13 DEF Cleaned, k
<1>17. Shallow(t, n, depth)
  <2>1. n <= MaxPdl
    BY <1>2 DEF Shallow
  <2>2. Top.depth <= MaxDepth \/ Top.depth + Top.count <= MaxDepth + MaxPdl + 1
    BY <1>1, <1>3, <1>5 DEF FrameOK
  <2>3. depth <= MaxDepth \/ depth + n <= MaxDepth + MaxPdl + 1
    BY <1>1, <1>2, <1>6, <2>2, BoundAssumption
  <2>4. QED BY <2>1, <2>3 DEF Shallow
<1>18. Typed'
  BY <1>3, <1>7 DEF Inv, Typed
<1>19. QED BY <1>3, <1>7, <1>10, <1>11, <1>12, <1>14, <1>15, <1>16, <1>17, <1>18 DEF Inv, n

(* The special forms begin. *)
LEMMA FormsKeep ==
  ASSUME Inv,
         \/ UnwindProtect
         \/ (\E v \in Vars, val \in Values : Let(v, val))
         \/ (\E tag \in Tags : Catch(tag))
         \/ (\E condition \in Conditions : \E v \in Vars \cup {None} : ConditionCase(condition, v))
  PROVE  Inv'
<1>1. /\ catchlist \in Seq(Nat) /\ handlerlist \in Seq(Nat) /\ depth \in Nat /\ Len(pdl) \in Nat /\ Len(stack) \in Nat
      /\ value \in [Vars -> Values]
  BY Innermosts DEF Inv, Typed
<1>2. CASE UnwindProtect
  <2> DEFINE f == Frame("protect", None, 0, depth + 1)
             e == [var |-> None, old |-> Nil, owner |-> Len(stack) + 1]
  <2>1. /\ f \in Frames /\ f.kind = "protect" /\ f.depth = depth + 1 /\ f.count = Len(pdl)
        /\ f.catches = catchlist /\ f.handlers = handlerlist /\ f.cleaned = 0
    BY <1>1 DEF Frame, Frames, Kinds
  <2>2. e \in Entries /\ e.owner = Len(stack) + 1
    BY <1>1, VarAssumption DEF Entries
  <2>3. /\ Top.kind \notin {"unbind", "jumped"} /\ depth < MaxDepth /\ Len(pdl) < MaxPdl
        /\ stack' = Append(stack, f) /\ depth' = depth + 1 /\ pdl' = Append(pdl, e)
        /\ UNCHANGED <<catchlist, handlerlist, value, quit>>
    BY <1>2 DEF UnwindProtect, Evaluates, Running
  <2> HIDE DEF f, e
  <2>4. QED BY <1>1, <2>1, <2>2, <2>3, BindStep
<1>3. CASE \E v \in Vars, val \in Values : Let(v, val)
  <2>1. PICK v \in Vars, val \in Values : Let(v, val)
    BY <1>3
  <2> DEFINE f == Frame("let", None, 0, depth + 1)
             e == [var |-> v, old |-> value[v], owner |-> 0]
  <2>2. /\ f \in Frames /\ f.kind = "let" /\ f.depth = depth + 1 /\ f.count = Len(pdl)
        /\ f.catches = catchlist /\ f.handlers = handlerlist /\ f.cleaned = 0
    BY <1>1 DEF Frame, Frames, Kinds
  <2>3. e \in Entries /\ e.owner = 0
    BY <1>1 DEF Entries
  <2>4. /\ Top.kind \notin {"unbind", "jumped"} /\ depth < MaxDepth /\ Len(pdl) < MaxPdl
        /\ stack' = Append(stack, f) /\ depth' = depth + 1 /\ pdl' = Append(pdl, e)
        /\ value' \in [Vars -> Values] /\ UNCHANGED <<catchlist, handlerlist, quit>>
    BY <1>1, <2>1 DEF Let, Evaluates, Running
  <2> HIDE DEF f, e
  <2>5. QED BY <1>1, <2>2, <2>3, <2>4, BindStep
<1>4. CASE \E tag \in Tags : Catch(tag)
  <2>1. PICK tag \in Tags : Catch(tag)
    BY <1>4
  <2> DEFINE f == Frame("catch", tag, 0, depth + 1)
  <2>2. /\ f \in Frames /\ f.kind = "catch" /\ f.depth = depth + 1 /\ f.count = Len(pdl)
        /\ f.catches = catchlist /\ f.handlers = handlerlist
    BY <1>1 DEF Frame, Frames, Kinds
  <2>3. /\ Top.kind \notin {"unbind", "jumped"} /\ depth < MaxDepth
        /\ stack' = Append(stack, f) /\ depth' = depth + 1 /\ catchlist' = Append(catchlist, Len(stack) + 1)
        /\ UNCHANGED <<pdl, handlerlist, value, quit>>
    BY <2>1 DEF Catch, Evaluates, Running
  <2> HIDE DEF f
  <2>4. QED BY <1>1, <2>2, <2>3, CatchStep
<1>5. CASE \E condition \in Conditions : \E v \in Vars \cup {None} : ConditionCase(condition, v)
  <2>1. PICK condition \in Conditions, v \in Vars \cup {None} : ConditionCase(condition, v)
    BY <1>5
  <2> DEFINE f == [Frame("condition", condition, 0, depth + 1) EXCEPT !.var = v]
  <2>2. /\ f \in Frames /\ f.kind = "condition" /\ f.depth = depth + 1 /\ f.count = Len(pdl)
        /\ f.catches = catchlist /\ f.handlers = handlerlist
    <3> DEFINE g == Frame("condition", condition, 0, depth + 1)
    <3>1. /\ g \in Frames /\ g.kind = "condition" /\ g.depth = depth + 1 /\ g.count = Len(pdl)
          /\ g.catches = catchlist /\ g.handlers = handlerlist
      BY <1>1 DEF Frame, Frames, Kinds
    <3>2. v \in Vars \cup {None} /\ f = [g EXCEPT !.var = v]
      OBVIOUS
    <3> HIDE DEF g, f
    <3>3. QED BY <3>1, <3>2 DEF Frames
  <2>3. /\ Top.kind \notin {"unbind", "jumped"} /\ depth < MaxDepth
        /\ stack' = Append(stack, f) /\ depth' = depth + 1 /\ catchlist' = Append(catchlist, Len(stack) + 1)
        /\ handlerlist' = Append(handlerlist, Len(stack) + 1)
        /\ UNCHANGED <<pdl, value, quit>>
    BY <2>1 DEF ConditionCase, Evaluates, Running
  <2> HIDE DEF f
  <2>4. QED BY <1>1, <2>2, <2>3, CatchStep
<1>6. QED BY <1>2, <1>3, <1>4, <1>5

(* Every step keeps the invariant. *)
LEMMA StepKeeps == Inv /\ [Next]_vars => Inv'
<1> SUFFICES ASSUME Inv, [Next]_vars PROVE Inv'
  OBVIOUS
<1>1. CASE EvalQuit \/ EvalTooDeep \/ EvalPdlFull \/ HandlerPdlFull
  BY <1>1, UnwindsKeep
<1>2. CASE UnwindProtect
  BY <1>2, FormsKeep
<1>3. CASE \E v \in Vars, val \in Values : Setq(v, val) \/ Let(v, val)
  <2>1. CASE \E v \in Vars, val \in Values : Setq(v, val)
    <3>1. value' \in [Vars -> Values] /\ UNCHANGED <<stack, pdl, catchlist, handlerlist, depth, quit>>
      BY <2>1 DEF Setq, Inv, Typed
    <3>2. QED BY <3>1 DEF Inv, Typed
  <2>2. CASE \E v \in Vars, val \in Values : Let(v, val)
    BY <2>2, FormsKeep
  <2>3. QED BY <1>3, <2>1, <2>2
<1>4. CASE \E tag \in Tags : Catch(tag) \/ Throw(tag)
  BY <1>4, FormsKeep, UnwindsKeep
<1>5. CASE \E condition \in Conditions : \/ EvalSignal(condition)
                                        \/ \E v \in Vars \cup {None} : ConditionCase(condition, v)
  BY <1>5, FormsKeep, UnwindsKeep
<1>6. CASE ReturnUnbinding
  BY <1>6, ReturnUnbindingKeeps
<1>7. CASE ReturnCatch
  BY <1>7, ReturnCatchKeeps
<1>8. CASE ReturnForms
  BY <1>8, ReturnFormsKeeps
<1>9. CASE HideQuit \/ UnbindVariable
  BY <1>9, HideQuitKeeps, UnbindVariableKeeps
<1>10. CASE RunForms
  BY <1>10, RunFormsKeeps
<1>11. CASE UnboundReturn
  BY <1>11, UnboundReturnKeeps
<1>12. CASE UnboundNext
  BY <1>12, UnboundNextKeeps
<1>13. CASE ArriveAtCatch \/ ArriveAtHandler \/ CmdError
  BY <1>13, ArriveKeeps
<1>14. CASE \E val \in Values \ {Nil} : HandlerBinds(val)
  BY <1>14, HandlerBindsKeeps
<1>15. CASE InterruptSignal
  <2>1. quit' \in BOOLEAN /\ UNCHANGED <<stack, pdl, catchlist, handlerlist, depth, value>>
    BY <1>15 DEF InterruptSignal
  <2>2. QED BY <2>1 DEF Inv, Typed
<1>16. CASE UNCHANGED vars
  BY <1>16 DEF vars, Inv, Typed
<1>17. QED
  BY <1>1, <1>2, <1>3, <1>4, <1>5, <1>6, <1>7, <1>8, <1>9, <1>10, <1>11, <1>12, <1>13, <1>14, <1>15, <1>16 DEF Next

(* Every frame fits the frames under it, always. *)
THEOREM Invariance == Spec => []Inv
<1>1. QED BY InitInv, StepKeeps, PTL DEF Spec

-----------------------------------------------------------------------------
(* The limits hold: specpdl stays within its limit, and signals out of unwind *)
(* forms nest lisp_eval_depth no deeper than specpdl has entries.            *)
THEOREM Types == Spec => []TypeOK
<1>1. Inv => TypeOK
  <2> SUFFICES ASSUME Inv PROVE TypeOK
    OBVIOUS
  <2>1. /\ stack \in Seq(Frames) /\ pdl \in Seq(Entries) /\ Len(pdl) \in Nat /\ Top = stack[Len(stack)]
        /\ (Len(stack) = 2 \/ FrameOK(stack, Len(stack))) /\ Top \in Frames
    BY Innermosts
  <2>2. /\ Typed /\ Sound(stack) /\ Shallow(stack, Len(pdl), depth)
        /\ Within(stack, Len(stack), depth, Len(pdl), catchlist, handlerlist)
    BY DEF Inv
  <2>3. ASSUME NEW i \in 1 .. Len(stack) PROVE stack[i].kind \in Kinds
    <3>1. stack[i] \in Frames
      BY <2>1
    <3>2. QED BY <3>1 DEF Frames
  <2>4. ASSUME NEW i \in 1 .. Len(pdl)
        PROVE  pdl[i].var \in Vars \cup {None} /\ pdl[i].old \in Values /\ pdl[i].owner \in Nat
    <3>1. pdl[i] \in Entries
      BY <2>1
    <3>2. QED BY <3>1 DEF Entries
  <2>5. depth <= MaxDepth \/ \E n \in Nat : depth + n <= MaxDepth + MaxPdl + 1
    <3>1. CASE Top.kind = "unbind"
      BY <2>1, <2>2, <3>1 DEF Shallow
    <3>2. CASE Top.kind = "forms"
      <4>1. FrameOK(stack, Len(stack))
        BY <2>1, <2>2, <3>2, Loops
      <4>2. depth = Top.depth /\ Top.count \in Nat
        BY <2>1, <2>2, <3>2 DEF Within, Frames
      <4>3. QED BY <2>1, <3>2, <4>1, <4>2 DEF FrameOK
    <3>3. CASE Top.kind \notin {"unbind", "forms"}
      BY <3>3, Levels
    <3>4. QED BY <3>1, <3>2, <3>3
  <2>6. depth \in 0 .. MaxDepth + MaxPdl + 1
    <3>1. depth \in Nat
      BY <2>2 DEF Typed
    <3>2. QED BY <2>5, <3>1, BoundAssumption
  <2>7. Len(pdl) <= MaxPdl /\ value \in [Vars -> Values] /\ quit \in BOOLEAN
    BY <2>2 DEF Shallow, Typed
  <2>8. QED BY <2>3, <2>4, <2>6, <2>7 DEF TypeOK, Kinds
<1>2. QED BY <1>1, Invariance, PTL

(* However a form was left, the five stacks are at its levels again when Lisp *)
(* runs in the form around it.                                               *)
THEOREM Restores == Spec => []LevelsRestored
<1>1. Inv => LevelsRestored
  <2> SUFFICES ASSUME Inv PROVE LevelsRestored
    OBVIOUS
  <2> DEFINE k == Len(stack)
             Levelled(bound, catches, handlers) ==
               /\ depth = Top.depth /\ Len(pdl) = Top.count + bound
               /\ catchlist = Top.catches \o catches /\ handlerlist = Top.handlers \o handlers
  <2>1. /\ k \in Nat /\ Top = stack[k] /\ Top \in Frames /\ Len(pdl) \in Nat
        /\ (k = 2 \/ FrameOK(stack, k)) /\ Sound(stack)
        /\ Within(stack, k, depth, Len(pdl), catchlist, handlerlist)
    BY Innermosts DEF Inv
  <2>2. Top.kind \notin {"unbind", "forms"} => Levelled(Bindings(Top), Caught(Top, k), Handled(Top, k))
    BY <2>1 DEF Within
  <2>3. CASE Top.kind \in {"let", "protect"}
    <3>1. Bindings(Top) = 1 /\ Caught(Top, k) = <<>> /\ Handled(Top, k) = <<>>
      BY <2>3 DEF Bindings, Caught, Handled, Catching
    <3>2. Levelled(1, <<>>, <<>>)
      BY <2>2, <2>3, <3>1
    <3>3. QED BY <2>3, <3>2 DEF LevelsRestored
  <2>4. CASE Top.kind = "catch"
    <3>1. Bindings(Top) = 0 /\ Caught(Top, k) = <<k>> /\ Handled(Top, k) = <<>>
      BY <2>4 DEF Bindings, Caught, Handled, Catching
    <3>2. Levelled(0, <<k>>, <<>>)
      BY <2>2, <2>4, <3>1
    <3>3. QED BY <2>4, <3>2 DEF LevelsRestored
  <2>5. CASE Top.kind \in {"command", "condition"}
    <3>1. Bindings(Top) = 0 /\ Caught(Top, k) = <<k>> /\ Handled(Top, k) = <<k>>
      BY <2>5 DEF Bindings, Caught, Handled, Catching
    <3>2. Levelled(0, <<k>>, <<k>>)
      BY <2>2, <2>5, <3>1
    <3>3. QED BY <2>5, <3>2 DEF LevelsRestored
  <2>6. CASE Top.kind = "handler"
    <3>1. Bindings(Top) = (IF Top.var = None THEN 0 ELSE 1) /\ Caught(Top, k) = <<>> /\ Handled(Top, k) = <<>>
      BY <2>6 DEF Bindings, Caught, Handled, Catching
    <3>2. Levelled(IF Top.var = None THEN 0 ELSE 1, <<>>, <<>>)
      BY <2>2, <2>6, <3>1
    <3>3. QED BY <2>6, <3>2 DEF LevelsRestored
  <2>7. CASE Top.kind = "forms"
    <3>1. FrameOK(stack, k)
      BY <2>1, <2>7, Loops
    <3>2. Len(pdl) + 1 = Top.count /\ catchlist = Top.catches /\ handlerlist = Top.handlers
      BY <2>1, <2>7 DEF Within
    <3>3. /\ Top.link \in 1 .. k - 1 /\ stack[Top.link].kind = "protect" /\ Top.count = stack[Top.link].count + 1
          /\ Top.catches = stack[Top.link].catches /\ Top.handlers = stack[Top.link].handlers
      BY <2>1, <2>7, <3>1 DEF FrameOK
    <3>4. Len(pdl) = stack[Top.link].count
      <4>1. stack[Top.link] \in Frames
        <5>1. stack \in Seq(Frames) /\ Top.link \in 1 .. k
          BY <2>1, <3>3, Innermosts
        <5>2. QED BY <5>1
      <4>2. stack[Top.link].count \in Nat
        BY <4>1 DEF Frames
      <4>3. QED BY <2>1, <3>2, <3>3, <4>2
    <3>5. QED BY <2>7, <3>2, <3>3, <3>4 DEF LevelsRestored
  <2>8. CASE Top.kind \notin {"let", "protect", "catch", "command", "condition", "handler", "forms"}
    BY <2>8 DEF LevelsRestored
  <2>9. QED BY <2>3, <2>4, <2>5, <2>6, <2>7, <2>8
<1>2. QED BY <1>1, Invariance, PTL

(* specpdl loses entries only to unbind_to. *)
LEMMA OnlyUnbound ==
  ASSUME Inv, [Next]_vars
  PROVE  \/ UnbindVariable \/ RunForms
         \/ \A n \in 1 .. Len(pdl) : n \in 1 .. Len(pdl') /\ pdl'[n] = pdl[n]
<1>1. pdl \in Seq(Entries) /\ Len(pdl) \in Nat
  BY Innermosts
<1>2. ASSUME pdl' = pdl PROVE \A n \in 1 .. Len(pdl) : n \in 1 .. Len(pdl') /\ pdl'[n] = pdl[n]
  BY <1>2
<1>3. ASSUME NEW e, pdl' = Append(pdl, e) PROVE \A n \in 1 .. Len(pdl) : n \in 1 .. Len(pdl') /\ pdl'[n] = pdl[n]
  <2>1. Len(pdl') = Len(pdl) + 1 /\ \A n \in 1 .. Len(pdl) : pdl'[n] = pdl[n]
    BY <1>1, <1>3
  <2>2. QED BY <1>1, <2>1
<1>4. CASE \/ EvalQuit \/ EvalTooDeep \/ EvalPdlFull \/ HandlerPdlFull
           \/ (\E condition \in Conditions : EvalSignal(condition))
           \/ (\E tag \in Tags : Throw(tag))
  <2>1. pdl' = pdl
    BY <1>4 DEF EvalQuit, EvalTooDeep, EvalPdlFull, HandlerPdlFull, EvalSignal, Throw, Signal, UnwindToCatch
  <2>2. QED BY <1>2, <2>1
<1>5. CASE UnwindProtect \/ (\E v \in Vars, val \in Values : Let(v, val)) \/ (\E val \in Values \ {Nil} : HandlerBinds(val))
  <2>1. \E e : pdl' = Append(pdl, e)
    BY <1>5 DEF UnwindProtect, Let, HandlerBinds
  <2>2. QED BY <1>3, <2>1
<1>6. CASE \/ (\E v \in Vars, val \in Values : Setq(v, val)) \/ (\E tag \in Tags : Catch(tag))
           \/ (\E condition \in Conditions : \E v \in Vars \cup {None} : ConditionCase(condition, v))
           \/ InterruptSignal \/ UNCHANGED vars
  <2>1. pdl' = pdl
    BY <1>6 DEF Setq, Catch, ConditionCase, InterruptSignal, vars
  <2>2. QED BY <1>2, <2>1
<1>7. CASE \/ ReturnUnbinding \/ ReturnCatch \/ ReturnForms \/ HideQuit \/ UnboundReturn \/ UnboundNext
           \/ ArriveAtCatch \/ ArriveAtHandler \/ CmdError
  <2>1. pdl' = pdl
    BY <1>7 DEF ReturnUnbinding, ReturnCatch, ReturnForms, HideQuit, UnboundReturn, UnboundNext, ArriveAtCatch, ArriveAtHandler,
                CmdError
  <2>2. QED BY <1>2, <2>1
<1>8. CASE UnbindVariable \/ RunForms
  BY <1>8
<1>9. QED BY <1>4, <1>5, <1>6, <1>7, <1>8 DEF Next

(* Unwind forms start on top of the frames there are. *)
LEMMA FormsPushed ==
  ASSUME Inv, RunForms
  PROVE  /\ Len(stack') = Len(stack) + 1
         /\ \A i \in 1 .. Len(stack) : stack'[i].kind = stack[i].kind /\ stack'[i].quitf = stack[i].quitf
<1> DEFINE k == Len(stack)
           o == Innermost(pdl).owner
           g == [stack[o] EXCEPT !.cleaned = @ + 1]
           u == [stack EXCEPT ![o].cleaned = @ + 1]
           f == Frame("forms", None, o, depth)
<1>1. stack \in Seq(Frames) /\ k \in Nat /\ stack' = Append(u, f)
  BY Innermosts DEF RunForms
<1>2. o \in 1 .. k
  BY FormsFit DEF RunForms
<1>3. stack[o] \in Frames
  BY <1>1, <1>2
<1>4. g \in Frames
  <2>1. stack[o].cleaned + 1 \in Nat
    BY <1>3 DEF Frames
  <2>2. \A c \in Nat : [stack[o] EXCEPT !.cleaned = c] \in Frames
    BY <1>3 DEF Frames
  <2>3. QED BY <2>1, <2>2
<1>5. g.kind = stack[o].kind /\ g.quitf = stack[o].quitf
  BY <1>3 DEF Frames
<1>6. u = [stack EXCEPT ![o] = g]
  BY <1>1, <1>2
<1> HIDE DEF f, g, u
<1>7. u \in Seq(Frames) /\ Len(u) = k /\ \A i \in 1 .. k : u[i] = IF i = o THEN g ELSE stack[i]
  BY <1>1, <1>2, <1>4, <1>6
<1>8. Len(stack') = k + 1 /\ \A i \in 1 .. k : stack'[i] = u[i]
  BY <1>1, <1>7
<1>9. QED BY <1>5, <1>7, <1>8

(* When the frame of an unwind-protect goes, its entry is gone, so its forms  *)
(* were run; and the entry was there until then, so they ran once.           *)
LEMMA CleanedOnce ==
  ASSUME Inv, Inv', [Next]_vars, NEW i \in 1 .. Len(stack), stack[i].kind = "protect",
         i > Len(stack') \/ stack'[i].kind # "protect"
  PROVE  stack[i].cleaned = 1
<1>1. stack[i].cleaned = IF Owns(pdl, i) THEN 0 ELSE 1
  BY DEF Inv, Cleaned
<1>2. ASSUME Owns(pdl, i) PROVE FALSE
  <2>1. PICK n \in 1 .. Len(pdl) : pdl[n].owner = i
    BY <1>2 DEF Owns
  <2>2. i # 0 /\ i \in Nat /\ Len(stack) \in Nat /\ stack \in Seq(Frames)
    BY Innermosts
  <2>3. CASE UnbindVariable
    BY <2>2, <2>3 DEF UnbindVariable
  <2>4. CASE RunForms
    <3>1. Len(stack') = Len(stack) + 1 /\ stack'[i].kind = stack[i].kind
      BY <2>4, FormsPushed
    <3>2. QED BY <2>2, <3>1
  <2>5. CASE n \in 1 .. Len(pdl') /\ pdl'[n] = pdl[n]
    <3>1. Owners(stack', pdl', catchlist')
      BY DEF Inv
    <3>2. Owned(stack', i, n, catchlist')
      BY <2>1, <2>2, <2>5, <3>1 DEF Owners
    <3>3. i \in 1 .. Len(stack') /\ stack'[i].kind = "protect"
      BY <3>2 DEF Owned
    <3>4. Len(stack') \in Nat
      <4>1. stack' \in Seq(Frames)
        BY DEF Inv, Typed
      <4>2. QED BY <4>1
    <3>5. QED BY <2>2, <3>3, <3>4
  <2>6. QED BY <2>3, <2>4, <2>5, OnlyUnbound
<1>3. QED BY <1>1, <1>2

(* The forms of an unwind-protect were run once when its frame goes, however *)
(* it goes.                                                                  *)
THEOREM CleansOnce == Spec => CleanupOnce
<1>1. ASSUME Inv, Inv', [Next]_vars
      PROVE  [\A i \in 1 .. Len(stack) :
                stack[i].kind = "protect" /\ (i > Len(stack') \/ stack'[i].kind # "protect")
                  => stack[i].cleaned = 1]_vars
  BY <1>1, CleanedOnce
<1>2. QED BY <1>1, Invariance, PTL DEF Spec, CleanupOnce

-----------------------------------------------------------------------------
(* A frame that keeps a C-g waiting does so as long as it is on the stack.   *)
LEMMA StillWaiting ==
  ASSUME NEW s, NEW t, NEW k \in Nat, Len(t) \in Nat, k <= Len(t),
         \A i \in 1 .. k : t[i].kind = s[i].kind /\ t[i].quitf = s[i].quitf,
         NEW i \in 1 .. k, s[i].kind = "unbind", s[i].quitf
  PROVE  Waiting(t)
<1>1. i \in 1 .. Len(t) /\ t[i].kind = "unbind"
  OBVIOUS
<1>2. t[i].quitf = s[i].quitf
  OBVIOUS
<1>3. t[i].quitf
  BY <1>2
<1>4. QED BY <1>1, <1>3 DEF Waiting

(* unbind_to hides a pending C-g in its own frame. *)
LEMMA Hidden ==
  ASSUME Inv, NEW f, f.kind = "unbind", f.quitf = quit, stack' = Append(stack, f), quit \/ Waiting(stack)
  PROVE  Waiting(stack')
<1> DEFINE k == Len(stack)
<1>1. stack \in Seq(Frames) /\ k \in Nat
  BY Innermosts
<1>2. Len(stack') = k + 1 /\ stack'[k + 1] = f /\ \A i \in 1 .. k : stack'[i] = stack[i]
  BY <1>1
<1>3. CASE quit
  <2>1. k + 1 \in 1 .. Len(stack') /\ stack'[k + 1].kind = "unbind"
    BY <1>1, <1>2
  <2>2. stack'[k + 1].quitf = quit
    BY <1>2
  <2>3. stack'[k + 1].quitf
    BY <1>3, <2>2
  <2>4. QED BY <2>1, <2>3 DEF Waiting
<1>4. CASE Waiting(stack)
  <2>1. PICK i \in 1 .. k : stack[i].kind = "unbind" /\ stack[i].quitf
    BY <1>4 DEF Waiting
  <2>2. Len(stack') \in Nat /\ k <= Len(stack')
        /\ \A j \in 1 .. k : stack'[j].kind = stack[j].kind /\ stack'[j].quitf = stack[j].quitf
    BY <1>1, <1>2
  <2>3. QED BY <1>1, <2>1, <2>2, StillWaiting
<1>5. QED BY <1>3, <1>4

(* Of the frames that keep one waiting, those under the top stay. *)
LEMMA WaitsBelow ==
  ASSUME NEW s, NEW t, NEW m \in Nat, Len(s) \in Nat, Len(t) \in Nat, m <= Len(t), Waiting(s),
         \A i \in 1 .. m : t[i].kind = s[i].kind /\ t[i].quitf = s[i].quitf,
         \A i \in 1 .. Len(s) : i > m => ~(s[i].kind = "unbind" /\ s[i].quitf)
  PROVE  Waiting(t)
<1>1. PICK i \in 1 .. Len(s) : s[i].kind = "unbind" /\ s[i].quitf
  BY DEF Waiting
<1>2. i \in 1 .. m
  <2>1. ~(i > m)
    BY <1>1
  <2>2. QED BY <2>1
<1>3. QED BY <1>1, <1>2, StillWaiting

(* Steps that neither take a C-g nor hide it. *)
LEMMA LeftWaiting ==
  ASSUME Inv, quit \/ Waiting(stack), quit' = quit, NEW m \in Nat, Len(stack') \in Nat, m <= Len(stack'),
         \A i \in 1 .. m : stack'[i].kind = stack[i].kind /\ stack'[i].quitf = stack[i].quitf,
         \A i \in 1 .. Len(stack) : i > m => ~(stack[i].kind = "unbind" /\ stack[i].quitf)
  PROVE  quit' \/ Waiting(stack')
<1>1. Len(stack) \in Nat
  BY Innermosts
<1>2. CASE quit
  BY <1>2
<1>3. CASE Waiting(stack)
  BY <1>1, <1>3, WaitsBelow
<1>4. QED BY <1>2, <1>3

(* unwind_to_catch hides a pending C-g. *)
LEMMA UnwindHides ==
  ASSUME Inv, NEW goal, NEW level, UnwindToCatch(goal, level, quit), quit \/ Waiting(stack)
  PROVE  Waiting(stack')
<1> DEFINE f == [Frame("unbind", None, goal, depth)
                   EXCEPT !.count = stack[Innermost(catchlist)].count, !.quitf = quit, !.entered = TRUE]
<1>1. stack' = Append(stack, f)
  BY DEF UnwindToCatch, UnbindFrom
<1>2. f.kind = "unbind" /\ f.quitf = quit
  BY DEF Frame
<1> HIDE DEF f
<1>3. QED BY <1>1, <1>2, Hidden

(* What loses a C-g: a signal of it, cmd_error, the throw out of unwind      *)
(* forms that unbind_to hid it from, or an unbind_to that did not see it.    *)
LEMMA QuitLost ==
  ASSUME Inv, [Next]_vars, Forgotten
  PROVE  \/ EvalQuit
         \/ Arrived("command")
         \/ Unbound /\ Top.link # 0 /\ ~Top.quitf /\ Waiting(Without(stack))
         \/ HideQuit /\ ~Top.quitf
<1> USE DEF Forgotten
<1> DEFINE k == Len(stack)
<1>1. /\ stack \in Seq(Frames) /\ k \in Nat /\ k >= 2 /\ Top = stack[k] /\ (\A i \in 1 .. k : i = k \/ i \in 1 .. k - 1)
      /\ \A i \in 1 .. k : i > k => FALSE
  BY Innermosts
<1>2. CASE EvalQuit
  BY <1>2
<1>3. CASE CmdError
  BY <1>3 DEF CmdError
<1>4. CASE \/ EvalTooDeep \/ EvalPdlFull \/ HandlerPdlFull
           \/ (\E condition \in Conditions : EvalSignal(condition))
           \/ (\E tag \in Tags : Throw(tag))
  <2>1. \E goal, level : UnwindToCatch(goal, level, quit)
    BY <1>4 DEF EvalTooDeep, EvalPdlFull, HandlerPdlFull, EvalSignal, Throw, Signal
  <2>2. QED BY <2>1, UnwindHides
<1>5. CASE ReturnUnbinding
  <2> DEFINE f == [Frame("unbind", None, 0, depth) EXCEPT !.count = Top.count, !.quitf = quit, !.entered = TRUE]
  <2>1. stack' = Append(stack, f)
    BY <1>5 DEF ReturnUnbinding, UnbindFrom
  <2>2. f.kind = "unbind" /\ f.quitf = quit
    BY DEF Frame
  <2> HIDE DEF f
  <2>3. QED BY <2>1, <2>2, Hidden
<1>6. ASSUME quit' = quit, stack' = stack PROVE FALSE
  BY <1>1, <1>6, LeftWaiting
<1>7. ASSUME quit' = quit, NEW f, stack' = Append(stack, f) PROVE FALSE
  <2>1. Len(stack') = k + 1 /\ \A i \in 1 .. k : stack'[i] = stack[i]
    BY <1>1, <1>7
  <2>2. Len(stack') \in Nat /\ k <= Len(stack')
    BY <1>1, <2>1
  <2>3. QED BY <1>1, <1>7, <2>1, <2>2, LeftWaiting
<1>8. CASE \/ (\E v \in Vars, val \in Values : Setq(v, val)) \/ UnbindVariable \/ InterruptSignal \/ UNCHANGED vars
  <2>1. stack' = stack /\ (quit' = quit \/ quit' = TRUE)
    BY <1>8 DEF Setq, UnbindVariable, InterruptSignal, vars
  <2>2. QED BY <1>6, <2>1
<1>9. CASE \/ UnwindProtect \/ (\E v \in Vars, val \in Values : Let(v, val))
           \/ (\E tag \in Tags : Catch(tag))
           \/ (\E condition \in Conditions : \E v \in Vars \cup {None} : ConditionCase(condition, v))
  <2>1. quit' = quit /\ \E f : stack' = Append(stack, f)
    BY <1>9 DEF UnwindProtect, Let, Catch, ConditionCase
  <2>2. QED BY <1>7, <2>1
<1>10. CASE RunForms
  <2>1. Len(stack') = k + 1 /\ \A i \in 1 .. k : stack'[i].kind = stack[i].kind /\ stack'[i].quitf = stack[i].quitf
    BY <1>10, FormsPushed
  <2>2. quit' = quit /\ Len(stack') \in Nat /\ k <= Len(stack')
    BY <1>1, <1>10, <2>1 DEF RunForms
  <2>3. QED BY <1>1, <2>1, <2>2, LeftWaiting
<1>11. CASE ReturnCatch \/ ReturnForms
  <2>1. Top.kind # "unbind" /\ quit' = quit /\ stack' = SubSeq(stack, 1, k - 1)
    BY <1>11 DEF ReturnCatch, ReturnForms, Without
  <2>2. k - 1 \in 0 .. Len(stack) /\ k - 1 \in Nat
    BY <1>1
  <2>3. Len(stack') = k - 1 /\ \A i \in 1 .. k - 1 : stack'[i] = stack[i]
    BY <1>1, <2>1, <2>2, Prefix
  <2>4. \A i \in 1 .. Len(stack) : i > k - 1 => ~(stack[i].kind = "unbind" /\ stack[i].quitf)
    BY <1>1, <2>1
  <2>5. QED BY <2>1, <2>2, <2>3, <2>4, LeftWaiting
<1>12. CASE \E val \in Values \ {Nil} : HandlerBinds(val)
  <2>1. Top.kind # "unbind" /\ quit' = quit /\ stack' = [stack EXCEPT ![k].kind = "handler"]
    BY <1>12 DEF HandlerBinds
  <2>2. k - 1 \in Nat /\ Len(stack') = k /\ \A i \in 1 .. k - 1 : stack'[i] = stack[i]
    BY <1>1, <2>1
  <2>3. \A i \in 1 .. Len(stack) : i > k - 1 => ~(stack[i].kind = "unbind" /\ stack[i].quitf)
    BY <1>1, <2>1
  <2>4. Len(stack') \in Nat /\ k - 1 <= Len(stack')
    BY <1>1, <2>2
  <2>5. QED BY <2>1, <2>2, <2>3, <2>4, LeftWaiting
<1>13. ASSUME Top.kind = "unbind", ~PendingQuit
       PROVE  /\ Waiting(stack) /\ ~Top.quitf /\ k - 1 \in Nat
              /\ \A i \in 1 .. k : i > k - 1 => ~(stack[i].kind = "unbind" /\ stack[i].quitf)
  <2>1. ~quit /\ ~Top.quitf
    BY <1>13 DEF PendingQuit
  <2>2. k - 1 \in Nat /\ \A i \in 1 .. k : i > k - 1 => i = k
    BY <1>1
  <2>3. QED BY <1>1, <2>1, <2>2
<1>14. CASE UnboundReturn
  <2>1. /\ Top.kind = "unbind" /\ Top.link = 0 /\ quit' = PendingQuit /\ stack' = Without(Without(stack))
    BY <1>14 DEF UnboundReturn, Unbound
  <2>2. k - 1 \in 3 .. k /\ stack[k - 1].kind # "unbind"
    BY <2>1, Returning
  <2>3. Waiting(stack) /\ \A i \in 1 .. k : i > k - 1 => ~(stack[i].kind = "unbind" /\ stack[i].quitf)
    BY <1>13, <2>1
  <2>4. k - 2 \in Nat /\ k - 2 \in 0 .. Len(stack) /\ k >= 2 /\ \A i \in 1 .. k : i > k - 2 => i = k - 1 \/ i > k - 1
    BY <1>1, <2>2
  <2>5. stack' = SubSeq(stack, 1, k - 2)
    BY <1>1, <2>1, TwiceWithout
  <2>6. Len(stack') = k - 2 /\ \A i \in 1 .. k - 2 : stack'[i] = stack[i]
    BY <1>1, <2>4, <2>5, Prefix
  <2>7. \A i \in 1 .. k : i > k - 2 => ~(stack[i].kind = "unbind" /\ stack[i].quitf)
    BY <2>2, <2>3, <2>4
  <2>8. Waiting(stack')
    <3> DEFINE m == k - 2
    <3>1. /\ Waiting(stack) /\ Len(stack') \in Nat /\ m \in Nat /\ m <= Len(stack')
          /\ \A i \in 1 .. m : stack'[i].kind = stack[i].kind /\ stack'[i].quitf = stack[i].quitf
          /\ \A i \in 1 .. Len(stack) : i > m => ~(stack[i].kind = "unbind" /\ stack[i].quitf)
      BY <1>1, <2>3, <2>4, <2>6, <2>7
    <3> HIDE DEF m
    <3>2. QED BY <1>1, <3>1, WaitsBelow
  <2>9. QED BY <2>8
<1>15. CASE UnboundNext
  <2> DEFINE n == stack[Innermost(catchlist')].count
             q == PendingQuit
             f == [Top EXCEPT !.count = n, !.quitf = q, !.entered = TRUE]
  <2>1. Top.kind = "unbind" /\ stack' = [stack EXCEPT ![k].count = n, ![k].quitf = q, ![k].entered = TRUE]
    BY <1>15 DEF UnboundNext, Unbound
  <2>2. Top \in Frames
    BY Innermosts
  <2> HIDE DEF n, q
  <2>3. f.kind = "unbind" /\ f.quitf = q
    BY <2>1, <2>2 DEF Frames
  <2>4. stack' = [stack EXCEPT ![k] = f]
    BY <1>1, <2>1
  <2> HIDE DEF f
  <2>5. Len(stack') = k /\ stack'[k] = f /\ \A i \in 1 .. k - 1 : stack'[i] = stack[i]
    BY <1>1, <2>4
  <2>6. ~PendingQuit
    <3>1. k \in 1 .. Len(stack') /\ stack'[k].kind = "unbind" /\ stack'[k].quitf = q
      BY <1>1, <2>3, <2>5
    <3>2. ASSUME q PROVE FALSE
      <4>1. stack'[k].quitf
        BY <3>1, <3>2
      <4>2. QED BY <3>1, <4>1 DEF Waiting
    <3>3. QED BY <3>2 DEF q
  <2>7. k - 1 <= k
    BY <1>1
  <2>8. Waiting(stack')
    <3> DEFINE m == k - 1
    <3>1. /\ Waiting(stack) /\ Len(stack') \in Nat /\ m \in Nat /\ m <= Len(stack')
          /\ \A i \in 1 .. m : stack'[i].kind = stack[i].kind /\ stack'[i].quitf = stack[i].quitf
          /\ \A i \in 1 .. Len(stack) : i > m => ~(stack[i].kind = "unbind" /\ stack[i].quitf)
      BY <1>1, <1>13, <2>1, <2>5, <2>6, <2>7
    <3> HIDE DEF m
    <3>2. QED BY <1>1, <3>1, WaitsBelow
  <2>9. QED BY <2>8
<1>16. CASE ArriveAtCatch \/ ArriveAtHandler
  <2>1. quit' = PendingQuit /\ \E kind : Arrived(kind)
    BY <1>16 DEF ArriveAtCatch, ArriveAtHandler
  <2>2. Unbound /\ Top.kind = "unbind"
    BY <2>1 DEF Arrived, Unbound
  <2>3. Top.link # 0
    BY <2>1, Arriving
  <2>4. /\ Waiting(stack) /\ ~Top.quitf /\ k - 1 \in Nat /\ k - 1 \in 0 .. Len(stack)
        /\ \A i \in 1 .. k : i > k - 1 => ~(stack[i].kind = "unbind" /\ stack[i].quitf)
    BY <1>1, <1>13, <2>1, <2>2
  <2>5. Len(Without(stack)) = k - 1 /\ \A i \in 1 .. k - 1 : Without(stack)[i] = stack[i]
    BY <1>1, <2>4, Prefix DEF Without
  <2>6. Waiting(Without(stack))
    <3> DEFINE t == Without(stack)
               m == k - 1
    <3>1. /\ Len(t) \in Nat /\ m \in Nat /\ m <= Len(t)
          /\ \A i \in 1 .. m : t[i].kind = stack[i].kind /\ t[i].quitf = stack[i].quitf
          /\ \A i \in 1 .. Len(stack) : i > m => ~(stack[i].kind = "unbind" /\ stack[i].quitf)
      BY <1>1, <2>4, <2>5
    <3> HIDE DEF t, m
    <3>2. Waiting(t)
      BY <1>1, <2>4, <3>1, WaitsBelow
    <3>3. QED BY <3>2 DEF t
  <2>7. QED BY <2>2, <2>3, <2>4, <2>6
<1>17. CASE HideQuit
  <2>1. \A i \in 1 .. k : stack'[i].kind = stack[i].kind /\ stack'[i].quitf = stack[i].quitf
    BY <1>17, TopMarked
  <2>2. Top.kind = "unbind" /\ Len(stack') = k /\ k \in 1 .. k
    BY <1>1, <1>17, TopMarked DEF HideQuit
  <2>3. ASSUME Top.quitf PROVE FALSE
    <3>1. stack[k].kind = "unbind" /\ stack[k].quitf
      BY <1>1, <2>2, <2>3
    <3>2. QED BY <1>1, <2>1, <2>2, <3>1, StillWaiting
  <2>4. QED BY <1>17, <2>3
<1>18. QED
  BY <1>2, <1>3, <1>4, <1>5, <1>8, <1>9, <1>10, <1>11, <1>12, <1>14, <1>15, <1>16, <1>17 DEF Next

(* A C-g that waits is kept until it is signaled or the command loop takes   *)
(* it, but for the throw out of unwind forms and the C-g that comes after    *)
(* unbind_to looked for one.                                                 *)
THEOREM KeepsQuits == Spec => QuitKept
<1>1. ASSUME Inv, [Next]_vars
      PROVE  [Forgotten =>
                \/ EvalQuit
                \/ Arrived("command")
                \/ Unbound /\ Top.link # 0 /\ ~Top.quitf /\ Waiting(Without(stack))
                \/ HideQuit /\ ~Top.quitf]_vars
  BY <1>1, QuitLost
<1>2. QED BY <1>1, Invariance, PTL DEF Spec, QuitKept

-----------------------------------------------------------------------------
(* The entries of P for variables: in its first N entries, then in all.      *)
Filter(g, n, p) ==
  g = [k \in 0 .. n |->
         IF k = 0 THEN <<>> ELSE IF p[k].owner = 0 THEN Append(g[k - 1], p[k]) ELSE g[k - 1]]

(* What such a function is, element by element.                              *)
LEMMA Filtered ==
  ASSUME NEW n \in Nat, NEW p, NEW g, Filter(g, n, p)
  PROVE  /\ g[0] = <<>>
         /\ \A k \in 1 .. n : k - 1 \in 0 .. n /\ g[k] = IF p[k].owner = 0 THEN Append(g[k - 1], p[k]) ELSE g[k - 1]
<1>1. \A k \in 0 .. n : g[k] = IF k = 0 THEN <<>>
                               ELSE IF p[k].owner = 0 THEN Append(g[k - 1], p[k]) ELSE g[k - 1]
  BY Zenon DEF Filter
<1>2. 0 \in 0 .. n
  OBVIOUS
<1>3. \A k \in 1 .. n : k \in 0 .. n /\ k # 0 /\ k - 1 \in 0 .. n
  OBVIOUS
<1>4. QED BY <1>1, <1>2, <1>3, Zenon

(* It can be extended by an element, so that it exists for every N.          *)
LEMMA FilterExtends ==
  ASSUME NEW m \in Nat \ {0}, NEW p, NEW g, Filter(g, m - 1, p)
  PROVE  \E h : Filter(h, m, p)
<1> DEFINE v == IF p[m].owner = 0 THEN Append(g[m - 1], p[m]) ELSE g[m - 1]
           h == [k \in 0 .. m |-> IF k = m THEN v ELSE g[k]]
<1>1. m - 1 \in Nat
  OBVIOUS
<1>2. /\ g[0] = <<>>
      /\ \A k \in 1 .. m - 1 : g[k] = IF p[k].owner = 0 THEN Append(g[k - 1], p[k]) ELSE g[k - 1]
  BY <1>1, Filtered
<1>3. ASSUME NEW k \in 0 .. m
      PROVE  h[k] = IF k = 0 THEN <<>> ELSE IF p[k].owner = 0 THEN Append(h[k - 1], p[k]) ELSE h[k - 1]
  <2>1. k # 0 => k - 1 \in 0 .. m /\ k - 1 # m
    OBVIOUS
  <2>2. k # 0 => h[k - 1] = g[k - 1]
    BY <2>1
  <2>3. CASE k = m
    BY <2>2, <2>3
  <2>4. CASE k # m
    <3>1. k = 0 \/ k \in 1 .. m - 1
      BY <2>4
    <3>2. QED BY <1>2, <2>2, <2>4, <3>1
  <2>5. QED BY <2>3, <2>4
<1>4. Filter(h, m, p)
  <2> HIDE DEF v
  <2>1. h = [k \in 0 .. m |-> h[k]]
    OBVIOUS
  <2> HIDE DEF h
  <2>2. QED BY <1>3, <2>1, Zenon DEF Filter
<1>5. QED BY <1>4

(* So it exists.                                                             *)
LEMMA Filtering ==
  ASSUME NEW n \in Nat, NEW p
  PROVE  \E g : Filter(g, n, p)
<1> DEFINE T == {m \in Nat : ~\E g : Filter(g, m, p)}
<1>1. SUFFICES ASSUME T # {} PROVE FALSE
  OBVIOUS
<1>2. PICK m \in T : \A k \in T : m <= k
  BY <1>1, LeastNumber
<1>3. m # 0
  <2> DEFINE z == [k \in 0 .. 0 |-> <<>>]
  <2>1. Filter(z, 0, p)
    BY DEF Filter
  <2>2. QED BY <2>1
<1>4. m - 1 \in Nat /\ m - 1 \notin T
  BY <1>2, <1>3
<1>5. PICK g : Filter(g, m - 1, p)
  BY <1>4
<1>6. m \in Nat \ {0}
  BY <1>3
<1>7. QED BY <1>2, <1>5, <1>6, FilterExtends

(* Such functions agree as far as their sequences do.                        *)
LEMMA FilterUnique ==
  ASSUME NEW n \in Nat, NEW m \in n .. n + 1, NEW p, NEW q, \A k \in 1 .. n : p[k] = q[k],
         NEW g, Filter(g, n, p), NEW h, Filter(h, m, q)
  PROVE  g[n] = h[n]
<1> DEFINE T == {k \in 0 .. n : g[k] # h[k]}
<1>1. SUFFICES ASSUME T # {} PROVE FALSE
  <2>1. n \in 0 .. n
    OBVIOUS
  <2>2. QED BY <2>1
<1>0. m \in Nat /\ T \in SUBSET Nat
  OBVIOUS
<1>2. PICK k \in T : \A j \in T : k <= j
  <2> HIDE DEF T
  <2>1. QED BY <1>0, <1>1, LeastNumber
<1>3. /\ g[0] = <<>>
      /\ \A i \in 1 .. n : g[i] = IF p[i].owner = 0 THEN Append(g[i - 1], p[i]) ELSE g[i - 1]
  BY Filtered
<1>4. /\ h[0] = <<>>
      /\ \A i \in 1 .. m : h[i] = IF q[i].owner = 0 THEN Append(h[i - 1], q[i]) ELSE h[i - 1]
  BY <1>0, Filtered
<1>5. k # 0
  BY <1>3, <1>4
<1>6. k \in 1 .. n /\ k \in 1 .. m /\ k - 1 \in 0 .. n /\ ~(k <= k - 1)
  BY <1>5
<1>7. g[k - 1] = h[k - 1]
  BY <1>2, <1>6
<1>8. g[k] = h[k]
  BY <1>3, <1>4, <1>6, <1>7
<1>9. QED BY <1>8

(* The last value of such a function is BoundOf.                             *)
LEMMA BoundFiltered ==
  ASSUME NEW S, NEW p \in Seq(S)
  PROVE  \E g : Filter(g, Len(p), p) /\ BoundOf(p) = g[Len(p)]
<1> DEFINE g == CHOOSE g : Filter(g, Len(p), p)
<1>1. Filter(g, Len(p), p)
  BY Filtering
<1>2. BoundOf(p) = g[Len(p)]
  BY DEF BoundOf, Filter
<1>3. QED BY <1>1, <1>2

(* An empty specpdl has no bindings.                                         *)
LEMMA BoundEmpty == BoundOf(<<>>) = <<>>
<1>1. <<>> \in Seq({}) /\ Len(<<>>) = 0
  OBVIOUS
<1>2. PICK g : Filter(g, 0, <<>>) /\ BoundOf(<<>>) = g[0]
  BY <1>1, BoundFiltered
<1>3. QED BY <1>2, Filtered

(* An entry for a variable is added to the bindings, another is not.         *)
LEMMA BoundAppend ==
  ASSUME NEW S, NEW p \in Seq(S), NEW e \in S
  PROVE  BoundOf(Append(p, e)) = IF e.owner = 0 THEN Append(BoundOf(p), e) ELSE BoundOf(p)
<1> DEFINE q == Append(p, e)
<1>0. PICK n \in Nat : n = Len(p)
  OBVIOUS
<1>1. /\ q \in Seq(S) /\ Len(q) = n + 1 /\ q[n + 1] = e /\ (\A k \in 1 .. n : p[k] = q[k])
      /\ n + 1 \in n .. n + 1 /\ n + 1 \in 1 .. n + 1 /\ n + 1 \in Nat /\ (n + 1) - 1 = n
  BY <1>0
<1> HIDE DEF q
<1>2. PICK g : Filter(g, n, p) /\ BoundOf(p) = g[n]
  BY <1>0, BoundFiltered
<1>3. PICK h : Filter(h, n + 1, q) /\ BoundOf(q) = h[n + 1]
  BY <1>1, BoundFiltered
<1>4. g[n] = h[n]
  BY <1>1, <1>2, <1>3, FilterUnique
<1>5. h[n + 1] = IF q[n + 1].owner = 0 THEN Append(h[n], q[n + 1]) ELSE h[n]
  BY <1>1, <1>3, Filtered
<1>6. QED BY <1>1, <1>2, <1>3, <1>4, <1>5 DEF q

(* Entries for variables. *)
VarEntries == [var : Vars, old : Values, owner : {0}]

(* The bindings are entries for variables.                                   *)
LEMMA BoundTyped ==
  ASSUME NEW p \in Seq(Entries), \A k \in 1 .. Len(p) : p[k].owner = 0 => p[k].var \in Vars
  PROVE  BoundOf(p) \in Seq(VarEntries)
<1>0. PICK n \in Nat : n = Len(p)
  OBVIOUS
<1>1. PICK g : Filter(g, n, p) /\ BoundOf(p) = g[n]
  BY <1>0, BoundFiltered
<1> DEFINE T == {k \in 0 .. n : g[k] \notin Seq(VarEntries)}
<1>2. SUFFICES ASSUME T # {} PROVE FALSE
  <2>1. n \in 0 .. n
    OBVIOUS
  <2>2. QED BY <1>1, <2>1
<1>3. PICK k \in 0 .. n : g[k] \notin Seq(VarEntries) /\ \A j \in 0 .. n : g[j] \notin Seq(VarEntries) => k <= j
  <2>1. T \in SUBSET Nat
    OBVIOUS
  <2>2. \E k \in T : \A j \in T : k <= j
    <3> HIDE DEF T
    <3>1. QED BY <1>2, <2>1, LeastNumber
  <2>3. QED BY <2>2
<1> HIDE DEF T
<1>4. /\ g[0] = <<>>
      /\ \A i \in 1 .. n : g[i] = IF p[i].owner = 0 THEN Append(g[i - 1], p[i]) ELSE g[i - 1]
  BY <1>1, Filtered
<1>5. k # 0
  <2>1. <<>> \in Seq(VarEntries)
    OBVIOUS
  <2>2. QED BY <1>3, <1>4, <2>1
<1>6. k \in 1 .. n /\ k - 1 \in 0 .. n /\ ~(k <= k - 1)
  BY <1>5
<1>7. g[k - 1] \in Seq(VarEntries)
  BY <1>3, <1>6
<1>8. p[k].owner = 0 => p[k] \in VarEntries
  <2>1. p[k] \in Entries /\ (p[k].owner = 0 => p[k].var \in Vars)
    BY <1>0, <1>6
  <2>2. QED BY <2>1 DEF Entries, VarEntries
<1>9. g[k] \in Seq(VarEntries)
  <2>1. g[k] = IF p[k].owner = 0 THEN Append(g[k - 1], p[k]) ELSE g[k - 1]
    BY <1>4, <1>6
  <2>2. \A x \in VarEntries : Append(g[k - 1], x) \in Seq(VarEntries)
    BY <1>7
  <2>3. QED BY <1>7, <1>8, <2>1, <2>2
<1>10. QED BY <1>3, <1>9

-----------------------------------------------------------------------------
(* The value a binding N of V keeps: the one its next binding has saved.     *)
LEMMA HeldByNext ==
  ASSUME NEW b, Len(b) \in Nat, NEW values, NEW v, NEW n \in Nat, NEW m \in n + 1 .. Len(b), b[m].var = v,
         \A i \in n + 1 .. Len(b) : b[i].var = v => m <= i
  PROVE  Held(b, values, v, n) = b[m].old
<1>1. m \in Later(b, v, n) /\ (\A i \in Later(b, v, n) : m <= i) /\ Later(b, v, n) \subseteq Nat
  BY DEF Later
<1>2. Min(Later(b, v, n)) \in Later(b, v, n) /\ \A i \in Later(b, v, n) : Min(Later(b, v, n)) <= i
  BY <1>1 DEF Min
<1>3. Min(Later(b, v, n)) = m
  BY <1>1, <1>2
<1>4. QED BY <1>1, <1>3 DEF Held

(* The last binding of V keeps its present value.                            *)
LEMMA HeldByNone ==
  ASSUME NEW b, NEW values, NEW v, NEW n, \A i \in n + 1 .. Len(b) : b[i].var # v
  PROVE  Held(b, values, v, n) = values[v]
BY DEF Held, Later

(* One or the other holds.                                                   *)
LEMMA HeldCases ==
  ASSUME NEW b, Len(b) \in Nat, NEW v, NEW n \in Nat
  PROVE  \/ \A i \in n + 1 .. Len(b) : b[i].var # v
         \/ \E m \in n + 1 .. Len(b) : b[m].var = v /\ \A i \in n + 1 .. Len(b) : b[i].var = v => m <= i
<1> DEFINE T == {i \in n + 1 .. Len(b) : b[i].var = v}
<1>1. T \in SUBSET Nat
  OBVIOUS
<1>2. T = {} \/ \E m \in T : \A i \in T : m <= i
  <2> HIDE DEF T
  <2>1. QED BY <1>1, LeastNumber
<1>3. QED BY <1>2

(* Values are values.                                                        *)
LEMMA HeldTyped ==
  ASSUME NEW b \in Seq(VarEntries), NEW values \in [Vars -> Values], NEW v \in Vars, NEW n \in Nat
  PROVE  Held(b, values, v, n) \in Values
<1>1. Len(b) \in Nat
  OBVIOUS
<1>2. CASE \A i \in n + 1 .. Len(b) : b[i].var # v
  BY <1>2, HeldByNone
<1>3. ASSUME NEW m \in n + 1 .. Len(b), b[m].var = v, \A i \in n + 1 .. Len(b) : b[i].var = v => m <= i
      PROVE  Held(b, values, v, n) \in Values
  <2>1. m \in 1 .. Len(b)
    BY <1>1
  <2>2. b[m] \in VarEntries
    BY <2>1
  <2>3. QED BY <1>1, <1>3, <2>2, HeldByNext DEF VarEntries
<1>4. QED BY <1>1, <1>2, <1>3, HeldCases

NoneLater(b, v, n) == \A i \in n + 1 .. Len(b) : b[i].var # v

(* An assignment changes what the last binding of the variable keeps.        *)
LEMMA HeldAssigned ==
  ASSUME NEW b, Len(b) \in Nat, NEW values \in [Vars -> Values], NEW v \in Vars, NEW x,
         NEW w, w[v] = x, \A y \in Vars \ {v} : w[y] = values[y],
         NEW u \in Vars, NEW n \in Nat
  PROVE  Held(b, w, u, n) =
           IF u = v /\ NoneLater(b, v, n) THEN x ELSE Held(b, values, u, n)
<1>1. w[v] = x /\ (u # v => w[u] = values[u])
  OBVIOUS
<1>2. CASE \A i \in n + 1 .. Len(b) : b[i].var # u
  <2>1. Held(b, w, u, n) = w[u] /\ Held(b, values, u, n) = values[u]
    BY <1>2, HeldByNone
  <2>2. QED BY <1>1, <1>2, <2>1 DEF NoneLater
<1>3. ASSUME NEW m \in n + 1 .. Len(b), b[m].var = u, \A i \in n + 1 .. Len(b) : b[i].var = u => m <= i
      PROVE  Held(b, w, u, n) = IF u = v /\ NoneLater(b, v, n) THEN x ELSE Held(b, values, u, n)
  <2>1. Held(b, w, u, n) = b[m].old /\ Held(b, values, u, n) = b[m].old
    BY <1>3, HeldByNext
  <2>2. ~(u = v /\ NoneLater(b, v, n))
    BY <1>3 DEF NoneLater
  <2>3. QED BY <2>1, <2>2
<1>4. QED BY <1>2, <1>3, HeldCases

(* A new binding saves the value, which the binding under it keeps.          *)
LEMMA HeldBound ==
  ASSUME NEW b \in Seq(VarEntries), NEW values \in [Vars -> Values], NEW v \in Vars, NEW x,
         NEW w, w[v] = x, \A y \in Vars \ {v} : w[y] = values[y],
         NEW e \in VarEntries, e.var = v, e.old = values[v],
         NEW u \in Vars, NEW n \in 0 .. Len(b)
  PROVE  Held(Append(b, e), w, u, n) = Held(b, values, u, n)
<1> DEFINE c == Append(b, e)
<1>1. (u # v => w[u] = values[u])
  OBVIOUS
<1>0. PICK k \in Nat : k = Len(b)
  OBVIOUS
<1>2. Len(c) = k + 1 /\ c[k + 1] = e /\ \A i \in 1 .. k : c[i] = b[i]
  BY <1>0
<1> SUFFICES Held(c, w, u, n) = Held(b, values, u, n)
  OBVIOUS
<1> HIDE DEF c
<1>3. n \in Nat /\ k + 1 \in Nat /\ k + 1 \in n + 1 .. k + 1
      /\ (\A i \in n + 1 .. k : i \in n + 1 .. k + 1 /\ i \in 1 .. k /\ i <= k + 1)
      /\ \A i \in n + 1 .. k + 1 : i = k + 1 \/ i \in n + 1 .. k
  BY <1>0
<1>4. CASE \A i \in n + 1 .. k : b[i].var # u
  <2>1. Held(b, values, u, n) = values[u]
    BY <1>0, <1>4, HeldByNone
  <2>2. CASE u = v
    <3>1. c[k + 1].var = u /\ \A i \in n + 1 .. k + 1 : c[i].var = u => k + 1 <= i
      BY <1>2, <1>3, <1>4, <2>2
    <3>2. Held(c, w, u, n) = c[k + 1].old
      <4>1. /\ n \in Nat /\ Len(c) \in Nat /\ k + 1 \in n + 1 .. Len(c)
            /\ \A i \in n + 1 .. Len(c) : c[i].var = u => k + 1 <= i
        BY <1>2, <1>3, <3>1
      <4>2. QED BY <3>1, <4>1, HeldByNext
    <3>3. QED BY <1>2, <2>1, <2>2, <3>2
  <2>3. CASE u # v
    <3>1. \A i \in n + 1 .. k + 1 : c[i].var # u
      BY <1>2, <1>3, <1>4, <2>3
    <3>2. Held(c, w, u, n) = w[u]
      BY <1>2, <3>1, HeldByNone
    <3>3. QED BY <1>1, <2>1, <2>3, <3>2
  <2>4. QED BY <2>2, <2>3
<1>5. ASSUME NEW m \in n + 1 .. k, b[m].var = u, \A i \in n + 1 .. k : b[i].var = u => m <= i
      PROVE  Held(c, w, u, n) = Held(b, values, u, n)
  <2>1. Held(b, values, u, n) = b[m].old
    BY <1>0, <1>3, <1>5, HeldByNext
  <2>2. c[m].var = u /\ (\A i \in n + 1 .. k + 1 : c[i].var = u => m <= i) /\ m \in n + 1 .. k + 1 /\ c[m] = b[m]
    BY <1>2, <1>3, <1>5
  <2>3. Held(c, w, u, n) = c[m].old
    <3>1. n \in Nat /\ Len(c) \in Nat
      BY <1>2, <1>3
    <3>2. m \in n + 1 .. Len(c) /\ c[m].var = u /\ \A i \in n + 1 .. Len(c) : c[i].var = u => m <= i
      BY <1>2, <2>2
    <3>3. QED BY <3>1, <3>2, HeldByNext
  <2>4. QED BY <2>1, <2>2, <2>3
<1>6. QED BY ZenonT(30), <1>0, <1>3, <1>4, <1>5, HeldCases

Records == [var : Vars, val : Values]

(* What deep binding makes of specpdl and the values is well typed.          *)
LEMMA StackedTyped ==
  ASSUME NEW b \in Seq(VarEntries), NEW values \in [Vars -> Values]
  PROVE  /\ Global(b, values) \in [Vars -> Values]
         /\ Stacked(b, values) \in Seq(Records) /\ Len(Stacked(b, values)) = Len(b)
         /\ \A i \in 1 .. Len(b) : /\ b[i] \in VarEntries /\ b[i].var \in Vars
                                   /\ Stacked(b, values)[i] = [var |-> b[i].var, val |-> Held(b, values, b[i].var, i)]
<1>1. \A v \in Vars : Held(b, values, v, 0) \in Values
  BY HeldTyped
<1>2. Len(b) \in Nat
  OBVIOUS
<1>3. ASSUME NEW i \in 1 .. Len(b)
      PROVE  /\ b[i] \in VarEntries /\ b[i].var \in Vars
             /\ [var |-> b[i].var, val |-> Held(b, values, b[i].var, i)] \in Records
  <2>1. b[i] \in VarEntries
    OBVIOUS
  <2>2. b[i].var \in Vars
    BY <2>1 DEF VarEntries
  <2>3. i \in Nat
    BY <1>2
  <2>4. Held(b, values, b[i].var, i) \in Values
    BY <2>2, <2>3, HeldTyped
  <2>5. QED BY <2>1, <2>2, <2>4 DEF Records
<1>4. Global(b, values) \in [Vars -> Values]
  BY <1>1 DEF Global
<1> DEFINE r(i) == [var |-> b[i].var, val |-> Held(b, values, b[i].var, i)]
<1>5. Stacked(b, values) = [i \in 1 .. Len(b) |-> r(i)]
  BY DEF Stacked
<1>6. \A i \in 1 .. Len(b) : r(i) \in Records
  BY <1>3
<1>7. /\ Stacked(b, values) \in Seq(Records) /\ Len(Stacked(b, values)) = Len(b)
      /\ \A i \in 1 .. Len(b) : Stacked(b, values)[i] = r(i)
  <2> HIDE DEF r
  <2>1. [i \in 1 .. Len(b) |-> r(i)] \in [1 .. Len(b) -> Records]
    BY <1>6
  <2>2. QED BY <1>2, <1>5, <2>1
<1>8. QED BY <1>3, <1>4, <1>7

(* A new binding, which saves the value, is stacked.                         *)
LEMMA StackedBound ==
  ASSUME NEW b \in Seq(VarEntries), NEW values \in [Vars -> Values], NEW v \in Vars, NEW x \in Values,
         NEW w \in [Vars -> Values], w[v] = x, \A y \in Vars \ {v} : w[y] = values[y],
         NEW e \in VarEntries, e.var = v, e.old = values[v]
  PROVE  /\ Global(Append(b, e), w) = Global(b, values)
         /\ Stacked(Append(b, e), w) = Append(Stacked(b, values), [var |-> v, val |-> x])
<1> DEFINE c == Append(b, e)
           s == Stacked(b, values)
           t == Stacked(c, w)
           r == [var |-> v, val |-> x]
<1>0. PICK k \in Nat : k = Len(b)
  OBVIOUS
<1>1. /\ w \in [Vars -> Values] /\ w[v] = x /\ r \in Records
      /\ c \in Seq(VarEntries) /\ Len(c) = k + 1 /\ c[k + 1] = e /\ \A i \in 1 .. k : c[i] = b[i]
  BY <1>0 DEF Records
<1>2. \A u \in Vars, n \in 0 .. k : Held(c, w, u, n) = Held(b, values, u, n)
  <2>1. ASSUME NEW u \in Vars, NEW n \in 0 .. Len(b) PROVE Held(c, w, u, n) = Held(b, values, u, n)
    BY HeldBound
  <2> HIDE DEF c
  <2>2. QED BY <1>0, <2>1
<1> HIDE DEF c
<1>3. Global(c, w) = Global(b, values)
  <2>1. \A u \in Vars : Held(c, w, u, 0) = Held(b, values, u, 0)
    BY <1>2
  <2>2. QED BY <2>1 DEF Global
<1>4. /\ s \in Seq(Records) /\ Len(s) = k
      /\ \A i \in 1 .. k : b[i].var \in Vars /\ s[i] = [var |-> b[i].var, val |-> Held(b, values, b[i].var, i)]
  BY <1>0, StackedTyped
<1>5. /\ t \in Seq(Records) /\ Len(t) = k + 1
      /\ \A i \in 1 .. k + 1 : t[i] = [var |-> c[i].var, val |-> Held(c, w, c[i].var, i)]
  BY <1>0, <1>1, StackedTyped
<1>6. ASSUME NEW i \in 1 .. k PROVE t[i] = s[i]
  <2>1. i \in 0 .. k /\ i \in 1 .. k + 1 /\ c[i] = b[i] /\ b[i].var \in Vars
    BY <1>1, <1>4
  <2>2. Held(c, w, b[i].var, i) = Held(b, values, b[i].var, i)
    BY <1>2, <2>1
  <2>3. QED BY <1>4, <1>5, <2>1, <2>2
<1>7. t[k + 1] = r
  <2>1. k + 1 \in 1 .. k + 1 /\ c[k + 1].var = v
    BY <1>1
  <2>2. \A i \in (k + 1) + 1 .. Len(c) : c[i].var # v
    BY <1>1
  <2>3. Held(c, w, v, k + 1) = w[v]
    BY <2>2, HeldByNone
  <2>4. QED BY <1>1, <1>5, <2>1, <2>3
<1> HIDE DEF s, t, r
<1>8. t = Append(s, r)
  <2>1. /\ Append(s, r) \in Seq(Records) /\ Len(Append(s, r)) = k + 1 /\ Append(s, r)[k + 1] = r
        /\ \A i \in 1 .. k : Append(s, r)[i] = s[i]
    BY <1>1, <1>4
  <2>2. ASSUME NEW i \in 1 .. k + 1 PROVE t[i] = Append(s, r)[i]
    <3>1. i = k + 1 \/ i \in 1 .. k
      OBVIOUS
    <3>2. QED BY <1>6, <1>7, <2>1, <3>1
  <2>3. QED BY <1>5, <2>1, <2>2, SeqEqual
<1>9. QED BY <1>3, <1>8 DEF c, s, t, r

Reached(b, values, w, v, x) ==
  LET places == {i \in 1 .. Len(Stacked(b, values)) : Stacked(b, values)[i].var = v}
  IN IF places = {}
     THEN Global(b, w) = [Global(b, values) EXCEPT ![v] = x] /\ Stacked(b, w) = Stacked(b, values)
     ELSE \E i \in places : /\ \A j \in places : j <= i
                            /\ Stacked(b, w) = [Stacked(b, values) EXCEPT ![i].val = x]
                            /\ Global(b, w) = Global(b, values)

(* An assignment reaches the innermost binding of the variable alone.        *)
LEMMA StackedAssigned ==
  ASSUME NEW b \in Seq(VarEntries), NEW values \in [Vars -> Values], NEW v \in Vars, NEW x \in Values,
         NEW w \in [Vars -> Values], w[v] = x, \A y \in Vars \ {v} : w[y] = values[y]
  PROVE  Reached(b, values, w, v, x)
<1> DEFINE s == Stacked(b, values)
           t == Stacked(b, w)
           places == {i \in 1 .. Len(s) : s[i].var = v}
<1>0. PICK k \in Nat : k = Len(b)
  OBVIOUS
<1>2. \A u \in Vars, n \in Nat :
        Held(b, w, u, n) = IF u = v /\ \A i \in n + 1 .. k : b[i].var # v THEN x ELSE Held(b, values, u, n)
  <2>1. ASSUME NEW u \in Vars, NEW n \in Nat
        PROVE  Held(b, w, u, n) = IF u = v /\ NoneLater(b, v, n) THEN x ELSE Held(b, values, u, n)
    <3>1. Len(b) \in Nat
      OBVIOUS
    <3>2. QED BY <3>1, HeldAssigned
  <2>2. QED BY <1>0, <2>1 DEF NoneLater
<1>3. /\ s \in Seq(Records) /\ Len(s) = k
      /\ \A i \in 1 .. k : b[i].var \in Vars /\ s[i] = [var |-> b[i].var, val |-> Held(b, values, b[i].var, i)]
  BY <1>0, StackedTyped
<1>4. /\ t \in Seq(Records) /\ Len(t) = k
      /\ \A i \in 1 .. k : t[i] = [var |-> b[i].var, val |-> Held(b, w, b[i].var, i)]
  BY <1>0, StackedTyped
<1> HIDE DEF s, t
<1>5. \A i \in 1 .. k : i \in places <=> b[i].var = v
  BY <1>3
<1>6. places \subseteq 1 .. k
  BY <1>3
<1>7. \A i \in 1 .. k : i \in Nat /\ i + 1 .. k \subseteq 1 .. k
  OBVIOUS
<1> HIDE DEF places
<1>8. CASE places = {}
  <2>1. \A i \in 0 + 1 .. k : b[i].var # v
    BY <1>5, <1>8
  <2>2. \A u \in Vars : Held(b, w, u, 0) = IF u = v THEN x ELSE Held(b, values, u, 0)
    BY <1>2, <2>1
  <2>3. Global(b, w) = [Global(b, values) EXCEPT ![v] = x]
    BY <2>2 DEF Global
  <2>4. ASSUME NEW i \in 1 .. k PROVE t[i] = s[i]
    <3>1. b[i].var # v /\ b[i].var \in Vars /\ i \in Nat
      BY <1>3, <1>5, <1>8
    <3>2. QED BY <1>2, <1>3, <1>4, <3>1
  <2>5. t = s
    BY <1>3, <1>4, <2>4, SeqEqual
  <2>6. QED BY <1>8, <2>3, <2>5 DEF Reached, places, s, t
<1>9. CASE places # {}
  <2>1. PICK i \in places : \A j \in places : j <= i
    <3>1. places \in SUBSET (0 .. k)
      BY <1>6
    <3>2. QED BY <3>1, <1>9, GreatestNumber
  <2>2. i \in 1 .. k /\ b[i].var = v /\ i \in Nat
    BY <1>5, <1>6
  <2>3. \A j \in i + 1 .. k : b[j].var # v
    <3>1. \A j \in i + 1 .. k : j \in 1 .. k /\ ~(j <= i)
      BY <2>2
    <3>2. QED BY <1>5, <2>1, <3>1
  <2>4. \A n \in 0 .. i - 1 : i \in n + 1 .. k /\ n \in Nat
    BY <2>2
  <2>5. \A u \in Vars, n \in 0 .. i - 1 : Held(b, w, u, n) = Held(b, values, u, n)
    BY <1>2, <2>2, <2>4
  <2>6. Global(b, w) = Global(b, values)
    <3>1. 0 \in 0 .. i - 1
      BY <2>2
    <3>2. \A u \in Vars : Held(b, w, u, 0) = Held(b, values, u, 0)
      BY <2>5, <3>1
    <3>3. QED BY <3>2 DEF Global
  <2>7. ASSUME NEW j \in 1 .. k PROVE t[j] = IF j = i THEN [s[i] EXCEPT !.val = x] ELSE s[j]
    <3>1. b[j].var \in Vars /\ j \in Nat
      BY <1>3
    <3>2. CASE j = i
      <4>1. Held(b, w, v, i) = x
        BY <1>2, <2>2, <2>3
      <4>2. QED BY <1>3, <1>4, <2>2, <3>2, <4>1
    <3>3. CASE j < i
      <4>1. j \in 0 .. i - 1
        BY <2>2, <3>3
      <4>2. Held(b, w, b[j].var, j) = Held(b, values, b[j].var, j)
        BY <2>5, <3>1, <4>1
      <4>3. QED BY <1>3, <1>4, <2>2, <3>3, <4>2
    <3>4. CASE j > i
      <4>1. b[j].var # v
        BY <2>2, <2>3, <3>4
      <4>2. Held(b, w, b[j].var, j) = Held(b, values, b[j].var, j)
        BY <1>2, <3>1, <4>1
      <4>3. QED BY <1>3, <1>4, <2>2, <3>4, <4>2
    <3>5. QED BY <2>2, <3>2, <3>3, <3>4
  <2>8. t = [s EXCEPT ![i].val = x]
    <3> DEFINE z == [s EXCEPT ![i].val = x]
    <3>0. [s[i] EXCEPT !.val = x] \in Records
      <4>1. s[i] \in Records
        BY <1>3, <2>2
      <4>2. QED BY <4>1 DEF Records
    <3>1. z \in Seq(Records) /\ Len(z) = k /\ \A j \in 1 .. k : z[j] = IF j = i THEN [s[i] EXCEPT !.val = x] ELSE s[j]
      BY <1>3, <2>2, <3>0
    <3> HIDE DEF z
    <3>2. t = z
      BY <1>4, <2>7, <3>1, SeqEqual
    <3>3. QED BY <3>2 DEF z
  <2>9. QED BY <1>9, <2>1, <2>6, <2>8 DEF Reached, places, s, t
<1>10. QED BY <1>8, <1>9

-----------------------------------------------------------------------------
(* What a step does to specpdl and to the values: an assignment, a binding   *)
(* or its end, an unwind form pushed or taken off, or nothing.               *)
Assigned(v, x) == UNCHANGED pdl /\ value' = [value EXCEPT ![v] = x]
Specbound(v, x) ==
  /\ pdl' = Append(pdl, [var |-> v, old |-> value[v], owner |-> 0])
  /\ value' = [value EXCEPT ![v] = x]
Restored ==
  /\ Len(pdl) > 0 /\ Innermost(pdl).owner = 0 /\ pdl' = Without(pdl)
  /\ value' = [value EXCEPT ![Innermost(pdl).var] = Innermost(pdl).old]
FormPushed(e) == e.owner # 0 /\ pdl' = Append(pdl, e) /\ UNCHANGED value
FormTaken ==
  Len(pdl) > 0 /\ Innermost(pdl).owner # 0 /\ pdl' = Without(pdl) /\ UNCHANGED value

(* Every step has one of these shapes.                                       *)
LEMMA StepShapes ==
  ASSUME Inv, [Next]_vars
  PROVE  \/ UNCHANGED <<pdl, value>>
         \/ \E v \in Vars, x \in Values : Assigned(v, x) \/ Specbound(v, x)
         \/ Restored
         \/ \E e \in Entries : FormPushed(e)
         \/ FormTaken
<1>0. pdl \in Seq(Entries) /\ Len(pdl) \in Nat /\ Top \in Frames /\ Len(stack) \in Nat
  BY Innermosts
<1>1. ASSUME NEW v \in Vars, NEW x \in Values, Setq(v, x) PROVE Assigned(v, x)
  BY <1>1 DEF Setq, Assigned
<1>2. ASSUME NEW v \in Vars, NEW x \in Values, Let(v, x) PROVE Specbound(v, x)
  BY <1>2 DEF Let, Specbound
<1>3. ASSUME NEW x \in Values, HandlerBinds(x) PROVE \E v \in Vars : Specbound(v, x)
  <2>1. Top.var \in Vars
    <3>1. Top.kind = "jumped"
      BY <1>3 DEF HandlerBinds
    <3>2. FrameOK(stack, Len(stack)) /\ Top = stack[Len(stack)]
      BY <3>1, Innermosts, Loops DEF Inv
    <3>3. QED BY <1>0, <3>1, <3>2 DEF FrameOK, Frames
  <2>2. Specbound(Top.var, x)
    BY <1>3 DEF HandlerBinds, Specbound
  <2>3. QED BY <2>1, <2>2
<1>4. ASSUME CmdError PROVE Assigned(InhibitQuit, Nil)
  BY <1>4 DEF CmdError, Assigned
<1>5. ASSUME Unbinds PROVE Len(pdl) > 0
  BY <1>5, Popped
<1>6. ASSUME UnbindVariable PROVE Restored
  BY <1>5, <1>6 DEF UnbindVariable, Restored
<1>7. ASSUME RunForms PROVE FormTaken
  BY <1>5, <1>7 DEF RunForms, FormTaken
<1>8. ASSUME UnwindProtect PROVE \E e \in Entries : FormPushed(e)
  <2> DEFINE e == [var |-> None, old |-> Nil, owner |-> Len(stack) + 1]
  <2>1. e \in Entries /\ e.owner # 0
    BY <1>0, VarAssumption DEF Entries
  <2>2. pdl' = Append(pdl, e) /\ UNCHANGED value
    BY <1>8 DEF UnwindProtect
  <2>3. QED BY <2>1, <2>2 DEF FormPushed
<1>9. ASSUME NEW goal, NEW level, NEW pending, UnwindToCatch(goal, level, pending) PROVE UNCHANGED <<pdl, value>>
  BY <1>9 DEF UnwindToCatch
<1>10. ASSUME NEW condition, NEW level, NEW pending, Signal(condition, level, pending)
       PROVE  UNCHANGED <<pdl, value>>
  BY <1>9, <1>10 DEF Signal
<1>11. ASSUME EvalQuit \/ EvalTooDeep \/ EvalPdlFull \/ HandlerPdlFull \/ \E c \in Conditions : EvalSignal(c)
       PROVE  UNCHANGED <<pdl, value>>
  BY <1>10, <1>11 DEF EvalQuit, EvalTooDeep, EvalPdlFull, HandlerPdlFull, EvalSignal
<1>12. ASSUME NEW tag, Throw(tag) PROVE UNCHANGED <<pdl, value>>
  BY <1>9, <1>10, <1>12 DEF Throw
<1>13. ASSUME \/ UNCHANGED vars \/ InterruptSignal
              \/ ReturnUnbinding \/ ReturnCatch \/ ReturnForms \/ HideQuit \/ UnboundReturn \/ UnboundNext
              \/ ArriveAtCatch \/ ArriveAtHandler
              \/ \E tag \in Tags : Catch(tag)
              \/ \E c \in Conditions, v \in Vars \cup {None} : ConditionCase(c, v)
       PROVE  UNCHANGED <<pdl, value>>
  BY <1>13 DEF vars, InterruptSignal, ReturnUnbinding, ReturnCatch, ReturnForms, HideQuit, UnboundReturn, UnboundNext,
               ArriveAtCatch, ArriveAtHandler, Catch, ConditionCase
<1>14. QED
  BY <1>1, <1>2, <1>3, <1>4, <1>6, <1>7, <1>8, <1>11, <1>12, <1>13, VarAssumption DEF Next

VarsNamed == \A k \in 1 .. Len(pdl) : pdl[k].owner = 0 => pdl[k].var \in Vars

(* An entry of specpdl that belongs to no unwind-protect is a variable's.    *)
LEMMA VarsStayNamed == Inv /\ VarsNamed /\ [Next]_vars => VarsNamed'
<1> SUFFICES ASSUME Inv, VarsNamed, [Next]_vars PROVE VarsNamed'
  OBVIOUS
<1>0. pdl \in Seq(Entries) /\ Len(pdl) \in Nat /\ value \in [Vars -> Values]
  BY Innermosts DEF Inv, Typed
<1>1. ASSUME NEW e \in Entries, pdl' = Append(pdl, e), e.owner = 0 => e.var \in Vars PROVE VarsNamed'
  <2>1. Len(pdl') = Len(pdl) + 1 /\ pdl'[Len(pdl) + 1] = e /\ \A k \in 1 .. Len(pdl) : pdl'[k] = pdl[k]
    BY <1>0, <1>1
  <2>2. \A k \in 1 .. Len(pdl) + 1 : k = Len(pdl) + 1 \/ k \in 1 .. Len(pdl)
    BY <1>0
  <2>3. QED BY <1>1, <2>1, <2>2 DEF VarsNamed
<1>2. ASSUME Len(pdl) > 0, pdl' = Without(pdl) PROVE VarsNamed'
  <2>1. Len(pdl') = Len(pdl) - 1 /\ \A k \in 1 .. Len(pdl) - 1 : pdl'[k] = pdl[k] /\ k \in 1 .. Len(pdl)
    <3>1. Len(pdl) - 1 \in 0 .. Len(pdl) /\ \A k \in 1 .. Len(pdl) - 1 : k \in 1 .. Len(pdl)
      BY <1>0, <1>2
    <3>2. pdl' = SubSeq(pdl, 1, Len(pdl) - 1)
      BY <1>2 DEF Without
    <3>3. QED BY <1>0, <3>1, <3>2, Prefix
  <2>2. QED BY <2>1 DEF VarsNamed
<1>3. ASSUME UNCHANGED pdl PROVE VarsNamed'
  BY <1>3 DEF VarsNamed
<1>4. ASSUME NEW v \in Vars, NEW x \in Values, Specbound(v, x) PROVE VarsNamed'
  <2> DEFINE e == [var |-> v, old |-> value[v], owner |-> 0]
  <2>1. e \in Entries /\ e.var \in Vars /\ pdl' = Append(pdl, e)
    BY <1>0, <1>4 DEF Entries, Specbound
  <2> HIDE DEF e
  <2>2. QED BY <1>1, <2>1
<1>5. QED BY <1>1, <1>2, <1>3, <1>4, StepShapes DEF Assigned, Restored, FormPushed, FormTaken

(* Shallow binding does to the bindings what deep binding does.              *)
LEMMA DeepStep == Inv /\ VarsNamed /\ VarsNamed' /\ Inv' /\ [Next]_vars => [Deep!Next]_(Deep!vars)
<1> SUFFICES ASSUME Inv, VarsNamed, VarsNamed', Inv', [Next]_vars PROVE [Deep!Next]_(Deep!vars)
  OBVIOUS
<1>0. /\ pdl \in Seq(Entries) /\ Len(pdl) \in Nat /\ value \in [Vars -> Values]
      /\ pdl' \in Seq(Entries) /\ value' \in [Vars -> Values]
  BY Innermosts DEF Inv, Typed
<1>b. PICK b, c, values, w : b = BoundOf(pdl) /\ c = BoundOf(pdl') /\ values = value /\ w = value'
  OBVIOUS
<1>1. /\ b \in Seq(VarEntries) /\ c \in Seq(VarEntries)
      /\ values \in [Vars -> Values] /\ w \in [Vars -> Values]
  <2>1. b \in Seq(VarEntries)
    BY <1>0, <1>b, BoundTyped DEF VarsNamed
  <2>2. \A k \in 1 .. Len(pdl') : pdl'[k].owner = 0 => pdl'[k].var \in Vars
    BY DEF VarsNamed
  <2>3. c \in Seq(VarEntries)
    BY <1>0, <1>b, <2>2, BoundTyped
  <2>4. QED BY <1>0, <1>b, <2>1, <2>3
<1>2. ASSUME c = b, w = values PROVE UNCHANGED Deep!vars
  BY <1>b, <1>2 DEF Deep!vars
<1>3. ASSUME NEW v \in Vars, NEW x \in Values, Assigned(v, x) PROVE Deep!Next
  <2>1. c = b /\ w = [values EXCEPT ![v] = x]
    BY <1>b, <1>3 DEF Assigned
  <2>2. Reached(b, values, w, v, x)
    <3>1. w[v] = x /\ \A y \in Vars \ {v} : w[y] = values[y]
      BY <1>1, <2>1
    <3>2. QED BY <1>1, <3>1, StackedAssigned
  <2>3. Deep!Assign(v, x)
    BY <1>b, <2>1, <2>2 DEF Reached, Deep!Assign, Deep!Of
  <2>4. QED BY <2>3 DEF Deep!Next
<1>4. ASSUME NEW v \in Vars, NEW x \in Values, Specbound(v, x) PROVE Deep!Next
  <2> DEFINE e == [var |-> v, old |-> values[v], owner |-> 0]
  <2>1. e \in Entries /\ e \in VarEntries /\ e.var = v /\ e.old = values[v] /\ e.owner = 0
    BY <1>1 DEF Entries, VarEntries
  <2>2. pdl' = Append(pdl, e) /\ w = [values EXCEPT ![v] = x]
    BY <1>b, <1>4 DEF Specbound
  <2> HIDE DEF e
  <2>3. c = Append(b, e)
    BY <1>0, <1>b, <2>1, <2>2, BoundAppend
  <2>4. Global(c, w) = Global(b, values) /\ Stacked(c, w) = Append(Stacked(b, values), [var |-> v, val |-> x])
    <3>1. w[v] = x /\ \A y \in Vars \ {v} : w[y] = values[y]
      BY <1>1, <2>2
    <3>2. QED BY <1>1, <2>1, <2>3, <3>1, StackedBound
  <2>5. Deep!Bind(v, x)
    BY <1>b, <2>4 DEF Deep!Bind
  <2>6. QED BY <2>5 DEF Deep!Next
<1>5. ASSUME Len(pdl) > 0, pdl' = Without(pdl)
      PROVE  /\ Innermost(pdl) \in Entries /\ pdl = Append(pdl', Innermost(pdl))
             /\ b = IF Innermost(pdl).owner = 0 THEN Append(c, Innermost(pdl)) ELSE c
  <2>1. PICK n \in Nat \ {0} : n = Len(pdl)
    BY <1>0, <1>5
  <2>2. Innermost(pdl) = pdl[n] /\ pdl[n] \in Entries /\ n - 1 \in 0 .. n /\ \A k \in 1 .. n : k = n \/ k \in 1 .. n - 1
    BY <1>0, <2>1 DEF Innermost
  <2>3. pdl' = SubSeq(pdl, 1, n - 1)
    BY <1>5, <2>1 DEF Without
  <2>4. Len(pdl') = n - 1 /\ \A k \in 1 .. n - 1 : pdl'[k] = pdl[k]
    BY <1>0, <2>1, <2>2, <2>3, Prefix
  <2>5. PICK q : q = Append(pdl', pdl[n])
    OBVIOUS
  <2>6. q \in Seq(Entries) /\ Len(q) = n /\ q[n] = pdl[n] /\ \A k \in 1 .. n - 1 : q[k] = pdl[k]
    BY <1>0, <2>2, <2>4, <2>5
  <2>7. pdl = q
    BY <1>0, <2>1, <2>2, <2>6, SeqEqual
  <2>8. QED BY <1>0, <1>b, <2>2, <2>5, <2>7, BoundAppend
<1>6. ASSUME Restored PROVE Deep!Next
  <2>1. PICK e, v, x : e = Innermost(pdl) /\ v = e.var /\ x = values[v]
    OBVIOUS
  <2>2. e \in Entries /\ e.owner = 0 /\ b = Append(c, e) /\ w = [values EXCEPT ![v] = e.old]
        /\ pdl = Append(pdl', e)
    BY <1>5, <1>6, <1>b, <2>1 DEF Restored
  <2>3. v \in Vars
    <3>1. \E k \in 1 .. Len(pdl) : pdl[k] = e
      BY <1>0, <1>6, <2>1 DEF Restored, Innermost
    <3>2. QED BY <2>1, <2>2, <3>1 DEF VarsNamed
  <2>4. e \in VarEntries /\ x \in Values /\ e.old \in Values
    BY <1>1, <2>1, <2>2, <2>3 DEF Entries, VarEntries
  <2>5. e.old = w[v] /\ values[v] = x /\ \A y \in Vars \ {v} : values[y] = w[y]
    BY <1>1, <2>1, <2>2, <2>3, <2>4
  <2>6. Global(b, values) = Global(c, w) /\ Stacked(b, values) = Append(Stacked(c, w), [var |-> v, val |-> x])
    <3>1. b = Append(c, e) /\ e.var = v
      BY <2>1, <2>2
    <3>2. QED BY <1>1, <2>3, <2>4, <2>5, <3>1, StackedBound
  <2>7. Stacked(c, w) \in Seq(Records) /\ [var |-> v, val |-> x] \in Records
    BY <1>1, <2>3, <2>4, StackedTyped DEF Records
  <2>8. PICK s, t : s = Stacked(b, values) /\ t = Stacked(c, w)
    OBVIOUS
  <2>9. s # <<>> /\ t = SubSeq(s, 1, Len(s) - 1)
    <3>1. PICK n \in Nat, r \in Records : n = Len(t) /\ r = [var |-> v, val |-> x]
      BY <2>7, <2>8
    <3>2. s = Append(t, r) /\ t \in Seq(Records)
      BY <2>6, <2>7, <2>8, <3>1
    <3>3. Len(s) = n + 1 /\ n \in 0 .. Len(t) /\ (n + 1) - 1 = n
      BY <3>1, <3>2
    <3>4. SubSeq(s, 1, n) = SubSeq(t, 1, n)
      BY <3>1, <3>2, <3>3, Added
    <3>5. SubSeq(t, 1, n) = t
      BY <3>1, <3>2, WholeIsPrefix
    <3>6. s # <<>>
      <4>1. Len(<<>>) = 0
        OBVIOUS
      <4>2. QED BY <3>3, <4>1
    <3>7. QED BY <3>3, <3>4, <3>5, <3>6
  <2>10. Deep!Unbind
    BY <1>b, <2>6, <2>8, <2>9 DEF Deep!Unbind
  <2>11. QED BY <2>10 DEF Deep!Next
<1>7. ASSUME NEW e \in Entries, FormPushed(e) PROVE UNCHANGED Deep!vars
  <2>1. c = b
    BY <1>0, <1>b, <1>7, BoundAppend DEF FormPushed
  <2>2. QED BY <1>2, <1>7, <1>b, <2>1 DEF FormPushed
<1>8. ASSUME FormTaken PROVE UNCHANGED Deep!vars
  <2>1. c = b
    BY <1>5, <1>8 DEF FormTaken
  <2>2. QED BY <1>2, <1>8, <1>b, <2>1 DEF FormTaken
<1>9. ASSUME UNCHANGED <<pdl, value>> PROVE UNCHANGED Deep!vars
  BY <1>2, <1>9, <1>b
<1>10. QED BY <1>3, <1>4, <1>6, <1>7, <1>8, <1>9, StepShapes

(* Restoring saved values gives every variable the value that dynamic scope  *)
(* promises: shallow binding implements deep binding, however forms are left. *)
THEOREM BindsDeeply == Spec => DeepBinding
<1>1. Init => VarsNamed
  BY DEF Init, VarsNamed
<1>2. Init => Deep!Init
  <2> SUFFICES ASSUME Init PROVE Deep!Init
    OBVIOUS
  <2>1. pdl = <<>> /\ value \in [Vars -> Values]
    BY DEF Init
  <2>2. BoundOf(pdl) = <<>>
    BY <2>1, BoundEmpty
  <2>3. <<>> \in Seq(VarEntries) /\ Len(<<>>) = 0
    OBVIOUS
  <2>4. Global(<<>>, value) \in [Vars -> Values] /\ Stacked(<<>>, value) \in Seq(Records) /\ Len(Stacked(<<>>, value)) = 0
    BY <2>1, <2>3, StackedTyped
  <2>5. Stacked(<<>>, value) = <<>>
    BY <2>4
  <2>6. QED BY <2>2, <2>4, <2>5 DEF Deep!Init
<1>3. Spec => []VarsNamed
  BY <1>1, VarsStayNamed, Invariance, PTL DEF Spec
<1>4. QED BY <1>2, <1>3, DeepStep, Invariance, PTL DEF Spec, DeepBinding, Deep!Spec
=============================================================================
