------------------------ MODULE LocalVariablesProofs ------------------------
(***************************************************************************)
(* Proofs about LocalVariables for every set of buffers, frames and values *)
(* and any number of `let's: the cache of a variable is invisible.  The    *)
(* operators that move the cache are lemmas about the three cells it may   *)
(* stand for; the theorems follow function by function.                    *)
(***************************************************************************)
EXTENDS LocalVariables, TLAPS

Cells ==
  [kind : {"plain", "some", "auto"}, fwd : BOOLEAN, framed : BOOLEAN, real : Values,
   elt : {"default", "buffer", "frame"}, buffer : Buffers \cup {None},
   frame : Frames \cup {None}, cdr : Values, alist : [Buffers -> Values \cup {None}],
   params : [Frames -> Values \cup {None}]]

(* V and W are variables of the same kind; what Lisp finds is the same in both. *)
Alike(v, w) == w.kind = v.kind /\ w.fwd = v.fwd /\ w.framed = v.framed
Same(v, w) == /\ Default(w) = Default(v) /\ Local(w) = Local(v) /\ FrameLocal(w) = FrameLocal(v)
              /\ Alike(v, w)

(* A plain variable has one cell, and the cell cached is one there was. *)
Sound(v) ==
  /\ v \in Cells
  /\ v.kind = "plain" => v.elt = "default" /\ ~v.framed /\ \A b \in Buffers : v.alist[b] = None
  /\ v.elt = "frame" => v.framed /\ v.frame # None /\ v.params[v.frame] # None
Named(v) == v.elt = "buffer" => v.buffer # None

-----------------------------------------------------------------------------
(* Writing back brings every cell up to date. *)
LEMMA WritingBack ==
  ASSUME NEW v \in Cells
  PROVE  /\ WrittenBack(v) \in Cells
         /\ Alike(v, WrittenBack(v)) /\ WrittenBack(v).real = v.real
         /\ WrittenBack(v).elt = v.elt /\ WrittenBack(v).buffer = v.buffer
         /\ WrittenBack(v).frame = v.frame /\ WrittenBack(v).cdr = Default(v)
         /\ WrittenBack(v).alist = Local(v) /\ WrittenBack(v).params = FrameLocal(v)
         /\ \A b \in Buffers : Local(v)[b] = None <=> v.alist[b] = None
         /\ Local(v) \in [Buffers -> Values \cup {None}]
         /\ FrameLocal(v) \in [Frames -> Values \cup {None}]
         /\ Default(v) \in Values
<1>1. Local(v) \in [Buffers -> Values \cup {None}] /\ Default(v) \in Values
      /\ FrameLocal(v) \in [Frames -> Values \cup {None}]
  BY DEF Cells, Local, Default, FrameLocal
<1>2. \A b \in Buffers : Local(v)[b] = None <=> v.alist[b] = None
  BY ValueAssumption DEF Cells, Local
<1>3. CASE v.elt = "default"
  <2>1. WrittenBack(v) = [v EXCEPT !.cdr = v.real]
    BY <1>3 DEF WrittenBack
  <2>2. Default(v) = v.real /\ Local(v) = v.alist /\ FrameLocal(v) = v.params
    BY <1>3 DEF Cells, Local, Default, FrameLocal
  <2> QED
    BY <1>1, <1>2, <2>1, <2>2 DEF Cells, Alike
<1>4. CASE v.elt = "frame"
  <2>1. WrittenBack(v) = [v EXCEPT !.params[v.frame] = v.real]
    BY <1>4 DEF WrittenBack
  <2>2. Default(v) = v.cdr /\ Local(v) = v.alist
    BY <1>4 DEF Cells, Local, Default
  <2>3. FrameLocal(v) = [v.params EXCEPT ![v.frame] = v.real]
    BY <1>4 DEF Cells, FrameLocal
  <2> QED
    BY <1>1, <1>2, <2>1, <2>2, <2>3 DEF Cells, Alike
<1>5. CASE v.elt = "buffer"
  <2>1. Default(v) = v.cdr /\ FrameLocal(v) = v.params
    BY <1>5 DEF Cells, FrameLocal, Default
  <2>2. CASE v.buffer # None /\ v.alist[v.buffer] # None
    <3>1. WrittenBack(v) = [v EXCEPT !.alist[v.buffer] = v.real]
      BY <1>5, <2>2 DEF WrittenBack
    <3>2. Local(v) = [v.alist EXCEPT ![v.buffer] = v.real]
      BY <1>5, <2>2 DEF Cells, Local
    <3> QED
      BY <1>1, <1>2, <2>1, <3>1, <3>2 DEF Cells, Alike
  <2>3. CASE ~(v.buffer # None /\ v.alist[v.buffer] # None)
    <3>1. WrittenBack(v) = v
      BY <1>5, <2>3 DEF WrittenBack
    <3>2. Local(v) = v.alist
      BY <1>5, <2>3, NoneAssumption DEF Cells, Local
    <3> QED
      BY <1>1, <1>2, <2>1, <3>1, <3>2 DEF Cells, Alike
  <2> QED BY <2>2, <2>3
<1> QED BY <1>3, <1>4, <1>5 DEF Cells, Alike
-----------------------------------------------------------------------------
(* W has cells where V has. *)
SameShape(v, w) == /\ \A b \in Buffers : w.alist[b] = None <=> v.alist[b] = None
                   /\ \A f \in Frames : w.params[f] = None <=> v.params[f] = None

(* The cache was used last in B and F; it holds their value. *)
At(v, b, f) == v.kind = "plain" \/ (v.buffer = b /\ v.frame = f)
Agrees(v, b, f) == /\ v.elt = Found(v, b, f)
                   /\ v.elt = "buffer" => v.buffer = b
                   /\ v.elt = "frame" => v.frame = f

(* The cache holds what it should where it was used last: always the right   *)
(* buffer's value, the right frame's if STRICT.                              *)
Coherent(v, alive, strict) ==
  v.buffer \in alive /\ v.frame # None =>
    /\ v.elt = "buffer" <=> v.alist[v.buffer] # None
    /\ strict => v.elt = Found(v, v.buffer, v.frame)

(* The value in effect in B and F, of the cells Lisp finds. *)
Effect(v, b, f) == IF Local(v)[b] # None THEN Local(v)[b]
                   ELSE IF v.framed /\ FrameLocal(v)[f] # None THEN FrameLocal(v)[f] ELSE Default(v)

(* What Lisp finds has values where there are cells. *)
LEMMA Shapes ==
  ASSUME NEW v, Sound(v)
  PROVE  /\ \A b \in Buffers : Local(v)[b] = None <=> v.alist[b] = None
         /\ \A f \in Frames : FrameLocal(v)[f] = None <=> v.params[f] = None
BY ValueAssumption, NoneAssumption DEF Sound, Cells, Local, FrameLocal

(* A strictly coherent cache is right where it was used last. *)
LEMMA AtAgrees ==
  ASSUME NEW v, Sound(v), NEW alive \in SUBSET Buffers, NEW b \in alive, NEW f \in Frames,
         At(v, b, f), Coherent(v, alive, TRUE)
  PROVE  Agrees(v, b, f)
<1>1. CASE v.kind = "plain"
  BY <1>1 DEF Sound, Cells, Agrees, Found
<1>2. CASE v.kind # "plain"
  BY <1>2, NoneAssumption DEF Sound, Cells, Agrees, Found, At, Coherent
<1> QED BY <1>1, <1>2

(* A cache that is right for B and F holds the value in effect there. *)
LEMMA Reading ==
  ASSUME NEW v, Sound(v), NEW b \in Buffers, NEW f \in Frames, Agrees(v, b, f)
  PROVE  v.real = Effect(v, b, f)
<1>1. CASE v.elt = "buffer"
  BY <1>1, ValueAssumption DEF Sound, Cells, Agrees, Found, Effect, Local
<1>2. CASE v.elt = "frame"
  BY <1>2, ValueAssumption DEF Sound, Cells, Agrees, Found, Effect, Local, FrameLocal
<1>3. CASE v.elt = "default"
  BY <1>3, ValueAssumption DEF Sound, Cells, Agrees, Found, Effect, Local, FrameLocal, Default
<1> QED BY <1>1, <1>2, <1>3 DEF Sound, Cells

(* Loading the cache for B and F leaves what Lisp finds. *)
LEMMA Loading ==
  ASSUME NEW v, Sound(v), v.kind # "plain", NEW b \in Buffers, NEW f \in Frames
  PROVE  LET w == Loaded(WrittenBack(v), b, f) IN
         /\ Sound(w) /\ Same(v, w) /\ SameShape(v, w)
         /\ w.buffer = b /\ w.frame = f /\ w.elt = Found(w, b, f)
<1> DEFINE u == WrittenBack(v)
           elt == Found(u, b, f)
           w == Loaded(u, b, f)
<1>1. /\ u \in Cells /\ Alike(v, u) /\ u.cdr = Default(v) /\ u.alist = Local(v)
      /\ u.params = FrameLocal(v)
  BY WritingBack DEF Sound
<1>2. elt \in {"default", "buffer", "frame"} /\ Content(u, elt, b, f) \in Values
  BY <1>1, ValueAssumption DEF Found, Content, Cells
<1>3. w = [u EXCEPT !.elt = elt, !.buffer = b, !.frame = f, !.real = Content(u, elt, b, f)]
  BY <1>1 DEF Loaded, Attached, Cells
<1> HIDE DEF u, elt
<1>4. /\ w \in Cells /\ Alike(v, w) /\ w.cdr = u.cdr /\ w.alist = u.alist /\ w.params = u.params
      /\ w.buffer = b /\ w.frame = f /\ w.elt = elt /\ w.real = Content(u, elt, b, f)
  BY <1>1, <1>2, <1>3 DEF Cells, Alike
<1> HIDE DEF w
<1>5. elt = Found(w, b, f)
  BY <1>1, <1>4 DEF Found, elt, Alike
<1>6. elt = "buffer" => u.alist[b] # None
  BY DEF elt, Found
<1>7. elt = "frame" => u.framed /\ u.params[f] # None
  BY DEF elt, Found
<1>8. Default(w) = Default(v)
  BY <1>1, <1>4 DEF Default, Content
<1>9. Local(w) = u.alist
  BY <1>1, <1>4 DEF Local, Content, Cells
<1>10. FrameLocal(w) = u.params
  BY <1>1, <1>4 DEF FrameLocal, Content, Cells
<1>11. Same(v, w)
  BY <1>1, <1>4, <1>8, <1>9, <1>10 DEF Same
<1>12. SameShape(v, w)
  BY <1>1, <1>4, Shapes DEF SameShape
<1>13. Sound(w)
  BY <1>1, <1>4, <1>7, NoneAssumption DEF Sound, Alike
<1> QED
  BY <1>4, <1>5, <1>11, <1>12, <1>13 DEF w, u

(* swap_in_symval_forwarding leaves what Lisp finds, and a coherent cache. *)
LEMMA SwappingIn ==
  ASSUME NEW v, Sound(v), Named(v), NEW alive \in SUBSET Buffers, NEW strict \in BOOLEAN,
         Coherent(v, alive, strict), NEW b \in Buffers, NEW f \in Frames
  PROVE  LET w == SwappedIn(v, b, f) IN
         /\ Sound(w) /\ Named(w) /\ Same(v, w) /\ SameShape(v, w)
         /\ At(w, b, f) /\ Coherent(w, alive, strict)
<1>1. CASE Fresh(v, b, f)
  <2>1. SwappedIn(v, b, f) = v
    BY <1>1 DEF SwappedIn
  <2> QED BY <1>1, <2>1 DEF Same, SameShape, Alike, At, Fresh
<1>2. CASE ~Fresh(v, b, f)
  <2>1. SwappedIn(v, b, f) = Loaded(WrittenBack(v), b, f) /\ v.kind # "plain"
    BY <1>2 DEF SwappedIn, Fresh
  <2> DEFINE w == Loaded(WrittenBack(v), b, f)
  <2>2. /\ Sound(w) /\ Same(v, w) /\ SameShape(v, w)
        /\ w.buffer = b /\ w.frame = f /\ w.elt = Found(w, b, f)
    BY <2>1, Loading
  <2> HIDE DEF w
  <2>3. Named(w) /\ At(w, b, f) /\ Coherent(w, alive, strict)
    BY <2>2, NoneAssumption DEF Named, At, Coherent, Found
  <2> QED BY <2>1, <2>2, <2>3 DEF w
<1> QED BY <1>1, <1>2
-----------------------------------------------------------------------------
(* Where the value in effect in B and F is kept, of the cells Lisp finds. *)
Where(v, b, f) == IF Local(v)[b] # None THEN "buffer"
                  ELSE IF v.framed /\ FrameLocal(v)[f] # None THEN "frame" ELSE "default"

(* VAL is assigned to one place and nothing else changes. *)
Assigned(v, w, place, b, f, val) ==
  /\ Default(w) = (IF place = "default" THEN val ELSE Default(v))
  /\ Local(w) = (IF place = "buffer" THEN [Local(v) EXCEPT ![b] = val] ELSE Local(v))
  /\ FrameLocal(w) = (IF place = "frame" THEN [FrameLocal(v) EXCEPT ![f] = val] ELSE FrameLocal(v))

(* Storing a value moves no cell. *)
LEMMA StoringKeeps ==
  ASSUME NEW v, Sound(v), NEW val \in Values
  PROVE  LET w == Stored(v, val) IN
         /\ Sound(w) /\ Alike(v, w) /\ SameShape(v, w) /\ w.elt = v.elt /\ w.buffer = v.buffer
         /\ w.frame = v.frame /\ w.alist = v.alist /\ w.params = v.params /\ w.cdr = v.cdr
         /\ w.real = val
BY DEF Stored, Sound, Cells, Alike, SameShape

(* A value stored in a cache that agrees with B and F is assigned there. *)
LEMMA Storing ==
  ASSUME NEW v, Sound(v), NEW b \in Buffers, NEW f \in Frames, Agrees(v, b, f), NEW val \in Values
  PROVE  Assigned(v, Stored(v, val), Where(v, b, f), b, f, val)
<1> DEFINE w == Stored(v, val)
<1>1. /\ w.elt = v.elt /\ w.buffer = v.buffer /\ w.frame = v.frame /\ w.alist = v.alist
      /\ w.params = v.params /\ w.cdr = v.cdr /\ w.real = val /\ v \in Cells
  BY StoringKeeps DEF Sound
<1>2. Where(v, b, f) = v.elt
  BY Shapes DEF Where, Agrees, Found
<1> HIDE DEF w
<1>3. CASE v.elt = "default"
  <2>1. Default(w) = val /\ Local(w) = Local(v) /\ FrameLocal(w) = FrameLocal(v)
    BY <1>1, <1>3 DEF Default, Local, FrameLocal
  <2> QED BY <1>2, <1>3, <2>1 DEF Assigned, w
<1>4. CASE v.elt = "buffer"
  <2>1. v.buffer = b /\ v.alist[b] # None
    BY <1>4 DEF Agrees, Found
  <2>2. Local(w) = [Local(v) EXCEPT ![b] = val]
    BY <1>1, <1>4, <2>1 DEF Local
  <2>3. Default(w) = Default(v) /\ FrameLocal(w) = FrameLocal(v)
    BY <1>1, <1>4 DEF Default, FrameLocal
  <2> QED BY <1>2, <1>4, <2>2, <2>3 DEF Assigned, w
<1>5. CASE v.elt = "frame"
  <2>1. v.frame = f
    BY <1>5 DEF Agrees
  <2>2. FrameLocal(w) = [FrameLocal(v) EXCEPT ![f] = val]
    BY <1>1, <1>5, <2>1 DEF FrameLocal
  <2>3. Default(w) = Default(v) /\ Local(w) = Local(v)
    BY <1>1, <1>5 DEF Default, Local
  <2> QED BY <1>2, <1>5, <2>2, <2>3 DEF Assigned, w
<1> QED BY <1>1, <1>3, <1>4, <1>5 DEF Cells

(* A frame's value is in effect where a variable is to become local. *)
Evades(v, b, f) == v.kind = "auto" /\ v.framed /\ v.alist[b] = None /\ v.params[f] # None

(* W is V after something was done in buffer B. *)
Kept(v, w, alive, strict, b) ==
  /\ Sound(w) /\ Named(w) /\ w.fwd = v.fwd /\ w.framed = v.framed /\ Coherent(w, alive, strict)
  /\ \A c \in Buffers \ {b} : w.alist[c] = None <=> v.alist[c] = None
  /\ v.alist[b] # None => w.alist[b] # None
  /\ \A g \in Frames : w.params[g] = None <=> v.params[g] = None

(* What set_internal leaves behind, whatever the cache held. *)
LEMMA SettingKeeps ==
  ASSUME NEW v, Sound(v), Named(v), NEW alive \in SUBSET Buffers, NEW strict \in BOOLEAN,
         Coherent(v, alive, strict), NEW b \in Buffers, NEW f \in Frames, NEW val \in Values,
         NEW bind \in BOOLEAN
  PROVE  LET w == SetInternal(v, b, f, val, bind) IN
         Kept(v, w, alive, strict, b) /\ At(w, b, f) /\ Alike(v, w)
<1> DEFINE w == SetInternal(v, b, f, val, bind)
           u == WrittenBack(v)
<1>1. CASE Fresh(v, b, f) /\ ~(v.kind = "auto" /\ v.elt = "default")
  <2>1. w = Stored(v, val)
    BY <1>1 DEF SetInternal
  <2>2. /\ Sound(w) /\ Alike(v, w) /\ SameShape(v, w) /\ w.elt = v.elt /\ w.buffer = v.buffer
        /\ w.frame = v.frame /\ w.alist = v.alist /\ w.params = v.params
    BY <2>1, StoringKeeps
  <2> HIDE DEF w
  <2>3. Named(w) /\ At(w, b, f)
    BY <1>1, <2>2 DEF Named, At, Fresh, Alike
  <2>4. Coherent(w, alive, strict)
    BY <2>2 DEF Coherent, Found, Alike
  <2> QED BY <2>2, <2>3, <2>4 DEF SameShape, Alike, Kept, w
<1>2. ASSUME ~(Fresh(v, b, f) /\ ~(v.kind = "auto" /\ v.elt = "default")),
             ~(u.alist[b] = None /\ u.kind = "auto" /\ ~bind)
      PROVE  /\ v.kind # "plain"
             /\ w = Stored(Loaded(u, b, f), val)
  <2>1. v.kind # "plain"
    BY <1>2 DEF Fresh
  <2>2. w = Stored(Attached(u, Found(u, b, f), b, f), val)
    BY <1>2 DEF SetInternal, Located
  <2>3. u \in Cells
    BY WritingBack DEF Sound
  <2> HIDE DEF u
  <2>4. Stored(Attached(u, Found(u, b, f), b, f), val) = Stored(Loaded(u, b, f), val)
    BY <2>3 DEF Stored, Loaded, Attached, Cells
  <2> QED BY <2>1, <2>2, <2>4
<1>3. CASE /\ ~(Fresh(v, b, f) /\ ~(v.kind = "auto" /\ v.elt = "default"))
           /\ ~(u.alist[b] = None /\ u.kind = "auto" /\ ~bind)
  <2> DEFINE x == Loaded(u, b, f)
  <2>1. v.kind # "plain" /\ w = Stored(x, val)
    BY <1>2, <1>3
  <2>2. /\ Sound(x) /\ Same(v, x) /\ SameShape(v, x)
        /\ x.buffer = b /\ x.frame = f /\ x.elt = Found(x, b, f)
    BY <2>1, Loading
  <2> HIDE DEF x
  <2>3. /\ Sound(w) /\ Alike(x, w) /\ SameShape(x, w) /\ w.elt = x.elt /\ w.buffer = b
        /\ w.frame = f /\ w.alist = x.alist /\ w.params = x.params
    BY <2>1, <2>2, StoringKeeps
  <2> HIDE DEF w
  <2>4. Named(w) /\ At(w, b, f)
    BY <2>3, NoneAssumption DEF Named, At
  <2>5. Coherent(w, alive, strict)
    BY <2>2, <2>3 DEF Coherent, Found, Alike
  <2>6. Alike(v, w) /\ SameShape(v, w)
    BY <2>2, <2>3 DEF Same, Alike, SameShape
  <2> QED BY <2>3, <2>4, <2>5, <2>6 DEF SameShape, Alike, Kept, w
<1>4. CASE /\ ~(Fresh(v, b, f) /\ ~(v.kind = "auto" /\ v.elt = "default"))
           /\ u.alist[b] = None /\ u.kind = "auto" /\ ~bind
  <2>1. /\ u \in Cells /\ Alike(v, u) /\ u.real = v.real /\ u.elt = v.elt
        /\ u.alist = Local(v) /\ u.params = FrameLocal(v)
    BY WritingBack DEF Sound
  <2> HIDE DEF u
  <2> DEFINE x == [u EXCEPT !.alist[b] = u.real]
  <2>2. w = Stored(Attached(x, "buffer", b, f), val)
    BY <1>4 DEF SetInternal, Located, u
  <2> HIDE DEF w
  <2>4. u.real \in Values
    BY <2>1 DEF Sound, Cells
  <2>9. /\ x \in Cells /\ Alike(u, x) /\ x.params = u.params
        /\ x.alist = [u.alist EXCEPT ![b] = u.real]
    BY <2>1, <2>4 DEF Cells, Alike
  <2> HIDE DEF x
  <2>3. /\ w \in Cells /\ Alike(u, w) /\ w.elt = "buffer" /\ w.buffer = b /\ w.frame = f
        /\ w.alist = [u.alist EXCEPT ![b] = u.real] /\ w.params = u.params
    BY <2>2, <2>9 DEF Stored, Attached, Cells, Alike
  <2>5. w.alist[b] # None
    BY <2>1, <2>3, <2>4, ValueAssumption DEF Cells
  <2>6. \A c \in Buffers \ {b} : w.alist[c] = None <=> v.alist[c] = None
    BY <2>1, <2>3, Shapes DEF Cells
  <2>7. \A g \in Frames : w.params[g] = None <=> v.params[g] = None
    BY <2>1, <2>3, Shapes
  <2>8. Sound(w) /\ Named(w) /\ At(w, b, f) /\ Coherent(w, alive, strict)
    BY <1>4, <2>3, <2>5, NoneAssumption DEF Sound, Named, At, Coherent, Found, Alike
  <2> QED BY <2>1, <2>3, <2>5, <2>6, <2>7, <2>8 DEF Alike, Kept, w
<1> QED BY <1>1, <1>3, <1>4
(* What set_internal assigns, of what Lisp finds. *)
LEMMA SettingAssigns ==
  ASSUME NEW v, Sound(v), Named(v), NEW alive \in SUBSET Buffers, Coherent(v, alive, TRUE),
         NEW b \in alive, NEW f \in Frames, NEW val \in Values, NEW bind \in BOOLEAN,
         ~bind => ~Evades(v, b, f)
  PROVE  Assigned(v, SetInternal(v, b, f, val, bind),
                  IF v.kind = "auto" /\ ~bind THEN "buffer" ELSE Where(v, b, f), b, f, val)
<1> DEFINE w == SetInternal(v, b, f, val, bind)
           u == WrittenBack(v)
           x == Loaded(u, b, f)
<1>1. /\ u \in Cells /\ Alike(v, u) /\ u.real = v.real /\ u.elt = v.elt
      /\ u.cdr = Default(v) /\ u.alist = Local(v) /\ u.params = FrameLocal(v)
  BY WritingBack DEF Sound
<1>2. ASSUME NEW y, Sound(y), Same(v, y), Agrees(y, b, f), w = Stored(y, val),
             v.kind = "auto" /\ ~bind => y.elt = "buffer"
      PROVE  Assigned(v, w, IF v.kind = "auto" /\ ~bind THEN "buffer" ELSE Where(v, b, f), b, f, val)
  <2>1. Assigned(y, w, Where(y, b, f), b, f, val)
    BY <1>2, Storing
  <2>2. Where(y, b, f) = Where(v, b, f)
    BY <1>2 DEF Same, Alike, Where
  <2>3. Where(y, b, f) = y.elt
    BY <1>2, Shapes DEF Where, Agrees, Found
  <2>4. Assigned(v, w, Where(y, b, f), b, f, val)
    BY <1>2, <2>1 DEF Assigned, Same
  <2> QED BY <1>2, <2>2, <2>3, <2>4
<1>3. CASE Fresh(v, b, f) /\ ~(v.kind = "auto" /\ v.elt = "default")
  <2>1. w = Stored(v, val)
    BY <1>3 DEF SetInternal
  <2>2. Agrees(v, b, f)
    BY <1>3, AtAgrees DEF At, Fresh
  <2>3. v.kind = "auto" /\ ~bind => v.elt = "buffer"
    BY <1>3, <2>2 DEF Agrees, Found, Evades, Sound, Cells
  <2>4. Same(v, v)
    BY DEF Same, Alike
  <2> HIDE DEF w
  <2> QED BY <1>2, <2>1, <2>2, <2>3, <2>4 DEF w
<1>4. CASE /\ ~(Fresh(v, b, f) /\ ~(v.kind = "auto" /\ v.elt = "default"))
           /\ ~(u.alist[b] = None /\ u.kind = "auto" /\ ~bind)
  <2>1. v.kind # "plain"
    BY <1>4 DEF Fresh
  <2>2. /\ Sound(x) /\ Same(v, x) /\ SameShape(v, x)
        /\ x.buffer = b /\ x.frame = f /\ x.elt = Found(x, b, f)
    BY <2>1, Loading
  <2>3. w = Stored(Attached(u, Found(u, b, f), b, f), val)
    BY <1>4 DEF SetInternal, Located
  <2> HIDE DEF u
  <2>4. Stored(Attached(u, Found(u, b, f), b, f), val) = Stored(x, val)
    BY <1>1 DEF Stored, Loaded, Attached, Cells
  <2> HIDE DEF w, x
  <2>5. Agrees(x, b, f)
    BY <2>2 DEF Agrees
  <2>6. v.kind = "auto" /\ ~bind => x.elt = "buffer"
    BY <1>1, <1>4, <2>2, Shapes DEF SameShape, Found, Alike
  <2> QED BY <1>2, <2>2, <2>3, <2>4, <2>5, <2>6 DEF w
<1>5. CASE u.alist[b] = None /\ u.kind = "auto" /\ ~bind
  <2> DEFINE y == [u EXCEPT !.alist[b] = u.real]
  <2>1. v.alist[b] = None
    BY <1>1, <1>5, Shapes
  <2>2. ~(Fresh(v, b, f) /\ ~(v.kind = "auto" /\ v.elt = "default"))
    <3>1. CASE Fresh(v, b, f)
      <4>1. Agrees(v, b, f)
        BY <3>1, AtAgrees DEF At, Fresh
      <4> QED BY <1>1, <1>5, <2>1, <4>1 DEF Agrees, Found, Evades, Alike
    <3> QED BY <3>1
  <2>3. w = Stored(Attached(y, "buffer", b, f), val)
    BY <1>5, <2>2 DEF SetInternal, Located
  <2> HIDE DEF u, w
  <2>4. u.real \in Values
    BY <1>1 DEF Sound, Cells
  <2>5. /\ y \in Cells /\ Alike(u, y) /\ y.params = u.params /\ y.cdr = u.cdr
        /\ y.alist = [u.alist EXCEPT ![b] = u.real]
    BY <1>1, <2>4 DEF Cells, Alike
  <2> HIDE DEF y
  <2>6. /\ w.elt = "buffer" /\ w.buffer = b /\ w.real = val /\ w.cdr = u.cdr
        /\ w.alist = [u.alist EXCEPT ![b] = u.real] /\ w.params = u.params
    BY <2>3, <2>5 DEF Stored, Attached, Cells
  <2>7. Default(w) = Default(v) /\ FrameLocal(w) = FrameLocal(v)
    BY <1>1, <2>6, WritingBack DEF Default, FrameLocal, Sound
  <2>8. Local(w) = [Local(v) EXCEPT ![b] = val]
    BY <1>1, <2>4, <2>6, ValueAssumption DEF Local, Cells
  <2> QED BY <1>1, <1>5, <2>7, <2>8 DEF Assigned, w, Alike
<1> QED BY <1>3, <1>4, <1>5
-----------------------------------------------------------------------------
(* What C code relies on: in buffer B the variable itself is B's value.      *)
Current(v, alive, b) ==
  v.fwd /\ ~v.framed /\ v.kind # "plain" /\ v.buffer \in alive =>
    /\ v.elt = IF v.alist[b] # None THEN "buffer" ELSE "default"
    /\ v.elt = "buffer" => v.buffer = b

(* A coherent cache used last in B is what C code relies on in B. *)
LEMMA AtCurrent ==
  ASSUME NEW v, Sound(v), NEW alive \in SUBSET Buffers, NEW strict \in BOOLEAN,
         Coherent(v, alive, strict), NEW b \in alive, NEW f \in Frames, At(v, b, f)
  PROVE  Current(v, alive, b)
BY NoneAssumption DEF Sound, Cells, Coherent, At, Current

(* A switch of buffers leaves what Lisp finds and serves C code. *)
LEMMA Switching ==
  ASSUME NEW v, Sound(v), Named(v), NEW alive \in SUBSET Buffers, NEW strict \in BOOLEAN,
         Coherent(v, alive, strict), NEW from \in Buffers, NEW to \in alive, NEW f \in Frames,
         Current(v, alive, from)
  PROVE  LET w == Switched(v, from, to, f) IN
         /\ Sound(w) /\ Named(w) /\ Same(v, w) /\ SameShape(v, w)
         /\ Coherent(w, alive, strict) /\ Current(w, alive, to)
<1> DEFINE w == Switched(v, from, to, f)
<1>1. CASE from # to /\ v.kind # "plain" /\ v.fwd /\ (v.alist[to] # None \/ v.alist[from] # None)
  <2>1. w = SwappedIn(v, to, f)
    BY <1>1 DEF Switched
  <2>2. /\ Sound(w) /\ Named(w) /\ Same(v, w) /\ SameShape(v, w)
        /\ At(w, to, f) /\ Coherent(w, alive, strict)
    BY <2>1, SwappingIn
  <2> HIDE DEF w
  <2>3. Current(w, alive, to)
    BY <2>2, AtCurrent
  <2> QED BY <2>2, <2>3 DEF w
<1>2. CASE ~(from # to /\ v.kind # "plain" /\ v.fwd /\ (v.alist[to] # None \/ v.alist[from] # None))
  <2>1. w = v
    BY <1>2 DEF Switched
  <2> HIDE DEF w
  <2>2. Current(v, alive, to)
    BY <1>2 DEF Current
  <2> QED BY <2>1, <2>2 DEF Same, SameShape, Alike, w
<1> QED BY <1>1, <1>2

(* swap_out_buffer_local_variables leaves what Lisp finds. *)
LEMMA SwappingOut ==
  ASSUME NEW v, Sound(v), Named(v), NEW b \in Buffers, NEW now \in Buffers
  PROVE  LET w == SwappedOut(v, b, now) IN
         /\ Sound(w) /\ Named(w) /\ Same(v, w) /\ SameShape(v, w) /\ w.frame = v.frame
         /\ ~(v.alist[b] # None /\ v.buffer = now) => w = v
         /\ v.alist[b] # None /\ v.buffer = now =>
              w.elt = "default" /\ w.buffer = b /\ w.alist = Local(v)
<1> DEFINE w == SwappedOut(v, b, now)
           u == WrittenBack(v)
<1>1. CASE ~(v.alist[b] # None /\ v.buffer = now)
  <2>1. w = v
    BY <1>1 DEF SwappedOut
  <2> HIDE DEF w
  <2> QED BY <1>1, <2>1 DEF Same, SameShape, Alike, w
<1>2. CASE v.alist[b] # None /\ v.buffer = now
  <2>1. /\ u \in Cells /\ Alike(v, u) /\ u.real = v.real /\ u.elt = v.elt /\ u.frame = v.frame
        /\ u.cdr = Default(v) /\ u.alist = Local(v) /\ u.params = FrameLocal(v)
    BY WritingBack DEF Sound
  <2>2. w = [u EXCEPT !.elt = "default", !.buffer = b, !.real = u.cdr]
    BY <1>2 DEF SwappedOut
  <2>3. v.kind # "plain"
    BY <1>2 DEF Sound
  <2> HIDE DEF u, w
  <2>4. /\ w \in Cells /\ Alike(u, w) /\ w.elt = "default" /\ w.buffer = b /\ w.frame = u.frame
        /\ w.alist = u.alist /\ w.params = u.params /\ w.real = u.cdr
    BY <2>1, <2>2 DEF Cells, Alike
  <2>5. Sound(w) /\ Named(w)
    BY <2>1, <2>3, <2>4 DEF Sound, Named, Alike
  <2>6. Same(v, w)
    <3>1. Local(w) = Local(v) /\ FrameLocal(w) = FrameLocal(v)
      BY <2>1, <2>4, WritingBack DEF Sound, Local, FrameLocal
    <3> QED BY <2>1, <2>4, <3>1 DEF Same, Default, Alike
  <2>7. SameShape(v, w)
    BY <2>1, <2>4, Shapes DEF SameShape
  <2> QED BY <1>2, <2>1, <2>4, <2>5, <2>6, <2>7 DEF w
<1> QED BY <1>1, <1>2

(* The value of buffer B is removed, and the cache may forget that it was B's. *)
LEMMA Removing ==
  ASSUME NEW v, Sound(v), NEW b \in Buffers, NEW c \in {v.buffer, None},
         c # v.buffer => v.buffer = b
  PROVE  LET w == [v EXCEPT !.alist[b] = None, !.buffer = c] IN
         /\ Sound(w) /\ Alike(v, w) /\ w.elt = v.elt /\ w.buffer = c /\ w.frame = v.frame
         /\ w.real = v.real /\ w.params = v.params /\ w.alist = [v.alist EXCEPT ![b] = None]
         /\ Default(w) = Default(v) /\ FrameLocal(w) = FrameLocal(v)
         /\ Local(w) = [Local(v) EXCEPT ![b] = None]
<1> DEFINE w == [v EXCEPT !.alist[b] = None, !.buffer = c]
<1>1. /\ w \in Cells /\ Alike(v, w) /\ w.elt = v.elt /\ w.buffer = c /\ w.frame = v.frame
      /\ w.real = v.real /\ w.cdr = v.cdr /\ w.params = v.params
      /\ w.alist = [v.alist EXCEPT ![b] = None]
  BY DEF Sound, Cells, Alike
<1> HIDE DEF w
<1>2. Sound(w)
  BY <1>1 DEF Sound, Cells, Alike
<1>3. Default(w) = Default(v) /\ FrameLocal(w) = FrameLocal(v)
  BY <1>1 DEF Default, FrameLocal
<1>4. Local(w) = [Local(v) EXCEPT ![b] = None]
  <2>1. \A d \in Buffers : w.alist[d] = IF d = b THEN None ELSE v.alist[d]
    BY <1>1 DEF Sound, Cells
  <2>2. \A d \in Buffers \ {b} : c = d <=> v.buffer = d
    BY NoneAssumption
  <2>3. Local(w) = [d \in Buffers |-> IF d = b THEN None ELSE Local(v)[d]]
    BY <1>1, <2>1, <2>2 DEF Local
  <2> QED BY <2>3 DEF Local
<1> QED BY <1>1, <1>2, <1>3, <1>4 DEF w
-----------------------------------------------------------------------------
(* Buffer B has a value of its own in W; nothing else is changed. *)
Given(v, w, b) ==
  /\ Default(w) = Default(v) /\ FrameLocal(w) = FrameLocal(v)
  /\ IF v.alist[b] # None THEN Local(w) = Local(v)
     ELSE \E val \in Values : Local(w) = [Local(v) EXCEPT ![b] = val]

(* A new element begins with a value and is no one else's. *)
LEMMA AddingElement ==
  ASSUME NEW v, Sound(v), Named(v), v.kind # "plain", NEW alive \in SUBSET Buffers,
         NEW strict \in BOOLEAN, Coherent(v, alive, strict), NEW b \in alive, NEW f \in Frames,
         v.alist[b] = None
  PROVE  LET w == WithElement(v, b, f) IN
         /\ Kept(v, w, alive, strict, b) /\ Given(v, w, b) /\ w.kind = v.kind
         /\ v.fwd => At(w, b, f)
<1> DEFINE x == SwappedIn(v, b, f)
           c == IF x.buffer = b THEN None ELSE x.buffer
           m == [x EXCEPT !.alist[b] = x.cdr, !.buffer = c]
<1>1. /\ Sound(x) /\ Named(x) /\ Same(v, x) /\ SameShape(v, x)
      /\ At(x, b, f) /\ Coherent(x, alive, strict)
  BY SwappingIn
<1>2. WithElement(v, b, f) = IF v.fwd THEN SwappedIn(m, b, f) ELSE m
  BY <1>1 DEF WithElement, Sound, Cells
<1> HIDE DEF x
<1>3. x.kind # "plain" /\ x.buffer = b /\ x.frame = f /\ x.elt # "buffer" /\ x.alist[b] = None
  BY <1>1, NoneAssumption DEF Same, Alike, At, Coherent, SameShape
<1>4. x.cdr \in Values
  BY <1>1 DEF Sound, Cells
<1>5. /\ m \in Cells /\ Alike(x, m) /\ m.real = x.real /\ m.elt = x.elt /\ m.buffer = None
      /\ m.frame = x.frame /\ m.cdr = x.cdr /\ m.params = x.params
      /\ m.alist = [x.alist EXCEPT ![b] = x.cdr]
  BY <1>1, <1>3, <1>4 DEF Sound, Cells, Alike
<1> HIDE DEF m
<1>6. Sound(m) /\ Named(m)
  BY <1>1, <1>3, <1>5 DEF Sound, Named, Alike
<1>7. Default(m) = Default(x) /\ FrameLocal(m) = FrameLocal(x)
  BY <1>5 DEF Default, FrameLocal
<1>8. Local(x) = x.alist /\ Local(m) = m.alist
  BY <1>1, <1>3, <1>5 DEF Local, Sound, Cells
<1>9. Given(v, m, b)
  BY <1>1, <1>3, <1>4, <1>5, <1>7, <1>8 DEF Given, Same, SameShape
<1>10. Coherent(m, alive, strict)
  BY <1>5, NoneAssumption DEF Coherent
<1>11. Kept(v, m, alive, strict, b)
  <2>1. \A d \in Buffers \ {b} : m.alist[d] = None <=> v.alist[d] = None
    BY <1>1, <1>4, <1>5, ValueAssumption DEF SameShape, Sound, Cells
  <2>2. \A g \in Frames : m.params[g] = None <=> v.params[g] = None
    BY <1>1, <1>5 DEF SameShape
  <2> QED BY <1>1, <1>5, <1>6, <1>10, <2>1, <2>2 DEF Kept, Same, Alike
<1>12. CASE ~v.fwd
  BY <1>1, <1>2, <1>5, <1>9, <1>11, <1>12 DEF Same, Alike
<1>13. CASE v.fwd
  <2> DEFINE w == SwappedIn(m, b, f)
  <2>1. /\ Sound(w) /\ Named(w) /\ Same(m, w) /\ SameShape(m, w)
        /\ At(w, b, f) /\ Coherent(w, alive, strict)
    BY <1>6, <1>10, SwappingIn
  <2>2. WithElement(v, b, f) = w
    BY <1>2, <1>13
  <2> HIDE DEF w
  <2>3. Kept(v, w, alive, strict, b)
    BY <1>11, <2>1 DEF Kept, Same, Alike, SameShape
  <2>4. Given(v, w, b)
    BY <1>9, <2>1 DEF Given, Same
  <2> QED BY <1>1, <1>5, <2>1, <2>2, <2>3, <2>4 DEF Same, Alike
<1> QED BY <1>12, <1>13

(* Setting an automatically local variable to its own value makes it local. *)
LEMMA MakingAutoLocal ==
  ASSUME NEW v, Sound(v), Named(v), NEW alive \in SUBSET Buffers, NEW strict \in BOOLEAN,
         Coherent(v, alive, strict), NEW b \in alive, NEW f \in Frames, At(v, b, f),
         v.kind = "auto"
  PROVE  LET w == SetInternal(v, b, f, v.real, FALSE) IN
         /\ Kept(v, w, alive, strict, b) /\ At(w, b, f) /\ w.kind = "auto"
         /\ strict /\ ~Evades(v, b, f) => Given(v, w, b)
<1> DEFINE w == SetInternal(v, b, f, v.real, FALSE)
<1>1. v.real \in Values
  BY DEF Sound, Cells
<1>2. Kept(v, w, alive, strict, b) /\ At(w, b, f) /\ Alike(v, w)
  BY <1>1, SettingKeeps
<1>3. ASSUME strict, ~Evades(v, b, f)
      PROVE  Given(v, w, b)
  <2>1. Coherent(v, alive, TRUE)
    BY <1>3
  <2>2. Assigned(v, w, "buffer", b, f, v.real)
    BY <1>1, <1>3, <2>1, SettingAssigns
  <2>3. Default(w) = Default(v) /\ FrameLocal(w) = FrameLocal(v)
        /\ Local(w) = [Local(v) EXCEPT ![b] = v.real]
    BY <2>2 DEF Assigned
  <2>4. ASSUME v.alist[b] # None
        PROVE  Local(w) = Local(v)
    <3>1. v.real = Effect(v, b, f)
      BY <2>1, AtAgrees, Reading
    <3>2. v.real = Local(v)[b]
      BY <2>4, <3>1, Shapes DEF Effect
    <3> QED BY <2>3, <3>2 DEF Local
  <2> QED BY <1>1, <2>3, <2>4 DEF Given
<1> HIDE DEF w
<1> QED BY <1>2, <1>3 DEF w, Alike

(* make-local-variable in buffer B *)
LEMMA MakingLocal ==
  ASSUME NEW v, Sound(v), Named(v), NEW alive \in SUBSET Buffers, NEW strict \in BOOLEAN,
         Coherent(v, alive, strict), NEW b \in alive, NEW f \in Frames
  PROVE  LET w == MadeLocal(v, b, f) IN
         /\ Kept(v, w, alive, strict, b) /\ (strict /\ ~Evades(v, b, f) => Given(v, w, b))
         /\ w.kind = IF v.kind = "plain" THEN "some" ELSE v.kind
         /\ v.kind # "plain" => Alike(v, w)
         /\ w.fwd => At(w, b, f)
<1> DEFINE w == MadeLocal(v, b, f)
           x == SwappedIn(v, b, f)
           y == IF v.kind = "plain"
                THEN [v EXCEPT !.kind = "some", !.cdr = v.real, !.buffer = None, !.frame = None]
                ELSE v
<1>1. /\ Sound(x) /\ Named(x) /\ Same(v, x) /\ SameShape(v, x)
      /\ At(x, b, f) /\ Coherent(x, alive, strict)
  BY SwappingIn
<1>2. /\ Sound(y) /\ Named(y) /\ Coherent(y, alive, strict) /\ y.kind # "plain"
      /\ Default(y) = Default(v) /\ Local(y) = Local(v) /\ FrameLocal(y) = FrameLocal(v)
      /\ y.alist = v.alist /\ y.params = v.params /\ y.fwd = v.fwd /\ y.framed = v.framed
      /\ y.kind = IF v.kind = "plain" THEN "some" ELSE v.kind
  <2>1. CASE v.kind # "plain"
    BY <2>1
  <2>2. CASE v.kind = "plain"
    <3>1. /\ y \in Cells /\ y.elt = v.elt /\ y.fwd = v.fwd /\ y.framed = v.framed
          /\ y.alist = v.alist /\ y.params = v.params /\ y.buffer = None /\ y.kind = "some"
          /\ y.real = v.real /\ y.cdr = v.real
      BY <2>2 DEF Sound, Cells
    <3> HIDE DEF y
    <3>2. v.elt = "default"
      BY <2>2 DEF Sound
    <3>3. Default(y) = Default(v) /\ Local(y) = Local(v) /\ FrameLocal(y) = FrameLocal(v)
      BY <3>1, <3>2 DEF Default, Local, FrameLocal
    <3> QED BY <2>2, <3>1, <3>2, <3>3, NoneAssumption DEF Sound, Named, Coherent
  <2> QED BY <2>1, <2>2
<1>3. w = IF v.kind = "auto" THEN SetInternal(x, b, f, x.real, FALSE)
          ELSE IF y.alist[b] = None THEN WithElement(y, b, f)
          ELSE IF v.fwd THEN SwappedIn(y, b, f) ELSE y
  BY DEF MadeLocal
<1> HIDE DEF x, y, w
<1>4. CASE v.kind = "auto"
  <2>1. x.kind = "auto" /\ w = SetInternal(x, b, f, x.real, FALSE)
    BY <1>1, <1>3, <1>4 DEF Same, Alike
  <2>2. Kept(x, w, alive, strict, b) /\ At(w, b, f) /\ w.kind = "auto"
    BY <1>1, <2>1, MakingAutoLocal
  <2>3. Kept(v, w, alive, strict, b)
    BY <1>1, <2>2 DEF Kept, Same, Alike, SameShape
  <2>4. ASSUME strict, ~Evades(v, b, f)
        PROVE  Given(v, w, b)
    <3>1. ~Evades(x, b, f)
      BY <1>1, <2>4 DEF Evades, Same, Alike, SameShape
    <3>2. Given(x, w, b)
      BY <1>1, <2>1, <2>4, <3>1, MakingAutoLocal
    <3> QED BY <1>1, <3>2 DEF Given, Same, SameShape
  <2> QED BY <1>4, <2>2, <2>3, <2>4 DEF w, Kept, Alike
<1>5. CASE v.kind # "auto" /\ y.alist[b] = None
  <2>1. w = WithElement(y, b, f)
    BY <1>3, <1>5
  <2>2. /\ Kept(y, w, alive, strict, b) /\ Given(y, w, b) /\ w.kind = y.kind
        /\ y.fwd => At(w, b, f)
    BY <1>2, <1>5, <2>1, AddingElement
  <2>3. Kept(v, w, alive, strict, b)
    BY <1>2, <2>2 DEF Kept
  <2>4. Given(v, w, b)
    BY <1>2, <2>2 DEF Given
  <2> QED BY <1>2, <2>2, <2>3, <2>4 DEF Kept, Alike, w
<1>6. CASE v.kind # "auto" /\ y.alist[b] # None
  <2>1. w = IF v.fwd THEN SwappedIn(y, b, f) ELSE y
    BY <1>3, <1>6
  <2>2. /\ Sound(w) /\ Named(w) /\ Same(y, w) /\ SameShape(y, w) /\ Coherent(w, alive, strict)
        /\ v.fwd => At(w, b, f)
    <3>1. CASE v.fwd
      BY <1>2, <2>1, <3>1, SwappingIn
    <3>2. CASE ~v.fwd
      BY <1>2, <2>1, <3>2 DEF Same, SameShape, Alike
    <3> QED BY <3>1, <3>2
  <2>3. Kept(v, w, alive, strict, b)
    BY <1>2, <1>6, <2>2 DEF Kept, Same, Alike, SameShape
  <2>4. Given(v, w, b)
    BY <1>2, <1>6, <2>2 DEF Given, Same
  <2> QED BY <1>2, <2>2, <2>3, <2>4 DEF Same, Alike, w, Kept
<1> QED BY <1>4, <1>5, <1>6
-----------------------------------------------------------------------------
(* The inductive invariant.  Once frames changed what the cache misses, it may *)
(* be wrong about frames, never about buffers.                                 *)
Strict == IF astray THEN FALSE ELSE TRUE
Inv ==
  /\ current \in live /\ live \in SUBSET Buffers /\ selected \in Frames
  /\ Sound(var) /\ Named(var)
  /\ Coherent(var, live, Strict)
  /\ Current(var, live, current)
  /\ pdl \in Seq(Values) /\ seen \in Values /\ astray \in BOOLEAN

(* Less may always be asked of the cache. *)
LEMMA Relaxing ==
  ASSUME NEW v, NEW alive, NEW strict, Coherent(v, alive, strict)
  PROVE  Coherent(v, alive, FALSE) /\ (strict => Coherent(v, alive, TRUE))
BY DEF Coherent

(* The cache of the current buffer and frame holds the value in effect. *)
LEMMA LoadingInEffect ==
  ASSUME Inv
  PROVE  LET w == SwappedIn(var, current, selected) IN
         /\ Sound(w) /\ Named(w) /\ Same(var, w) /\ SameShape(var, w)
         /\ Coherent(w, live, Strict) /\ At(w, current, selected) /\ Current(w, live, current)
         /\ w.real \in Values
         /\ ~astray => /\ Agrees(w, current, selected)
                       /\ w.real = Effect(var, current, selected)
<1> DEFINE w == SwappedIn(var, current, selected)
<1>1. /\ current \in live /\ current \in Buffers /\ live \in SUBSET Buffers /\ selected \in Frames
      /\ Sound(var) /\ Named(var)
  BY DEF Inv
<1>6. Coherent(var, live, Strict)
  BY DEF Inv
<1>7. Strict \in BOOLEAN /\ (~astray => Strict = TRUE)
  BY DEF Strict
<1>2. /\ Sound(w) /\ Named(w) /\ Same(var, w) /\ SameShape(var, w)
      /\ Coherent(w, live, Strict) /\ At(w, current, selected)
  BY <1>1, <1>6, <1>7, SwappingIn
<1> HIDE DEF w
<1>3. Current(w, live, current)
  BY <1>1, <1>2, <1>7, AtCurrent
<1>4. w.real \in Values
  BY <1>2 DEF Sound, Cells
<1>5. ASSUME ~astray
      PROVE  Agrees(w, current, selected) /\ w.real = Effect(var, current, selected)
  <2>1. Coherent(w, live, TRUE)
    BY <1>2, <1>5, <1>7
  <2>2. Agrees(w, current, selected)
    BY <1>1, <1>2, <2>1, AtAgrees
  <2>3. w.real = Effect(w, current, selected)
    BY <1>1, <1>2, <2>2, Reading
  <2> QED BY <1>2, <2>2, <2>3 DEF Effect, Same, Alike
<1> QED BY <1>2, <1>3, <1>4, <1>5 DEF w

(* find_symbol_value gives the value in effect. *)
LEMMA Finding ==
  ASSUME Inv, FindSymbolValue
  PROVE  Inv' /\ (~astray' => Bindings!Read)
<1>1. /\ var' = SwappedIn(var, current, selected) /\ seen' = var'.real
      /\ UNCHANGED <<current, selected, live, pdl, astray>>
  BY DEF FindSymbolValue
<1>2. /\ Sound(var') /\ Named(var') /\ Same(var, var') /\ Coherent(var', live, Strict)
      /\ Current(var', live, current) /\ var'.real \in Values
      /\ ~astray => var'.real = Effect(var, current, selected)
  BY <1>1, LoadingInEffect
<1>3. Inv'
  BY <1>1, <1>2 DEF Inv, Strict
<1>4. ASSUME ~astray'
      PROVE  Bindings!Read
  <2>1. seen' = Effect(var, current, selected)
    BY <1>1, <1>2, <1>4
  <2> QED BY <1>1, <1>2, <2>1
          DEF Bindings!Read, Bindings!InEffect, Bindings!Value, Bindings!cells, Effect, Same, Alike
<1> QED BY <1>3, <1>4

(* default_value gives the default value. *)
LEMMA FindingDefault ==
  ASSUME Inv, DefaultValue
  PROVE  Inv' /\ Bindings!ReadDefault
<1>1. Default(var) \in Values
  BY WritingBack DEF Inv, Sound
<1>2. Inv'
  BY <1>1 DEF Inv, Strict, DefaultValue
<1> QED BY <1>2 DEF DefaultValue, Bindings!ReadDefault, Bindings!cells
(* buffer-local-variables gives a buffer's own value, cached or not. *)
LEMMA FindingLocals ==
  ASSUME Inv, NEW b \in Buffers, BufferLocalVariables(b)
  PROVE  Inv' /\ (~astray' => Bindings!ReadLocal(b))
<1> DEFINE w == SwappedIn(var, current, selected)
<1>1. /\ var.alist[b] # None /\ var' = w /\ UNCHANGED <<current, selected, live, pdl, astray>>
      /\ seen' = IF b = current THEN w.real ELSE w.alist[b]
  BY DEF BufferLocalVariables
<1>2. /\ Sound(w) /\ Named(w) /\ Same(var, w) /\ SameShape(var, w) /\ Coherent(w, live, Strict)
      /\ At(w, current, selected) /\ Current(w, live, current) /\ w.real \in Values
      /\ ~astray => /\ Agrees(w, current, selected)
                    /\ w.real = Effect(var, current, selected)
  BY LoadingInEffect
<1> HIDE DEF w
<1>3. w.kind # "plain" /\ w.alist[b] # None
  BY <1>1, <1>2 DEF Same, Alike, SameShape, Inv, Sound
<1>4. seen' \in Values
  BY <1>1, <1>2, <1>3 DEF Sound, Cells
<1>5. Inv'
  BY <1>1, <1>2, <1>4 DEF Inv, Strict
<1>6. ASSUME ~astray'
      PROVE  seen' = Local(var)[b] /\ Local(var)[b] # None
  <2>1. Local(var)[b] # None
    BY <1>1, Shapes DEF Inv
  <2>2. CASE b = current
    BY <1>1, <1>2, <1>6, <2>1, <2>2 DEF Effect
  <2>3. CASE b # current
    BY <1>1, <1>2, <1>3, <2>3, NoneAssumption DEF At, Local, Same
  <2> QED BY <2>1, <2>2, <2>3
<1> QED BY <1>1, <1>2, <1>5, <1>6 DEF Bindings!ReadLocal, Bindings!cells, Same, Alike

-----------------------------------------------------------------------------
(* An assignment to a cell is one of the abstract variable. *)
LEMMA Assigning ==
  ASSUME NEW place, NEW val, Assigned(var, var', place, current, selected, val)
  PROVE  Bindings!Assign(place, val)
BY DEF Assigned, Bindings!Assign

(* The place in effect is the abstract one. *)
LEMMA Places == Where(var, current, selected) = Bindings!Place(current, selected)
BY DEF Where, Bindings!Place

(* set_internal in the current buffer and frame *)
LEMMA SettingCurrent ==
  ASSUME Inv, NEW val \in Values, NEW bind \in BOOLEAN
  PROVE  LET w == SetInternal(var, current, selected, val, bind) IN
         /\ Sound(w) /\ Named(w) /\ Alike(var, w)
         /\ Coherent(w, live, Strict) /\ Current(w, live, current)
         /\ ~astray /\ (~bind => ~Evades(var, current, selected)) =>
              Assigned(var, w, IF var.kind = "auto" /\ ~bind THEN "buffer"
                               ELSE Where(var, current, selected), current, selected, val)
<1> DEFINE w == SetInternal(var, current, selected, val, bind)
<1>1. /\ current \in live /\ current \in Buffers /\ live \in SUBSET Buffers /\ selected \in Frames
      /\ Sound(var) /\ Named(var)
  BY DEF Inv
<1>2. Coherent(var, live, Strict)
  BY DEF Inv
<1>3. Strict \in BOOLEAN /\ (~astray => Strict = TRUE)
  BY DEF Strict
<1>4. Kept(var, w, live, Strict, current) /\ At(w, current, selected) /\ Alike(var, w)
  BY <1>1, <1>2, <1>3, SettingKeeps
<1>5. ASSUME ~astray, ~bind => ~Evades(var, current, selected)
      PROVE  Assigned(var, w, IF var.kind = "auto" /\ ~bind THEN "buffer"
                              ELSE Where(var, current, selected), current, selected, val)
  <2>1. Coherent(var, live, TRUE)
    BY <1>2, <1>3, <1>5
  <2> QED BY <1>1, <1>5, <2>1, SettingAssigns
<1> HIDE DEF w
<1>6. /\ Sound(w) /\ Named(w) /\ Coherent(w, live, Strict)
  BY <1>4 DEF Kept
<1>7. Current(w, live, current)
  BY <1>1, <1>3, <1>4, <1>6, AtCurrent
<1> QED BY <1>4, <1>5, <1>6, <1>7 DEF w

(* set assigns the value in effect, or the buffer's own. *)
LEMMA Setting ==
  ASSUME Inv, NEW val \in Values, Fset(val)
  PROVE  Inv' /\ (~astray' => Bindings!Set(val))
<1> DEFINE w == SetInternal(var, current, selected, val, FALSE)
<1>1. /\ var' = w /\ UNCHANGED <<current, selected, live, pdl, seen>>
      /\ astray' = (astray \/ (FrameInEffect /\ var.kind = "auto"))
  BY DEF Fset
<1>2. /\ Sound(w) /\ Named(w) /\ Alike(var, w)
      /\ Coherent(w, live, Strict) /\ Current(w, live, current)
      /\ ~astray /\ ~Evades(var, current, selected) =>
           Assigned(var, w, IF var.kind = "auto" THEN "buffer"
                            ELSE Where(var, current, selected), current, selected, val)
  BY SettingCurrent
<1> HIDE DEF w
<1>3. Coherent(w, live, Strict')
  BY <1>1, <1>2, Relaxing DEF Strict
<1>4. astray' \in BOOLEAN
  BY <1>1 DEF Inv
<1>5. Inv'
  BY <1>1, <1>2, <1>3, <1>4 DEF Inv
<1>6. ASSUME ~astray'
      PROVE  Bindings!Set(val)
  <2>1. ~astray /\ ~Evades(var, current, selected)
    BY <1>1, <1>6 DEF FrameInEffect, Evades
  <2>2. Bindings!Assign(IF var.kind = "auto" THEN "buffer" ELSE Bindings!Place(current, selected), val)
    BY <1>1, <1>2, <2>1, Assigning, Places
  <2> QED BY <1>1, <1>2, <2>2 DEF Bindings!Set, Alike
<1> QED BY <1>5, <1>6

(* set-default assigns the default value. *)
LEMMA SettingDefault ==
  ASSUME Inv, NEW val \in Values, FsetDefault(val)
  PROVE  Inv' /\ Bindings!SetDefault(val)
<1>1. UNCHANGED <<current, selected, live, pdl, seen, astray>>
  BY DEF FsetDefault
<1>2. var \in Cells /\ (var.kind = "plain" => var.elt = "default")
  BY DEF Inv, Sound
<1>3. /\ var' \in Cells /\ Alike(var, var') /\ var'.elt = var.elt /\ var'.buffer = var.buffer
      /\ var'.frame = var.frame /\ var'.alist = var.alist /\ var'.params = var.params
      /\ var.elt = "default" => var'.real = val
      /\ var.elt # "default" => var'.real = var.real /\ var'.cdr = val
  BY <1>2 DEF FsetDefault, Stored, Cells, Alike
<1>4. Sound(var') /\ Named(var') /\ Coherent(var', live, Strict) /\ Current(var', live, current)
  BY <1>3 DEF Inv, Sound, Named, Coherent, Current, Alike, Found
<1>5. Inv'
  BY <1>1, <1>4 DEF Inv, Strict
<1>6. Default(var') = val /\ Local(var') = Local(var) /\ FrameLocal(var') = FrameLocal(var)
  BY <1>3 DEF Default, Local, FrameLocal
<1> QED BY <1>1, <1>3, <1>5, <1>6 DEF Bindings!SetDefault, Bindings!Assign, Alike

(* An assignment in C is one to the value in effect. *)
LEMMA SettingByC ==
  ASSUME Inv, NEW val \in Values, CAssign(val)
  PROVE  Inv' /\ (~astray' => Bindings!SetByC(val))
<1>1. /\ UNCHANGED <<current, selected, live, pdl, seen>> /\ var' = Stored(var, val)
      /\ astray' = (astray \/ ~UpToDate)
  BY DEF CAssign, Stored
<1>2. /\ Sound(var') /\ Alike(var, var') /\ SameShape(var, var') /\ var'.elt = var.elt
      /\ var'.buffer = var.buffer /\ var'.frame = var.frame /\ var'.alist = var.alist
      /\ var'.params = var.params
  BY <1>1, StoringKeeps DEF Inv
<1>3. Named(var') /\ Coherent(var', live, Strict) /\ Current(var', live, current)
  BY <1>2 DEF Inv, Named, Coherent, Current, Alike, Found
<1>4. Coherent(var', live, Strict')
  BY <1>1, <1>3, Relaxing DEF Strict
<1>5. Inv'
  BY <1>1, <1>2, <1>3, <1>4 DEF Inv
<1>6. ASSUME ~astray'
      PROVE  Bindings!SetByC(val)
  <2>1. Agrees(var, current, selected)
    BY <1>1, <1>6 DEF UpToDate, Agrees, Found, Inv, Sound
  <2>2. Assigned(var, var', Where(var, current, selected), current, selected, val)
    BY <1>1, <2>1, Storing DEF Inv
  <2> QED BY <1>1, <1>2, <2>2, Assigning, Places DEF Bindings!SetByC, Alike
<1> QED BY <1>5, <1>6
(* let saves the value in effect and assigns the new one in its place. *)
LEMMA Binding ==
  ASSUME Inv, NEW val \in Values, Specbind(val)
  PROVE  Inv' /\ (~astray' => Bindings!Let(val))
<1> DEFINE x == SwappedIn(var, current, selected)
           w == SetInternal(x, current, selected, val, TRUE)
<1>1. /\ var' = w /\ pdl' = Append(pdl, x.real)
      /\ UNCHANGED <<current, selected, live, seen, astray>>
  BY DEF Specbind
<1>2. /\ Sound(x) /\ Named(x) /\ Same(var, x) /\ SameShape(var, x) /\ Coherent(x, live, Strict)
      /\ At(x, current, selected) /\ Current(x, live, current) /\ x.real \in Values
      /\ ~astray => x.real = Effect(var, current, selected)
  BY LoadingInEffect
<1> HIDE DEF x
<1>3. /\ current \in live /\ current \in Buffers /\ live \in SUBSET Buffers /\ selected \in Frames
      /\ pdl \in Seq(Values)
  BY DEF Inv
<1>4. Strict \in BOOLEAN /\ (~astray => Strict = TRUE)
  BY DEF Strict
<1>5. Kept(x, w, live, Strict, current) /\ At(w, current, selected) /\ Alike(x, w)
  BY <1>2, <1>3, <1>4, SettingKeeps
<1>6. ASSUME ~astray
      PROVE  Assigned(x, w, Where(x, current, selected), current, selected, val)
  <2>1. Coherent(x, live, TRUE)
    BY <1>2, <1>4, <1>6
  <2> QED BY <1>2, <1>3, <2>1, SettingAssigns
<1> HIDE DEF w
<1>7. Sound(w) /\ Named(w) /\ Coherent(w, live, Strict)
  BY <1>5 DEF Kept
<1>8. Current(w, live, current)
  BY <1>3, <1>4, <1>5, <1>7, AtCurrent
<1>11. pdl' \in Seq(Values)
  BY <1>1, <1>2, <1>3
<1>9. Inv'
  BY <1>1, <1>7, <1>8, <1>11 DEF Inv, Strict
<1>10. ASSUME ~astray'
       PROVE  Bindings!Let(val)
  <2>1. Where(x, current, selected) = Where(var, current, selected)
    BY <1>2 DEF Where, Same, Alike
  <2>2. Assigned(var, var', Where(var, current, selected), current, selected, val)
    BY <1>1, <1>2, <1>6, <1>10, <2>1 DEF Assigned, Same
  <2>3. Bindings!Assign(Bindings!Place(current, selected), val)
    BY <2>2, Assigning, Places
  <2>4. pdl' = Append(pdl, Bindings!InEffect)
    BY <1>1, <1>2, <1>10 DEF Effect, Bindings!InEffect, Bindings!Value
  <2> QED BY <1>1, <1>2, <1>5, <2>3, <2>4 DEF Bindings!Let, Same, Alike
<1> QED BY <1>9, <1>10

(* The end of a let assigns the saved value, wherever the value now is. *)
LEMMA Unbinding ==
  ASSUME Inv, UnbindTo
  PROVE  Inv' /\ (~astray' => Bindings!EndLet)
<1> DEFINE val == pdl[Len(pdl)]
           w == SetInternal(var, current, selected, val, TRUE)
<1>1. /\ pdl # <<>> /\ var' = w /\ pdl' = SubSeq(pdl, 1, Len(pdl) - 1)
      /\ UNCHANGED <<current, selected, live, seen, astray>>
  BY DEF UnbindTo
<1>2. val \in Values /\ pdl' \in Seq(Values)
  BY <1>1 DEF Inv
<1> HIDE DEF val
<1>3. /\ Sound(w) /\ Named(w) /\ Alike(var, w)
      /\ Coherent(w, live, Strict) /\ Current(w, live, current)
      /\ ~astray => Assigned(var, w, Where(var, current, selected), current, selected, val)
  BY <1>2, SettingCurrent
<1> HIDE DEF w
<1>4. Inv'
  BY <1>1, <1>2, <1>3 DEF Inv, Strict
<1>5. ASSUME ~astray'
      PROVE  Bindings!EndLet
  <2>1. Bindings!Assign(Bindings!Place(current, selected), val)
    BY <1>1, <1>3, <1>5, Assigning, Places
  <2> QED BY <1>1, <1>3, <2>1 DEF Bindings!EndLet, Alike, val
<1> QED BY <1>4, <1>5

-----------------------------------------------------------------------------
(* make-variable-buffer-local changes no value. *)
LEMMA MakingAuto ==
  ASSUME Inv, MakeVariableBufferLocal
  PROVE  Inv' /\ Bindings!MakeAuto
<1>1. UNCHANGED <<current, selected, live, pdl, seen, astray>> /\ var \in Cells /\ current \in Buffers
  BY DEF MakeVariableBufferLocal, Inv, Sound
<1>2. CASE var.kind = "some"
  <2>1. var' = [var EXCEPT !.kind = "auto"]
    BY <1>2 DEF MakeVariableBufferLocal
  <2>2. /\ var' \in Cells /\ var'.kind = "auto" /\ var'.fwd = var.fwd /\ var'.framed = var.framed
        /\ var'.real = var.real /\ var'.elt = var.elt /\ var'.buffer = var.buffer
        /\ var'.frame = var.frame /\ var'.cdr = var.cdr /\ var'.alist = var.alist
        /\ var'.params = var.params
    BY <1>1, <2>1 DEF Cells
  <2>3. Inv'
    BY <1>1, <1>2, <2>2 DEF Inv, Strict, Sound, Named, Coherent, Current, Found
  <2>4. Default(var') = Default(var) /\ Local(var') = Local(var) /\ FrameLocal(var') = FrameLocal(var)
    BY <2>2 DEF Default, Local, FrameLocal
  <2> QED BY <1>1, <2>2, <2>3, <2>4 DEF Bindings!MakeAuto, Bindings!cells
<1>3. CASE var.kind = "plain"
  <2>1. var' = [var EXCEPT !.kind = "auto", !.cdr = var.real, !.buffer = current, !.frame = None]
    BY <1>3 DEF MakeVariableBufferLocal
  <2>2. /\ var' \in Cells /\ var'.kind = "auto" /\ var'.fwd = var.fwd /\ var'.framed = var.framed
        /\ var'.real = var.real /\ var'.elt = var.elt /\ var'.frame = None
        /\ var'.alist = var.alist /\ var'.params = var.params
    BY <1>1, <2>1 DEF Cells
  <2>3. var.elt = "default" /\ ~var.framed /\ \A b \in Buffers : var.alist[b] = None
    BY <1>3 DEF Inv, Sound
  <2>4. Inv'
    BY <1>1, <2>2, <2>3 DEF Inv, Strict, Sound, Named, Coherent, Current
  <2>5. Default(var') = Default(var) /\ Local(var') = Local(var) /\ FrameLocal(var') = FrameLocal(var)
    BY <2>2, <2>3 DEF Default, Local, FrameLocal
  <2> QED BY <1>1, <2>2, <2>4, <2>5 DEF Bindings!MakeAuto, Bindings!cells
<1> QED BY <1>1, <1>2, <1>3 DEF MakeVariableBufferLocal, Cells

(* make-variable-frame-local changes no value of a buffer. *)
LEMMA MakingFramed ==
  ASSUME Inv, MakeVariableFrameLocal
  PROVE  Inv' /\ Bindings!MakeFramed
<1>1. /\ UNCHANGED <<current, selected, live, pdl, seen, astray>> /\ var \in Cells
      /\ var.kind = "plain" /\ live \in SUBSET Buffers
      /\ var' = [var EXCEPT !.kind = "some", !.framed = TRUE, !.cdr = var.real,
                            !.buffer = None, !.frame = None]
  BY DEF MakeVariableFrameLocal, Inv, Sound
<1>2. /\ var' \in Cells /\ var'.kind = "some" /\ var'.fwd = var.fwd /\ var'.framed = TRUE
      /\ var'.real = var.real /\ var'.elt = var.elt /\ var'.frame = None
      /\ var'.alist = var.alist /\ var'.params = var.params
  BY <1>1 DEF Cells
<1>3. var.elt = "default"
  BY <1>1 DEF Inv, Sound
<1>4. Inv'
  BY <1>1, <1>2, <1>3 DEF Inv, Strict, Sound, Named, Coherent, Current
<1>5. Default(var') = Default(var) /\ Local(var') = Local(var) /\ FrameLocal(var') = FrameLocal(var)
  BY <1>2, <1>3 DEF Default, Local, FrameLocal
<1> QED BY <1>1, <1>2, <1>4, <1>5 DEF Bindings!MakeFramed, Bindings!cells
(* make-local-variable gives the current buffer a value of its own. *)
LEMMA MakingLocalHere ==
  ASSUME Inv, MakeLocalVariable
  PROVE  Inv' /\ (~astray' => Bindings!MakeLocal)
<1> DEFINE w == MadeLocal(var, current, selected)
<1>1. /\ var' = w /\ UNCHANGED <<current, selected, live, pdl, seen>>
      /\ astray' = (astray \/ (FrameInEffect /\ var.kind = "auto"))
  BY DEF MakeLocalVariable
<1>2. /\ current \in live /\ live \in SUBSET Buffers /\ selected \in Frames
      /\ Sound(var) /\ Named(var)
  BY DEF Inv
<1>3. Coherent(var, live, Strict)
  BY DEF Inv
<1>4. Strict \in BOOLEAN /\ (~astray => Strict = TRUE)
  BY DEF Strict
<1>5. /\ Kept(var, w, live, Strict, current)
      /\ Strict /\ ~Evades(var, current, selected) => Given(var, w, current)
      /\ w.kind = IF var.kind = "plain" THEN "some" ELSE var.kind
      /\ w.fwd => At(w, current, selected)
  BY <1>2, <1>3, <1>4, MakingLocal
<1> HIDE DEF w
<1>6. Sound(w) /\ Named(w) /\ Coherent(w, live, Strict)
  BY <1>5 DEF Kept
<1>7. Current(w, live, current)
  <2>1. CASE w.fwd
    BY <1>2, <1>4, <1>5, <1>6, <2>1, AtCurrent
  <2>2. CASE ~w.fwd
    BY <2>2 DEF Current
  <2> QED BY <2>1, <2>2
<1>8. Coherent(w, live, Strict')
  BY <1>1, <1>6, Relaxing DEF Strict
<1>9. Inv'
  BY <1>1, <1>6, <1>7, <1>8 DEF Inv
<1>10. ASSUME ~astray'
       PROVE  Bindings!MakeLocal
  <2>1. ~astray /\ ~Evades(var, current, selected)
    BY <1>1, <1>10 DEF FrameInEffect, Evades
  <2>2. Given(var, w, current)
    BY <1>4, <1>5, <2>1
  <2>3. Local(var)[current] = None <=> var.alist[current] = None
    BY <1>2, Shapes
  <2> QED BY <1>1, <1>5, <2>2, <2>3 DEF Given, Kept, Bindings!MakeLocal
<1> QED BY <1>9, <1>10

(* kill-local-variable removes the current buffer's value. *)
LEMMA KillingLocal ==
  ASSUME Inv, KillLocalVariable
  PROVE  Inv' /\ Bindings!KillLocal
<1>1. /\ var.kind # "plain" /\ UNCHANGED <<current, selected, live, pdl, seen, astray>>
      /\ current \in live /\ current \in Buffers /\ live \in SUBSET Buffers /\ selected \in Frames
      /\ Sound(var) /\ Named(var)
  BY DEF KillLocalVariable, Inv
<1>2. Strict \in BOOLEAN
  BY DEF Strict
<1>3. CASE var.buffer = current
  <2> DEFINE g == [var EXCEPT !.alist[current] = None, !.buffer = None]
             w == Loaded(WrittenBack(g), current, selected)
  <2>1. /\ Sound(g) /\ Alike(var, g) /\ g.buffer = None
        /\ Default(g) = Default(var) /\ FrameLocal(g) = FrameLocal(var)
        /\ Local(g) = [Local(var) EXCEPT ![current] = None]
    BY <1>1, <1>3, Removing
  <2>2. var' = SwappedIn(g, current, selected)
    <3>1. [[var EXCEPT !.alist[current] = None] EXCEPT !.buffer = None] = g
      BY <1>1 DEF Sound, Cells
    <3> HIDE DEF g
    <3> QED BY <1>3, <3>1 DEF KillLocalVariable
  <2> HIDE DEF g
  <2>3. g.kind # "plain" /\ ~Fresh(g, current, selected)
    BY <1>1, <2>1, NoneAssumption DEF Alike, Fresh
  <2>4. var' = w
    BY <2>2, <2>3 DEF SwappedIn
  <2>5. /\ Sound(w) /\ Same(g, w) /\ w.buffer = current /\ w.frame = selected
        /\ w.elt = Found(w, current, selected)
    BY <1>1, <2>1, <2>3, Loading
  <2> HIDE DEF w
  <2>6. Named(w) /\ At(w, current, selected) /\ Coherent(w, live, Strict)
    BY <1>1, <2>5, NoneAssumption DEF Named, At, Coherent, Found
  <2>7. Current(w, live, current)
    BY <1>1, <1>2, <2>5, <2>6, AtCurrent
  <2>8. Inv'
    BY <1>1, <2>4, <2>5, <2>6, <2>7 DEF Inv, Strict
  <2> QED BY <1>1, <2>1, <2>4, <2>5, <2>8 DEF Same, Alike, Bindings!KillLocal
<1>4. CASE var.buffer # current
  <2> DEFINE g == [var EXCEPT !.alist[current] = None, !.buffer = var.buffer]
  <2>1. /\ Sound(g) /\ Alike(var, g) /\ g.elt = var.elt /\ g.buffer = var.buffer
        /\ g.frame = var.frame /\ g.params = var.params
        /\ g.alist = [var.alist EXCEPT ![current] = None]
        /\ Default(g) = Default(var) /\ FrameLocal(g) = FrameLocal(var)
        /\ Local(g) = [Local(var) EXCEPT ![current] = None]
    BY <1>1, Removing
  <2>2. var' = g
    BY <1>1, <1>4 DEF KillLocalVariable, Sound, Cells
  <2> HIDE DEF g
  <2>3. \A b \in Buffers \ {current} : g.alist[b] = var.alist[b]
    BY <1>1, <2>1 DEF Sound, Cells
  <2>4. Named(g) /\ Coherent(g, live, Strict)
    BY <1>1, <1>4, <2>1, <2>3 DEF Inv, Named, Coherent, Found, Alike
  <2>5. Current(g, live, current)
    BY <1>1, <1>4, <2>1 DEF Inv, Current, Alike, Sound, Cells
  <2>6. Inv'
    BY <1>1, <2>1, <2>2, <2>4, <2>5 DEF Inv, Strict
  <2> QED BY <1>1, <2>1, <2>2, <2>6 DEF Alike, Bindings!KillLocal
<1> QED BY <1>3, <1>4
(* kill-all-local-variables, up to where a permanent local is restored *)
Swept == [SwappedOut(var, current, current) EXCEPT !.alist[current] = None]

(* The sweep removes the current buffer's value and keeps the cache coherent. *)
LEMMA Sweeping ==
  ASSUME Inv, NEW permanent \in BOOLEAN, KillAllLocalVariables(permanent)
  PROVE  /\ Sound(Swept) /\ Named(Swept) /\ Alike(var, Swept)
         /\ Coherent(Swept, live, Strict') /\ Current(Swept, live, current)
         /\ Swept.alist[current] = None
         /\ \A f \in Frames : Swept.params[f] = None <=> var.params[f] = None
         /\ Default(Swept) = Default(var) /\ FrameLocal(Swept) = FrameLocal(var)
         /\ Local(Swept) = [Local(var) EXCEPT ![current] = None]
         /\ SwappedOut(var, current, current).alist[current] = Local(var)[current]
         /\ Local(var)[current] \in Values
<1> DEFINE out == SwappedOut(var, current, current)
           w == [out EXCEPT !.alist[current] = None, !.buffer = out.buffer]
<1>1. /\ var.kind # "plain" /\ var.alist[current] # None
      /\ current \in live /\ current \in Buffers /\ live \in SUBSET Buffers /\ selected \in Frames
      /\ Sound(var) /\ Named(var) /\ Coherent(var, live, Strict) /\ Current(var, live, current)
  BY DEF KillAllLocalVariables, Inv
<1>2. /\ Sound(out) /\ Named(out) /\ Same(var, out) /\ SameShape(var, out) /\ out.frame = var.frame
      /\ ~(var.buffer = current) => out = var
      /\ var.buffer = current =>
           out.elt = "default" /\ out.buffer = current /\ out.alist = Local(var)
  BY <1>1, SwappingOut
<1> HIDE DEF out
<1>3. /\ Sound(w) /\ Alike(out, w) /\ w.elt = out.elt /\ w.buffer = out.buffer
      /\ w.frame = out.frame /\ w.params = out.params
      /\ w.alist = [out.alist EXCEPT ![current] = None]
      /\ Default(w) = Default(out) /\ FrameLocal(w) = FrameLocal(out)
      /\ Local(w) = [Local(out) EXCEPT ![current] = None]
  BY <1>1, <1>2, Removing
<1>4. w = Swept
  BY <1>2 DEF Swept, Sound, Cells, out
<1> HIDE DEF w
<1>5. /\ w.alist[current] = None
      /\ \A b \in Buffers \ {current} : w.alist[b] = out.alist[b]
      /\ \A f \in Frames : w.params[f] = None <=> var.params[f] = None
  BY <1>1, <1>2, <1>3 DEF Sound, Cells, SameShape
<1>6. Local(var)[current] \in Values /\ out.alist[current] = Local(var)[current]
  BY <1>1, <1>2 DEF Local, Sound, Cells
<1>7. Alike(var, w) /\ Named(w)
  BY <1>2, <1>3 DEF Alike, Same, Named
<1>8. Current(w, live, current)
  BY <1>1, <1>2, <1>3, <1>5 DEF Current, Alike, Same
<1>9. Coherent(w, live, FALSE)
  BY <1>1, <1>2, <1>3, <1>5 DEF Coherent
<1>10. ASSUME ~astray'
       PROVE  Coherent(w, live, TRUE)
  <2>1. ~astray /\ ~(var.framed /\ var.frame # None /\ var.params[var.frame] # None)
    BY <1>10 DEF KillAllLocalVariables
  <2>2. CASE var.buffer = current
    BY <1>1, <1>2, <1>3, <1>5, <2>1, <2>2 DEF Coherent, Found, Sound, Cells, Alike, Same
  <2>3. CASE var.buffer # current
    BY <1>1, <1>2, <1>3, <1>5, <2>1, <2>3 DEF Coherent, Found, Alike, Strict
  <2> QED BY <2>2, <2>3
<1>11. Coherent(w, live, Strict')
  BY <1>9, <1>10 DEF Strict
<1> QED BY <1>2, <1>3, <1>4, <1>5, <1>6, <1>7, <1>8, <1>11 DEF Same, out

(* kill-all-local-variables removes a value that is not permanent. *)
LEMMA KillingAll ==
  ASSUME Inv, KillAllLocalVariables(FALSE)
  PROVE  Inv' /\ Bindings!KillLocal
<1>1. var' = Swept /\ UNCHANGED <<current, selected, live, pdl, seen>> /\ astray' \in BOOLEAN
  BY DEF KillAllLocalVariables, Swept, Inv
<1>2. /\ Sound(Swept) /\ Named(Swept) /\ Alike(var, Swept)
      /\ Coherent(Swept, live, Strict') /\ Current(Swept, live, current)
      /\ Default(Swept) = Default(var) /\ FrameLocal(Swept) = FrameLocal(var)
      /\ Local(Swept) = [Local(var) EXCEPT ![current] = None]
  BY Sweeping
<1>3. Inv'
  BY <1>1, <1>2 DEF Inv
<1> QED BY <1>1, <1>2, <1>3 DEF Bindings!KillLocal, Alike

(* A permanent value survives kill-all-local-variables. *)
LEMMA KeepingPermanent ==
  ASSUME Inv, KillAllLocalVariables(TRUE)
  PROVE  Inv' /\ (~astray' => UNCHANGED Bindings!vars)
<1> DEFINE val == Local(var)[current]
           m == MadeLocal(Swept, current, selected)
           w == SetInternal(m, current, selected, val, FALSE)
<1>1. /\ Sound(Swept) /\ Named(Swept) /\ Alike(var, Swept) /\ Coherent(Swept, live, Strict')
      /\ Swept.alist[current] = None
      /\ \A f \in Frames : Swept.params[f] = None <=> var.params[f] = None
      /\ Default(Swept) = Default(var) /\ FrameLocal(Swept) = FrameLocal(var)
      /\ Local(Swept) = [Local(var) EXCEPT ![current] = None]
      /\ SwappedOut(var, current, current).alist[current] = val
      /\ val \in Values
  BY Sweeping
<1>2. /\ UNCHANGED <<current, selected, live, pdl, seen>> /\ astray' \in BOOLEAN
      /\ current \in live /\ current \in Buffers /\ live \in SUBSET Buffers /\ selected \in Frames
      /\ var.kind # "plain"
  BY DEF KillAllLocalVariables, Inv
<1>3. var' = w
  BY <1>1 DEF KillAllLocalVariables, Swept
<1>4. Strict' \in BOOLEAN /\ (~astray' => Strict' = TRUE)
  BY DEF Strict
<1> HIDE DEF val
<1>5. /\ Kept(Swept, m, live, Strict', current)
      /\ Strict' /\ ~Evades(Swept, current, selected) => Given(Swept, m, current)
      /\ Alike(Swept, m)
  <2>1. Swept.kind # "plain"
    BY <1>1, <1>2 DEF Alike
  <2>2. Kept(Swept, m, live, Strict', current) /\ Alike(Swept, m)
    BY <1>1, <1>2, <1>4, <2>1, MakingLocal
  <2>3. Strict' /\ ~Evades(Swept, current, selected) => Given(Swept, m, current)
    BY <1>1, <1>2, <1>4, MakingLocal
  <2> QED BY <2>2, <2>3
<1> HIDE DEF m
<1>6. Sound(m) /\ Named(m) /\ Coherent(m, live, Strict')
  BY <1>5 DEF Kept
<1>7. Kept(m, w, live, Strict', current) /\ At(w, current, selected) /\ Alike(m, w)
  BY <1>1, <1>2, <1>4, <1>6, SettingKeeps
<1>8. Sound(w) /\ Named(w) /\ Coherent(w, live, Strict')
  BY <1>7 DEF Kept
<1>9. Current(w, live, current)
  BY <1>2, <1>4, <1>7, <1>8, AtCurrent
<1>10. ASSUME ~astray'
       PROVE  /\ Default(w) = Default(var) /\ Local(w) = Local(var)
              /\ FrameLocal(w) = FrameLocal(var)
  <2>1. ~(var.framed /\ var.kind = "auto" /\ var.params[selected] # None)
    BY <1>10 DEF KillAllLocalVariables
  <2>2. Given(Swept, m, current) /\ Coherent(m, live, TRUE)
    BY <1>1, <1>2, <1>4, <1>5, <1>6, <1>10, <2>1 DEF Evades, Alike
  <2>3. PICK v \in Values : Local(m) = [Local(Swept) EXCEPT ![current] = v]
    BY <1>1, <2>2 DEF Given
  <2>4. Default(m) = Default(var) /\ FrameLocal(m) = FrameLocal(var)
    BY <1>1, <2>2 DEF Given
  <2>5. Local(m)[current] # None /\ m.alist[current] # None
    <3>1. Local(m)[current] = v
      BY <1>2, <2>3 DEF Local
    <3> QED BY <1>2, <1>6, <3>1, Shapes, ValueAssumption
  <2>6. ~Evades(m, current, selected) /\ Where(m, current, selected) = "buffer"
    BY <2>5 DEF Evades, Where
  <2>7. Assigned(m, w, "buffer", current, selected, val)
    <3>1. Assigned(m, w, IF m.kind = "auto" /\ ~FALSE THEN "buffer"
                         ELSE Where(m, current, selected), current, selected, val)
      BY <1>1, <1>2, <1>6, <2>2, <2>6, SettingAssigns
    <3> QED BY <2>6, <3>1
  <2>8. Local(w) = [Local(m) EXCEPT ![current] = val]
    BY <2>7 DEF Assigned
  <2>9. Local(w) = Local(var)
    <3> HIDE DEF w
    <3>1. Local(w) = [[[Local(var) EXCEPT ![current] = None] EXCEPT ![current] = v]
                         EXCEPT ![current] = val]
      BY <1>1, <2>3, <2>8
    <3>2. Local(var) \in [Buffers -> Values \cup {None}] /\ val = Local(var)[current]
      BY WritingBack DEF val, Inv, Sound
    <3> QED BY <1>2, <3>1, <3>2
  <2> QED BY <2>4, <2>7, <2>9 DEF Assigned
<1>11. w.kind = var.kind /\ w.framed = var.framed
  BY <1>1, <1>5, <1>7 DEF Alike, Kept
<1> HIDE DEF w
<1>12. Inv'
  BY <1>2, <1>3, <1>8, <1>9 DEF Inv
<1> QED BY <1>2, <1>3, <1>10, <1>11, <1>12 DEF Bindings!vars
-----------------------------------------------------------------------------
(* Another buffer becomes current: what C code uses is brought up to date. *)
LEMMA SwitchingBuffers ==
  ASSUME Inv, NEW b \in live, NEW f \in Frames, current' = b, selected' = f,
         var' = Switched(var, current, b, f), UNCHANGED <<live, pdl, seen, astray>>
  PROVE  Inv' /\ Bindings!SwitchTo(b, f)
<1>1. /\ current \in Buffers /\ live \in SUBSET Buffers /\ Sound(var) /\ Named(var)
      /\ Current(var, live, current)
  BY DEF Inv
<1>2. Coherent(var, live, Strict)
  BY DEF Inv
<1>3. Strict \in BOOLEAN
  BY DEF Strict
<1>4. /\ Sound(var') /\ Named(var') /\ Same(var, var') /\ Coherent(var', live, Strict)
      /\ Current(var', live, b)
  BY <1>1, <1>2, <1>3, Switching
<1>5. Inv'
  BY <1>1, <1>4 DEF Inv, Strict
<1> QED BY <1>4, <1>5 DEF Bindings!SwitchTo, Bindings!cells, Same, Alike

(* kill-buffer removes the values of the buffer, and no other. *)
LEMMA KillingBuffer ==
  ASSUME Inv, NEW b \in Buffers, NEW next \in Buffers, KillBuffer(b, next)
  PROVE  Inv' /\ Bindings!KillBuffer(b, next)
<1> DEFINE in == Switched(var, current, b, selected)
           back == Switched(in, b, current, selected)
           left == Switched(back, current, next, selected)
           out == SwappedOut(left, b, next)
           w == [out EXCEPT !.alist[b] = None, !.buffer = out.buffer]
<1>1. /\ b \in live /\ next \in live /\ next # b /\ current \in live /\ current \in Buffers
      /\ live \in SUBSET Buffers /\ selected \in Frames /\ Sound(var) /\ Named(var)
      /\ Current(var, live, current)
  BY DEF Inv, KillBuffer
<1>2. Coherent(var, live, Strict)
  BY DEF Inv
<1>3. Strict \in BOOLEAN
  BY DEF Strict
<1>4. /\ current' = next /\ live' = live \ {b} /\ UNCHANGED <<selected, pdl, seen, astray>>
      /\ var' = [out EXCEPT !.alist[b] = None]
  BY DEF KillBuffer
<1>5. /\ Sound(in) /\ Named(in) /\ Same(var, in) /\ Coherent(in, live, Strict)
      /\ Current(in, live, b)
  BY <1>1, <1>2, <1>3, Switching
<1> HIDE DEF in
<1>6. /\ Sound(back) /\ Named(back) /\ Same(in, back) /\ Coherent(back, live, Strict)
      /\ Current(back, live, current)
  BY <1>1, <1>3, <1>5, Switching
<1> HIDE DEF back
<1>7. /\ Sound(left) /\ Named(left) /\ Same(back, left) /\ Coherent(left, live, Strict)
      /\ Current(left, live, next)
  BY <1>1, <1>3, <1>6, Switching
<1> HIDE DEF left
<1>8. /\ Sound(out) /\ Named(out) /\ Same(left, out)
      /\ ~(left.alist[b] # None /\ left.buffer = next) => out = left
      /\ left.alist[b] # None /\ left.buffer = next => out.buffer = b
  BY <1>1, <1>7, SwappingOut
<1> HIDE DEF out
<1>9. /\ Sound(w) /\ Alike(out, w) /\ w.elt = out.elt /\ w.buffer = out.buffer
      /\ w.frame = out.frame /\ w.params = out.params
      /\ w.alist = [out.alist EXCEPT ![b] = None]
      /\ Default(w) = Default(out) /\ FrameLocal(w) = FrameLocal(out)
      /\ Local(w) = [Local(out) EXCEPT ![b] = None]
  BY <1>8, Removing
<1>10. var' = w
  BY <1>4, <1>8 DEF Sound, Cells
<1> HIDE DEF w
<1>11. \A c \in Buffers \ {b} : w.alist[c] = out.alist[c]
  BY <1>8, <1>9 DEF Sound, Cells
<1>12. Named(w)
  BY <1>8, <1>9 DEF Named
<1>13. Coherent(w, live \ {b}, Strict) /\ Current(w, live \ {b}, next)
  <2>1. CASE out = left
    BY <1>1, <1>7, <1>9, <1>11, <2>1 DEF Coherent, Current, Found, Alike
  <2>2. CASE out # left
    BY <1>8, <1>9, <2>2 DEF Coherent, Current
  <2> QED BY <2>1, <2>2
<1>14. Inv'
  BY <1>1, <1>4, <1>9, <1>10, <1>12, <1>13 DEF Inv, Strict
<1>15. /\ Alike(var, w) /\ Default(w) = Default(var) /\ FrameLocal(w) = FrameLocal(var)
       /\ Local(w) = [Local(var) EXCEPT ![b] = None]
  BY <1>5, <1>6, <1>7, <1>8, <1>9 DEF Same, Alike
<1> QED BY <1>1, <1>4, <1>10, <1>14, <1>15 DEF Bindings!KillBuffer, Alike

(* store_frame_param changes the value of one frame. *)
LEMMA StoringParameter ==
  ASSUME Inv, NEW f \in Frames, NEW val \in Values, StoreFrameParam(f, val)
  PROVE  Inv' /\ (~astray' => Bindings!SetFrameValue(f, val))
<1>1. /\ var' = [var EXCEPT !.params[f] = val] /\ UNCHANGED <<current, selected, live, pdl, seen>>
      /\ astray' = (astray \/ (var.framed /\ var.frame = f)) /\ var \in Cells
      /\ Sound(var) /\ Named(var) /\ Coherent(var, live, Strict) /\ Current(var, live, current)
      /\ astray' \in BOOLEAN
  BY DEF StoreFrameParam, Inv, Sound
<1>2. /\ var' \in Cells /\ Alike(var, var') /\ var'.elt = var.elt /\ var'.buffer = var.buffer
      /\ var'.frame = var.frame /\ var'.alist = var.alist /\ var'.real = var.real
      /\ var'.cdr = var.cdr /\ var'.params = [var.params EXCEPT ![f] = val]
  BY <1>1 DEF Cells, Alike
<1>3. \A g \in Frames : var'.params[g] = IF g = f THEN val ELSE var.params[g]
  BY <1>1, <1>2 DEF Cells
<1>4. Sound(var') /\ Named(var') /\ Current(var', live, current)
  BY <1>1, <1>2, <1>3, ValueAssumption DEF Sound, Cells, Named, Current, Alike
<1>5. Coherent(var', live, FALSE)
  BY <1>1, <1>2 DEF Coherent
<1>6. ASSUME ~astray'
      PROVE  Coherent(var', live, TRUE)
  <2>1. Coherent(var, live, TRUE) /\ ~(var.framed /\ var.frame = f)
    BY <1>1, <1>6 DEF Strict
  <2> QED BY <1>1, <1>2, <1>3, <2>1 DEF Coherent, Found, Alike, Cells
<1>7. Coherent(var', live, Strict')
  BY <1>5, <1>6 DEF Strict
<1>8. Inv'
  BY <1>1, <1>4, <1>7 DEF Inv
<1>9. ASSUME ~astray'
      PROVE  Bindings!SetFrameValue(f, val)
  <2>1. var.elt = "frame" => var.frame # f
    BY <1>1, <1>9 DEF Sound
  <2>2. FrameLocal(var') = [FrameLocal(var) EXCEPT ![f] = val]
    BY <1>1, <1>2, <1>3, <2>1 DEF FrameLocal, Cells
  <2>3. Default(var') = Default(var) /\ Local(var') = Local(var)
    BY <1>2 DEF Default, Local
  <2> QED BY <1>1, <1>2, <2>2, <2>3 DEF Bindings!SetFrameValue, Alike
<1> QED BY <1>8, <1>9
-----------------------------------------------------------------------------
(* A new variable satisfies the invariant. *)
LEMMA Starting ==
  ASSUME Init
  PROVE  Inv /\ Bindings!Init
<1>1. PICK v \in Values, params \in [Frames -> Values \cup {None}], fwd \in BOOLEAN :
        /\ var = [kind |-> "plain", fwd |-> fwd, framed |-> FALSE, real |-> v, elt |-> "default",
                  buffer |-> None, frame |-> None, cdr |-> v,
                  alist |-> [b \in Buffers |-> None], params |-> params]
        /\ seen = v
  BY DEF Init
<1>2. /\ current \in live /\ live = Buffers /\ current \in Buffers /\ selected \in Frames
      /\ pdl = <<>> /\ astray = FALSE
  BY DEF Init
<1>3. Sound(var) /\ Named(var)
  BY <1>1 DEF Sound, Named, Cells
<1>4. Coherent(var, live, Strict) /\ Current(var, live, current)
  BY <1>1 DEF Coherent, Current
<1>7. pdl \in Seq(Values) /\ seen \in Values /\ live \in SUBSET Buffers
  BY <1>1, <1>2
<1>8. astray \in BOOLEAN
  BY <1>2
<1>5. Inv
  BY <1>2, <1>3, <1>4, <1>7, <1>8 DEF Inv
<1>6. Default(var) = v /\ Local(var) = [b \in Buffers |-> None] /\ FrameLocal(var) = params
  BY <1>1 DEF Default, Local, FrameLocal
<1> QED BY <1>1, <1>2, <1>5, <1>6 DEF Bindings!Init

(* Every function of the code keeps the invariant. *)
LEMMA Keeping ==
  ASSUME Inv, [Next]_vars
  PROVE  Inv'
<1>1. CASE UNCHANGED vars
  BY <1>1 DEF vars, Inv, Strict
<1>2. CASE FindSymbolValue BY <1>2, Finding
<1>3. CASE DefaultValue BY <1>3, FindingDefault
<1>4. CASE \E b \in Buffers : BufferLocalVariables(b) BY <1>4, FindingLocals
<1>5. CASE \E val \in Values : Fset(val) BY <1>5, Setting
<1>6. CASE \E val \in Values : FsetDefault(val) BY <1>6, SettingDefault
<1>7. CASE \E val \in Values : CAssign(val) BY <1>7, SettingByC
<1>8. CASE \E val \in Values : Specbind(val) BY <1>8, Binding
<1>9. CASE UnbindTo BY <1>9, Unbinding
<1>10. CASE MakeVariableBufferLocal BY <1>10, MakingAuto
<1>11. CASE MakeVariableFrameLocal BY <1>11, MakingFramed
<1>12. CASE MakeLocalVariable BY <1>12, MakingLocalHere
<1>13. CASE KillLocalVariable BY <1>13, KillingLocal
<1>14. CASE \E permanent \in BOOLEAN : KillAllLocalVariables(permanent)
  BY <1>14, KillingAll, KeepingPermanent
<1>15. CASE \E b \in Buffers : SetBuffer(b)
  <2>1. PICK b \in Buffers : SetBuffer(b)
    BY <1>15
  <2>2. selected' \in Frames /\ selected' = selected
    BY <2>1 DEF SetBuffer, Inv
  <2> QED BY <2>1, <2>2, SwitchingBuffers DEF SetBuffer
<1>16. CASE \E f \in Frames, b \in Buffers : SelectFrame(f, b)
  BY <1>16, SwitchingBuffers DEF SelectFrame
<1>17. CASE \E b, next \in Buffers : KillBuffer(b, next) BY <1>17, KillingBuffer
<1>18. CASE \E f \in Frames, val \in Values : StoreFrameParam(f, val) BY <1>18, StoringParameter
<1> QED BY <1>1, <1>2, <1>3, <1>4, <1>5, <1>6, <1>7, <1>8, <1>9, <1>10, <1>11, <1>12, <1>13,
           <1>14, <1>15, <1>16, <1>17, <1>18 DEF Next

(* Each function does what it promises to the variable without a cache. *)
LEMMA Implementing ==
  ASSUME Inv, ~astray'
  PROVE  Implements
<1>1. /\ FindSymbolValue => Bindings!Read
      /\ DefaultValue => Bindings!ReadDefault
      /\ \A b \in Buffers : (BufferLocalVariables(b) => Bindings!ReadLocal(b))
  BY Finding, FindingDefault, FindingLocals
<1>2. ASSUME NEW val \in Values
      PROVE  /\ Fset(val) => Bindings!Set(val)
             /\ FsetDefault(val) => Bindings!SetDefault(val)
             /\ CAssign(val) => Bindings!SetByC(val)
             /\ Specbind(val) => Bindings!Let(val)
  BY Setting, SettingDefault, SettingByC, Binding
<1>3. /\ UnbindTo => Bindings!EndLet
      /\ MakeVariableBufferLocal => Bindings!MakeAuto
      /\ MakeVariableFrameLocal => Bindings!MakeFramed
      /\ MakeLocalVariable => Bindings!MakeLocal
      /\ KillLocalVariable => Bindings!KillLocal
  BY Unbinding, MakingAuto, MakingFramed, MakingLocalHere, KillingLocal
<1>4. /\ KillAllLocalVariables(FALSE) => Bindings!KillLocal
      /\ KillAllLocalVariables(TRUE) => UNCHANGED Bindings!vars
  BY KillingAll, KeepingPermanent
<1>5. ASSUME NEW b \in Buffers, SetBuffer(b)
      PROVE  Bindings!SwitchTo(b, selected)
  <2>1. selected' = selected /\ selected \in Frames
    BY <1>5 DEF SetBuffer, Inv
  <2> QED BY <1>5, <2>1, SwitchingBuffers DEF SetBuffer
<1>6. ASSUME NEW f \in Frames, NEW b \in Buffers, SelectFrame(f, b)
      PROVE  Bindings!SwitchTo(b, f)
  BY <1>6, SwitchingBuffers DEF SelectFrame
<1>7. ASSUME NEW b \in Buffers, NEW next \in Buffers, KillBuffer(b, next)
      PROVE  Bindings!KillBuffer(b, next)
  BY <1>7, KillingBuffer
<1>8. ASSUME NEW f \in Frames, NEW val \in Values, StoreFrameParam(f, val)
      PROVE  Bindings!SetFrameValue(f, val)
  BY <1>8, StoringParameter
<1> QED BY <1>1, <1>2, <1>3, <1>4, <1>5, <1>6, <1>7, <1>8 DEF Implements

(* A step of the code is one of the variable without a cache. *)
LEMMA Stepping ==
  ASSUME Inv, Next, ~astray'
  PROVE  Implements /\ Bindings!Next
<1>1. Implements
  BY Implementing
<1>2. CASE \E val \in Values : Fset(val) \/ FsetDefault(val) \/ CAssign(val) \/ Specbind(val)
  BY <1>1, <1>2 DEF Implements, Bindings!Next
<1>3. CASE FindSymbolValue \/ DefaultValue \/ \E b \in Buffers : BufferLocalVariables(b)
  BY <1>1, <1>3 DEF Implements, Bindings!Next
<1>4. CASE \/ UnbindTo \/ MakeVariableBufferLocal \/ MakeVariableFrameLocal
           \/ MakeLocalVariable \/ KillLocalVariable
  BY <1>1, <1>4 DEF Implements, Bindings!Next
<1>5. CASE KillAllLocalVariables(FALSE)
  BY <1>1, <1>5 DEF Implements, Bindings!Next
<1>6. CASE KillAllLocalVariables(TRUE)
  <2>1. UNCHANGED Bindings!vars
    BY <1>1, <1>6 DEF Implements
  <2>2. current \in live /\ current \in Buffers /\ selected \in Frames
    BY DEF Inv
  <2>3. Bindings!SwitchTo(current, selected)
    BY <2>1, <2>2 DEF Bindings!vars, Bindings!SwitchTo, Bindings!cells
  <2> QED BY <1>1, <2>2, <2>3 DEF Bindings!Next
<1>7. CASE \E b \in Buffers : SetBuffer(b)
  <2>1. selected \in Frames
    BY DEF Inv
  <2> QED BY <1>1, <1>7, <2>1 DEF Implements, Bindings!Next
<1>8. CASE \E f \in Frames, b \in Buffers : SelectFrame(f, b)
  BY <1>1, <1>8 DEF Implements, Bindings!Next
<1>9. CASE \E b, next \in Buffers : KillBuffer(b, next)
  BY <1>1, <1>9 DEF Implements, Bindings!Next
<1>10. CASE \E f \in Frames, val \in Values : StoreFrameParam(f, val)
  BY <1>1, <1>10 DEF Implements, Bindings!Next
<1>11. \A permanent \in BOOLEAN : permanent = TRUE \/ permanent = FALSE
  OBVIOUS
<1> QED BY <1>2, <1>3, <1>4, <1>5, <1>6, <1>7, <1>8, <1>9, <1>10, <1>11 DEF Next

(* The invariant holds in every reachable state. *)
THEOREM Invariance == Spec => []Inv
<1>1. Init => Inv
  BY Starting
<1>2. Inv /\ [Next]_vars => Inv'
  BY Keeping
<1> QED BY <1>1, <1>2, PTL DEF Spec

(* The cache always names a cell there is. *)
THEOREM TypeCorrect == Spec => []TypeOK
<1>1. Inv => TypeOK
  BY DEF Inv, TypeOK, Sound, Named, Cells
<1> QED BY <1>1, Invariance, PTL

(* C code finds the current buffer's value in its variable. *)
THEOREM CacheCurrent == Spec => []CVariableCurrent
<1>1. Inv => CVariableCurrent
  BY DEF Inv, CVariableCurrent, UpToDate, Current, Found
<1> QED BY <1>1, Invariance, PTL

(* What Lisp sees is a variable without a cache. *)
THEOREM CacheInvisible == Spec => BindingsKept
<1>1. Init => Bindings!Init
  BY Starting
<1>2. Inv /\ [Next]_vars => [astray' \/ (Implements /\ Bindings!Next)]_vars
  BY Stepping
<1> QED BY <1>1, <1>2, Invariance, PTL DEF Spec, BindingsKept
=============================================================================
