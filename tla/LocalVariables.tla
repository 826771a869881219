--------------------------- MODULE LocalVariables ---------------------------
(***************************************************************************)
(* One Lisp variable that may be local to buffers and to frames (data.c),  *)
(* and the `let's that bind it (eval.c).  The symbol caches the value that *)
(* is in effect: `real' is the value read and set, `elt' the cell it was   *)
(* taken from, `buffer' and `frame' what was current then.  The cell is    *)
(* written back when the variable is next used elsewhere.  If `fwd', C     *)
(* code uses `real' as a variable of its own, and knows nothing of cells.  *)
(***************************************************************************)
EXTENDS Sequences, Naturals

CONSTANTS
  Buffers, Frames,  \* buffers and frames
  Values,           \* values of the variable
  None,             \* no buffer, no frame, no cell
  MaxLets           \* bound: `let's in progress

ASSUME ValueAssumption == None \notin Values
ASSUME NoneAssumption == None \notin Buffers /\ None \notin Frames
ASSUME BoundAssumption == MaxLets \in Nat

VARIABLES
  current, selected, live,  \* current_buffer, selected_frame, the buffers not killed
  var,                      \* the symbol's value cell and the cells of the alists
  pdl,                      \* the bindings of the variable in specpdl
  seen,                     \* the last value a reading function returned
  astray                    \* history: a change missed the cache, or depended on it

vars == <<current, selected, live, var, pdl, seen, astray>>

Init ==
  /\ current \in Buffers /\ selected \in Frames /\ live = Buffers
  /\ \E v \in Values, params \in [Frames -> Values \cup {None}], fwd \in BOOLEAN :
       /\ var = [kind |-> "plain", fwd |-> fwd, framed |-> FALSE, real |-> v, elt |-> "default",
                 buffer |-> None, frame |-> None, cdr |-> v,
                 alist |-> [b \in Buffers |-> None], params |-> params]
       /\ seen = v
  /\ pdl = <<>> /\ astray = FALSE

-----------------------------------------------------------------------------
(* Fsetcdr (current alist element, value): a deleted element keeps nothing. *)
WrittenBack(v) ==
  CASE v.elt = "default" -> [v EXCEPT !.cdr = v.real]
    [] v.elt = "frame" -> [v EXCEPT !.params[v.frame] = v.real]
    [] OTHER -> IF v.buffer # None /\ v.alist[v.buffer] # None
                THEN [v EXCEPT !.alist[v.buffer] = v.real] ELSE v

(* The cell of the value in effect in buffer B and frame F. *)
Found(v, b, f) == IF v.alist[b] # None THEN "buffer"
                  ELSE IF v.framed /\ v.params[f] # None THEN "frame" ELSE "default"
Content(v, elt, b, f) == CASE elt = "buffer" -> v.alist[b]
                           [] elt = "frame" -> v.params[f]
                           [] OTHER -> v.cdr
Attached(v, elt, b, f) == [v EXCEPT !.elt = elt, !.buffer = b, !.frame = f]
Loaded(v, b, f) ==
  LET elt == Found(v, b, f) IN [Attached(v, elt, b, f) EXCEPT !.real = Content(v, elt, b, f)]

Fresh(v, b, f) == v.kind = "plain" \/ (v.buffer = b /\ v.frame = f)

(* Variant: the value cached for another buffer is not written back. *)
SwappedInClean(v, b, f) == IF Fresh(v, b, f) THEN v ELSE Loaded(v, b, f)

(* swap_in_symval_forwarding *)
SwappedIn(v, b, f) == IF Fresh(v, b, f) THEN v ELSE Loaded(WrittenBack(v), b, f)

(* store_symval_forwarding *)
Stored(v, val) == [v EXCEPT !.real = val]

(* set_internal: setting may make a new element for the current buffer, binding not. *)
Located(v, b, f, bind) ==
  IF v.alist[b] = None /\ v.kind = "auto" /\ ~bind
  THEN Attached([v EXCEPT !.alist[b] = v.real], "buffer", b, f)
  ELSE Attached(v, Found(v, b, f), b, f)

SetInternal(v, b, f, val, bind) ==
  Stored(IF Fresh(v, b, f) /\ ~(v.kind = "auto" /\ v.elt = "default") THEN v
         ELSE Located(WrittenBack(v), b, f, bind), val)

-----------------------------------------------------------------------------
(* The values Lisp would find: a cell's, unless it is the one cached. *)
Default(v) == IF v.elt = "default" THEN v.real ELSE v.cdr
Local(v) == [b \in Buffers |-> IF v.elt = "buffer" /\ v.buffer = b /\ v.alist[b] # None
                               THEN v.real ELSE v.alist[b]]
FrameLocal(v) == [f \in Frames |-> IF v.elt = "frame" /\ v.frame = f THEN v.real ELSE v.params[f]]

-----------------------------------------------------------------------------
(* find_symbol_value, default_value, buffer-local-variables *)
FindSymbolValue ==
  /\ var' = SwappedIn(var, current, selected) /\ seen' = var'.real
  /\ UNCHANGED <<current, selected, live, pdl, astray>>

DefaultValue ==
  /\ seen' = Default(var)
  /\ UNCHANGED <<current, selected, live, var, pdl, astray>>

BufferLocalVariables(b) ==
  /\ var.alist[b] # None
  /\ var' = SwappedIn(var, current, selected)
  /\ seen' = IF b = current THEN var'.real ELSE var'.alist[b]
  /\ UNCHANGED <<current, selected, live, pdl, astray>>

(* A frame's value is in effect: what `set' does depends on the cache. *)
FrameInEffect == var.framed /\ var.alist[current] = None /\ var.params[selected] # None

Fset(val) ==
  /\ var' = SetInternal(var, current, selected, val, FALSE)
  /\ astray' = (astray \/ (FrameInEffect /\ var.kind = "auto"))
  /\ UNCHANGED <<current, selected, live, pdl, seen>>

FsetDefault(val) ==
  /\ var' = IF var.kind = "plain" THEN Stored(var, val)
            ELSE IF var.elt = "default" THEN [var EXCEPT !.cdr = val, !.real = val]
            ELSE [var EXCEPT !.cdr = val]
  /\ UNCHANGED <<current, selected, live, pdl, seen, astray>>

(* C code takes `real' for the value in the current buffer and frame. *)
UpToDate ==
  \/ var.kind = "plain"
  \/ /\ var.elt = Found(var, current, selected)
     /\ var.elt = "buffer" => var.buffer = current
     /\ var.elt = "frame" => var.frame = selected

CAssign(val) ==
  /\ var.fwd
  /\ var' = [var EXCEPT !.real = val]
  /\ astray' = (astray \/ ~UpToDate)
  /\ UNCHANGED <<current, selected, live, pdl, seen>>

Specbind(val) ==
  /\ Len(pdl) < MaxLets
  /\ LET found == SwappedIn(var, current, selected) IN
       /\ var' = SetInternal(found, current, selected, val, TRUE)
       /\ pdl' = Append(pdl, found.real)
  /\ UNCHANGED <<current, selected, live, seen, astray>>

UnbindTo ==
  /\ pdl # <<>>
  /\ var' = SetInternal(var, current, selected, pdl[Len(pdl)], TRUE)
  /\ pdl' = SubSeq(pdl, 1, Len(pdl) - 1)
  /\ UNCHANGED <<current, selected, live, seen, astray>>

-----------------------------------------------------------------------------
MakeVariableBufferLocal ==
  /\ var.kind # "auto"
  /\ var' = IF var.kind = "some" THEN [var EXCEPT !.kind = "auto"]
            ELSE [var EXCEPT !.kind = "auto", !.cdr = var.real, !.buffer = current, !.frame = None]
  /\ UNCHANGED <<current, selected, live, pdl, seen, astray>>

MakeVariableFrameLocal ==
  /\ var.kind = "plain"
  /\ var' = [var EXCEPT !.kind = "some", !.framed = TRUE, !.cdr = var.real,
                        !.buffer = None, !.frame = None]
  /\ UNCHANGED <<current, selected, live, pdl, seen, astray>>

(* The new element begins with the recorded default, and is looked for when  *)
(* the variable is used next: at once, if C code uses it.                     *)
WithElement(v, b, f) ==
  LET found == SwappedIn(v, b, f)
      made == [found EXCEPT !.alist[b] = found.cdr, !.buffer = IF @ = b THEN None ELSE @]
  IN IF v.fwd THEN SwappedIn(made, b, f) ELSE made

MadeLocal(v, b, f) ==
  LET some == IF v.kind = "plain"
              THEN [v EXCEPT !.kind = "some", !.cdr = v.real, !.buffer = None, !.frame = None]
              ELSE v
      read == SwappedIn(v, b, f)
  IN IF v.kind = "auto" THEN SetInternal(read, b, f, read.real, FALSE)
     ELSE IF some.alist[b] = None THEN WithElement(some, b, f)
     ELSE IF v.fwd THEN SwappedIn(some, b, f) ELSE some

MakeLocalVariable ==
  /\ var' = MadeLocal(var, current, selected)
  /\ astray' = (astray \/ (FrameInEffect /\ var.kind = "auto"))
  /\ UNCHANGED <<current, selected, live, pdl, seen>>

(* Variant: the variable is not swapped in again. *)
KillLocalVariableLazy ==
  /\ var.kind # "plain"
  /\ var' = [var EXCEPT !.alist[current] = None, !.buffer = IF @ = current THEN None ELSE @]
  /\ UNCHANGED <<current, selected, live, pdl, seen, astray>>

KillLocalVariable ==
  /\ var.kind # "plain"
  /\ var' = LET gone == [var EXCEPT !.alist[current] = None]
            IN IF var.buffer = current
               THEN SwappedIn([gone EXCEPT !.buffer = None], current, selected) ELSE gone
  /\ UNCHANGED <<current, selected, live, pdl, seen, astray>>

(* swap_out_buffer_local_variables (b) when NOW is current *)
SwappedOut(v, b, now) ==
  IF v.alist[b] # None /\ v.buffer = now
  THEN LET back == WrittenBack(v)
       IN [back EXCEPT !.elt = "default", !.buffer = b, !.real = back.cdr]
  ELSE v

KillAllLocalVariables(permanent) ==
  /\ var.kind # "plain" /\ var.alist[current] # None
  /\ LET out == SwappedOut(var, current, current)
         gone == [out EXCEPT !.alist[current] = None]
     IN var' = IF permanent
               THEN SetInternal(MadeLocal(gone, current, selected), current, selected,
                                out.alist[current], FALSE)
               ELSE gone
  /\ astray' = (astray \/ (var.framed /\ var.frame # None /\ var.params[var.frame] # None)
                       \/ (var.framed /\ var.kind = "auto" /\ var.params[selected] # None))
  /\ UNCHANGED <<current, selected, live, pdl, seen>>

-----------------------------------------------------------------------------
(* Variant: only the new buffer's variables are looked at. *)
SwitchedForward(v, from, to, f) ==
  IF from # to /\ v.kind # "plain" /\ v.fwd /\ v.alist[to] # None THEN SwappedIn(v, to, f) ELSE v

(* set_buffer_internal_1: what C code uses is swapped in at once, if either  *)
(* buffer has a value of its own.                                             *)
Switched(v, from, to, f) ==
  IF from # to /\ v.kind # "plain" /\ v.fwd /\ (v.alist[to] # None \/ v.alist[from] # None)
  THEN SwappedIn(v, to, f) ELSE v

SetBuffer(b) ==
  /\ b \in live /\ b # current
  /\ current' = b /\ var' = Switched(var, current, b, selected)
  /\ UNCHANGED <<selected, live, pdl, seen, astray>>

SelectFrame(f, b) ==
  /\ f # selected /\ b \in live
  /\ selected' = f /\ current' = b /\ var' = Switched(var, current, b, f)
  /\ UNCHANGED <<live, pdl, seen, astray>>

(* The hooks run in the buffer to be killed; if it was current, another is then. *)
KillBuffer(b, next) ==
  /\ b \in live /\ next \in live \ {b} /\ (b # current => next = current)
  /\ LET visited == Switched(Switched(var, current, b, selected), b, current, selected)
         left == Switched(visited, current, next, selected)
         out == SwappedOut(left, b, next)
     IN var' = [out EXCEPT !.alist[b] = None]
  /\ current' = next /\ live' = live \ {b}
  /\ UNCHANGED <<selected, pdl, seen, astray>>

(* store_frame_param knows nothing of variables. *)
StoreFrameParam(f, val) ==
  /\ var' = [var EXCEPT !.params[f] = val]
  /\ astray' = (astray \/ (var.framed /\ var.frame = f))
  /\ UNCHANGED <<current, selected, live, pdl, seen>>

Next ==
  \/ FindSymbolValue \/ DefaultValue \/ \E b \in Buffers : BufferLocalVariables(b)
  \/ \E val \in Values : Fset(val) \/ FsetDefault(val) \/ CAssign(val) \/ Specbind(val)
  \/ UnbindTo
  \/ MakeVariableBufferLocal \/ MakeVariableFrameLocal \/ MakeLocalVariable \/ KillLocalVariable
  \/ \E permanent \in BOOLEAN : KillAllLocalVariables(permanent)
  \/ \E b \in Buffers : SetBuffer(b)
  \/ \E f \in Frames, b \in Buffers : SelectFrame(f, b)
  \/ \E b, next \in Buffers : KillBuffer(b, next)
  \/ \E f \in Frames, val \in Values : StoreFrameParam(f, val)

Spec == Init /\ [][Next]_vars

-----------------------------------------------------------------------------
(* Every value has a type, and the cache names a cell that may exist. *)
TypeOK ==
  /\ current \in live /\ live \subseteq Buffers /\ selected \in Frames
  /\ var \in [kind : {"plain", "some", "auto"}, fwd : BOOLEAN, framed : BOOLEAN, real : Values,
              elt : {"default", "buffer", "frame"}, buffer : Buffers \cup {None},
              frame : Frames \cup {None}, cdr : Values, alist : [Buffers -> Values \cup {None}],
              params : [Frames -> Values \cup {None}]]
  /\ var.elt = "buffer" => var.buffer # None
  /\ var.elt = "frame" => var.frame # None /\ var.params[var.frame] # None
  /\ seen \in Values /\ astray \in BOOLEAN

(* What Lisp sees is a variable without a cache: each function reads, assigns *)
(* or removes the one value it should, in whatever buffer the cache was last  *)
(* used.  Frames may change what the cache misses; then nothing is promised.  *)
Bindings == INSTANCE VariableBindings WITH
  kind <- var.kind, framed <- var.framed, default <- Default(var), local <- Local(var),
  framelocal <- FrameLocal(var), olds <- pdl
Implements ==
  /\ (FindSymbolValue => Bindings!Read)
  /\ (DefaultValue => Bindings!ReadDefault)
  /\ \A b \in Buffers : (BufferLocalVariables(b) => Bindings!ReadLocal(b))
  /\ \A val \in Values : /\ (Fset(val) => Bindings!Set(val))
                        /\ (FsetDefault(val) => Bindings!SetDefault(val))
                        /\ (CAssign(val) => Bindings!SetByC(val))
                        /\ (Specbind(val) => Bindings!Let(val))
  /\ (UnbindTo => Bindings!EndLet)
  /\ (MakeVariableBufferLocal => Bindings!MakeAuto)
  /\ (MakeVariableFrameLocal => Bindings!MakeFramed)
  /\ (MakeLocalVariable => Bindings!MakeLocal)
  /\ (KillLocalVariable => Bindings!KillLocal)
  /\ (KillAllLocalVariables(FALSE) => Bindings!KillLocal)
  /\ (KillAllLocalVariables(TRUE) => UNCHANGED Bindings!vars)
  /\ \A b \in Buffers : (SetBuffer(b) => Bindings!SwitchTo(b, selected))
  /\ \A f \in Frames, b \in Buffers : (SelectFrame(f, b) => Bindings!SwitchTo(b, f))
  /\ \A b, next \in Buffers : (KillBuffer(b, next) => Bindings!KillBuffer(b, next))
  /\ \A f \in Frames, val \in Values : (StoreFrameParam(f, val) => Bindings!SetFrameValue(f, val))
BindingsKept == Bindings!Init /\ [][astray' \/ (Implements /\ Bindings!Next)]_vars

(* The C code "can assume that they are always up to date" (lisp.h:839):     *)
(* a C variable holds the value of the current buffer, whatever switches of   *)
(* buffers, removals of local values and `let's came before, until a buffer   *)
(* that has a local value is killed from another one.  (Frames are the other  *)
(* exception: selecting one swaps nothing in.)                                 *)
CVariableCurrent == var.fwd /\ ~var.framed /\ var.buffer \in live => UpToDate
=============================================================================
