-------------------------- MODULE VariableBindings --------------------------
(***************************************************************************)
(* What Lisp sees of one variable that may be local to buffers and frames: *)
(* a default value, a value for some of the buffers and for some of the    *)
(* frames, and the old values of the `let's in progress.  There is no      *)
(* cache.  `seen' is what the last function that reads the variable gave.  *)
(***************************************************************************)
EXTENDS Sequences, Naturals

CONSTANTS Buffers, Frames, Values, None

VARIABLES
  current, selected, live,   \* the current buffer, the selected frame, the buffers there are
  kind,                      \* "plain"; "some": local where made so; "auto": local where set
  framed,                    \* frames may have values of their own
  default, local, framelocal,
  olds,                      \* the values saved by the `let's in progress
  seen

vars == <<current, selected, live, kind, framed, default, local, framelocal, olds, seen>>
cells == <<default, local, framelocal>>

(* Where the value in effect is kept. *)
Place(b, f) == IF local[b] # None THEN "buffer"
               ELSE IF framed /\ framelocal[f] # None THEN "frame" ELSE "default"
Value(b, f) == IF local[b] # None THEN local[b]
               ELSE IF framed /\ framelocal[f] # None THEN framelocal[f] ELSE default
InEffect == Value(current, selected)

Assign(place, v) ==
  /\ default' = IF place = "default" THEN v ELSE default
  /\ local' = IF place = "buffer" THEN [local EXCEPT ![current] = v] ELSE local
  /\ framelocal' = IF place = "frame" THEN [framelocal EXCEPT ![selected] = v] ELSE framelocal

Init ==
  /\ current \in Buffers /\ selected \in Frames /\ live = Buffers
  /\ kind = "plain" /\ framed = FALSE
  /\ default \in Values /\ local = [b \in Buffers |-> None]
  /\ framelocal \in [Frames -> Values \cup {None}]
  /\ olds = <<>> /\ seen = default

Read ==
  /\ seen' = InEffect
  /\ UNCHANGED <<current, selected, live, kind, framed, cells, olds>>

ReadDefault ==
  /\ seen' = default
  /\ UNCHANGED <<current, selected, live, kind, framed, cells, olds>>

ReadLocal(b) ==
  /\ local[b] # None /\ seen' = local[b]
  /\ UNCHANGED <<current, selected, live, kind, framed, cells, olds>>

Set(v) ==
  /\ Assign(IF kind = "auto" THEN "buffer" ELSE Place(current, selected), v)
  /\ UNCHANGED <<current, selected, live, kind, framed, olds, seen>>

SetDefault(v) ==
  /\ Assign("default", v)
  /\ UNCHANGED <<current, selected, live, kind, framed, olds, seen>>

(* C code assigns the variable it knows the place of. *)
SetByC(v) ==
  /\ Assign(Place(current, selected), v)
  /\ UNCHANGED <<current, selected, live, kind, framed, olds, seen>>

Let(v) ==
  /\ olds' = Append(olds, InEffect)
  /\ Assign(Place(current, selected), v)
  /\ UNCHANGED <<current, selected, live, kind, framed, seen>>

EndLet ==
  /\ olds # <<>> /\ olds' = SubSeq(olds, 1, Len(olds) - 1)
  /\ Assign(Place(current, selected), olds[Len(olds)])
  /\ UNCHANGED <<current, selected, live, kind, framed, seen>>

MakeAuto ==
  /\ kind' = "auto"
  /\ UNCHANGED <<current, selected, live, framed, cells, olds, seen>>

MakeFramed ==
  /\ kind = "plain" /\ kind' = "some" /\ framed' = TRUE
  /\ UNCHANGED <<current, selected, live, cells, olds, seen>>

(* Which value the buffer's own binding begins with is left open. *)
MakeLocal ==
  /\ kind' = IF kind = "plain" THEN "some" ELSE kind
  /\ \/ local[current] = None /\ \E v \in Values : local' = [local EXCEPT ![current] = v]
     \/ local[current] # None /\ local' = local
  /\ UNCHANGED <<current, selected, live, framed, default, framelocal, olds, seen>>

(* One variable, or all those of the buffer; permanent ones keep their value. *)
KillLocal ==
  /\ local' = [local EXCEPT ![current] = None]
  /\ UNCHANGED <<current, selected, live, kind, framed, default, framelocal, olds, seen>>

SwitchTo(b, f) ==
  /\ b \in live /\ current' = b /\ selected' = f
  /\ UNCHANGED <<live, kind, framed, cells, olds, seen>>

KillBuffer(b, next) ==
  /\ b \in live /\ live' = live \ {b} /\ next \in live' /\ current' = next
  /\ local' = [local EXCEPT ![b] = None]
  /\ UNCHANGED <<selected, kind, framed, default, framelocal, olds, seen>>

SetFrameValue(f, v) ==
  /\ framelocal' = [framelocal EXCEPT ![f] = v]
  /\ UNCHANGED <<current, selected, live, kind, framed, default, local, olds, seen>>

Next ==
  \/ Read \/ ReadDefault \/ \E b \in Buffers : ReadLocal(b)
  \/ \E v \in Values : Set(v) \/ SetDefault(v) \/ SetByC(v) \/ Let(v)
  \/ EndLet \/ MakeAuto \/ MakeFramed \/ MakeLocal \/ KillLocal
  \/ \E b \in Buffers, f \in Frames : SwitchTo(b, f)
  \/ \E b, next \in Buffers : KillBuffer(b, next)
  \/ \E f \in Frames, v \in Values : SetFrameValue(f, v)

Spec == Init /\ [][Next]_vars
=============================================================================
