----------------------------- MODULE EvalStacks -----------------------------
(***************************************************************************)
(* The stacks of the Lisp evaluator (eval.c): the C stack of the special   *)
(* forms in progress, specpdl with the bindings and unwind forms, the      *)
(* lists of catches and handlers (positions of C frames, outermost first), *)
(* lisp_eval_depth and quit-flag.  Lisp may evaluate any form at any time; *)
(* what it computes is left out.  `throw', `signal' and C-g unwind the     *)
(* stacks, and the forms run meanwhile may do all this again.  (The        *)
(* backtrace and gcprolist are saved and restored like lisp_eval_depth.    *)
(* The debugger and signal-hook-function are left out.)                    *)
(***************************************************************************)
EXTENDS Naturals, SequencesExt, FiniteSetsExt

CONSTANTS
  Vars, InhibitQuit,  \* special variables, Vinhibit_quit one of them
  Values, Nil,        \* their values
  Tags, TopLevel,     \* tags of catches, `top-level' one of them
  None,
  MaxDepth,           \* max_lisp_eval_depth
  MaxPdl              \* max_specpdl_size

ASSUME VarAssumption == InhibitQuit \in Vars /\ Nil \in Values /\ TopLevel \in Tags
ASSUME BoundAssumption == MaxDepth \in Nat /\ MaxPdl \in Nat

VARIABLES
  stack,        \* the C stack: the frames of special forms and of unbind_to
  pdl,          \* specpdl
  catchlist, handlerlist,
  depth,        \* lisp_eval_depth
  value,        \* the values of the variables
  quit          \* Vquit_flag

vars == <<stack, pdl, catchlist, handlerlist, depth, value, quit>>

Conditions == {"error", "quit"}
Top == stack[Len(stack)]
Innermost(list) == list[Len(list)]
Without(list) == SubSeq(list, 1, Len(list) - 1)

(* A frame remembers the levels it began at, which condition or tag it      *)
(* catches, the variable its handler binds, and (unbind_to, unwind forms) the *)
(* frame it works for.                                                        *)
Frame(kind, what, link, level) ==
  [kind |-> kind, what |-> what, var |-> None, link |-> link, depth |-> level,
   count |-> Len(pdl), catches |-> catchlist, handlers |-> handlerlist,
   quitf |-> FALSE, entered |-> FALSE, cleaned |-> 0]

(* command_loop and command_loop_2: a catch, and a handler for everything. *)
Loop(kind, what, catches) ==
  [kind |-> kind, what |-> what, var |-> None, link |-> 0, depth |-> 0, count |-> 0,
   catches |-> catches, handlers |-> <<>>, quitf |-> FALSE, entered |-> FALSE, cleaned |-> 0]
Base == <<Loop("catch", TopLevel, <<>>), Loop("command", None, <<1>>)>>

Init ==
  /\ stack = Base /\ catchlist = <<1, 2>> /\ handlerlist = <<2>>
  /\ pdl = <<>> /\ depth = 0 /\ value \in [Vars -> Values] /\ quit = FALSE

-----------------------------------------------------------------------------
(* unbind_to starts: it notes whether a quit is pending, and only then clears  *)
(* Vquit_flag (HideQuit).                                                     *)
UnbindFrom(frames, count, goal, pending) ==
  /\ stack' = Append(frames, [Frame("unbind", None, goal, depth)
                                EXCEPT !.count = count, !.quitf = pending, !.entered = TRUE])
  /\ quit' = pending

(* unwind_to_catch, entered LEVEL calls deep *)
UnwindToCatch(goal, level, pending) ==
  /\ UnbindFrom(stack, stack[Innermost(catchlist)].count, goal, pending)
  /\ depth' = level
  /\ UNCHANGED <<pdl, catchlist, handlerlist, value>>

(* signal: the innermost handler that wants the condition; the command loop's *)
(* wants them all.                                                            *)
Signal(condition, level, pending) ==
  LET Wants(h) == stack[h].kind = "command" \/ stack[h].what = condition
  IN UnwindToCatch(Max({h \in ToSet(handlerlist) : Wants(h)}), level, pending)

Running == Top.kind \notin {"unbind", "jumped"}
QuitP == quit /\ value[InhibitQuit] = Nil

(* Feval: the checks before each form.  (QUIT clears the flag before it       *)
(* signals; a C-g may set it again before unbind_to looks.)                   *)
EvalQuit ==
  /\ Running /\ QuitP
  /\ \E again \in BOOLEAN : Signal("quit", depth, again)

EvalTooDeep ==
  /\ Running /\ ~QuitP /\ depth >= MaxDepth
  /\ Signal("error", depth + 1, quit)

Evaluates == Running /\ ~QuitP /\ depth < MaxDepth

Setq(v, val) ==
  /\ Evaluates
  /\ value' = [value EXCEPT ![v] = val]
  /\ UNCHANGED <<stack, pdl, catchlist, handlerlist, depth, quit>>

(* grow_specpdl has no more room. *)
EvalPdlFull ==
  /\ Evaluates /\ Len(pdl) >= MaxPdl
  /\ Signal("error", depth + 1, quit)

(* Variants: room is found in the slot after the last; the new value is saved *)
(* in place of the old one.                                                   *)
LetPastEnd(v, val) ==
  /\ Evaluates /\ Len(pdl) <= MaxPdl
  /\ stack' = Append(stack, Frame("let", None, 0, depth + 1)) /\ depth' = depth + 1
  /\ pdl' = Append(pdl, [var |-> v, old |-> value[v], owner |-> 0])
  /\ value' = [value EXCEPT ![v] = val]
  /\ UNCHANGED <<catchlist, handlerlist, quit>>

LetSavesNew(v, val) ==
  /\ Evaluates /\ Len(pdl) < MaxPdl
  /\ stack' = Append(stack, Frame("let", None, 0, depth + 1)) /\ depth' = depth + 1
  /\ pdl' = Append(pdl, [var |-> v, old |-> val, owner |-> 0])
  /\ value' = [value EXCEPT ![v] = val]
  /\ UNCHANGED <<catchlist, handlerlist, quit>>

Let(v, val) ==
  /\ Evaluates /\ Len(pdl) < MaxPdl
  /\ stack' = Append(stack, Frame("let", None, 0, depth + 1)) /\ depth' = depth + 1
  /\ pdl' = Append(pdl, [var |-> v, old |-> value[v], owner |-> 0])
  /\ value' = [value EXCEPT ![v] = val]
  /\ UNCHANGED <<catchlist, handlerlist, quit>>

UnwindProtect ==
  /\ Evaluates /\ Len(pdl) < MaxPdl
  /\ stack' = Append(stack, Frame("protect", None, 0, depth + 1)) /\ depth' = depth + 1
  /\ pdl' = Append(pdl, [var |-> None, old |-> Nil, owner |-> Len(stack) + 1])
  /\ UNCHANGED <<catchlist, handlerlist, value, quit>>

Catch(tag) ==
  /\ Evaluates
  /\ stack' = Append(stack, Frame("catch", tag, 0, depth + 1)) /\ depth' = depth + 1
  /\ catchlist' = Append(catchlist, Len(stack) + 1)
  /\ UNCHANGED <<pdl, handlerlist, value, quit>>

ConditionCase(condition, v) ==
  /\ Evaluates
  /\ stack' = Append(stack, [Frame("condition", condition, 0, depth + 1) EXCEPT !.var = v])
  /\ depth' = depth + 1
  /\ catchlist' = Append(catchlist, Len(stack) + 1)
  /\ handlerlist' = Append(handlerlist, Len(stack) + 1)
  /\ UNCHANGED <<pdl, value, quit>>

EvalSignal(condition) ==
  /\ Evaluates
  /\ Signal(condition, depth + 1, quit)

(* throw: to the innermost catch of the tag, or signals no-catch. *)
Throw(tag) ==
  /\ Evaluates
  /\ LET catches == {c \in ToSet(catchlist) : stack[c].kind = "catch" /\ stack[c].what = tag}
     IN IF catches = {} THEN Signal("error", depth + 1, quit)
        ELSE UnwindToCatch(Max(catches), depth + 1, quit)

-----------------------------------------------------------------------------
(* The body of a form is done. *)
ReturnUnbinding ==
  /\ Top.kind \in {"let", "protect", "handler"}
  /\ UnbindFrom(stack, Top.count, 0, quit)
  /\ UNCHANGED <<pdl, catchlist, handlerlist, depth, value>>

ReturnCatch ==
  /\ Top.kind \in {"catch", "condition"}
  /\ catchlist' = Top.catches /\ handlerlist' = Top.handlers
  /\ stack' = Without(stack) /\ depth' = depth - 1
  /\ UNCHANGED <<pdl, value, quit>>

ReturnForms ==
  /\ Top.kind = "forms"
  /\ stack' = Without(stack)
  /\ UNCHANGED <<pdl, catchlist, handlerlist, depth, value, quit>>

(* From now on the quit that was pending is known to unbind_to alone. *)
HideQuit ==
  /\ Top.kind = "unbind" /\ Top.entered
  /\ stack' = [stack EXCEPT ![Len(stack)].entered = FALSE]
  /\ quit' = FALSE
  /\ UNCHANGED <<pdl, catchlist, handlerlist, depth, value>>

(* The loop of unbind_to, until specpdl is down to the count. *)
Unbinds == Top.kind = "unbind" /\ ~Top.entered /\ Len(pdl) > Top.count

UnbindVariable ==
  /\ Unbinds /\ Innermost(pdl).owner = 0
  /\ value' = [value EXCEPT ![Innermost(pdl).var] = Innermost(pdl).old]
  /\ pdl' = Without(pdl)
  /\ UNCHANGED <<stack, catchlist, handlerlist, depth, quit>>

RunForms ==
  /\ Unbinds /\ Innermost(pdl).owner # 0
  /\ LET owner == Innermost(pdl).owner IN
       stack' = Append([stack EXCEPT ![owner].cleaned = @ + 1], Frame("forms", None, owner, depth))
  /\ pdl' = Without(pdl)
  /\ UNCHANGED <<catchlist, handlerlist, depth, value, quit>>

Unbound == Top.kind = "unbind" /\ ~Top.entered /\ Len(pdl) = Top.count
PendingQuit == quit \/ Top.quitf

(* Variant: what was pending at the start is forgotten. *)
UnboundReturnForgets ==
  /\ Unbound /\ Top.link = 0
  /\ stack' = Without(Without(stack)) /\ depth' = depth - 1
  /\ UNCHANGED <<pdl, catchlist, handlerlist, value, quit>>

UnboundReturn ==
  /\ Unbound /\ Top.link = 0
  /\ quit' = PendingQuit
  /\ stack' = Without(Without(stack)) /\ depth' = depth - 1
  /\ UNCHANGED <<pdl, catchlist, handlerlist, value>>

(* Variant: specpdl is unwound for the innermost catch only.                    *)
UnboundNextOnce ==
  /\ Unbound /\ Top.link # 0 /\ Innermost(catchlist) # Top.link
  /\ handlerlist' = stack[Innermost(catchlist)].handlers
  /\ catchlist' = Without(catchlist)
  /\ UNCHANGED <<stack, pdl, depth, value, quit>>

(* unwind_to_catch: out of a catch that is not the one thrown to *)
UnboundNext ==
  /\ Unbound /\ Top.link # 0 /\ Innermost(catchlist) # Top.link
  /\ handlerlist' = stack[Innermost(catchlist)].handlers
  /\ catchlist' = Without(catchlist)
  /\ stack' = [stack EXCEPT ![Len(stack)].count = stack[Innermost(catchlist')].count,
                            ![Len(stack)].quitf = PendingQuit, ![Len(stack)].entered = TRUE]
  /\ quit' = PendingQuit
  /\ UNCHANGED <<pdl, depth, value>>

Arrived(kind) == Unbound /\ Innermost(catchlist) = Top.link /\ stack[Top.link].kind = kind

(* longjmp to a catch, which returns; the outermost is entered again. *)
ArriveAtCatch ==
  /\ Arrived("catch")
  /\ LET c == stack[Top.link] IN
     IF Top.link = 1
     THEN stack' = Base /\ catchlist' = <<1, 2>> /\ handlerlist' = <<2>> /\ depth' = 0
     ELSE /\ stack' = SubSeq(stack, 1, Top.link - 1)
          /\ catchlist' = Without(catchlist) /\ handlerlist' = c.handlers /\ depth' = c.depth - 1
  /\ quit' = PendingQuit
  /\ UNCHANGED <<pdl, value>>

(* Variant: lisp_eval_depth is not restored. *)
ArriveAtHandlerDeep ==
  /\ Arrived("condition")
  /\ LET c == stack[Top.link] IN
       /\ stack' = Append(SubSeq(stack, 1, Top.link - 1),
                          [c EXCEPT !.kind = IF c.var = None THEN "handler" ELSE "jumped"])
       /\ catchlist' = Without(catchlist) /\ handlerlist' = c.handlers
  /\ quit' = PendingQuit
  /\ UNCHANGED <<pdl, depth, value>>

(* longjmp to a condition-case, which binds its variable and runs the handler *)
ArriveAtHandler ==
  /\ Arrived("condition")
  /\ LET c == stack[Top.link] IN
       /\ stack' = Append(SubSeq(stack, 1, Top.link - 1),
                          [c EXCEPT !.kind = IF c.var = None THEN "handler" ELSE "jumped"])
       /\ catchlist' = Without(catchlist) /\ handlerlist' = c.handlers /\ depth' = c.depth
  /\ quit' = PendingQuit
  /\ UNCHANGED <<pdl, value>>

HandlerBinds(val) ==
  /\ Top.kind = "jumped" /\ Len(pdl) < MaxPdl
  /\ pdl' = Append(pdl, [var |-> Top.var, old |-> value[Top.var], owner |-> 0])
  /\ value' = [value EXCEPT ![Top.var] = val]
  /\ stack' = [stack EXCEPT ![Len(stack)].kind = "handler"]
  /\ UNCHANGED <<catchlist, handlerlist, depth, quit>>

HandlerPdlFull ==
  /\ Top.kind = "jumped" /\ Len(pdl) >= MaxPdl
  /\ Signal("error", depth, quit)

(* longjmp to the command loop: cmd_error, and the loop begins again *)
CmdError ==
  /\ Arrived("command")
  /\ stack' = Base /\ catchlist' = <<1, 2>> /\ handlerlist' = <<2>> /\ depth' = 0
  /\ quit' = FALSE /\ value' = [value EXCEPT ![InhibitQuit] = Nil]
  /\ UNCHANGED pdl

(* SIGINT: the PM process saw C-g. *)
InterruptSignal ==
  /\ ~quit /\ quit' = TRUE
  /\ UNCHANGED <<stack, pdl, catchlist, handlerlist, depth, value>>

Next ==
  \/ EvalQuit \/ EvalTooDeep \/ EvalPdlFull \/ UnwindProtect
  \/ \E v \in Vars, val \in Values : Setq(v, val) \/ Let(v, val)
  \/ \E tag \in Tags : Catch(tag) \/ Throw(tag)
  \/ \E condition \in Conditions : \/ EvalSignal(condition)
                                   \/ \E v \in Vars \cup {None} : ConditionCase(condition, v)
  \/ ReturnUnbinding \/ ReturnCatch \/ ReturnForms
  \/ HideQuit \/ UnbindVariable \/ RunForms \/ UnboundReturn \/ UnboundNext
  \/ ArriveAtCatch \/ ArriveAtHandler \/ HandlerPdlFull \/ CmdError
  \/ \E val \in Values \ {Nil} : HandlerBinds(val)
  \/ InterruptSignal

Spec == Init /\ [][Next]_vars

-----------------------------------------------------------------------------
(* Every variable has its type. *)
TypeOK ==
  /\ \A i \in 1 .. Len(stack) :
       stack[i].kind \in {"catch", "command", "let", "protect", "condition", "jumped",
                          "handler", "unbind", "forms"}
  /\ \A i \in 1 .. Len(pdl) :
       pdl[i].var \in Vars \cup {None} /\ pdl[i].old \in Values /\ pdl[i].owner \in Nat
  /\ Len(pdl) <= MaxPdl /\ depth \in 0 .. MaxDepth + MaxPdl + 1
  /\ value \in [Vars -> Values] /\ quit \in BOOLEAN

(* Whenever Lisp runs in a form, the five stacks are at the form's levels,    *)
(* however the forms inside it were left: nothing of them is bound, caught or *)
(* handled any more, and nothing of this form or those around it is missing.  *)
(* Unwind forms run with the bindings, catches and handlers around their      *)
(* unwind-protect: "Unwind the handler stack as we go, so that the proper     *)
(* handlers are in effect for each unwind-protect clause we run" (eval.c:939). *)
LevelsRestored ==
  LET here == Len(stack)
      Levels(bound, catches, handlers) ==
        /\ depth = Top.depth /\ Len(pdl) = Top.count + bound
        /\ catchlist = Top.catches \o catches /\ handlerlist = Top.handlers \o handlers
  IN CASE Top.kind \in {"let", "protect"} -> Levels(1, <<>>, <<>>)
       [] Top.kind = "catch" -> Levels(0, <<here>>, <<>>)
       [] Top.kind \in {"command", "condition"} -> Levels(0, <<here>>, <<here>>)
       [] Top.kind = "handler" -> Levels(IF Top.var = None THEN 0 ELSE 1, <<>>, <<>>)
       [] Top.kind = "forms" ->
            /\ stack[Top.link].kind = "protect" /\ Len(pdl) = stack[Top.link].count
            /\ catchlist = stack[Top.link].catches
            /\ handlerlist = stack[Top.link].handlers
       [] OTHER -> TRUE

(* When an unwind-protect is left, by a return or by any throw, its forms      *)
(* have been run, and once only, even if other unwind forms threw meanwhile.   *)
CleanupOnce ==
  [][\A i \in 1 .. Len(stack) :
       stack[i].kind = "protect" /\ (i > Len(stack') \/ stack'[i].kind # "protect")
         => stack[i].cleaned = 1]_vars

(* A C-g that waits (because quitting is inhibited, or because unbind_to hides *)
(* it from unwind forms) goes on waiting until Feval signals it or the command  *)
(* loop takes an error for it.  Two steps alone forget it: a throw out of unwind *)
(* forms, and unbind_to when the C-g came after it noted that none was pending.  *)
Waiting(frames) == \E i \in 1 .. Len(frames) : frames[i].kind = "unbind" /\ frames[i].quitf
Forgotten == (quit \/ Waiting(stack)) /\ ~(quit' \/ Waiting(stack'))
QuitKept ==
  [][Forgotten =>
       \/ EvalQuit
       \/ Arrived("command")
       \/ Unbound /\ Top.link # 0 /\ ~Top.quitf /\ Waiting(Without(stack))
       \/ HideQuit /\ ~Top.quitf]_vars

(* Dynamic scope: restoring saved values (shallow binding) gives each binding  *)
(* the value it would keep if bindings were only stacked (deep binding).       *)
BoundOf(p) ==
  LET first[k \in 0 .. Len(p)] ==
        IF k = 0 THEN <<>>
        ELSE IF p[k].owner = 0 THEN Append(first[k - 1], p[k]) ELSE first[k - 1]
  IN first[Len(p)]
Later(b, v, n) == {i \in n + 1 .. Len(b) : b[i].var = v}
Held(b, values, v, n) ==
  IF Later(b, v, n) = {} THEN values[v] ELSE b[Min(Later(b, v, n))].old
Global(b, values) == [v \in Vars |-> Held(b, values, v, 0)]
Stacked(b, values) ==
  [i \in 1 .. Len(b) |-> [var |-> b[i].var, val |-> Held(b, values, b[i].var, i)]]
Deep == INSTANCE DynamicScope WITH
  global <- Global(BoundOf(pdl), value), bindings <- Stacked(BoundOf(pdl), value)
DeepBinding == Deep!Spec

(* "If BODYFORM exits nonlocally, the UNWINDFORMS are executed anyway"         *)
(* (eval.c:999): they are never refused for the depth of what was left.        *)
UnwindFormsRun == [][EvalTooDeep => Top.kind # "forms"]_vars
=============================================================================
