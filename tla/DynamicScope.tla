---------------------------- MODULE DynamicScope ----------------------------
(***************************************************************************)
(* What dynamic scope promises: bindings are stacked, a variable has the   *)
(* value of its innermost binding, an assignment changes that binding and  *)
(* no other, and the end of a binding brings back the one below it.        *)
(***************************************************************************)
EXTENDS Naturals, Sequences

CONSTANTS Vars, Values

VARIABLES
  global,   \* the values of the variables outside all bindings
  bindings  \* the bindings in effect, innermost last

vars == <<global, bindings>>

Of(v) == {i \in 1 .. Len(bindings) : bindings[i].var = v}

Init == global \in [Vars -> Values] /\ bindings = <<>>

Bind(v, val) ==
  /\ bindings' = Append(bindings, [var |-> v, val |-> val])
  /\ UNCHANGED global

Assign(v, val) ==
  IF Of(v) = {}
  THEN global' = [global EXCEPT ![v] = val] /\ UNCHANGED bindings
  ELSE \E i \in Of(v) : /\ \A j \in Of(v) : j <= i
                        /\ bindings' = [bindings EXCEPT ![i].val = val] /\ UNCHANGED global

Unbind ==
  /\ bindings # <<>>
  /\ bindings' = SubSeq(bindings, 1, Len(bindings) - 1)
  /\ UNCHANGED global

Next == (\E v \in Vars, val \in Values : Assign(v, val) \/ Bind(v, val)) \/ Unbind

Spec == Init /\ [][Next]_vars
=============================================================================
