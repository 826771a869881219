----------------------------- MODULE EventQueue -----------------------------
(***************************************************************************)
(* What the readers of keyboard.c expect of its event buffer: a FIFO.      *)
(* An event that cannot be kept is dropped when it arrives, never later;   *)
(* an event that was kept is taken exactly once, in the order of arrival,  *)
(* unless discard-input throws the whole queue away.                       *)
(***************************************************************************)
EXTENDS Sequences

CONSTANT Events

VARIABLES queue,   \* the events kept and not yet taken, oldest first
          taken    \* the event taken last

vars == <<queue, taken>>

Init == queue = <<>> /\ taken = <<>>

Put(e) == queue' = Append(queue, e) /\ UNCHANGED taken

Take == /\ queue # <<>>
        /\ taken' = <<Head(queue)>>
        /\ queue' = Tail(queue)

Clear == queue' = <<>> /\ UNCHANGED taken

Next == (\E e \in Events : Put(e)) \/ Take \/ Clear

Spec == Init /\ [][Next]_vars
=============================================================================
