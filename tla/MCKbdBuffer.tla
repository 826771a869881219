---------------------------- MODULE MCKbdBuffer ----------------------------
(* Small instances of KbdBuffer: a buffer of a few slots and two frames. *)
EXTENDS KbdBuffer, TLC

MCFocus == [f \in Frames |-> f]
Symmetry == Permutations(Frames)
============================================================================
