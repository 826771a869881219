-------------------------- MODULE MCLocalVariables --------------------------
(* Small instances of LocalVariables: buffers are alike, and so are frames. *)
EXTENDS LocalVariables, TLC

Symmetry == Permutations(Buffers) \cup Permutations(Values)
=============================================================================
