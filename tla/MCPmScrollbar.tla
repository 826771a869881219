--------------------------- MODULE MCPmScrollbar ---------------------------
(* Small instances of PmScrollbar: two or three windows of one frame. *)
EXTENDS PmScrollbar, TLC

OneFrame == [w \in Windows |-> CHOOSE f \in Frames : TRUE]
Symmetry == Permutations(Windows)
============================================================================
