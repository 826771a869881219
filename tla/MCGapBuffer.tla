----------------------------- MODULE MCGapBuffer -----------------------------
(* Small instances of GapBuffer: two characters, which may be exchanged. *)
EXTENDS GapBuffer, TLC

Symmetry == Permutations(Chars)
=============================================================================
