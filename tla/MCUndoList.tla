----------------------------- MODULE MCUndoList -----------------------------
(* A small instance of UndoList: the characters of the file differ from those *)
(* inserted, and changes in place make other characters of all of them.       *)
EXTENDS UndoList

MCStrings == {<<"x">>}
MCFile == <<"a">>
MCCase == [c \in {"a", "A", "b", "B", "x", "X"} |->
            CASE c = "a" -> "A" [] c = "b" -> "B" [] c = "x" -> "X"
              [] c = "A" -> "a" [] c = "B" -> "b" [] c = "X" -> "x"]
=============================================================================
