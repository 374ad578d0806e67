----------------------------- MODULE MCRunResult -----------------------------
EXTENDS RunResult, TLC
\* A file in the session directory, one in a directory of a directory, and one in
\* a hidden directory.
Places == {<<>>, <<"d">>, <<"d", "e">>, <<".h">>}
Hidden == {<<".h">>}
Where == [p \in {1, 2, 3} |-> CASE p = 1 -> <<>> [] p = 2 -> <<"d", "e">> [] OTHER -> <<".h">>]
\* Two contents of different lengths.
Length(d) == IF d = "longer" THEN 2 ELSE 1
Symmetric == Permutations(Inodes)
=============================================================================
