---------------------------- MODULE MCSessionFiles ----------------------------
EXTENDS SessionFiles, TLC
Symmetric == Permutations(SubDirs)
\* An empty component first is a leading slash.
Written ==
  UNION {[1..k -> {"a", "..", ""}] : k \in 1..2}
    \cup ([1..3 -> {"a", ".."}] \ {<<"a", "a", "a">>})
    \cup {<<".">>, <<"NUL">>, <<"a", "NUL">>, <<".", "a">>, <<"a", ".", "..">>}
    \cup {<<"", "", "a">>, <<"a", "", "b">>, <<"a", "b", "a">>}
\* Open; listed but not searched; searched, not listed and nothing created in it.
ModesUsed == {Full, {"r"}, {"x"}}
=============================================================================
