------------------------------ MODULE MCUpload ------------------------------
EXTENDS Upload
\* Two names; a directory, or a file, at either, and one file below the first.
Tree == {<<>>, <<"a">>, <<"b">>, <<"a", "b">>}
=============================================================================
