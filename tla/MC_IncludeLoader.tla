------------------------ MODULE MC_IncludeLoader ------------------------
EXTENDS IncludeLoader

\* a.yml at the top of the configuration directory, b.yml in sub/.
MC_Files == {<<"a">>, <<"sub", "b">>}
MC_Root == <<"a">>
MC_Keys == {"k", "v"}
MC_KeyOrder == <<"k", "v">>
MC_IncludeKeys == {"k"}
\* 'a', 'b', 'sub/b' and '../a': each names an existing file from one of
\* the two directories and a missing one from the other.
MC_Refs == {<<"a">>, <<"b">>, <<"sub", "b">>, <<"..", "a">>}
\* '#', '#/k', '#/v' and '#/k/v'.
MC_Fragments == {<<"">>, <<"", "k">>, <<"", "v">>, <<"", "k", "v">>}
=============================================================================
