------------------------------ MODULE MCFat16 ------------------------------
EXTENDS Fat16
MCPaths == {<<"a">>, <<"d">>, <<"d", "a">>, <<"d", "b">>}
MCFiles == {<<"a">>, <<"d", "a">>, <<"d", "b">>}
============================================================================
