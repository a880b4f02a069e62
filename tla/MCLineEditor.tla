--------------------------- MODULE MCLineEditor ---------------------------
(* A prompt with lines of four characters and a history of two lines.      *)
EXTENDS LineEditor

MCCommandNames == <<<<"r">>, <<"r", "u">>, <<"u">>>>
MCArgCommands == {<<"r">>}
MCPrograms == <<<<"u">>, <<"u", "u">>>>
MCBeyond == {<< >>, <<"r", "r">>}
=============================================================================
