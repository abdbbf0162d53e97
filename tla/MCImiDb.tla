------------------------------- MODULE MCImiDb --------------------------------
(* Instances of ImiDb.  A file ends with three ends of lines, so a text that    *)
(* is up to three cells shorter than the one before leaves only empty lines     *)
(* behind; the long value makes the difference larger.                          *)
EXTENDS ImiDb

MCFiles == <<"NVM", "RAM">>
MCOneFile == <<"NVM">>
MCKeys == <<"k1">>
MCOneValue == {<<"a">>}
MCDefault == <<"a">>
MCValues == {<<"a">>, <<"w", "h", "i", "t", "e">>}
MCLongValues == {<<"a">>, <<"b">>, <<"f", "a", "i", "l", "e", "d">>}
===============================================================================
