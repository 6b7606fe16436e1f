---------------------------- MODULE MC_Validation ----------------------------
(* Small input domains for checking the command surface with TLC.         *)
EXTENDS Validation, TLC

MCDurValues == {-1, 0, 1, 2}
MCIfChars == {"e", "0", ";"}
MCInts == {-1, 1, 100, 101}
=============================================================================
