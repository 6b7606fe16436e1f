----------------------------- MODULE MC_Selector -----------------------------
(* Characters and container names for checking the selector with TLC.     *)
EXTENDS Selector, TLC

MCAlphabet == {"r", "e", "2", ":", "x"}
MCCtrNames == {<<"x">>, <<"x", "e">>, <<"r", "e", "x">>}
=============================================================================
