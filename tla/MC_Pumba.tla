------------------------------ MODULE MC_Pumba ------------------------------
(* Instances of one pumba invocation for TLC.                              *)
EXTENDS Pumba, TLC

CONSTANTS c1, c2

(* Two containers, the second started with --rm.                          *)
MCContainers == {c1, c2}
MCAutoRemove == {c2}
(* The cycle goroutines are the client's callers.                         *)
MCCallers == 1..MaxCycles
=============================================================================
