------------------------------ MODULE MC_Client ------------------------------
(* Instances of the runtime client for TLC.                                *)
EXTENDS ClientPause, TLC

CONSTANTS c1, c2, g1, g2

(* Two containers, one of them started with --rm; two concurrent callers.  *)
MCContainers == {c1, c2}
MCCallers == {g1, g2}
MCAutoRemove == {c2}
(* Callers are interchangeable.                                            *)
CallerSymmetry == Permutations(MCCallers)
=============================================================================
