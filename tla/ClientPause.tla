----------------------------- MODULE ClientPause -----------------------------
(***************************************************************************)
(* The client's pause calls seen as the abstract pause lock of PauseLock:  *)
(* the container's pause is held by the caller inside the sleep of its     *)
(* PauseContainer call.  The refinement is proved (safety only) in         *)
(* PauseLockProofs; it says, for every number of callers, what the run    *)
(* client_race checks on two as PauseExclusive: a pause passes from one    *)
(* caller to another only through an unpause.                              *)
(***************************************************************************)
EXTENDS Client

CONSTANT NoOne

ASSUME NoOneAssumption == NoOne \notin Callers

(* The refinement mapping: the owner of a paused container.               *)
Holder ==
  [c \in Containers |-> IF ctr[c] = "paused" /\ PauseOwners(c) # {}
                          THEN CHOOSE g \in PauseOwners(c) : TRUE
                          ELSE NoOne]

Lock == INSTANCE PauseLock WITH holder <- Holder
=============================================================================
