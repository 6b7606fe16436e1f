------------------------------ MODULE PauseLock ------------------------------
(***************************************************************************)
(* What PauseContainer promises (spec 4.3, the transient disruption state  *)
(* machine for Pause): a container's pause is held by one call at a time,  *)
(* from the successful pause to the unpause by that same call.            *)
(***************************************************************************)
CONSTANTS
  Containers,
  Callers,
  NoOne        \* no call holds the container's pause

VARIABLE holder   \* holder[c]: the call whose pause c is in, or NoOne

LockTypeOK == holder \in [Containers -> Callers \cup {NoOne}]

LockInit == holder = [c \in Containers |-> NoOne]

(* A call pauses a container nobody holds (IDLE -> ACTIVE).                *)
Acquire(g, c) ==
  /\ holder[c] = NoOne
  /\ holder' = [holder EXCEPT ![c] = g]

(* The holder unpauses it (REVERTING -> IDLE).                             *)
Release(g, c) ==
  /\ holder[c] = g
  /\ holder' = [holder EXCEPT ![c] = NoOne]

LockNext == \E g \in Callers, c \in Containers : Acquire(g, c) \/ Release(g, c)

LockSpec == LockInit /\ [][LockNext]_holder
=============================================================================
