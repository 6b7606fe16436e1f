--------------------------- MODULE PauseLockProofs ---------------------------
(***************************************************************************)
(* The pause calls of the client implement the abstract pause lock: every *)
(* step of Next is, under the refinement mapping Holder, an Acquire, a     *)
(* Release or a stutter of PauseLock, for every number of containers and  *)
(* callers.  The argument rests on the inductive invariant PauseIInv of   *)
(* ClientProofs: while the owners of a container's pause are kept, so is  *)
(* its holder, and only PauseContainer and UnpauseContainer change them.  *)
(***************************************************************************)
EXTENDS ClientProofs, ClientPause

(* The holder of a paused container is its unique pause owner, and no one *)
(* holds a container without owner.                                        *)
LEMMA HolderOfOwner ==
  ASSUME PauseIInv, NEW c \in Containers
  PROVE /\ PauseOwners(c) = {} => Holder[c] = NoOne
        /\ \A g \in PauseOwners(c) : Holder[c] = g
<1>1. PauseOwners(c) = {} => Holder[c] = NoOne
  BY DEF Holder
<1>2. ASSUME NEW g \in PauseOwners(c) PROVE Holder[c] = g
  <2>1. ctr[c] = "paused"
    BY DEF PauseIInv, OwnerHoldsPause, PauseOwners
  <2>2. \A h \in PauseOwners(c) : h = g
    BY DEF PauseIInv, PauseExclusive
  <2>3. QED
    BY <2>1, <2>2 DEF Holder
<1>3. QED
  BY <1>1, <1>2

(* The same, in the state after a step.                                    *)
LEMMA HolderOfOwnerNext ==
  ASSUME PauseIInv', NEW c \in Containers
  PROVE /\ PauseOwners(c)' = {} => Holder'[c] = NoOne
        /\ \A g \in PauseOwners(c)' : Holder'[c] = g
<1>1. PauseOwners(c)' = {} => Holder'[c] = NoOne
  BY DEF Holder
<1>2. ASSUME NEW g \in PauseOwners(c)' PROVE Holder'[c] = g
  <2>1. ctr'[c] = "paused"
    BY DEF PauseIInv, OwnerHoldsPause, PauseOwners
  <2>2. \A h \in PauseOwners(c)' : h = g
    BY DEF PauseIInv, PauseExclusive
  <2>3. QED
    BY <2>1, <2>2 DEF Holder
<1>3. QED
  BY <1>1, <1>2

(* Holder is a function on the containers, before and after a step.      *)
LEMMA HolderFcn ==
  /\ Holder = [c \in Containers |-> Holder[c]]
  /\ Holder' = [c \in Containers |-> Holder'[c]]
  BY DEF Holder

(* A container whose owners a step keeps keeps its holder.               *)
LEMMA HolderKept ==
  ASSUME PauseIInv, PauseIInv', NEW c \in Containers,
         PauseOwners(c)' = PauseOwners(c)
  PROVE Holder'[c] = Holder[c]
<1>1. CASE PauseOwners(c) = {}
  BY <1>1, HolderOfOwner, HolderOfOwnerNext
<1>2. CASE PauseOwners(c) # {}
  <2>1. PICK g \in PauseOwners(c) : TRUE
    BY <1>2
  <2>2. QED
    BY <2>1, HolderOfOwner, HolderOfOwnerNext
<1>3. QED
  BY <1>1, <1>2

(* Every step of the client maps to a step of the pause lock: a pause that *)
(* succeeds is an Acquire, an unpause a Release, and every other step     *)
(* leaves the owners, hence the holders, alone.                           *)
LEMMA RefineStep == PauseIInv /\ [Next]_vars => [Lock!LockNext]_Holder
<1> SUFFICES ASSUME PauseIInv, [Next]_vars PROVE [Lock!LockNext]_Holder
  OBVIOUS
<1> USE ClientAssumption, NoOneAssumption
<1>0. /\ TypeOK /\ PauseIInv'
      /\ \A g \in Callers : call[g].c \in Containers
  BY PauseStep DEF PauseIInv, TypeOK, Calls
<1> DEFINE Kept == \A c \in Containers : PauseOwners(c)' = PauseOwners(c)
           Others(g) == \A h \in Callers \ {g} : pc'[h] = pc[h] /\ call'[h] = call[h]
<1>1. Kept => UNCHANGED Holder
  <2> SUFFICES ASSUME Kept PROVE \A c \in Containers : Holder'[c] = Holder[c]
    BY DEF Holder
  <2> QED
    BY <1>0, HolderKept
(* A step of caller g that neither enters nor leaves the pause window.    *)
<1>2. ASSUME NEW g \in Callers, Others(g), pc[g] # "unpause", pc'[g] # "unpause"
      PROVE Kept
  BY <1>2 DEF PauseOwners
<1>3. ASSUME NEW g \in Callers, Call(g) PROVE Kept
  <2>1. PICK o \in Ops, t \in Containers, filter \in Filters :
          pc' = [pc EXCEPT ![g] = CASE o = "netem" /\ filter -> "nt_prio"
                                    [] o = "netem"           -> "nt_add"
                                    [] OTHER                 -> o]
    BY <1>3 DEF Call
  <2>2. pc'[g] # "unpause" /\ pc[g] = "idle"
    BY <1>3, <2>1, <1>0 DEF Call, TypeOK, AllOps
  <2>3. Others(g)
    BY <1>3, <1>0 DEF Call, TypeOK
  <2>4. QED
    BY <2>2, <2>3, <1>2
<1>4. ASSUME NEW g \in Callers,
             \/ KillContainer(g) \/ StopSignal(g) \/ StopKill(g) \/ StopWait(g)
             \/ RemoveContainer(g)
      PROVE Kept
  <2>1. pc[g] \in {"kill", "stop", "stop_kill", "stop_wait", "rm"}
    BY <1>4 DEF KillContainer, StopSignal, StopKill, StopWait, RemoveContainer
  <2>2. pc'[g] \in {"ret", "stop_kill", "stop_wait"} /\ Others(g)
    BY <1>4, <1>0 DEF KillContainer, StopSignal, StopKill, StopWait,
                      RemoveContainer, Return, Goto, TypeOK
  <2>3. QED
    BY <2>1, <2>2, <1>2
<1>5. ASSUME NEW g \in Callers,
             \/ StartNetem(g) \/ StartNetemPrio(g) \/ StartNetemChild(g)
             \/ StartNetemFilter(g) \/ StopNetem(g)
      PROVE Kept
  <2>1. pc[g] \in NetemLabels
    BY <1>5 DEF StartNetem, StartNetemPrio, StartNetemChild, StartNetemFilter,
                StopNetem, NetemLabels
  <2>2. pc'[g] # "unpause" /\ Others(g)
    BY <1>5, <1>0 DEF StartNetem, StartNetemPrio, StartNetemChild,
                      StartNetemFilter, StopNetem, ExecOnContainer, Return,
                      Goto, TypeOK
  <2>3. QED
    BY <2>1, <2>2, <1>2 DEF NetemLabels
<1>6. ASSUME Environment \/ Finished \/ UNCHANGED vars PROVE Kept
  <2>1. UNCHANGED <<pc, call>>
    BY <1>6 DEF Environment, TcRun, Exit, AutoRemoveStep, Terminate, Finished,
                vars, callers
  <2>2. QED
    BY <2>1 DEF PauseOwners
<1>7. ASSUME NEW g \in Callers, PauseContainer(g) PROVE [Lock!LockNext]_Holder
  <2> DEFINE c == call[g].c
  <2>1. Others(g) /\ UNCHANGED call /\ pc[g] = "pause"
    BY <1>7, <1>0 DEF PauseContainer, Return, Goto, TypeOK
  <2>2. CASE ~DryRun /\ ctr[c] = "running"
    <3>1. pc'[g] = "unpause"
      BY <1>7, <2>2, <1>0 DEF PauseContainer, Return, Goto, TypeOK
    <3>2. PauseOwners(c) = {}
      BY <2>2 DEF PauseIInv, OwnerHoldsPause, PauseOwners
    <3>3. g \in PauseOwners(c)'
      BY <2>1, <3>1 DEF PauseOwners
    <3>4. \A d \in Containers \ {c} : PauseOwners(d)' = PauseOwners(d)
      BY <2>1, <3>1 DEF PauseOwners
    <3>5. Holder[c] = NoOne
      BY <3>2, <1>0, HolderOfOwner
    <3>6. Holder'[c] = g
      BY <3>3, <2>1, <1>0, HolderOfOwnerNext
    <3>7. \A d \in Containers \ {c} : Holder'[d] = Holder[d]
      BY <3>4, <1>0, HolderKept
    <3>8. Holder' = [Holder EXCEPT ![c] = g]
      BY <3>6, <3>7, <1>0, HolderFcn
    <3>9. Lock!Acquire(g, c)
      BY <3>5, <3>8 DEF Lock!Acquire
    <3>10. QED
      BY <3>9, <1>0 DEF Lock!LockNext
  <2>3. CASE ~(~DryRun /\ ctr[c] = "running")
    <3>1. pc'[g] = "ret"
      BY <1>7, <2>3, <1>0 DEF PauseContainer, Return, Goto, TypeOK
    <3>2. QED
      BY <2>1, <3>1, <1>2, <1>1
  <2>4. QED
    BY <2>2, <2>3
<1>8. ASSUME NEW g \in Callers, UnpauseContainer(g) PROVE [Lock!LockNext]_Holder
  <2> DEFINE c == call[g].c
  <2>1. Others(g) /\ UNCHANGED call /\ pc[g] = "unpause" /\ pc'[g] = "ret"
    BY <1>8, <1>0 DEF UnpauseContainer, Return, TypeOK
  <2>2. g \in PauseOwners(c)
    BY <2>1, <1>0 DEF PauseOwners
  <2>3. PauseOwners(c)' = {}
    BY <2>1, <2>2, <1>0 DEF PauseIInv, PauseExclusive, PauseOwners
  <2>4. \A d \in Containers \ {c} : PauseOwners(d)' = PauseOwners(d)
    BY <2>1 DEF PauseOwners
  <2>5. Holder[c] = g
    BY <2>2, <1>0, HolderOfOwner
  <2>6. Holder'[c] = NoOne
    BY <2>3, <2>1, <1>0, HolderOfOwnerNext
  <2>7. \A d \in Containers \ {c} : Holder'[d] = Holder[d]
    BY <2>4, <1>0, HolderKept
  <2>8. Holder' = [Holder EXCEPT ![c] = NoOne]
    BY <2>6, <2>7, <1>0, HolderFcn
  <2>9. Lock!Release(g, c)
    BY <2>5, <2>8 DEF Lock!Release
  <2>10. QED
    BY <2>9, <1>0 DEF Lock!LockNext
<1>9. QED
  BY <1>1, <1>3, <1>4, <1>5, <1>6, <1>7, <1>8 DEF Next, ClientStep

(* The client's pause calls implement the pause lock for every set of    *)
(* containers and callers: a container's pause is taken only when nobody  *)
(* holds it and given up only by its holder (PauseExclusive of the run    *)
(* client_race, stated as a refinement).                                   *)
THEOREM PauseLockSafety == Spec => Lock!LockInit /\ [][Lock!LockNext]_Holder
<1>1. Init => PauseIInv
  BY ClientAssumption DEF Init, DaemonInit, PauseIInv, TypeOK, NoCall, Calls,
     Labels, CtrStates, Qdiscs, OwnerHoldsPause, PauseExclusive, PauseOwners
<1>2. Init => Lock!LockInit
  BY DEF Init, Lock!LockInit, Holder, PauseOwners
<1>3. QED
  BY <1>1, <1>2, PauseStep, RefineStep, PTL DEF Spec
=============================================================================
