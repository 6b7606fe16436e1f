---------------------------- MODULE ClientProofs ----------------------------
(***************************************************************************)
(* Proofs about the runtime client: its type invariant, and pause          *)
(* exclusivity for every number of containers and callers.                 *)
(***************************************************************************)
EXTENDS Client, TLAPS

(* A caller inside its pause window holds its container paused: nothing   *)
(* but that caller's UnpauseContainer moves a paused container.            *)
OwnerHoldsPause ==
  \A g \in Callers : pc[g] = "unpause" => ctr[call[g].c] = "paused"

(* The inductive strengthening of PauseExclusive.                         *)
PauseIInv == TypeOK /\ OwnerHoldsPause /\ PauseExclusive

(* The two halves of TypeOK: the daemon's state and the callers'.         *)
DaemonOK ==
  /\ ctr \in [Containers -> CtrStates]
  /\ dying \in [Containers -> BOOLEAN]
  /\ qd \in [Containers -> Qdiscs]
  /\ pending \in [Containers -> SUBSET (Callers \X TcCmds)]
  /\ vols \in [Containers -> BOOLEAN]
CallersOK ==
  /\ pc \in [Callers -> Labels]
  /\ call \in [Callers -> Calls]
  /\ res \in [Callers -> {"none", "ok", "err"}]

(* The building blocks of the steps keep their half of the type.         *)
LEMMA TerminateType ==
  ASSUME DaemonOK, NEW c \in Containers, Terminate(c) PROVE DaemonOK'
  BY DEF DaemonOK, Terminate, CtrStates, Qdiscs

LEMMA SignalType ==
  ASSUME DaemonOK, NEW c \in Containers, NEW fatal \in BOOLEAN, Signal(c, fatal)
  PROVE DaemonOK'
  <1>1. CASE fatal
    BY <1>1, TerminateType DEF Signal
  <1>2. CASE ~fatal
    BY <1>2 DEF Signal, DaemonOK
  <1>3. QED
    BY <1>1, <1>2

LEMMA ReturnType ==
  ASSUME CallersOK, NEW g \in Callers, NEW r \in {"none", "ok", "err"},
         Return(g, r)
  PROVE CallersOK'
  BY DEF CallersOK, Return, Labels

LEMMA GotoType ==
  ASSUME CallersOK, NEW g \in Callers, NEW l \in Labels, Goto(g, l)
  PROVE CallersOK'
  BY DEF CallersOK, Goto

LEMMA ExecType ==
  ASSUME DaemonOK, CallersOK, NEW g \in Callers, NEW cmd \in TcCmds,
         NEW l \in Labels, call[g].c \in Containers,
         ExecOnContainer(g, cmd, Goto(g, l)) \/ ExecOnContainer(g, cmd, Return(g, "ok"))
  PROVE DaemonOK' /\ CallersOK'
  <1>1. CASE ctr[call[g].c] = "running"
    <2>1. DaemonOK'
      BY <1>1 DEF ExecOnContainer, DaemonOK
    <2>2. CallersOK'
      BY <1>1, GotoType, ReturnType DEF ExecOnContainer
    <2>3. QED
      BY <2>1, <2>2
  <1>2. CASE ctr[call[g].c] # "running"
    BY <1>2, ReturnType DEF ExecOnContainer, daemon, DaemonOK
  <1>3. QED
    BY <1>1, <1>2

(* The client's state keeps its type: every step of Next maps TypeOK      *)
(* states to TypeOK states.                                                *)
LEMMA TypeStep == TypeOK /\ [Next]_vars => TypeOK'
<1> SUFFICES ASSUME DaemonOK, CallersOK, [Next]_vars PROVE DaemonOK' /\ CallersOK'
  BY DEF TypeOK, DaemonOK, CallersOK
<1> USE ClientAssumption
<1>0. \A g \in Callers : call[g].c \in Containers /\ call[g].fatal \in BOOLEAN
  BY DEF CallersOK, Calls
<1>1. ASSUME NEW g \in Callers, Call(g) PROVE DaemonOK' /\ CallersOK'
  <2>1. PICK o \in Ops, c \in Containers, fatal, force, links, volumes \in BOOLEAN,
             filter \in Filters :
          /\ call' = [call EXCEPT ![g] =
                        [op |-> o, c |-> c,
                         fatal |-> o = "kill" /\ fatal,
                         filter |-> o = "netem" /\ filter,
                         force |-> o = "rm" /\ force,
                         links |-> o = "rm" /\ links,
                         volumes |-> o = "rm" /\ volumes]]
          /\ pc' = [pc EXCEPT ![g] =
                      CASE o = "netem" /\ filter -> "nt_prio"
                        [] o = "netem"           -> "nt_add"
                        [] OTHER                 -> o]
    BY <1>1 DEF Call
  <2>2. (CASE o = "netem" /\ filter -> "nt_prio"
           [] o = "netem"           -> "nt_add"
           [] OTHER                 -> o) \in Labels
    BY DEF Labels, AllOps
  <2>3. call' \in [Callers -> Calls]
    BY <2>1 DEF CallersOK, Calls, AllOps
  <2>4. QED
    BY <1>1, <2>1, <2>2, <2>3 DEF Call, CallersOK, DaemonOK, daemon
<1>2. ASSUME NEW g \in Callers, KillContainer(g) PROVE DaemonOK' /\ CallersOK'
  <2>1. CASE UNCHANGED daemon /\ (Return(g, "ok") \/ Return(g, "err"))
    BY <2>1, ReturnType DEF DaemonOK, daemon
  <2>2. CASE Signal(call[g].c, call[g].fatal) /\ Return(g, "ok")
    BY <2>2, <1>0, ReturnType, SignalType
  <2>3. QED
    BY <1>2, <2>1, <2>2 DEF KillContainer
<1>3. ASSUME NEW g \in Callers, StopSignal(g) PROVE DaemonOK' /\ CallersOK'
  <2>1. CASE UNCHANGED daemon /\ (Return(g, "ok") \/ Return(g, "err"))
    BY <2>1, ReturnType DEF DaemonOK, daemon
  <2>2. CASE Signal(call[g].c, FALSE) /\ Goto(g, "stop_kill")
    BY <2>2, <1>0, GotoType, SignalType DEF Labels
  <2>3. QED
    BY <1>3, <2>1, <2>2 DEF StopSignal
<1>4. ASSUME NEW g \in Callers, StopKill(g) PROVE DaemonOK' /\ CallersOK'
  <2>1. CASE UNCHANGED daemon /\ Return(g, "err")
    BY <2>1, ReturnType DEF DaemonOK, daemon
  <2>2. CASE Terminate(call[g].c) /\ Goto(g, "stop_wait")
    BY <2>2, <1>0, GotoType, TerminateType DEF Labels
  <2>3. QED
    BY <1>4, <2>1, <2>2 DEF StopKill
<1>5. ASSUME NEW g \in Callers, StopWait(g) PROVE DaemonOK' /\ CallersOK'
  BY <1>5, ReturnType DEF StopWait, DaemonOK, daemon
<1>6. ASSUME NEW g \in Callers, PauseContainer(g) \/ UnpauseContainer(g)
      PROVE DaemonOK' /\ CallersOK'
  <2>1. DaemonOK'
    BY <1>0, <1>6 DEF PauseContainer, UnpauseContainer, DaemonOK, CtrStates
  <2>2. CallersOK'
    BY <1>6, ReturnType, GotoType DEF PauseContainer, UnpauseContainer, Labels
  <2>3. QED
    BY <2>1, <2>2
<1>8. ASSUME NEW g \in Callers, RemoveContainer(g) PROVE DaemonOK' /\ CallersOK'
  <2>1. CASE UNCHANGED daemon /\ (Return(g, "ok") \/ Return(g, "err"))
    BY <2>1, ReturnType DEF DaemonOK, daemon
  <2>2. CASE /\ ctr' = [ctr EXCEPT ![call[g].c] = "removed"]
             /\ dying' = [dying EXCEPT ![call[g].c] = FALSE]
             /\ qd' = [qd EXCEPT ![call[g].c] = "none"]
             /\ pending' = [pending EXCEPT ![call[g].c] = {}]
             /\ vols' = [vols EXCEPT ![call[g].c] = @ /\ ~RemoveOpts(g).RemoveVolumes]
             /\ Return(g, "ok")
    BY <2>2, <1>0, ReturnType DEF DaemonOK, CtrStates, Qdiscs
  <2>3. QED
    BY <1>8, <2>1, <2>2 DEF RemoveContainer
<1>9. ASSUME NEW g \in Callers,
             \/ StartNetem(g) \/ StartNetemPrio(g) \/ StartNetemChild(g)
             \/ StartNetemFilter(g) \/ StopNetem(g)
      PROVE DaemonOK' /\ CallersOK'
  <2>1. CASE DryRun /\ (Goto(g, "nt_del") \/ Return(g, "ok")) /\ UNCHANGED daemon
    BY <2>1, GotoType, ReturnType DEF DaemonOK, daemon, Labels
  <2>2. CASE \E cmd \in TcCmds, l \in Labels :
               \/ ExecOnContainer(g, cmd, Goto(g, l))
               \/ ExecOnContainer(g, cmd, Return(g, "ok"))
    BY <2>2, <1>0, ExecType
  <2>3. QED
    BY <1>9, <2>1, <2>2 DEF StartNetem, StartNetemPrio, StartNetemChild,
                           StartNetemFilter, StopNetem, TcCmds, Labels
<1>10. ASSUME NEW c \in Containers, TcRun(c) PROVE DaemonOK' /\ CallersOK'
  <2>1. PICK x \in pending[c] :
          /\ pending' = [pending EXCEPT ![c] = @ \ {x}]
          /\ qd' = [qd EXCEPT ![c] = TcEffect(@, x[2])]
    BY <1>10 DEF TcRun
  <2>2. TcEffect(qd[c], x[2]) \in Qdiscs
    BY DEF TcEffect, Qdiscs, DaemonOK
  <2>3. QED
    BY <1>10, <2>1, <2>2 DEF TcRun, DaemonOK, CallersOK, callers
<1>11. ASSUME NEW c \in Containers, Exit(c) \/ AutoRemoveStep(c)
       PROVE DaemonOK' /\ CallersOK'
  <2>1. CASE Exit(c)
    BY <2>1, TerminateType DEF Exit, CallersOK, callers
  <2>2. CASE AutoRemoveStep(c)
    BY <2>2 DEF AutoRemoveStep, DaemonOK, CallersOK, callers, CtrStates
  <2>3. QED
    BY <1>11, <2>1, <2>2
<1>12. CASE Finished \/ UNCHANGED vars
  BY <1>12 DEF Finished, DaemonOK, CallersOK, vars, daemon, callers
<1>13. QED
  BY <1>1, <1>2, <1>3, <1>4, <1>5, <1>6, <1>8, <1>9, <1>10, <1>11,
     <1>12 DEF Next, ClientStep, Environment

(* Type correctness of the client specification.                         *)
THEOREM TypeCorrect == Spec => []TypeOK
<1>1. Init => TypeOK
  BY ClientAssumption DEF Init, DaemonInit, TypeOK, NoCall, Calls, Labels,
                          CtrStates, Qdiscs
<1>2. QED
  BY <1>1, TypeStep, PTL DEF Spec

(* No step disturbs the pause of a container: each step either leaves     *)
(* every paused container and its owner alone, or is the pause or the     *)
(* unpause of the owner itself.                                           *)
LEMMA PauseStep == PauseIInv /\ [Next]_vars => PauseIInv'
<1> SUFFICES ASSUME PauseIInv, [Next]_vars
             PROVE OwnerHoldsPause' /\ PauseExclusive'
  BY TypeStep DEF PauseIInv
<1> USE ClientAssumption
<1>0. /\ TypeOK /\ TypeOK'
      /\ \A g \in Callers : call[g].c \in Containers
  BY TypeStep DEF PauseIInv, TypeOK, Calls
<1> DEFINE Frame(g) == UNCHANGED call /\ \A h \in Callers : h # g => pc'[h] = pc[h]
           Kept == \A d \in Containers : ctr'[d] = "paused" <=> ctr[d] = "paused"
(* A step of caller g outside the pause window that keeps every pause.    *)
<1>a. ASSUME NEW g \in Callers, Frame(g), Kept, pc[g] # "unpause", pc'[g] # "unpause"
      PROVE OwnerHoldsPause' /\ PauseExclusive'
  BY <1>a, <1>0 DEF PauseIInv, OwnerHoldsPause, PauseExclusive, PauseOwners, TypeOK
<1>1. ASSUME NEW g \in Callers, Call(g) PROVE OwnerHoldsPause' /\ PauseExclusive'
  <2>1. PICK o \in Ops, t \in Containers, filter \in Filters :
          pc' = [pc EXCEPT ![g] = CASE o = "netem" /\ filter -> "nt_prio"
                                    [] o = "netem"           -> "nt_add"
                                    [] OTHER                 -> o]
    BY <1>1 DEF Call
  <2>2. pc'[g] # "unpause"
    BY <2>1, <1>0 DEF TypeOK, AllOps
  <2>3. UNCHANGED ctr /\ pc[g] = "idle"
    BY <1>1 DEF Call, daemon
  <2>4. \A h \in Callers : h # g => pc'[h] = pc[h] /\ call'[h] = call[h]
    BY <1>1, <1>0 DEF Call, TypeOK
  <2>5. \A c \in Containers : PauseOwners(c)' = PauseOwners(c)
    BY <2>2, <2>3, <2>4, <1>0 DEF PauseOwners, TypeOK
  <2>6. OwnerHoldsPause'
    BY <2>2, <2>3, <2>4, <1>0 DEF PauseIInv, OwnerHoldsPause, TypeOK
  <2>7. PauseExclusive'
    BY <2>3, <2>5 DEF PauseIInv, PauseExclusive
  <2>8. QED
    BY <2>6, <2>7
(* The kill of a running container: it is not paused, so no one owns it.  *)
<1>b. ASSUME NEW g \in Callers, Frame(g), pc[g] # "unpause", pc'[g] # "unpause",
             ctr[call[g].c] = "running",
             ctr' = [ctr EXCEPT ![call[g].c] = "exited"]
      PROVE OwnerHoldsPause' /\ PauseExclusive'
  <2>1. Kept
    BY <1>b, <1>0 DEF TypeOK
  <2>2. QED
    BY <2>1, <1>b, <1>a
<1>2. ASSUME NEW g \in Callers, KillContainer(g) PROVE OwnerHoldsPause' /\ PauseExclusive'
  <2>1. Frame(g) /\ pc'[g] = "ret" /\ pc[g] = "kill"
    BY <1>2, <1>0 DEF KillContainer, Return, TypeOK
  <2>2. CASE UNCHANGED ctr
    BY <2>1, <2>2, <1>a
  <2>3. CASE ~UNCHANGED ctr
    <3>1. ctr[call[g].c] = "running" /\ call[g].fatal /\ ~DryRun
      BY <1>2, <2>3 DEF KillContainer, Signal, daemon
    <3>2. ctr' = [ctr EXCEPT ![call[g].c] = "exited"]
      BY <1>2, <3>1 DEF KillContainer, Signal, Terminate
    <3>3. QED
      BY <2>1, <3>1, <3>2, <1>b
  <2>4. QED
    BY <2>2, <2>3
<1>3. ASSUME NEW g \in Callers, StopSignal(g) PROVE OwnerHoldsPause' /\ PauseExclusive'
  <2>1. Frame(g) /\ pc'[g] \in {"ret", "stop_kill"} /\ pc[g] = "stop" /\ UNCHANGED ctr
    BY <1>3, <1>0 DEF StopSignal, Signal, Return, Goto, TypeOK, daemon
  <2>2. QED
    BY <2>1, <1>a
<1>4. ASSUME NEW g \in Callers, StopKill(g) PROVE OwnerHoldsPause' /\ PauseExclusive'
  <2>1. Frame(g) /\ pc'[g] \in {"ret", "stop_wait"} /\ pc[g] = "stop_kill"
    BY <1>4, <1>0 DEF StopKill, Return, Goto, TypeOK
  <2>2. CASE ctr[call[g].c] = "running"
    <3>1. ctr' = [ctr EXCEPT ![call[g].c] = "exited"]
      BY <1>4, <2>2 DEF StopKill, Terminate
    <3>2. QED
      BY <2>1, <2>2, <3>1, <1>b
  <2>3. CASE ctr[call[g].c] # "running"
    <3>1. UNCHANGED ctr
      BY <1>4, <2>3 DEF StopKill, daemon
    <3>2. QED
      BY <2>1, <3>1, <1>a
  <2>4. QED
    BY <2>2, <2>3
<1>5. ASSUME NEW g \in Callers, StopWait(g) PROVE OwnerHoldsPause' /\ PauseExclusive'
  <2>1. Frame(g) /\ pc'[g] = "ret" /\ pc[g] = "stop_wait" /\ UNCHANGED ctr
    BY <1>5, <1>0 DEF StopWait, Return, TypeOK, daemon
  <2>2. QED
    BY <2>1, <1>a
<1>6. ASSUME NEW g \in Callers, RemoveContainer(g) PROVE OwnerHoldsPause' /\ PauseExclusive'
  <2>1. Frame(g) /\ pc'[g] = "ret" /\ pc[g] = "rm"
    BY <1>6, <1>0 DEF RemoveContainer, Return, TypeOK
  <2>2. \/ UNCHANGED ctr
        \/ /\ ctr[call[g].c] # "paused"
           /\ ctr' = [ctr EXCEPT ![call[g].c] = "removed"]
    BY <1>6 DEF RemoveContainer, daemon
  <2>3. Kept
    BY <2>2, <1>0 DEF TypeOK
  <2>4. QED
    BY <2>1, <2>3, <1>a
<1>7. ASSUME NEW g \in Callers, PauseContainer(g)
      PROVE OwnerHoldsPause' /\ PauseExclusive'
  <2> DEFINE c == call[g].c
  <2>1. Frame(g) /\ pc[g] = "pause"
    BY <1>7, <1>0 DEF PauseContainer, Return, Goto, TypeOK
  <2>2. CASE ~DryRun /\ ctr[c] = "running"
    <3>1. pc'[g] = "unpause"
      BY <1>7, <2>2, <1>0 DEF PauseContainer, Return, Goto, TypeOK
    <3>2. ctr' = [ctr EXCEPT ![c] = "paused"]
      BY <1>7, <2>2, <1>0 DEF PauseContainer, TypeOK
    <3>3. \A h \in Callers : pc[h] = "unpause" => call[h].c # c
      BY <2>2 DEF PauseIInv, OwnerHoldsPause
    <3>4. QED
      BY <2>1, <2>2, <3>1, <3>2, <3>3, <1>0 DEF PauseIInv, OwnerHoldsPause,
         PauseExclusive, PauseOwners, TypeOK
  <2>3. CASE DryRun \/ ctr[c] # "running"
    <3>1. pc'[g] = "ret"
      BY <1>7, <2>3, <1>0 DEF PauseContainer, Return, Goto, TypeOK
    <3>2. UNCHANGED ctr
      BY <1>7, <2>3, <1>0 DEF PauseContainer, TypeOK
    <3>3. QED
      BY <2>1, <3>1, <3>2, <1>a
  <2>4. QED
    BY <2>2, <2>3
<1>8. ASSUME NEW g \in Callers, UnpauseContainer(g)
      PROVE OwnerHoldsPause' /\ PauseExclusive'
  <2> DEFINE c == call[g].c
  <2>1. Frame(g) /\ pc[g] = "unpause" /\ pc'[g] = "ret"
    BY <1>8, <1>0 DEF UnpauseContainer, Return, TypeOK
  <2>2. ctr[c] = "paused"
    BY <2>1, <1>0 DEF PauseIInv, OwnerHoldsPause
  <2>3. ctr' = [ctr EXCEPT ![c] = "running"]
    BY <1>8, <2>2 DEF UnpauseContainer
  <2>4. \A h \in Callers : pc[h] = "unpause" /\ call[h].c = c => h = g
    BY <2>1, <2>2, <1>0 DEF PauseIInv, PauseExclusive, PauseOwners
  <2>5. QED
    BY <2>1, <2>3, <2>4, <1>0 DEF PauseIInv, OwnerHoldsPause, PauseExclusive,
       PauseOwners, TypeOK
<1>9. ASSUME NEW g \in Callers,
             \/ StartNetem(g) \/ StartNetemPrio(g) \/ StartNetemChild(g)
             \/ StartNetemFilter(g) \/ StopNetem(g)
      PROVE OwnerHoldsPause' /\ PauseExclusive'
  <2>1. pc[g] \in NetemLabels
    BY <1>9 DEF StartNetem, StartNetemPrio, StartNetemChild, StartNetemFilter,
                StopNetem, NetemLabels
  <2>2. pc'[g] # "unpause" /\ Frame(g) /\ UNCHANGED ctr
    BY <1>9, <1>0 DEF StartNetem, StartNetemPrio, StartNetemChild, StartNetemFilter,
                StopNetem, ExecOnContainer, Return, Goto, TypeOK, daemon
  <2>3. QED
    BY <2>1, <2>2, <1>a DEF NetemLabels
<1>10. CASE Environment
  <2>1. UNCHANGED callers
    BY <1>10 DEF Environment, TcRun, Exit, AutoRemoveStep, Terminate
  <2>2. Kept
    BY <1>10, <1>0 DEF Environment, TcRun, Exit, AutoRemoveStep, Terminate, TypeOK
  <2>3. QED
    BY <2>1, <2>2, <1>0 DEF callers, PauseIInv, OwnerHoldsPause, PauseExclusive,
       PauseOwners, TypeOK
<1>11. CASE Finished \/ UNCHANGED vars
  BY <1>11 DEF Finished, vars, daemon, callers, PauseIInv, OwnerHoldsPause,
     PauseExclusive, PauseOwners
<1>12. QED
  BY <1>1, <1>2, <1>3, <1>4, <1>5, <1>6, <1>7, <1>8, <1>9, <1>10, <1>11
  DEF Next, ClientStep

(* Pause exclusivity (PauseExclusive, checked by the run Client_race) holds *)
(* for every set of containers and callers.                               *)
THEOREM PauseSafety == Spec => []PauseExclusive
<1>1. Init => PauseIInv
  BY ClientAssumption DEF Init, DaemonInit, PauseIInv, TypeOK, NoCall, Calls,
     Labels, CtrStates, Qdiscs, OwnerHoldsPause, PauseExclusive, PauseOwners
<1>2. PauseIInv => PauseExclusive
  BY DEF PauseIInv
<1>3. QED
  BY <1>1, <1>2, PauseStep, PTL DEF Spec
-----------------------------------------------------------------------------
(* Under --dry the daemon is never touched, and so the containers never    *)
(* move either: every container still runs with no signal caught and no   *)
(* exec waiting, and no caller is at a step that has no 'if !dryrun' guard *)
(* of its own (the second kill of StopContainer, the child netem and the   *)
(* filter of startNetemContainerIPFilter), since each is reached only      *)
(* through a first step that is.                                           *)
DryQuiet ==
  /\ \A c \in Containers : ctr[c] = "running" /\ ~dying[c] /\ pending[c] = {}
  /\ \A g \in Callers : pc[g] \notin {"stop_kill", "nt_child", "nt_filter"}

DryIInv == TypeOK /\ (DryRun => DryQuiet)

(* Under --dry every step of a caller or of the containers leaves the     *)
(* daemon alone and keeps DryQuiet.                                       *)
LEMMA DryStep ==
  ASSUME DryRun, TypeOK, DryQuiet, [Next]_vars
  PROVE  UNCHANGED daemon /\ DryQuiet'
<1> DEFINE Bad == {"stop_kill", "nt_child", "nt_filter"}
<1>0. \A g \in Callers : call[g].c \in Containers
  BY DEF TypeOK, Calls
(* A caller step that leaves the daemon alone and goes to a label with a  *)
(* dry-run guard of its own, or none to take.                             *)
<1>a. ASSUME NEW g \in Callers, UNCHANGED daemon, NEW l, l \notin Bad,
             pc' = [pc EXCEPT ![g] = l]
      PROVE  UNCHANGED daemon /\ DryQuiet'
  BY <1>a DEF DryQuiet, daemon, TypeOK
<1>1. ASSUME NEW g \in Callers, Call(g) PROVE UNCHANGED daemon /\ DryQuiet'
  <2>1. PICK o \in Ops, filter \in Filters :
          pc' = [pc EXCEPT ![g] = CASE o = "netem" /\ filter -> "nt_prio"
                                    [] o = "netem"           -> "nt_add"
                                    [] OTHER                 -> o]
    BY <1>1 DEF Call
  <2>2. (CASE o = "netem" /\ filter -> "nt_prio"
           [] o = "netem"           -> "nt_add"
           [] OTHER                 -> o) \notin Bad
    BY ClientAssumption DEF AllOps
  <2>. QED  BY <1>1, <2>1, <2>2, <1>a DEF Call
<1>2. ASSUME NEW g \in Callers,
             KillContainer(g) \/ StopSignal(g) \/ StopWait(g) \/ RemoveContainer(g)
      PROVE  UNCHANGED daemon /\ DryQuiet'
  <2>1. UNCHANGED daemon /\ \E r \in {"ok", "err"} : Return(g, r)
    BY <1>2 DEF KillContainer, StopSignal, StopWait, RemoveContainer
  <2>. QED  BY <2>1, <1>a DEF Return
<1>3. ASSUME NEW g \in Callers, PauseContainer(g) \/ UnpauseContainer(g)
      PROVE  UNCHANGED daemon /\ DryQuiet'
  <2>1. ctr[call[g].c] = "running"  BY <1>0 DEF DryQuiet
  <2>2. UNCHANGED ctr
    BY <1>3, <2>1, <1>0 DEF PauseContainer, UnpauseContainer, TypeOK
  <2>3. UNCHANGED daemon  BY <1>3, <2>2 DEF PauseContainer, UnpauseContainer, daemon
  <2>4. \E r \in {"ok", "err"} : Return(g, r)
    BY <1>3, <2>1 DEF PauseContainer, UnpauseContainer
  <2>. QED  BY <2>3, <2>4, <1>a DEF Return
<1>4. ASSUME NEW g \in Callers, StartNetem(g) \/ StartNetemPrio(g) \/ StopNetem(g)
      PROVE  UNCHANGED daemon /\ DryQuiet'
  <2>1. UNCHANGED daemon /\ (Goto(g, "nt_del") \/ Return(g, "ok"))
    BY <1>4 DEF StartNetem, StartNetemPrio, StopNetem
  <2>. QED  BY <2>1, <1>a DEF Goto, Return
(* The steps with no guard of their own are never reached under --dry.    *)
<1>5. ASSUME NEW g \in Callers, StopKill(g) \/ StartNetemChild(g) \/ StartNetemFilter(g)
      PROVE  FALSE
  BY <1>5 DEF StopKill, StartNetemChild, StartNetemFilter, DryQuiet
(* Nor can a container move: nothing is pending, dying or exited.         *)
<1>6. ASSUME NEW c \in Containers, TcRun(c) \/ Exit(c) \/ AutoRemoveStep(c)
      PROVE  FALSE
  BY <1>6 DEF TcRun, Exit, AutoRemoveStep, DryQuiet
<1>7. CASE Finished \/ UNCHANGED vars
  BY <1>7 DEF Finished, vars, daemon, callers, DryQuiet
<1>. QED
  BY <1>1, <1>2, <1>3, <1>4, <1>5, <1>6, <1>7 DEF Next, ClientStep, Environment

(* Dry run (DryRunInert, checked by the run client_dry): with --dry, no   *)
(* step of any number of concurrent callers, nor of the containers, ever  *)
(* changes the daemon's state.                                            *)
THEOREM DryRunSafe == Spec => DryRunInert
<1>1. Init => DryIInv
  BY ClientAssumption DEF Init, DaemonInit, DryIInv, DryQuiet,
     TypeOK, NoCall, Calls, Labels, CtrStates, Qdiscs
<1>2. DryIInv /\ [Next]_vars => DryIInv'
  BY TypeStep, DryStep DEF DryIInv
<1>3. DryIInv /\ [Next]_vars => [DryRun => UNCHANGED daemon]_vars
  BY DryStep DEF DryIInv
<1>. QED  BY <1>1, <1>2, <1>3, PTL DEF Spec, DryRunInert
=============================================================================
