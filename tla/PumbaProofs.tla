----------------------------- MODULE PumbaProofs -----------------------------
(***************************************************************************)
(* Proofs about one pumba invocation: drain before exit (DrainBeforeExit)  *)
(* for every number of cycles and containers.  The argument counts: the    *)
(* counter of gWG is the number of live cycles, so gWG.Wait returning at   *)
(* zero means no cycle was live then, and every cycle live afterwards was *)
(* added after the signal.                                                 *)
(***************************************************************************)
EXTENDS Pumba, ClientProofs, FiniteSetTheorems, TLAPS

(* The cycles between their gWG.Add(1) and their gWG.Done().              *)
LiveSet == {k \in Cycles : Live(k)}

(* The types of the scheduler's variables and of the cycles' labels.      *)
SchedOK ==
  /\ proc \in {"running", "exited"}
  /\ mainpc \in {"recv", "add"}
  /\ nextCycle \in Cycles
  /\ wg \in Int
  /\ sig \in {"none", "waiting", "exiting"}
  /\ late \subseteq Cycles
  /\ cpc \in [Cycles -> CycleLabels]

(* The counter of gWG counts the live cycles.                             *)
WGCounts == wg = Cardinality(LiveSet)

(* The identity the receive loop is about to spawn under is held by no    *)
(* live cycle: gWG.Add(1) counts a cycle not counted yet.                 *)
SpawnAhead == mainpc = "add" => cpc[nextCycle] \in {"unborn", "done"}

(* Once gWG.Wait has returned, every live cycle was added after the signal. *)
DrainedAtExit == sig = "exiting" => LiveSet \subseteq late

(* The process ends only by the os.Exit of the signal handler.           *)
ExitedBySignal == proc = "exited" => sig = "exiting"

(* The inductive strengthening of DrainBeforeExit.                        *)
DrainIInv == SchedOK /\ WGCounts /\ SpawnAhead /\ DrainedAtExit /\ ExitedBySignal
-----------------------------------------------------------------------------
(* Any set of cycles is finite, so the live cycles can be counted.        *)
LEMMA CyclesFinite ==
  ASSUME NEW S \in SUBSET Cycles PROVE IsFiniteSet(S)
<1>1. IsFiniteSet(Cycles)
  BY PumbaAssumption, FS_Interval DEF Cycles
<1>2. QED
  BY <1>1, FS_Subset

(* The steps that change none of the variables DrainIInv is about.         *)
LEMMA DrainFrame ==
  ASSUME DrainIInv, UNCHANGED <<proc, mainpc, nextCycle, wg, sig, late, cpc>>
  PROVE DrainIInv'
<1>1. LiveSet' = LiveSet
  BY DEF LiveSet, Live
<1>2. QED
  BY <1>1 DEF DrainIInv, SchedOK, WGCounts, SpawnAhead, DrainedAtExit,
     ExitedBySignal

(* A live cycle moves on to another live label: list -> inspect -> loop.  *)
LEMMA DrainAdvance ==
  ASSUME DrainIInv, NEW k \in Cycles, NEW l \in {"inspect", "loop"}, Live(k),
         cpc' = [cpc EXCEPT ![k] = l],
         UNCHANGED <<proc, mainpc, nextCycle, wg, sig, late>>
  PROVE DrainIInv'
<1>1. LiveSet' = LiveSet
  BY DEF LiveSet, Live, DrainIInv, SchedOK
<1>2. SchedOK'
  BY DEF DrainIInv, SchedOK, CycleLabels
<1>3. SpawnAhead'
  BY DEF DrainIInv, SpawnAhead, SchedOK, Live
<1>4. QED
  BY <1>1, <1>2, <1>3 DEF DrainIInv, WGCounts, DrainedAtExit, ExitedBySignal

(* A live cycle ends and its gWG.Done() runs: one live cycle fewer.        *)
LEMMA DrainDone ==
  ASSUME DrainIInv, NEW k \in Cycles, Live(k),
         cpc' = [cpc EXCEPT ![k] = "done"], wg' = wg - 1,
         UNCHANGED <<proc, mainpc, nextCycle, sig, late>>
  PROVE DrainIInv'
<1>1. LiveSet' = LiveSet \ {k}
  BY DEF LiveSet, Live, DrainIInv, SchedOK
<1>2. k \in LiveSet /\ IsFiniteSet(LiveSet)
  BY CyclesFinite DEF LiveSet
<1>3. WGCounts'
  BY <1>1, <1>2, FS_RemoveElement DEF DrainIInv, WGCounts
<1>4. SchedOK'
  BY DEF DrainIInv, SchedOK, CycleLabels
<1>5. SpawnAhead'
  BY DEF DrainIInv, SpawnAhead, SchedOK, Live
<1>6. DrainedAtExit'
  BY <1>1 DEF DrainIInv, DrainedAtExit
<1>7. QED
  BY <1>3, <1>4, <1>5, <1>6 DEF DrainIInv, ExitedBySignal
(* Every step of an invocation keeps DrainIInv.                           *)
LEMMA DrainStep == DrainIInv /\ [PumbaNext]_pvars => DrainIInv'
<1> SUFFICES ASSUME DrainIInv, [PumbaNext]_pvars PROVE DrainIInv'
  OBVIOUS
<1> USE PumbaAssumption
<1>1. CASE Tick
  <2>1. /\ Running /\ mainpc = "recv" /\ mainpc' = "add"
        /\ nextCycle' \in Cycles /\ cpc[nextCycle'] \in {"unborn", "done"}
        /\ UNCHANGED <<proc, wg, sig, late, cpc>>
    BY <1>1 DEF Tick, cycles
  <2>2. LiveSet' = LiveSet
    BY <2>1 DEF LiveSet, Live
  <2>3. SchedOK'
    BY <2>1 DEF DrainIInv, SchedOK
  <2>4. SpawnAhead'
    BY <2>1 DEF SpawnAhead
  <2>5. QED
    BY <2>1, <2>2, <2>3, <2>4 DEF Running, DrainIInv, WGCounts, DrainedAtExit,
       ExitedBySignal
<1>2. CASE SpawnCycle
  <2>1. /\ mainpc = "add" /\ mainpc' = "recv" /\ wg' = wg + 1
        /\ late' = IF sig = "none" THEN late ELSE late \cup {nextCycle}
        /\ cpc' = [cpc EXCEPT ![nextCycle] = "list"]
        /\ UNCHANGED <<proc, nextCycle, sig>>
    BY <1>2 DEF SpawnCycle
  <2>2. nextCycle \in Cycles /\ cpc[nextCycle] \in {"unborn", "done"}
    BY <2>1 DEF DrainIInv, SpawnAhead, SchedOK
  <2>3. LiveSet' = LiveSet \cup {nextCycle} /\ nextCycle \notin LiveSet
    BY <2>1, <2>2 DEF LiveSet, Live, DrainIInv, SchedOK
  <2>4. IsFiniteSet(LiveSet)
    BY CyclesFinite DEF LiveSet
  <2>5. WGCounts'
    BY <2>1, <2>3, <2>4, FS_AddElement DEF DrainIInv, WGCounts
  <2>6. SchedOK'
    BY <2>1, <2>2 DEF DrainIInv, SchedOK, CycleLabels
  <2>7. SpawnAhead'
    BY <2>1 DEF SpawnAhead
  <2>8. DrainedAtExit'
    BY <2>1, <2>3 DEF DrainIInv, DrainedAtExit
  <2>9. QED
    BY <2>1, <2>5, <2>6, <2>7, <2>8 DEF DrainIInv, ExitedBySignal
<1>3. CASE ReceiveSignal
  <2>1. Running /\ sig' = "waiting" /\ UNCHANGED <<proc, mainpc, nextCycle, wg, late, cpc>>
    BY <1>3 DEF ReceiveSignal, cycles
  <2>2. LiveSet' = LiveSet
    BY <2>1 DEF LiveSet, Live
  <2>3. QED
    BY <2>1, <2>2 DEF Running, DrainIInv, SchedOK, WGCounts, SpawnAhead,
       DrainedAtExit, ExitedBySignal
<1>4. CASE WaitReturns
  <2>1. wg = 0 /\ sig' = "exiting" /\ UNCHANGED <<proc, mainpc, nextCycle, wg, late, cpc>>
    BY <1>4 DEF WaitReturns, cycles
  <2>2. LiveSet' = LiveSet
    BY <2>1 DEF LiveSet, Live
  <2>3. LiveSet = {}
    BY <2>1, CyclesFinite, FS_EmptySet DEF DrainIInv, WGCounts, LiveSet
  <2>4. QED
    BY <2>1, <2>2, <2>3 DEF DrainIInv, SchedOK, WGCounts, SpawnAhead,
       DrainedAtExit, ExitedBySignal
<1>5. CASE OsExit
  <2>1. sig = "exiting" /\ proc' = "exited"
        /\ UNCHANGED <<mainpc, nextCycle, wg, sig, late, cpc>>
    BY <1>5 DEF OsExit, cycles
  <2>2. LiveSet' = LiveSet
    BY <2>1 DEF LiveSet, Live
  <2>3. QED
    BY <2>1, <2>2 DEF DrainIInv, SchedOK, WGCounts, SpawnAhead, DrainedAtExit,
       ExitedBySignal
<1>6. CASE PumbaEnvironment \/ Quiescent \/ UNCHANGED pvars
  <2>1. UNCHANGED <<proc, mainpc, nextCycle, wg, sig, late, cpc>>
    BY <1>6 DEF PumbaEnvironment, Quiescent, pvars, sched, cycles
  <2>2. QED
    BY <2>1, DrainFrame
<1>7. ASSUME NEW k \in Cycles, Cycle(k) PROVE DrainIInv'
  <2>1. CASE ListRunning(k)
    <3>1. /\ cpc' = [cpc EXCEPT ![k] = "inspect"]
          /\ UNCHANGED <<proc, mainpc, nextCycle, wg, sig, late>> /\ Live(k)
      BY <2>1 DEF ListRunning, Live, sched
    <3>2. QED
      BY <3>1, DrainAdvance
  <2>2. CASE InspectListed(k)
    <3>1. CASE \E c \in snap[k] : ctr[c] = "removed"
      <4>1. /\ cpc' = [cpc EXCEPT ![k] = "done"] /\ wg' = wg - 1
            /\ UNCHANGED <<proc, mainpc, nextCycle, sig, late>> /\ Live(k)
        BY <2>2, <3>1 DEF InspectListed, Live
      <4>2. QED
        BY <4>1, DrainDone
    <3>2. CASE ~\E c \in snap[k] : ctr[c] = "removed"
      <4>1. /\ cpc' = [cpc EXCEPT ![k] = "loop"]
            /\ UNCHANGED <<proc, mainpc, nextCycle, wg, sig, late>> /\ Live(k)
        BY <2>2, <3>2 DEF InspectListed, Live
      <4>2. QED
        BY <4>1, DrainAdvance
    <3>3. QED
      BY <3>1, <3>2
  <2>3. CASE CallTarget(k)
    <3>1. UNCHANGED <<proc, mainpc, nextCycle, wg, sig, late, cpc>>
      BY <2>3 DEF CallTarget, sched
    <3>2. QED
      BY <3>1, DrainFrame
  <2>4. CASE EndCycle(k)
    <3>1. /\ cpc' = [cpc EXCEPT ![k] = "done"] /\ wg' = wg - 1
          /\ UNCHANGED <<proc, mainpc, nextCycle, sig, late>> /\ Live(k)
      BY <2>4 DEF EndCycle, Live
    <3>2. QED
      BY <3>1, DrainDone
  <2>5. CASE Running /\ ClientStep(k) /\ UNCHANGED <<sched, cycles>>
    <3>1. UNCHANGED <<proc, mainpc, nextCycle, wg, sig, late, cpc>>
      BY <2>5 DEF sched, cycles
    <3>2. QED
      BY <3>1, DrainFrame
  <2>6. QED
    BY <1>7, <2>1, <2>2, <2>3, <2>4, <2>5 DEF Cycle
<1>8. QED
  BY <1>1, <1>2, <1>3, <1>4, <1>5, <1>6, <1>7 DEF PumbaNext, Scheduler

(* The invocation starts with no cycle live and the receive loop waiting. *)
LEMMA DrainInit == PumbaInit => DrainIInv
<1> SUFFICES ASSUME PumbaInit PROVE DrainIInv
  OBVIOUS
<1>1. LiveSet = {}
  BY DEF PumbaInit, LiveSet, Live
<1>2. QED
  BY <1>1, PumbaAssumption, FS_EmptySet DEF PumbaInit, DrainIInv, SchedOK,
     WGCounts, SpawnAhead, DrainedAtExit, ExitedBySignal, Cycles, CycleLabels

(* Drain before exit (DrainBeforeExit, checked by the run pumba_drain):   *)
(* when os.Exit ends the process, every cycle whose gWG.Add(1) came       *)
(* before the signal has run to its end, for every number of cycle        *)
(* goroutines, containers and ticks.                                      *)
THEOREM DrainSafety == PumbaSpec => []DrainBeforeExit
<1>1. PumbaInit => DrainIInv
  BY DrainInit
<1>2. DrainIInv => DrainBeforeExit
  BY DEF DrainIInv, ExitedBySignal, DrainedAtExit, DrainBeforeExit, LiveSet
<1>3. QED
  BY <1>1, <1>2, DrainStep, PTL DEF PumbaSpec
-----------------------------------------------------------------------------
(* The variables PumbaTypeOK types beyond the client's and SchedOK.        *)
RestOK ==
  /\ cmd \in Commands
  /\ snap \in [Cycles -> SUBSET Containers]
  /\ todo \in [Cycles -> SUBSET Containers]

(* The counter of gWG never goes below zero (sync would panic on a        *)
(* negative WaitGroup counter): it counts a set of cycles.                *)
LEMMA WGNat == DrainIInv => wg \in Nat
BY CyclesFinite, FS_CardinalityType DEF DrainIInv, WGCounts, LiveSet

(* The call a cycle makes on target t is a client call of the command.    *)
LEMMA CommandCalls ==
  ASSUME cmd \in Commands, NEW t \in Containers
  PROVE  [cmd EXCEPT !.c = t] \in Calls /\ Entry(cmd) \in Labels
<1>1. PICK o \in Ops, f \in BOOLEAN \X Filters \X BOOLEAN \X BOOLEAN \X BOOLEAN :
        cmd = [op |-> o, c |-> NoCall.c,
               fatal |-> o = "kill" /\ f[1], filter |-> o = "netem" /\ f[2],
               force |-> o = "rm" /\ f[3], links |-> o = "rm" /\ f[4],
               volumes |-> o = "rm" /\ f[5]]
  BY DEF Commands
<1>2. o \in AllOps  BY ClientAssumption
<1>. QED  BY <1>1, <1>2 DEF Calls, Entry, Labels, AllOps


(* Every step keeps the client's types and the scheduler's and cycles'     *)
(* other variables typed; a cycle is a client caller (Callers = Cycles).   *)
LEMMA RestStep ==
  ASSUME TypeOK, RestOK, DrainIInv, [PumbaNext]_pvars
  PROVE  TypeOK' /\ RestOK'
<1> USE PumbaAssumption
<1>1. CASE Scheduler
  BY <1>1 DEF Scheduler, Tick, SpawnCycle,
     ReceiveSignal, WaitReturns, OsExit, RestOK, TypeOK, vars, daemon, callers,
     cycles
<1>2. ASSUME NEW k \in Cycles, ListRunning(k) \/ EndCycle(k)
      PROVE  TypeOK' /\ RestOK'
  BY <1>2 DEF ListRunning, EndCycle, RestOK, TypeOK, vars, daemon, callers, sched
<1>3. ASSUME NEW k \in Cycles, InspectListed(k) PROVE TypeOK' /\ RestOK'
  <2>1. CASE UNCHANGED todo
    BY <1>3, <2>1 DEF InspectListed, RestOK, TypeOK, vars, daemon, callers
  <2>2. CASE \E ts \in SUBSET Containers : todo' = [todo EXCEPT ![k] = ts]
    BY <1>3, <2>2 DEF InspectListed, RestOK, TypeOK, vars, daemon, callers
  <2>. QED
    BY <1>3, <2>1, <2>2 DEF InspectListed, RestOK
<1>4. ASSUME NEW k \in Cycles, CallTarget(k) PROVE TypeOK' /\ RestOK'
  <2>1. PICK t \in todo[k] :
          /\ todo' = [todo EXCEPT ![k] = @ \ {t}]
          /\ call' = [call EXCEPT ![k] = [cmd EXCEPT !.c = t]]
          /\ pc' = [pc EXCEPT ![k] = Entry(cmd)]
    BY <1>4 DEF CallTarget
  <2>2. t \in Containers  BY DEF RestOK
  <2>3. [cmd EXCEPT !.c = t] \in Calls /\ Entry(cmd) \in Labels
    BY <2>2, CommandCalls DEF RestOK
  <2>. QED
    BY <1>4, <2>1, <2>3 DEF CallTarget, RestOK, TypeOK, sched, daemon
<1>5. ASSUME NEW k \in Cycles, Running /\ ClientStep(k) /\ UNCHANGED <<sched, cycles>>
      PROVE  TypeOK' /\ RestOK'
  <2>1. Next  BY <1>5 DEF Next, Cycles
  <2>. QED  BY <1>5, <2>1, TypeStep DEF RestOK, sched, cycles
<1>6. CASE PumbaEnvironment
  BY <1>6, TypeStep DEF PumbaEnvironment, Next, RestOK, sched, cycles
<1>7. CASE Quiescent \/ UNCHANGED pvars
  BY <1>7 DEF Quiescent, pvars, RestOK, TypeOK, vars, daemon, callers, sched,
     cycles
<1>. QED
  BY <1>1, <1>2, <1>3, <1>4, <1>5, <1>6, <1>7 DEF PumbaNext, Cycle

(* Type correctness of one invocation, and with it that the counter of     *)
(* gWG stays a natural number: no gWG.Done() of a cycle ever comes without *)
(* its gWG.Add(1) (the "negative WaitGroup counter" panic of sync).        *)
THEOREM PumbaTypeCorrect == PumbaSpec => []PumbaTypeOK
<1>1. PumbaInit => TypeOK /\ RestOK /\ DrainIInv
  BY DrainInit, PumbaAssumption, ClientAssumption
  DEF PumbaInit, Init, DaemonInit, TypeOK, NoCall, Calls, Labels, CtrStates,
      Qdiscs, RestOK, Cycles
<1>2. TypeOK /\ RestOK /\ DrainIInv /\ [PumbaNext]_pvars
        => (TypeOK /\ RestOK /\ DrainIInv)'
  BY RestStep, DrainStep
<1>3. TypeOK /\ RestOK /\ DrainIInv => PumbaTypeOK
  BY WGNat DEF PumbaTypeOK, RestOK, DrainIInv, SchedOK
<1>. QED  BY <1>1, <1>2, <1>3, PTL DEF PumbaSpec
=============================================================================
