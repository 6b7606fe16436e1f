------------------------------- MODULE Pumba -------------------------------
(***************************************************************************)
(* One pumba invocation (src/main.go): the recurrent scheduler of          *)
(* runChaosCommand, the signal handler of handleSignals with the global    *)
(* WaitGroup gWG, and the chaos cycles it spawns.  A cycle lists the       *)
(* containers (Client ListContainers), keeps the matching ones and visits  *)
(* each with the client call of the command, through the Client module.   *)
(* The per-target loop and the matching live in the action package, which *)
(* is not in the sources: they follow the spec (4.2, 4.3).                 *)
(*                                                                         *)
(* The ticker fires forever (runChaosCommand never stops it), and each     *)
(* tick spawns a cycle goroutine.  Goroutines are told apart only while    *)
(* they run, so cycles are drawn from a pool of MaxCycles identities: a    *)
(* tick takes an identity no live cycle holds, which bounds the number of  *)
(* cycles live at once, never the number of ticks.  Cycle k is caller k of *)
(* the client.  Time is not modelled: the code never checks a duration     *)
(* against the interval, and a cycle visits its targets one after another, *)
(* so ticks may come at any moment relative to the cycles.  gTestRun,      *)
(* which selects a one-shot timer, is set by no code path of main.go: the  *)
(* timer modelled is the ticker.                                           *)
(***************************************************************************)
EXTENDS Client

CONSTANTS
  MaxCycles, \* bound on the cycle goroutines live at once
  Selected,  \* containers whose name the selector (names or re2 pattern) matches
  Random     \* the --random flag (action.RandomMode)

ASSUME PumbaAssumption ==
  /\ MaxCycles \in Nat \ {0}
  /\ Callers = 1..MaxCycles
  /\ Selected \subseteq Containers
  /\ Random \in BOOLEAN

Cycles == 1..MaxCycles
(* The command of the invocation: its kind and flags, as the kill, stop,   *)
(* pause, rm and netem handlers of main.go build it.                       *)
Commands ==
  {[op |-> o, c |-> NoCall.c,
    fatal |-> o = "kill" /\ f[1], filter |-> o = "netem" /\ f[2],
    force |-> o = "rm" /\ f[3], links |-> o = "rm" /\ f[4],
    volumes |-> o = "rm" /\ f[5]] :
     o \in Ops, f \in BOOLEAN \X Filters \X BOOLEAN \X BOOLEAN \X BOOLEAN}
(* The first client label of a call of cmd.                               *)
Entry(cmd) ==
  CASE cmd.op = "netem" /\ cmd.filter -> "nt_prio"
    [] cmd.op = "netem"               -> "nt_add"
    [] OTHER                          -> cmd.op
(* Labels of a cycle goroutine.                                           *)
CycleLabels == {"unborn", "list", "inspect", "loop", "done"}

VARIABLES
  cmd,      \* the command value handed to every cycle
  proc,     \* "running" or "exited": the pumba process
  mainpc,   \* runChaosCommand's receive loop: "recv" or "add"
  nextCycle, \* the identity the receive loop gives the cycle it spawns next
  wg,       \* the counter of gWG
  sig,      \* signal handler goroutine: "none", "waiting" (in gWG.Wait), "exiting"
  late,     \* cycles added to gWG after the signal was received
  cpc,      \* cpc[k]: where cycle k is
  snap,     \* snap[k]: the containers the cycle's listing saw running
  todo      \* todo[k]: targets cycle k has still to visit

sched == <<cmd, proc, mainpc, nextCycle, wg, sig, late>>
cycles == <<cpc, snap, todo>>
pvars == <<vars, sched, cycles>>

PumbaTypeOK ==
  /\ TypeOK
  /\ cmd \in Commands
  /\ proc \in {"running", "exited"}
  /\ mainpc \in {"recv", "add"}
  /\ nextCycle \in Cycles
  /\ wg \in Nat
  /\ sig \in {"none", "waiting", "exiting"}
  /\ late \subseteq Cycles
  /\ cpc \in [Cycles -> CycleLabels]
  /\ snap \in [Cycles -> SUBSET Containers]
  /\ todo \in [Cycles -> SUBSET Containers]

PumbaInit ==
  /\ Init
  /\ cmd \in Commands
  /\ proc = "running"
  /\ mainpc = "recv"
  /\ nextCycle = 1
  /\ wg = 0
  /\ sig = "none"
  /\ late = {}
  /\ cpc = [k \in Cycles |-> "unborn"]
  /\ snap = [k \in Cycles |-> {}]
  /\ todo = [k \in Cycles |-> {}]

Running == proc = "running"
-----------------------------------------------------------------------------
(* The ticker fires and its goroutine hands the command to the receive    *)
(* loop over the unbuffered channel dc; the loop will run the new cycle    *)
(* under an identity no live cycle holds.  The ticker is never stopped,    *)
(* not even after a signal.                                               *)
Tick ==
  /\ Running /\ mainpc = "recv"
  /\ \E k \in Cycles : cpc[k] \in {"unborn", "done"} /\ nextCycle' = k
  /\ mainpc' = "add"
  /\ UNCHANGED <<cmd, proc, wg, sig, late, vars, cycles>>

(* Mutant of SpawnCycle: the goroutine is started without gWG.Add(1).    *)
SpawnCycleNoAdd ==
  /\ Running /\ mainpc = "add"
  /\ late' = IF sig = "none" THEN late ELSE late \cup {nextCycle}
  /\ cpc' = [cpc EXCEPT ![nextCycle] = "list"]
  /\ mainpc' = "recv"
  /\ UNCHANGED <<cmd, proc, nextCycle, wg, sig, vars, snap, todo>>

(* The receive loop: gWG.Add(1), then the cycle goroutine is started.      *)
SpawnCycle ==
  /\ Running /\ mainpc = "add"
  /\ wg' = wg + 1
  /\ late' = IF sig = "none" THEN late ELSE late \cup {nextCycle}
  /\ cpc' = [cpc EXCEPT ![nextCycle] = "list"]
  /\ mainpc' = "recv"
  /\ UNCHANGED <<cmd, proc, nextCycle, sig, vars, snap, todo>>

(* handleSignals: SIGINT or SIGTERM reaches the buffered channel ...       *)
ReceiveSignal ==
  /\ Running /\ sig = "none"
  /\ sig' = "waiting"
  /\ UNCHANGED <<cmd, proc, mainpc, nextCycle, wg, late, vars, cycles>>

(* ... gWG.Wait() returns once it sees the counter at zero ...             *)
WaitReturns ==
  /\ Running /\ sig = "waiting" /\ wg = 0
  /\ sig' = "exiting"
  /\ UNCHANGED <<cmd, proc, mainpc, nextCycle, wg, late, vars, cycles>>

(* ... and os.Exit(1) ends the process and every goroutine in it.          *)
OsExit ==
  /\ Running /\ sig = "exiting"
  /\ proc' = "exited"
  /\ UNCHANGED <<cmd, mainpc, nextCycle, wg, sig, late, vars, cycles>>
-----------------------------------------------------------------------------
(* Cycle k, ListContainers: the daemon's list of running containers ...   *)
ListRunning(k) ==
  /\ Running /\ cpc[k] = "list"
  /\ snap' = [snap EXCEPT ![k] = {c \in Containers : ctr[c] \in {"running", "paused"}}]
  /\ cpc' = [cpc EXCEPT ![k] = "inspect"]
  /\ UNCHANGED <<sched, vars, todo>>

(* ... then InspectContainer on each, which fails for one removed since,  *)
(* and the whole listing with it: the cycle then returns that error (which *)
(* runChaosCommand logs) and its deferred gWG.Done() runs.                 *)
(* Otherwise the matching containers are the targets, or one of them      *)
(* under --random.                                                        *)
InspectListed(k) ==
  LET matched == snap[k] \cap Selected IN
  /\ Running /\ cpc[k] = "inspect"
  /\ \/ /\ \E c \in snap[k] : ctr[c] = "removed"
        /\ cpc' = [cpc EXCEPT ![k] = "done"]
        /\ wg' = wg - 1
        /\ UNCHANGED todo
     \/ /\ \A c \in snap[k] : ctr[c] # "removed"
        /\ \E ts \in IF Random /\ matched # {} THEN {{t} : t \in matched}
                                               ELSE {matched} :
             todo' = [todo EXCEPT ![k] = ts]
        /\ cpc' = [cpc EXCEPT ![k] = "loop"]
        /\ UNCHANGED wg
  /\ UNCHANGED <<cmd, proc, mainpc, nextCycle, sig, late, vars, snap>>

(* The per-target loop: the client call of the command on the next target. *)
(* An error of the previous call is only logged: the loop goes on.         *)
CallTarget(k) ==
  /\ Running /\ cpc[k] = "loop" /\ pc[k] \in {"idle", "ret"}
  /\ \E t \in todo[k] :
       /\ todo' = [todo EXCEPT ![k] = @ \ {t}]
       /\ call' = [call EXCEPT ![k] = [cmd EXCEPT !.c = t]]
       /\ pc' = [pc EXCEPT ![k] = Entry(cmd)]
  /\ res' = [res EXCEPT ![k] = "none"]
  /\ UNCHANGED <<sched, daemon, cpc, snap>>

(* Mutant of EndCycle: the cycle returns without its deferred gWG.Done(). *)
EndCycleNoDone(k) ==
  /\ Running /\ cpc[k] = "loop" /\ pc[k] \in {"idle", "ret"} /\ todo[k] = {}
  /\ cpc' = [cpc EXCEPT ![k] = "done"]
  /\ UNCHANGED <<cmd, proc, mainpc, nextCycle, wg, sig, late, vars, snap, todo>>

(* No target left: the cycle returns (its error is logged) and the        *)
(* deferred gWG.Done() runs.                                               *)
EndCycle(k) ==
  /\ Running /\ cpc[k] = "loop" /\ pc[k] \in {"idle", "ret"} /\ todo[k] = {}
  /\ cpc' = [cpc EXCEPT ![k] = "done"]
  /\ wg' = wg - 1
  /\ UNCHANGED <<cmd, proc, mainpc, nextCycle, sig, late, vars, snap, todo>>
-----------------------------------------------------------------------------
Scheduler ==
  Tick \/ SpawnCycle \/ ReceiveSignal \/ WaitReturns \/ OsExit

Cycle(k) ==
  \/ ListRunning(k) \/ InspectListed(k) \/ CallTarget(k) \/ EndCycle(k)
  \/ Running /\ ClientStep(k) /\ UNCHANGED <<sched, cycles>>

(* The containers go on after the process is gone.                        *)
PumbaEnvironment == Environment /\ UNCHANGED <<sched, cycles>>

(* Nothing left to happen: the process is gone and the containers are    *)
(* quiet.  While it runs, the ticker can always fire or a cycle move.     *)
Quiescent ==
  /\ proc = "exited"
  /\ Quiet
  /\ UNCHANGED pvars

PumbaNext ==
  \/ Scheduler
  \/ \E k \in Cycles : Cycle(k)
  \/ PumbaEnvironment
  \/ Quiescent

PumbaSpec == PumbaInit /\ [][PumbaNext]_pvars

(* Fairness.  The receive loop, the signal handler and the cycle          *)
(* goroutines block only on channels, gWG.Wait and daemon calls that      *)
(* return, so the Go scheduler runs them (weak fairness).  gWG.Wait is    *)
(* woken by the gWG.Done() that brings the counter to zero, however soon  *)
(* a new gWG.Add(1) follows: a Wait that sees zero infinitely often       *)
(* returns (strong fairness).  Nothing is assumed of the ticker (a tick    *)
(* may come or not at any moment) nor of the containers (a signalled one   *)
(* may never exit).                                                       *)
PumbaFairSpec ==
  /\ PumbaSpec
  /\ WF_pvars(SpawnCycle) /\ SF_pvars(WaitReturns) /\ WF_pvars(OsExit)
  /\ \A k \in Cycles : WF_pvars(Cycle(k))
-----------------------------------------------------------------------------
(* A cycle is live from gWG.Add(1) until its deferred gWG.Done().          *)
Live(k) == cpc[k] \in {"list", "inspect", "loop"}

(* Drain before exit (spec 4.6): when os.Exit ends the process, every      *)
(* cycle whose gWG.Add(1) came before the signal has run to its end; only *)
(* cycles spawned after the signal can be cut off.                        *)
DrainBeforeExit ==
  proc = "exited" => \A k \in Cycles : Live(k) => k \in late

(* No pause left behind (spec 4.6): once the process is gone, no container *)
(* it paused is still paused.                                              *)
NoPauseLeftAtExit ==
  proc = "exited" => \A c \in Containers : ctr[c] # "paused"
(* Exit on signal (spec 4.6: stop issuing ticks, wait for the executors  *)
(* in flight, exit): once SIGINT or SIGTERM is received, the process      *)
(* eventually exits -- gWG.Wait returns and os.Exit runs.                 *)
SignalLeadsToExit == sig # "none" ~> proc = "exited"
=============================================================================
