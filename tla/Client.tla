------------------------------- MODULE Client -------------------------------
(***************************************************************************)
(* The runtime client (src/unnamed/part_000, package container): the       *)
(* mutating calls a chaos command makes -- KillContainer, StopContainer    *)
(* (with waitForStop), PauseContainer, RemoveContainer and NetemContainer  *)
(* (with execOnContainer and the tc commands it starts) -- as step         *)
(* sequences of concurrent callers against one Docker daemon.              *)
(*                                                                         *)
(* One step is one call to the daemon API; the sleeps of PauseContainer    *)
(* and NetemContainer and the polling of waitForStop are the gaps between  *)
(* steps, in which any other caller or the containers may move.  The       *)
(* daemon and the containers are the environment: their reactions are     *)
(* the documented ones of the daemon (pause needs a running, unpaused      *)
(* container; kill refuses a paused or stopped one; exec needs a running   *)
(* one) and of tc inside the container, which runs a started exec          *)
(* asynchronously: ContainerExecStart returns once the exec has started.   *)
(***************************************************************************)
EXTENDS Naturals, FiniteSets

CONSTANTS
  Containers,  \* containers on the host
  Callers,     \* goroutines calling the client concurrently
  Ops,         \* the client calls the callers make
  Filters,     \* the target-IP forms a netem call may get: TRUE = --target given
  AutoRemove,  \* containers started with --rm: the daemon removes them on exit
  DryRun       \* the process-wide --dry flag (action.DryMode)

AllOps == {"kill", "stop", "pause", "rm", "netem"}

ASSUME ClientAssumption ==
  /\ IsFiniteSet(Containers) /\ Containers # {}
  /\ IsFiniteSet(Callers)
  /\ Ops \subseteq AllOps /\ Ops # {}
  /\ Filters \subseteq BOOLEAN /\ Filters # {}
  /\ AutoRemove \subseteq Containers
  /\ DryRun \in BOOLEAN

(* Daemon-side state of a container; "paused" is still State.Running.      *)
CtrStates == {"running", "paused", "exited", "removed"}
(* The qdisc tree of the container's interface: nothing, a root netem, a   *)
(* root prio, or a root prio with a netem on band 1:3.                     *)
Qdiscs == {"none", "netem", "prio", "prionetem"}
(* The tc command lines the client starts, by what they do.               *)
TcCmds == {"addRootNetem", "addRootPrio", "addChildNetem", "addFilter",
           "delRootNetem"}
(* Labels of a caller: "idle" before its call, "ret" once it returned.     *)
Labels == {"idle", "kill", "stop", "stop_kill", "stop_wait", "pause",
           "unpause", "rm", "nt_add", "nt_prio", "nt_child", "nt_filter",
           "nt_del", "ret"}
NetemLabels == {"nt_add", "nt_prio", "nt_child", "nt_filter", "nt_del"}
(* A call: the operation, its target and the flags it was given.           *)
Calls == [op : AllOps \cup {"none"}, c : Containers, fatal : BOOLEAN,
          filter : BOOLEAN, force : BOOLEAN, links : BOOLEAN,
          volumes : BOOLEAN]

VARIABLES
  ctr,      \* ctr[c]: daemon state of container c
  dying,    \* dying[c]: c caught a signal and may still exit because of it
  qd,       \* qd[c]: qdisc tree of c's interface
  pending,  \* pending[c]: execs started in c whose tc has not run yet
  vols,     \* vols[c]: the volumes of c still exist
  pc,       \* pc[g]: where caller g is in its call
  call,     \* call[g]: the call caller g makes
  res       \* res[g]: what the call returned: "none", "ok" or "err"

daemon == <<ctr, dying, qd, pending, vols>>
callers == <<pc, call, res>>
vars == <<daemon, callers>>

TypeOK ==
  /\ ctr \in [Containers -> CtrStates]
  /\ dying \in [Containers -> BOOLEAN]
  /\ qd \in [Containers -> Qdiscs]
  /\ pending \in [Containers -> SUBSET (Callers \X TcCmds)]
  /\ vols \in [Containers -> BOOLEAN]
  /\ pc \in [Callers -> Labels]
  /\ call \in [Callers -> Calls]
  /\ res \in [Callers -> {"none", "ok", "err"}]

NoCall == [op |-> "none", c |-> CHOOSE c \in Containers : TRUE,
           fatal |-> FALSE, filter |-> FALSE, force |-> FALSE,
           links |-> FALSE, volumes |-> FALSE]

DaemonInit ==
  /\ ctr = [c \in Containers |-> "running"]
  /\ dying = [c \in Containers |-> FALSE]
  /\ qd = [c \in Containers |-> "none"]
  /\ pending = [c \in Containers |-> {}]
  /\ vols = [c \in Containers |-> TRUE]

Init ==
  /\ DaemonInit
  /\ pc = [g \in Callers |-> "idle"]
  /\ call = [g \in Callers |-> NoCall]
  /\ res = [g \in Callers |-> "none"]
-----------------------------------------------------------------------------
(* Control of a caller: go on to the next step, or return r.              *)
Goto(g, l) == pc' = [pc EXCEPT ![g] = l] /\ UNCHANGED <<call, res>>
Return(g, r) ==
  /\ pc' = [pc EXCEPT ![g] = "ret"]
  /\ res' = [res EXCEPT ![g] = r]
  /\ UNCHANGED call

(* The container's main process dies: its network namespace, with its      *)
(* qdiscs and the execs still waiting in it, goes with it.                 *)
Terminate(c) ==
  /\ ctr' = [ctr EXCEPT ![c] = "exited"]
  /\ dying' = [dying EXCEPT ![c] = FALSE]
  /\ qd' = [qd EXCEPT ![c] = "none"]
  /\ pending' = [pending EXCEPT ![c] = {}]
  /\ UNCHANGED vols

(* Daemon KillContainer(id, signal) on a running, unpaused container: a    *)
(* fatal signal ends it; another may be caught, and may or may not make    *)
(* it exit later.                                                          *)
Signal(c, fatal) ==
  IF fatal THEN Terminate(c)
  ELSE /\ \E d \in BOOLEAN : dying' = [dying EXCEPT ![c] = dying[c] \/ d]
       /\ UNCHANGED <<ctr, qd, pending, vols>>

(* execOnContainer: ContainerExecCreate fails unless the container runs    *)
(* unpaused; ContainerExecStart returns as soon as tc is started, so the   *)
(* command joins the container's pending execs and its exit status is      *)
(* never seen.  The caller then does Then, or returns the create error.    *)
ExecOnContainer(g, cmd, Then) ==
  LET c == call[g].c IN
  \/ /\ ctr[c] = "running"
     /\ pending' = [pending EXCEPT ![c] = @ \cup {<<g, cmd>>}]
     /\ UNCHANGED <<ctr, dying, qd, vols>>
     /\ Then
  \/ /\ ctr[c] # "running"
     /\ Return(g, "err")
     /\ UNCHANGED daemon
-----------------------------------------------------------------------------
(* A caller makes its call: the operation, the target and the flags are    *)
(* inputs, each from the small set the command line can give.              *)
Call(g) ==
  /\ pc[g] = "idle"
  /\ \E o \in Ops, c \in Containers, fatal, force, links, volumes \in BOOLEAN,
        filter \in Filters :
       /\ call' = [call EXCEPT ![g] =
                    [op |-> o, c |-> c,
                     fatal |-> o = "kill" /\ fatal,
                     filter |-> o = "netem" /\ filter,
                     force |-> o = "rm" /\ force,
                     links |-> o = "rm" /\ links,
                     volumes |-> o = "rm" /\ volumes]]
       /\ pc' = [pc EXCEPT ![g] =
                  CASE o = "netem" /\ filter -> "nt_prio"
                    [] o = "netem"           -> "nt_add"
                    [] OTHER                 -> o]
  /\ UNCHANGED <<res, daemon>>

(* Mutant of KillContainer: the "if !dryrun" guard dropped.               *)
KillContainerNoDryGuard(g) ==
  LET c == call[g].c IN
  /\ pc[g] = "kill"
  /\ \/ ctr[c] # "running" /\ Return(g, "err") /\ UNCHANGED daemon
     \/ ctr[c] = "running" /\ Signal(c, call[g].fatal) /\ Return(g, "ok")

(* KillContainer.                                                          *)
KillContainer(g) ==
  LET c == call[g].c IN
  /\ pc[g] = "kill"
  /\ \/ DryRun /\ Return(g, "ok") /\ UNCHANGED daemon
     \/ ~DryRun /\ ctr[c] # "running" /\ Return(g, "err") /\ UNCHANGED daemon
     \/ ~DryRun /\ ctr[c] = "running" /\ Signal(c, call[g].fatal)
        /\ Return(g, "ok")

(* StopContainer, first kill: the container's stop signal (its label, else *)
(* SIGTERM), which the container may catch.  The waitForStop that follows  *)
(* has its error dropped, so it is only the gap before the second step.    *)
StopSignal(g) ==
  LET c == call[g].c IN
  /\ pc[g] = "stop"
  /\ \/ DryRun /\ Return(g, "ok") /\ UNCHANGED daemon
     \/ ~DryRun /\ ctr[c] # "running" /\ Return(g, "err") /\ UNCHANGED daemon
     \/ ~DryRun /\ ctr[c] = "running" /\ Signal(c, FALSE)
        /\ Goto(g, "stop_kill")

(* StopContainer, second kill: SIGKILL, whose error is returned.           *)
StopKill(g) ==
  LET c == call[g].c IN
  /\ pc[g] = "stop_kill"
  /\ \/ ctr[c] # "running" /\ Return(g, "err") /\ UNCHANGED daemon
     \/ ctr[c] = "running" /\ Terminate(c) /\ Goto(g, "stop_wait")

(* waitForStop returns nil on a timeout and on State.Running = false, and  *)
(* an error only when InspectContainer fails, that is once the container  *)
(* is gone.  After the second kill, nil makes StopContainer fail.         *)
WaitForStopFails(c) == ctr[c] = "removed"

StopWait(g) ==
  LET c == call[g].c IN
  /\ pc[g] = "stop_wait"
  /\ Return(g, IF WaitForStopFails(c) THEN "ok" ELSE "err")
  /\ UNCHANGED daemon

(* Mutant of PauseContainer: the error of ContainerPause on a container   *)
(* that is already paused is ignored, and the call goes on to its sleep.   *)
PauseContainerIgnoreError(g) ==
  LET c == call[g].c IN
  /\ pc[g] = "pause"
  /\ \/ DryRun /\ Return(g, "ok")
     \/ ~DryRun /\ ctr[c] \notin {"running", "paused"} /\ Return(g, "err")
     \/ ~DryRun /\ ctr[c] \in {"running", "paused"} /\ Goto(g, "unpause")
  /\ ctr' = [ctr EXCEPT ![c] = IF ~DryRun /\ @ = "running" THEN "paused" ELSE @]
  /\ UNCHANGED <<dying, qd, pending, vols>>

(* PauseContainer, up to the sleep.                                        *)
PauseContainer(g) ==
  LET c == call[g].c IN
  /\ pc[g] = "pause"
  /\ \/ DryRun /\ Return(g, "ok")
     \/ ~DryRun /\ ctr[c] # "running" /\ Return(g, "err")
     \/ ~DryRun /\ ctr[c] = "running" /\ Goto(g, "unpause")
  /\ ctr' = [ctr EXCEPT ![c] = IF ~DryRun /\ @ = "running" THEN "paused" ELSE @]
  /\ UNCHANGED <<dying, qd, pending, vols>>

(* PauseContainer, after the sleep.                                        *)
UnpauseContainer(g) ==
  LET c == call[g].c IN
  /\ pc[g] = "unpause"
  /\ Return(g, IF ctr[c] = "paused" THEN "ok" ELSE "err")
  /\ ctr' = [ctr EXCEPT ![c] = IF @ = "paused" THEN "running" ELSE @]
  /\ UNCHANGED <<dying, qd, pending, vols>>

(* RemoveContainer builds the request with the links flag as RemoveVolumes *)
(* and the volumes flag as RemoveLinks.  The daemon answers RemoveLinks by *)
(* removing a link named by the id, which fails, and refuses a paused      *)
(* container, or a running one without Force.                              *)
RemoveOpts(g) ==
  [RemoveVolumes |-> call[g].links, RemoveLinks |-> call[g].volumes,
   Force |-> call[g].force]

RemoveContainer(g) ==
  LET c == call[g].c
      o == RemoveOpts(g)
      refused == \/ ctr[c] \in {"removed", "paused"}
                 \/ o.RemoveLinks
                 \/ ctr[c] = "running" /\ ~o.Force
  IN
  /\ pc[g] = "rm"
  /\ \/ DryRun /\ Return(g, "ok") /\ UNCHANGED daemon
     \/ ~DryRun /\ refused /\ Return(g, "err") /\ UNCHANGED daemon
     \/ /\ ~DryRun /\ ~refused
        /\ ctr' = [ctr EXCEPT ![c] = "removed"]
        /\ dying' = [dying EXCEPT ![c] = FALSE]
        /\ qd' = [qd EXCEPT ![c] = "none"]
        /\ pending' = [pending EXCEPT ![c] = {}]
        /\ vols' = [vols EXCEPT ![c] = @ /\ ~o.RemoveVolumes]
        /\ Return(g, "ok")

(* NetemContainer without a target IP: startNetemContainer starts          *)
(* 'tc qdisc add dev <if> root netem <cmd>'; on its error the call returns *)
(* it, else it sleeps for the duration.                                    *)
StartNetem(g) ==
  /\ pc[g] = "nt_add"
  /\ \/ DryRun /\ Goto(g, "nt_del") /\ UNCHANGED daemon
     \/ ~DryRun /\ ExecOnContainer(g, "addRootNetem", Goto(g, "nt_del"))

(* NetemContainer with a target IP: startNetemContainerIPFilter starts the *)
(* root prio qdisc, the netem on band 1:3 and the u32 filter, each only if *)
(* the previous exec was created.                                          *)
StartNetemPrio(g) ==
  /\ pc[g] = "nt_prio"
  /\ \/ DryRun /\ Goto(g, "nt_del") /\ UNCHANGED daemon
     \/ ~DryRun /\ ExecOnContainer(g, "addRootPrio", Goto(g, "nt_child"))

StartNetemChild(g) ==
  /\ pc[g] = "nt_child"
  /\ ExecOnContainer(g, "addChildNetem", Goto(g, "nt_filter"))

StartNetemFilter(g) ==
  /\ pc[g] = "nt_filter"
  /\ ExecOnContainer(g, "addFilter", Goto(g, "nt_del"))

(* After the sleep, stopNetemContainer starts 'tc qdisc del dev <if> root  *)
(* netem', whatever the start built, and the call returns its error.       *)
StopNetem(g) ==
  /\ pc[g] = "nt_del"
  /\ \/ DryRun /\ Return(g, "ok") /\ UNCHANGED daemon
     \/ ~DryRun /\ ExecOnContainer(g, "delRootNetem", Return(g, "ok"))

(* A client step of caller g.                                              *)
ClientStep(g) ==
  \/ KillContainer(g)
  \/ StopSignal(g) \/ StopKill(g) \/ StopWait(g)
  \/ PauseContainer(g) \/ UnpauseContainer(g)
  \/ RemoveContainer(g)
  \/ StartNetem(g) \/ StartNetemPrio(g) \/ StartNetemChild(g)
  \/ StartNetemFilter(g) \/ StopNetem(g)
-----------------------------------------------------------------------------
(* The environment.  tc runs a started command inside a running, unpaused  *)
(* container, in any order with the others: the kernel refuses a second    *)
(* root qdisc, a band-1:3 child without the prio root, and a delete whose  *)
(* kind ("netem") is not the root's; the filter's 'match ip dport <IP>'    *)
(* does not parse, so it never installs.                                   *)
TcEffect(q, cmd) ==
  CASE cmd = "addRootNetem" /\ q = "none"    -> "netem"
    [] cmd = "addRootPrio" /\ q = "none"     -> "prio"
    [] cmd = "addChildNetem" /\ q = "prio"   -> "prionetem"
    [] cmd = "delRootNetem" /\ q = "netem"   -> "none"
    [] OTHER                                 -> q

TcRun(c) ==
  /\ ctr[c] = "running"
  /\ \E x \in pending[c] :
       /\ pending' = [pending EXCEPT ![c] = @ \ {x}]
       /\ qd' = [qd EXCEPT ![c] = TcEffect(@, x[2])]
  /\ UNCHANGED <<ctr, dying, vols, callers>>

(* A container that caught a signal exits because of it.                   *)
Exit(c) ==
  /\ dying[c] /\ ctr[c] = "running"
  /\ Terminate(c)
  /\ UNCHANGED callers

(* The daemon removes an exited --rm container, with its volumes.          *)
AutoRemoveStep(c) ==
  /\ c \in AutoRemove /\ ctr[c] = "exited"
  /\ ctr' = [ctr EXCEPT ![c] = "removed"]
  /\ vols' = [vols EXCEPT ![c] = FALSE]
  /\ UNCHANGED <<dying, qd, pending, callers>>

Environment ==
  \E c \in Containers : TcRun(c) \/ Exit(c) \/ AutoRemoveStep(c)

(* The containers have nothing left to do: no step of Environment is       *)
(* enabled.                                                                *)
Quiet ==
  \A c \in Containers :
    /\ ctr[c] = "running" => pending[c] = {} /\ ~dying[c]
    /\ c \in AutoRemove => ctr[c] # "exited"

(* Every caller returned and the containers are quiet.                     *)
Finished ==
  /\ \A g \in Callers : pc[g] = "ret"
  /\ Quiet
  /\ UNCHANGED vars

Next ==
  \/ \E g \in Callers : Call(g) \/ ClientStep(g)
  \/ Environment
  \/ Finished

Spec == Init /\ [][Next]_vars
-----------------------------------------------------------------------------
(* The callers inside the sleep of a successful PauseContainer on c.       *)
PauseOwners(c) == {g \in Callers : pc[g] = "unpause" /\ call[g].c = c}

(* Pause exclusivity: a paused container is inside the pause window of     *)
(* exactly one PauseContainer call, which will unpause it -- however many  *)
(* callers pause, kill, stop or remove it concurrently.                    *)
PauseExclusive ==
  \A c \in Containers :
    /\ ctr[c] = "paused" => PauseOwners(c) # {}
    /\ \A g, h \in PauseOwners(c) : g = h

(* Dry run: no call, and hence nothing in the containers, changes the      *)
(* daemon's state (the 'if !dryrun' guard of every mutating call).         *)
DryRunInert == [][DryRun => UNCHANGED daemon]_vars

(* Netem teardown: once no netem call on a running container is between    *)
(* its start and its return and tc has run every command started in it,   *)
(* its interface carries no netem qdisc (spec 4.3: the teardown removes    *)
(* what the start built).                                                  *)
NetemReverted ==
  \A c \in Containers :
    /\ ctr[c] = "running"
    /\ pending[c] = {}
    /\ \A g \in Callers : pc[g] \in NetemLabels => call[g].c # c
    => qd[c] = "none"

(* Stop outcome: StopContainer reports an error only for a container that  *)
(* it left running (spec 4.1: running=false after the kill is "stopped").  *)
StopReportsTruth ==
  \A g \in Callers :
    pc[g] = "ret" /\ call[g].op = "stop" /\ res[g] = "err"
      => ctr[call[g].c] \in {"running", "paused"}

(* Volumes flag: a container's volumes are removed by rm only when the     *)
(* command asked for --volumes (the daemon's --rm cleanup aside).          *)
VolumesOnlyIfAsked ==
  \A c \in Containers \ AutoRemove :
    ~vols[c] => \E g \in Callers : call[g].op = "rm" /\ call[g].c = c
                                    /\ call[g].volumes
=============================================================================
