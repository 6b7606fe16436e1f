# A TLA+ verification project for pumba

Pumba is a chaos tool for Docker. On a recurring interval it kills, stops,
pauses or removes containers, or delays their network with `tc netem`. This
directory holds TLA+ modules that model its concurrency and its calls to the
Docker daemon:
- TLC configurations that model-check the modules on small instances;
- an abstract pause lock that the client is shown to implement, by TLC and,
  for its safety part, by TLAPS;
- TLAPS proofs, for every value of the constants, of:
  - every safety property a passing run checks: pause exclusivity, dry-run
    inertness, drain before exit and that no valid command is rejected;
  - the client's and the invocation's type invariants (the latter includes
    that `gWG` never goes negative);
- `PROJECT.json`, which maps every modelled definition to the source lines it
  translates and lists the runs, mutants, findings and hazards.

## 1. The system and its parts

| Part | Source | What it does |
|---|---|---|
| C1 Runtime client | `src/unnamed/part_000` (`dockerClient`) | One method per daemon operation: `ListContainers`, `KillContainer`, `StopContainer` with `waitForStop`, `PauseContainer`, `RemoveContainer`, `NetemContainer`. The netem methods start `tc` in the container through `execOnContainer`. |
| C2 Target resolver | action package (not in the sources); `getNamesOrPattern` in `main.go` | Turns the names or the `re2:` pattern, and `--random`, into the targets of a tick. |
| C3 Executors | action package (not in the sources) | Visits every target with the client call of the command and accumulates errors. |
| C4 Dispatcher | `main.go` `runChaosCommand` | One goroutine per tick, run under the global WaitGroup `gWG`. |
| C5 Scheduler | `main.go` `runChaosCommand` | A ticker sends the command over the unbuffered channel `dc`; it is never stopped. (A one-shot timer is chosen when `gTestRun` is set, which no code path does.) The receive loop calls `gWG.Add(1)` and starts the cycle. |
| C6 Lifecycle | `main.go` `handleSignals` | On SIGINT/SIGTERM: `gWG.Wait()`, then `os.Exit(1)`. |
| C7 Dry run | `if !dryrun` in every mutating client call | `--dry` logs and returns success. |
| C8 Command surface | `main.go` `kill`, `netemDelay`, `pause`, `remove`, `stop`, `beforeCommand` | Validate flags and build the command value. |

How they interact:
- Cycles overlap freely. A cycle that outlasts the interval runs next to the
  next one, so several goroutines call the client on the same containers at
  once.
- Each client call is a sequence of daemon calls, with gaps between them: the
  sleep of pause and netem, and the polling of `waitForStop`. Other callers
  and the containers themselves (exiting, `--rm` cleanup, `tc` running
  asynchronously) move during those gaps.
- The signal handler races the scheduler through `gWG`.

## 2. Modules

### `Client.tla`: the runtime client against one daemon

The module models the mutating calls as step sequences of concurrent callers.

State:
- The daemon side:
  - `ctr[c]`: running, paused, exited or removed;
  - `dying[c]`: the container caught a signal and may still exit;
  - `qd[c]`: the qdisc tree of its interface: none, netem, prio, or prio with
    a netem child;
  - `pending[c]`: `tc` execs started in the container and not yet run;
  - `vols[c]`: its volumes still exist.
- The callers:
  - `pc[g]`: where caller g is in its call;
  - `call[g]`: the operation, target and flags of its call;
  - `res[g]`: what the call returned.

One action per daemon call of the code:

| Code | Action(s) |
|---|---|
| `KillContainer` | `KillContainer` |
| `StopContainer` | `StopSignal` (first kill), `StopKill` (SIGKILL), `StopWait`. `StopWait` uses `WaitForStopFails`, which translates `waitForStop`. |
| `PauseContainer` | `PauseContainer` up to the sleep, `UnpauseContainer` after it |
| `RemoveContainer` | `RemoveContainer`, with the option record `RemoveOpts` exactly as the code builds it |
| `startNetemContainer` | `StartNetem` |
| `startNetemContainerIPFilter` | `StartNetemPrio`, `StartNetemChild`, `StartNetemFilter` |
| `stopNetemContainer` | `StopNetem` |

`ExecOnContainer` is `execOnContainer`:
- the exec create fails unless the container is running unpaused;
- otherwise the command joins `pending` and the call goes on. Exec start
  returns before `tc` has run, and its exit status is never read.

The environment (the daemon and the kernel) has three actions:
- `TcRun`: `tc` runs one pending command, in any order. `TcEffect` says what
  each of the code's command lines does:
  - a second root qdisc is refused;
  - the child on 1:3 needs the prio root;
  - `del root netem` needs a netem root;
  - the `match ip dport <IP>` filter never parses.
- `Exit`: a container that caught a signal exits.
- `AutoRemoveStep`: the daemon removes an exited `--rm` container with its
  volumes.

`Call` is the action package calling the client. It is modelled from the spec,
because the package is not in the sources.

### `Pumba.tla`: one invocation

`Pumba.tla` EXTENDS `Client`. Cycle k is client caller k.

State:
- Scheduler: `mainpc`, `nextCycle` (the identity of the cycle the receive
  loop spawns next), `wg` (the counter of `gWG`), `sig`, `proc`, and `late`
  (the cycles added after the signal).
- Cycles: `cpc`, `snap` (what `ListContainers` saw running) and `todo`.

Actions:
- Scheduler:
  - `Tick`: the ticker goroutine's send on `dc`, received by the loop;
  - `SpawnCycle`: `gWG.Add(1)` and `go`.
- Signal handler: `ReceiveSignal`, `WaitReturns`, `OsExit`.
- A cycle:
  - `ListRunning` and `InspectListed`: `ListContainers`. An inspect error on a
    container removed since the listing aborts the whole listing.
  - `CallTarget`: the executor loop, from the spec.
  - `EndCycle`: the deferred `gWG.Done()`.
  - The client steps of `Client`.

`Commands` is the set of command values the handlers can build. `Entry` is
`NetemContainer`'s choice between the filtered and the unfiltered path.

Time is not modelled. The code never compares a duration with the interval,
and a tick may come at any moment relative to the cycles. The ticker fires
forever, as in the code. Goroutines are told apart only while they run, so a
cycle takes one of `MaxCycles` identities that no live cycle holds. This
bounds how many cycles are live at once, never the number of ticks.

`PumbaFairSpec` is the fairness the Go runtime gives:
- weak fairness on the receive loop (`SpawnCycle`), `os.Exit` and every
  cycle goroutine (`Cycle(k)`). These block only on channels and on daemon
  calls that return;
- strong fairness on `WaitReturns`. The `gWG.Done()` that brings the counter
  to zero wakes the waiter, even when a new `gWG.Add(1)` follows at once.

Nothing is assumed of the ticker, nor of the containers (a signalled one may
never exit).

### `Selector.tla`: `getNamesOrPattern` and the resolver

Arguments and container names are strings over a small alphabet
(`r e 2 : x`), because `strings.Trim` works on characters.
- `GetNamesOrPattern` translates `getNamesOrPattern` (main.go 336-354):
  - two or more arguments are names;
  - a single argument is a pattern when it has the `re2:` prefix, stripped by
    `Trim`, the character-set trim of `strings.Trim` (`TrimLeft`, then
    `TrimRight`);
  - a single argument without the prefix is dropped.
- `Resolve` is the action package's resolver (spec 4.2, not in the sources):
  names first, then the pattern (`Matches`: the pattern occurs in the name;
  the alphabet has no regexp metacharacter), else all containers.

### `Validation.tla`: the command surface

The inputs of one command are chosen in `ValidationInit`: the kind and every
flag, from small sets of values the command line can carry. A duration is
empty, malformed, or a small integer: only its sign and its order with the
interval matter.

Actions, in the code's order:
- `BeforeCommand` (`beforeCommand`);
- one handler per command: `KillHandler`, `NetemHandler` (every check of
  `netemDelay`, with `FindInterface` for `reInterface.FindString`, which is
  leftmost-first and greedy, and `ParseIP` for `net.ParseIP`),
  `PauseHandler`, `RemoveOrStopHandler`;
- `StartTimer`: `runChaosCommand`'s `NewTimer`, or `NewTicker`, which panics
  on an interval that is not positive.

`SpecValid` states the parameters spec 4.3, 4.5, 6 and 7.1 call valid.

### `PauseLock.tla` and `ClientPause.tla`: the abstract pause lock

`PauseLock` is what `PauseContainer` promises (spec 4.3):
- `holder[c]` is the call whose pause `c` is in, or `NoOne`;
- `Acquire(g, c)` needs `c` free;
- `Release(g, c)` needs `g` to be the holder;

`ClientPause` EXTENDS `Client` and adds:
- the refinement mapping `Holder`: the owner of a paused container;
- `Lock == INSTANCE PauseLock WITH holder <- Holder`.

The refinement is proved (safety only, section 5) rather than model-checked.
It says, as a refinement, what `PauseExclusive` says: a pause passes from
one caller to another only through an unpause. It adds no check of its own.
A liveness half ("every pause is released") would hold only by fairness on
the unpause, and `Holder` maps a pause left without owner to `NoOne`, so it
could not fail. It is not stated.

### `ClientProofs.tla`, `PauseLockProofs.tla`, `PumbaProofs.tla`, `ValidationProofs.tla`

These modules hold the TLAPS proofs (section 5). Each EXTENDS the module it
is about (`PumbaProofs` also EXTENDS `ClientProofs`, to reuse `TypeStep`).

### MC modules

These modules give the constants model values for TLC.
- `MC_Client` (EXTENDS `ClientPause`) uses two containers, `c2` with `--rm`,
  and two callers. The callers are symmetric.
- `MC_Pumba` uses the same two containers and the callers `1..MaxCycles`, the
  cycle identities.
- `MC_Selector` uses the alphabet `r e 2 : x` and the containers `x`, `xe`,
  `rex`.
- `MC_Validation` uses durations `{-1, 0, 1, 2}`, interface characters
  `{e, 0, ;}` (a letter, a digit, neither) and integers `{-1, 1, 100, 101}`.
  These are the edges of every check.

## 3. Runs

| Run (cfg) | Expect | Properties | What it shows |
|---|---|---|---|
| Client_race | pass (12467 states, caller symmetry) | `PauseExclusive` | With any mix of calls from two callers on two containers, in any interleaving, a paused container is inside the pause window of at most one `PauseContainer`. |
| Client_dry | pass (1891) | `DryRunInert` | With `--dry`, no step changes the daemon's state. |
| Pumba_drain | pass (4228544) | `DrainBeforeExit` | With the ticker never stopped, up to two cycles live at once and `--random`, `os.Exit` after a signal only cuts off cycles whose `gWG.Add` came after the signal. |
| Validation_complete | pass (741500) | `ValidNeverRejected` | No command the spec calls valid is rejected, over every combination of the inputs. |
| Client_netem_filter | violation | `NetemReverted` | Filtered netem leaves the prio root and the netem child: the teardown deletes a root netem that is not there. |
| Client_netem_overtake | violation | `NetemReverted` | Unfiltered netem: the teardown `tc` runs before the setup `tc`, fails, and the delay added afterwards stays. |
| Client_stop | violation | `StopReportsTruth` | `StopContainer` reports "could not be stopped" for a container that exited. |
| Client_rm_volumes | violation | `VolumesOnlyIfAsked` | `rm --links` removes the volumes (the flags are swapped). |
| Pumba_NoPauseLeftAtExit | violation | `NoPauseLeftAtExit` | The ticker keeps firing after SIGINT. A cycle added after `gWG.Wait` returned is killed by `os.Exit` mid-pause, leaving the container paused. |
| Pumba_signal_exit | violation | `SignalLeadsToExit` | Under the runtime's fairness, cycles that overlap, started by the ticker that keeps firing after the signal, hold `gWG` above zero forever: the process never exits. |
| Selector_spec | violation | `TargetsAsSpecified` | The targets differ from spec 6's: see finding 7. |
| Validation_sound | violation | `ValidatedIsValid` | Invalid commands reach the scheduler: see finding 8. |

Together, the passing runs fire every action and every disjunct of `Next`,
`PumbaNext` and `ValidationNext`:
- Client_race covers every client action that changes state;
- Client_dry covers the dry branches;
- Pumba_drain covers the scheduler, the cycles and `--random`;
- Validation_complete covers every handler, each with its accept and reject
  branch.

`Selector` has only a violation run. Its two actions are reached by
Selector_spec.

Deadlock is checked in the Client and Pumba runs. The terminal states are
named explicitly:
- `Finished` in `Client`: every caller returned and the containers are quiet;
- `Quiescent` in `Pumba`: the process is gone and the containers are quiet.
  While it runs the ticker can always fire.

Any other stuck state is reported as a deadlock. `Selector` and `Validation`
model one command each, which stops when it is parsed or running, so their
runs set `CHECK_DEADLOCK FALSE`.

Each property of a passing run has a mutant (see `PROJECT.json`) that TLC
finds violating it:
- `PauseContainerIgnoreError` goes on to the sleep after a failed pause. It
  breaks `PauseExclusive`: a second caller enters the pause window of a
  container another caller holds paused.
- `KillContainerNoDryGuard` drops `if !dryrun`.
- `SpawnCycleNoAdd` drops `gWG.Add(1)`.
- `NetemHandlerStrictVariation` rejects `variation == amount`.

Bounds:
- Two containers let one be `--rm` and one not.
- Two callers, or two cycles live at once, make every pairwise race happen:
  pause against pause, kill, stop or rm of the same container; a tick in
  flight against the signal; two overlapping cycles holding `gWG` up.
- The Pumba runs use unfiltered netem. With three live cycles, or with
  filtered netem, the interleavings of the pending `tc` commands grow past
  what TLC explores in minutes. Filtered netem is covered by the Client runs.
- `Selector` uses strings of up to 6 characters: `re2:` plus two, enough for
  both the prefix and a trailing character of its set.
- `Validation` uses interfaces of up to 3 characters: a letter with two digits
  is the longest valid name, and 3 also allows a bad character after a valid
  prefix.

The ticks are unbounded: `MaxCycles` bounds only the cycles live at once, and
identities are reused. So Pumba_signal_exit can exhibit the starvation of
`gWG.Wait` as a lasso: two cycles take turns being live, and the counter is
never zero.

## 4. Findings

Each finding is a violation run. Details are in `PROJECT.json`.

1. **Filtered netem teardown.** Filtered netem teardown never reverts the
   setup (`part_000:267`).
2. **Teardown overtakes setup.** The `tc` exec is asynchronous and unchecked
   (`part_000:331`). Only the sleep of the duration, which may be 1ms, stands
   between setup and teardown. So even unfiltered, the teardown can run
   first, and the delay stays (Client_netem_overtake).
3. **Wrong stop error.** `StopContainer` reports an error for a container
   that stopped (`part_000:135`).
4. **Swapped remove flags.** `RemoveContainer` swaps `RemoveVolumes` and
   `RemoveLinks` (`part_000:187`).
5. **Cycles after Wait.** The ticker is never stopped after a signal
   (`main.go:368`), so a cycle added after `gWG.Wait` returned is killed by
   `os.Exit` (`main.go:526`).
6. **No exit after a signal.** For the same reason, cycles that overlap can
   keep the `gWG` counter above zero forever, so `gWG.Wait` never returns
   (`main.go:526`). Spec 4.6 says the scheduler stops issuing ticks, drains,
   and exits (Pumba_signal_exit).
7. **Wrong targets.** `getNamesOrPattern` disagrees with spec 6 in two ways:
   - a single argument without `re2:` selects every container
     (`main.go:340`);
   - `strings.Trim` strips a character set, not the prefix (`main.go:348`),
     so `re2:e` becomes the empty pattern and also selects every container.
8. **Validation not sound.** Commands get past validation although the spec
   calls them invalid:
   - an `--interval` of 0 or less panics `time.NewTicker` (`main.go:364`);
   - an empty `--interface` passes the regexp check (`main.go:429`);
   - a `--target` that does not parse silently disables the filter
     (`main.go:435`);
   - no check makes the interval at least the duration (spec 4.5).

TLC's trace for 7 is the first case, and for 8 the panic. The other cases
were confirmed by checking the same property with the inputs restricted to
exclude the earlier ones.

## 5. Proofs

`ClientProofs.tla` proves, for every finite set of containers and callers
(`ClientAssumption`):
- **`TypeCorrect`** (`Spec => []TypeOK`).
  - `TypeOK` is split into a daemon half, `DaemonOK`, and a callers half,
    `CallersOK`.
  - Lemmas on the building blocks (`Terminate`, `Signal`, `Return`, `Goto`,
    `ExecOnContainer`) state which half each preserves.
  - `TypeStep` has one step per action.
- **`PauseSafety`** (`Spec => []PauseExclusive`, the invariant of
  Client_race).
  - `PauseExclusive` alone is not inductive. A step of the owner could find
    its container no longer paused.
  - It is strengthened to `PauseIInv == TypeOK /\ OwnerHoldsPause /\
    PauseExclusive`. `OwnerHoldsPause` says that every caller inside its pause
    window holds its container paused.
  - TLC checked `PauseIInv` as an invariant of Client_race before the proof
    was written.
  - `PauseStep` proves it inductive with one step per action. Each step
    either:
    - keeps the set of paused containers and the owners (`Call`, stop,
      netem, environment),
    - moves a running container (kill, stop, rm), which has no owner by
      `OwnerHoldsPause`,
    - or is the owner's own pause or unpause.

`PauseLockProofs.tla` proves that the client implements the pause lock. This
is `PauseExclusive` stated as a refinement: a pause is taken only when nobody
holds it, and given up only by its holder.
- **`PauseLockSafety`** (`Spec => Lock!LockInit /\ [][Lock!LockNext]_Holder`),
  for every set of containers and callers, given `NoOne \notin Callers`
  (`NoOneAssumption`).
  - Under `PauseIInv`, the holder of a container is its unique pause owner,
    or `NoOne` when it has none (`HolderOfOwner`, and `HolderOfOwnerNext`
    for the state after a step). This is why the invariant of
    `PauseSafety` is needed: without `OwnerHoldsPause` and exclusivity, the
    `CHOOSE` of `Holder` could pick any of several owners.
  - `HolderKept`: a step that keeps a container's owners keeps its holder.
  - `RefineStep` has one step per action:
    - `Call`, kill, stop, rm, the netem steps and the environment keep every
      owner set, so `Holder` stutters;
    - a successful `PauseContainer` is `Acquire`;
    - `UnpauseContainer` is `Release`.
  - `PauseStep` supplies `PauseIInv'`.

`ClientProofs.tla` also proves the dry-run property:
- **`DryRunSafe`** (`Spec => DryRunInert`, the action property of
  client_dry).
  - Only the first step of each call has an `if !dryrun` guard. The second
    kill of `StopContainer` and the child-netem and filter steps of
    `startNetemContainerIPFilter` have none.
  - Also, the containers' own steps (tc running an exec, a caught signal
    ending a container, `--rm` cleanup) are not guarded by anything.
  - So the property holds only by the invariant `DryQuiet`. Under `--dry`:
    - every container runs with no caught signal and no pending exec;
    - no caller is at an unguarded step.
  - TLC checked `DryIInv == TypeOK /\ (DryRun => DryQuiet)` on client_dry's
    instance before the proof was written.
  - `DryStep` shows that each step under `--dry` leaves `daemon` alone and
    keeps `DryQuiet`. The unguarded steps and the environment steps are not
    enabled at all.

`PumbaProofs.tla` proves, for every `MaxCycles`, set of containers and
selector, and for any number of ticks (`PumbaAssumption`,
`ClientAssumption`):
- **`DrainSafety`** (`PumbaSpec => []DrainBeforeExit`, the invariant of
  Pumba_drain).
  - The argument counts. `DrainIInv` says the following:
    - the `gWG` counter equals the number of live cycles (`WGCounts`, over
      finite sets of cycles: `CyclesFinite`);
    - the identity the receive loop is about to spawn under is held by no
      live cycle (`SpawnAhead`), so `SpawnCycle` adds a cycle not yet
      counted;
    - once `gWG.Wait` has returned, every live cycle was added after the
      signal (`DrainedAtExit`);
    - the process ends only by `os.Exit` (`ExitedBySignal`).
  - `DrainBeforeExit` alone is not inductive. It says nothing of the
    counter, which is what lets `WaitReturns` conclude there is no live
    cycle.
  - TLC checked `DrainIInv` on Pumba_drain's instance.
  - `DrainStep` has one case per action. `DrainAdvance` and `DrainDone`
    cover a cycle's moves, and `DrainFrame` covers the steps that leave the
    scheduler alone.
- **`PumbaTypeCorrect`** (`PumbaSpec => []PumbaTypeOK`).
  - Its nontrivial conjunct is `wg \in Nat`: `gWG` never goes negative,
    which in Go would be the "negative WaitGroup counter" panic.
  - It follows from `WGCounts`: the counter is the cardinality of a set
    (`WGNat`). So the proof rests on `DrainIInv`.
  - `RestStep` types the other variables. It reuses Client's `TypeStep`
    for the client steps, since cycle k is caller k. `CommandCalls` shows
    that the call a cycle makes is a client call.

`ValidationProofs.tla` proves, for every set of durations, interface
characters, integer flags and `IfMaxLen` (`ValidationAssumption`):
- **`NoValidRejected`** (`ValidationSpec => []ValidNeverRejected`, the
  invariant of validation_complete).
  - The lemma it needs is **`WellFormedFound`**: every interface of the form
    `[a-zA-Z]+[0-9]{0,2}` is its own `reInterface.FindString` match.
  - The proof of `WellFormedFound` takes the parts of `FindInterface`'s
    `LET` one at a time (`IfStarts` ... `IfNDigits`):
    - the leftmost letter is the first character;
    - the run of letters ends where the digits start, because letters and
      digits are disjoint (`LettersNotDigits`);
    - all trailing digits, at most two, are taken.
  - The inductive invariant `ValIInv` adds to the property that `iface` is
    a sequence of characters. No handler changes an input
    (`SpecValidFrame`), and `NetemChecksOfValid` shows that each check of
    `netemDelay` is one the spec makes.
  - TLC checked `ValIInv` on validation_complete's instance.

What stays with TLC:
- Liveness: `SignalLeadsToExit`. It is violated anyway. A liveness
  property would need fairness and ENABLED, which are beyond the installed
  provers here.
- `Selector.tla`. It declares the `RECURSIVE` operators `TrimLeft` and
  `TrimRight` (the `strings.Trim` of the resolver), so no module that
  reaches it may hold a theorem. Its property is violated anyway.
- The properties of the violation runs. They are false of the code, and
  the runs show the counterexamples.

## 6. Not modelled, and the plan

Not modelled:
- `StartContainer`, `RenameContainer`, `RemoveImage`: no command calls them.
- Logging, the Slack hook, `tlsConfig` and the CLI flag declarations: these
  are configuration and I/O.
- `gox_build.sh`: a build script.
- The handlers after validation only build the command value, which
  `Commands` in `Pumba` enumerates. The two halves are not composed into one
  run, because the product of their input spaces is beyond TLC's reach.

Next:
1. Liveness of the netem revert, "every started netem reaches its
   teardown", under the callers' fairness.
2. An action property of the scheduler, proved from `DrainIInv`.
3. A `LEAKED` state in the abstract lock, so that a pause left without an
   owner (an unpause that fails after another caller removed the container)
   is visible to the refinement. Then the refinement would say more than
   `PauseExclusive`.
4. A variant of the scheduler that stops the ticker on the signal (what spec
   4.6 asks), to check that `SignalLeadsToExit` and `NoPauseLeftAtExit` then
   hold.
