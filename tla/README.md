# killport: models, model checking and proofs

killport (Go, `src/internal/cli`) finds the process or container that holds a
port and stops it. It has two faces: the classic command `killport PORT...`,
which lists, kills and verifies in one go, and the workflow `inspect` / `plan` /
`apply`, which writes down exactly what it would stop, bound to process
identities and container IDs, and carries it out later. In both the hard part is
the same: everything killport knows was true a moment ago, the machine goes on
changing, and a signal once sent cannot be taken back.

This directory holds TLA+ modules for the core of both, TLC configurations that
check them on small instances, and TLAPS proofs about them for every instance.

## 1. Inventory

| Component | Source | State it keeps | Operations | Modelled in |
|---|---|---|---|---|
| process identity, identity-checked signal | `procid*.go`, `system.go` | a pidfd or process handle during a call | `ProcessIdentity`, `SignalIfSame` | `SignalIfSame`, `IdentitySignal` |
| observation | `observe.go`, `listeners.go`, `sockets.go`, `docker.go` | one snapshot, filled source by source | `collect`, `endpoint` | `Collect`, `Observation` |
| plan | `plan.go` | the plan document | `buildPlan`, `planClass`, `validatePlan` | `Planning`, `ExitClass`, `Documents` |
| apply | `apply.go`, `workflow.go` | resources and their results, the attempt counter, the context | `applyPlan`, `act`, `signalProcess`, `noLongerHolds`, `stopContainer`, `observeOutcome`, `classify`, `applyClass` | `Apply`, `Outcome` |
| legacy command | `cli.go`, `kill.go` | rows, acts and their errors | `execute`, `planKill`, `verify`, `finishRows` | `LegacyKill` |
| plan file | `workflow.go`, `plan.go` | FILE and a temporary file next to it | `writePlanFile`, `readPlan`, `decodePlan` | `AtomicPlan`, `PlanFile` |
| deadlines, TTL | `apply.go`, `plan.go`, `system.go` | the context of an apply, its slots, its timers | `applyDeadline`, `graceSeconds`, `formatTime`, expiry, `runTool`, `briefCtx` | `Deadlines` |
| read-only guard | `system.go` | none | `readOnlySystem`, `workflowSystem` | `Shell` |
| command line shell | `cli.go`, `output.go`, `workflow.go` | the buffered standard output, the exit class, the signal handling | `Main`, `runContext`, `reportPanic`, `execute`, `runInspect`, `runPlan`, `runApply` | `Shell` |
| check mode, inspect | `check.go`, `workflow.go` | none | a listing or an observation, and its printing | `Shell` (as processes), `Collect` |
| port arguments, text parsers, output, packaging | several | none | parsing and printing | not modelled (section 8) |

How they interact. `plan` and `apply` are two runs of the program that share
only the document. `apply` dispatches its resources in order to goroutines, four
at most at a time; each makes an observation of its own when it leaves the
queue, and then signals a process through `SignalIfSame` or runs `docker stop`.
When all have ended the main goroutine observes the planned ports again and
again until they are free or the grace period is over. The classic command
captures identities right after its one listing, acts through the same kind of
goroutines, and verifies by listing up to 16 more times. A context that dies (a
SIGINT, the time limit) is shared by all goroutines. Around every command stands
the same shell: standard output is buffered and written at the end, a panic of the
main goroutine becomes the only document, a first signal cancels the context and a
second one ends the process; the commands that only look run under a guard that
panics on anything else. Commands meet each other at the plan file, which one
replaces while another reads it.

What is hard, and what makes each component correct:

- *Identity and signal.* Between any two system calls a PID may exit and be given
  to somebody else. Where the platform can bind a signal to a process it must
  reach the captured incarnation and no other (`AtomicPathExact`); everywhere, a
  plan whose process is long gone must signal nobody (`StaleTokenSilent`); and
  "not found" or "changed" must be final, because callers then report the
  resource as gone (`RefusalIsFinal`).
- *Observation.* The sources are read one after another and can fail, answer in
  part or disagree. "Nobody owns this port" must never be taken for "this port is
  free" (`FreeIsProven`, `FreeWasFree`).
- *Plan.* Nothing that occupies a port may be silently dropped (`AccountedFor`,
  `LimitedIsRefused`), and a plan killport writes must be one it accepts
  (`PlansValidate`).
- *Apply.* Who is on a port now has to be told apart from who was planned, by
  PID, start time, container ID and name (`OriginalWasOriginal`,
  `NewOwnerIsSomebody`, `StableWorldIsRecognised`); a resource that waited in the
  queue must be judged on a fresh look (`SignalsJustified`); a dead context must
  stop new actions (`LateActionsBounded`); every attempt must be counted
  (`EffectsCounted`), and what an interrupt left undone must be said
  (`UndoneIsSaid`); it must end (`Terminates`, `Advances`), and say ok only when it
  is (`OkIsEarned`, `OkWasFree`). What the tools, goroutines and clocks amount to
  must be a plan and a verdict that the decisions allow (`ImplementsDocuments`).
- *Legacy command.* Killed and stopped rows must come from a listing that no
  longer shows the owner (`KilledLeftThePort`), exit code 0 must mean that nobody
  is left (`FreedIsFree`), who was refused must not be hit on account of
  another port (`RefusedIsSpared`), and kills that go out after Ctrl-C must not be
  reported as done (`LateKillsUnclaimed`).
- *Plan file.* FILE is replaced in one step or left alone, wherever plan fails or
  dies, and apply never acts on a plan that was not there as a whole
  (`AtomicReplace`); nothing else is written, links and litter included
  (`NothingElseWritten`).
- *Time.* A plan that is accepted can be applied until it expires (`PlanIsUsable`);
  apply ends soon after its limit, whatever hangs (`EndsInTime`), and the limit is
  long enough for every wave and for the outcome (`WavesFit`, `GraceIsWaited`).
- *Shell.* One document, and the truth (`OneDocument`, `FileMatchesReport`); a usage
  error means that nothing happened (`UsageMeansUntouched`); one signal loses no
  report (`SignalsLoseNothing`).

`PROJECT.json` lists the hazards, each at its line, with the properties for it.

## 2. The modules

```
Machine ── IdentitySignal          the contract: one step sends or refuses
   │            ▲ implemented by
   └────── SignalIfSame ── MC_SignalIfSame, SignalIfSame_proofs

ExitClass ─┐
Observation ┴ Planning ┬ Outcome ── Documents ── MC_Documents, Documents_proofs
                       │                    ▲ implemented by
                       └ World ── Collect ┬ (+ Outcome) Apply ── MC_Apply, Apply_proofs
                                          ├ LegacyKill ── MC_LegacyKill, LegacyKill_proofs
                                          └ World_proofs (used by both proofs)

AtomicPlan                         the contract: FILE is replaced in one step
   ▲ implemented by
PlanFile ── Shell ── MC_Shell      the system calls; the commands around them
   └ PlanFile_proofs  └ Shell_proofs

Deadlines ── MC_Deadlines, Deadlines_proofs
                                   the clock of plan and apply
```

**Machine** is the operating system's process table: PIDs that are bound to
incarnations, named by start times from a clock that never repeats. That two
incarnations of one PID have different start times is what every comparison in
`procid_*.go` relies on, and it is the one thing assumed of the system. A process
dies in two steps, `Exit` and `Reap`: in between it is a zombie whose PID is not
free. `foreign` are processes of other users.

**SignalIfSame** runs `platformProcessIdentity` and `platformSignalIfSame` one
system call per step. The program counter of a caller corresponds to lines:

| `pc` | Linux (`procid_linux.go`) | macOS | Windows |
|---|---|---|---|
| `capture` | 46-59 | 40-50 | 72-86 |
| `held` | between the two calls, for any time | | |
| `open` | `pidfd_open`, 118 | | `OpenProcess`, 94 |
| `read` | start time by PID, 128 | | from the handle, 99 |
| `send` | `pidfd_send_signal`, 135 | | `TerminateProcess`, 106 |
| `compare` | `compareThenKill`, 97 | 57-63 | |
| `kill` | `kill(2)`, 104 | 68-77 | |

`host` is fixed for a behaviour: Linux with both calls, without `pidfd_open`,
without `pidfd_send_signal`, or running into its file limit; macOS; Windows. The
32-bit cut of a PID argument on Windows is `Narrow`, modulo 2(maxPID+1). An open
handle pins its PID on Windows (`Pinned`), a pidfd does not.

**IdentitySignal** is what `system.go:37-48` promises of the same two calls:
`Deliver` sends to exactly the captured incarnation in one step, or nothing is
sent. `DeliverByPID` is the weaker promise of `system.go:65`, for a platform that
cannot bind a signal (`binds` is false) and for a process of another user, where the
code falls back to compare and kill: it reaches whoever has the PID. `Apply` and `LegacyKill` are written against it: their `Signal` and
`KillNative` are that one step.

**Observation** is a snapshot as a record, and the projection `endpoint(port)`.
Names are "plain", "infra" (what `isDockerInfra` accepts) or "" (unknown).
`WellFormed` says what the collectors can leave behind; on Windows one `netstat`
gives both the table and the owners. **Planning** is `buildPlan`, `planClass` and
`validatePlan`; a resource is its PID or container ID. **ExitClass** is the order
of the exit codes. **Outcome** is `classify` (one flag per occupant, then the
status) and `applyClass`.

**Documents** leaves the machine out: `Build` makes a plan from any snapshot, `Save`
keeps nothing but the document, `Judge` takes any result for each resource and any
other snapshot of the same system, and reports. It is where the decisions are
checked against every disagreement of the sources, and where they are proved.
`Apply` implements it: its snapshots are collected source by source and its results
come from goroutines, but a plan and a report of `Apply` are a plan and a report of
`Documents` (`docPhase`, `docPlan`, `docSnap`, `docResult`, `docReport` are the
refinement mapping). `Verdicts` is what an interrupt may do to the class: `uncertain`,
if something is left undone or an endpoint is not free.

**World** is the machine the commands act on: processes that hold ports, exit,
start (perhaps under a used PID, on free ports or on those of a parent, with a name of
their own), bind and close; containers that start, die and
are stopped by the daemon late. `host` says which system and which tools there
are. **Collect** says what each source can leave in a snapshot, given the world
at the instant it is read: an lsof view without hidden owners or an ss view with
them (netstat, which shows every socket, leaves none out), a table with or without
Docker's proxies, identity lookups that are denied,
a failing Docker, an lsof that gives up with exit code 1.

**Apply** is `plan` followed by `apply`. Its phases are `observing`, `saved`,
`acting` (the dispatch loop, `apply.go:171-188`), `looking` (`observeOutcome`) and
`done`. `work[k]` is where the goroutine of resource `k` is: `begin` and `collect`
hold its two looks at the context (257 and 265), `confirm` the end of
`noLongerHolds`, `signal` the call of `SignalIfSame`, `stop`, `wait` and `again`
the steps of `stopContainer`. One source of an observation is read per step
(`CollectStep`), so processes move between them. `Cancel` stands for SIGINT and
for the time limit; `GraceEnds` for the outcome deadline.

**LegacyKill** is `killport PORT...`: `stage` is the tool that runs next,
`CaptureIdentity` binds one PID at a time after the listing, `VerifyAgain` and
`FinishRows` are the verification. A listing is a set of rows (port, owner), and each
row has the name its own tool read (`list.name`), so that two rows of one PID may
differ when the PID is reused between lsof and ss. `Ss` adds to what lsof saw or, where
there is no lsof, is the listing (`Unmerged`). `hits` records of each process that was
signalled its PID, start time and name at that instant, and whether the context was
dead by then.

**PlanFile** runs `writePlanFile` and `readPlan` one system call per step for any
number of planners and appliers on the same FILE. `pc` is the next system call
(`lstat` 357, `create` 365-371, `write` and `writeRest` 375, `close` 380, `rename` 384,
`remove` 372-386; `open` 444, `read` and `readRest` 446). A file is an inode of two
blocks, so that a write can stop half-way and a read can fall between two writes.
`path` is what FILE is: an inode, a link, a directory or nothing. The plan_id is a
checksum of the whole document: two blocks of different plans are refused (`Decode`).
Somebody else may swap FILE, write into it in place, or pull the plug, after which
the end of a file that was never synced may be missing. **AtomicPlan** says the same
with one variable for what FILE holds: `Replace` is one step, `GiveUp` changes
nothing, `Accept` takes a plan that was there while the file was open.

**Shell** adds the processes. `stage` is how far a command is: `starting` (flags and
ports), `observing`, `file` (the system calls of `PlanFile`), `acting`, `writing` (the
buffer), `exiting` (before `stop()`), `leaving` (before `os.Exit`); `over` is how it
ended. What a command observes and does is one nondeterministic step that ends in any
exit class the detailed modules end in. `Recovered` is the deferred function of
`runContext`, `WorkerPanics` the panic of an action goroutine, `Restore` the goroutine
of `Main` that calls `stop()`. `Lookups` are the tools the observations run, `Allowed`
what the guard lets through; a tool that is not in it would panic (`Observe`). None is
missing today, which is read off the two definitions, so no property says it.

**Deadlines** counts time in ticks. A step of a goroutine takes any time up to its
own timeout plus the `WaitDelay` of a killed tool; a step whose context is that of
apply ends at most a `WaitDelay` after that context is done (`cut`), one with a
context of its own does not (`own`, `lookOwn`). `Tick` cannot pass a timer of the
program, nor go by while the dispatch loop could run. Plan times are counted in
ticks as well, `Second` of them make up the second that `formatTime` cuts to.

A variable commented as history is read by properties only: no guard mentions it.

## 3. What each run checks

| Run | Instance | Distinct states | Shows |
|---|---|---|---|
| `signal` | two callers, one PID, three incarnations, requests {0, 1, one past 32 bits}, all six hosts, other users | 635,000 | `TypeOK`, `AtomicPathExact`, `StaleTokenSilent`, `RefusalIsFinal`, `Returns`, and `MeetsContract`: `SignalIfSame` implements `IdentitySignal` |
| `signal_strength` | Linux with and without `pidfd_send_signal` | violation | finding 1 |
| `documents` | one PID, two start times, one container, one port: every pair of well-formed snapshots, three modes, all results | 1,120,000 | the type invariant, `PlansValidate`, `AccountedFor`, `LimitedIsRefused`, `StableWorldIsRecognised`, `FreeIsProven`, `NewOwnerIsSomebody` |
| `apply_native` | two PIDs, one slot, Unix and Windows, two moves of the machine, one fault, a cancellation | 1,070,000 | `SignalsJustified`, `OriginalWasOriginal`, `LateActionsBounded`, `UndoneIsSaid`, `Terminates` |
| `apply_docker` | one process (plain or infra), two containers of one name, two slots, Unix and Windows | 1,480,000 | `FreeWasFree`, `GoneWasGone`, `EffectsCounted`, `RefusedWasThere`, `OkWasFree`, `Advances`, and `ImplementsDocuments`: `Apply` implements `Documents` |
| `apply_interrupted` | one process | violation | finding 4 |
| `legacy` | two ports, PID 2, and 4 that may start (System on Windows), one container on port 80, one slot, hosts with lsof and ss, either alone, Windows, and without identities | 1,420,000 | `KilledLeftThePort`, `FreedIsFree`, `RefusedIsSpared`, `LateKillsUnclaimed`, `Terminates` |
| `legacy_reused` | one PID, two incarnations | violation | finding 2 |
| `legacy_degraded` | one PID that never moves, lsof only | violation | finding 3 |
| `commands` | any two of two planners and an applier on one FILE, or one of killport PORT, a dry run, check and inspect; Unix and Windows; two troubles for a single command, one for a pair | 338,000 | `AtomicReplace`: the system calls implement `AtomicPlan`; `NothingElseWritten`, `OneDocument`, `FileMatchesReport`, `SignalsLoseNothing` |
| `commands_panic` | the same | violation | finding 5 |
| `deadlines` | seconds of two ticks, every TTL and grace period up to two seconds without resources, three grace periods with up to five resources on two slots | 1,800,000 | `PlanIsUsable`, `EndsInTime`, `WavesFit`, `GraceIsWaited` |

For each property of a passing run `PROJECT.json` names a plausible bug in one
mapped definition, kept beside it as an operator named `<definition>_<bug>`,
under which TLC finds that property violated.

Some properties are in no run because a theorem states them for every instance:
the type invariants of `LegacyKill`, `Shell` and `Deadlines`, `OkIsEarned` (`OkWasFree`
says more in a run), `UsageMeansUntouched`, `Advances` of the classic command and
`InRangeOnly`.

**Bounds and why they are enough.**

- *Three incarnations of one PID* (`MaxStart`): the token's, the one opened and
  the one signalled can all differ; a fourth is told apart from the token by
  nothing in the code. Two callers, because on Windows the handle of one pins a
  PID for the other; callers share nothing else.
- *MaxPID = 2*, so that the request 7 is cut to PID 1.
- *One port* for plan and apply: a port's decisions read only that port's rows and
  publishers. *Two* for the classic command, which decides row by row and acts on
  whole processes. The operators keep the sets of ports, and the proofs are for any
  number.
- *Two PIDs and one slot, or a process and two containers and two slots*: enough
  for one resource to wait for another, for two goroutines to act at once, and
  for a port to pass from one owner to another of the same PID or name. One slot
  stands for the code's four: the properties compare a queued resource with a
  running one.
- *MaxMoves = 2*: exit and restart under the same PID, or give the port up and have
  somebody else take it. What the daemon does with a stop it was given is not
  counted.
- *MaxFaults = 1*: one source fails or answers in part, or one call is refused, or
  one goroutine panics. Failures due to a dead context are not counted.
- *VerifyAttempts = 2* for the code's 16: a first attempt and a last one.
- *A trouble* in `commands` is a failing system call, a panic or a failed write of the
  output, a signal or a kill, or a move of somebody else. What a second trouble does
  to a pair of commands is covered by the proofs, which have no bound.
- *Two slots and five resources* in `deadlines`: a full wave, an incomplete one and
  waves that do not fit under the cap. `AppliedAtOnce` leaves out the time between
  plan and apply when there are resources, and `MaxIdle` ticks, past the largest
  TTL, when there are none; the code does not relate the two.

**Fairness.** `signal`: weak fairness of each caller: a goroutine in a system call
gets on with it. `apply_native` and `legacy`: weak fairness of the program as a
whole (some goroutine that can run does), and in `Apply` that the grace period
passes. That is less than the Go scheduler gives. Nothing is assumed of other
programs, of Docker or of the user; what the program starts has a time limit
(`runTool` in `system.go`), which is why the step that ends it can be counted on. That apply ends when it stops
containers is `EndsInTime`, which is stronger and needs no fairness: time does not pass
a timer. `commands` and `deadlines` check safety only.

Every run checks for deadlock: what may stop has a step for it (`Terminated`, `Done`,
`Over`, `Ended`). In `deadlines` this also says that the clock can always go on: no
timer is waited for that does not exist.

## 4. What the violations show

1. **`signal_strength`.** `platformProcessIdentity` probes `pidfd_open` only. Where
   `pidfd_send_signal` is filtered, a token of strength `pidfd` is signalled by
   compare-then-kill, and a PID reused in between is hit. `system.go:64` says
   "pidfd" is atomic.
2. **`legacy_reused`.** The classic command captures identities after the listing
   (and after `docker ps`), so a process that takes over a PID in between is
   killed though it never held the port. `kill.go:58` says the identity is
   captured at enumeration time.
3. **`legacy_degraded`.** `verify` drops the listing's warnings: an lsof that exits 1
   with a message makes every row `killed`. `docs/cli-reference.md:13` says a row is
   killed only when its own PID is gone.
4. **`apply_interrupted`.** A goroutine that leaves its resource alone because the
   context died does not set `skipped`; if the port is free in the end, the report
   has neither error nor class `uncertain`. `docs/workflow.md:180` says it has both.
5. **`commands_panic`.** The goroutines of `execute` have no `recover`; the one of `apply`
   has (`safeAct`). A panic there ends `killport PORT` with the Go runtime's status 2,
   which is the usage code, and without a document. `cli.go:122-125` says that a panic
   exits with 1 and that there is always one document.

The window of `legacy_reused` has a second face. The listing of Unix is two listings,
and a PID that is reused between lsof and ss is in both, under two names: as one of
Docker's own on one port, hence refused, and as an ordinary process on another, hence
killed. So `RefusedIsSpared` is said of processes that had their PID to themselves
while the ports were listed (`HadItsPID`); no document promises more. Without that
condition TLC finds the other case at once.

One thing a reader of `docs/workflow.md:135` may stumble on and no run refutes: `classify`
looks a refused owner up by PID or container name alone (`apply.go:474`), because the
plan keeps no start time of a refusal. So `blocked_by_refused_owner` can also be
somebody who got the PID of a refused process and its port; `RefusedWasThere` is what
holds.

## 5. What is proved

Every safety property, action property and refinement of every passing run is also
a theorem, and so are some that no run checks, for every value of the constants, from the assumptions that the modules
name next to them (`MachineAssumption`, `SignalAssumption`, `ObservationAssumption`,
`PlanningAssumption`, `OutcomeAssumption`, `WorldAssumption`, `ApplyAssumption`, ...).
They say no more than that the sorts are disjoint, PIDs are positive, bounds are
natural numbers, there is a start time for the first processes, and (for counting)
that resources and commands are finite sets. Most properties are far from inductive;
what makes them so is the substance of the proofs.

**`SignalIfSame_proofs`**: `TypeCorrect`, `AtomicPathIsExact`, `StaleTokenIsSilent`,
`RefusalsAreFinal`, `OutOfRangeIsHarmless`. On Linux the pidfd is opened first and the
start time is read *by PID* afterwards, so that the two agree is not a fact about
either step. The invariant `IInv` adds what makes them agree, start times grow:

- `Ordered`: the token and the opened incarnation are never younger than the one
  that has the PID now;
- `Holding`: after the open, the token is not younger than what was opened; after
  the read, they are the same, because the read found the token and it lies on
  both sides of what was opened;
- `Seen` and `Compared`: the incarnation that has the PID during a call is among
  those that existed during it, and after the compare the token is one of them;
- `Token`: a token was captured for a PID in range only;
- `Outcome`: the properties themselves, and `Pending`: nothing is decided before.

The step part has one lemma for the three ways a step can end (`FinishInv`,
`JumpInv`, `SendInv`), one for each action, and `Frame` for the other callers.
`CallImplementsContract` is the refinement `Spec => MeetsContract`: each of the system
calls is a step of `IdentitySignal` or a stutter, under the further invariant
`Routes`, which ties the path a call takes to what its host can bind.

**`Documents_proofs`**: `TypeOK`, `PlansValidate`, `AccountedFor`, `LimitedIsRefused`,
`StableWorldIsRecognised`, `FreeIsProven`, `NewOwnerIsSomebody` and `OkIsEarned`. For
most the argument is about the operators alone (`FreeMeans`, `Accounted`,
`BlockedMeans`, `BuiltIsValid`): every publisher puts up a flag; every owner does too
unless a publisher is there to be judged; so no flag means no owner and no publisher,
and a port that is occupied nevertheless has a hidden owner. The only invariant is
`Fresh`: until it is saved, a plan is the one built from the snapshot at hand.

**`PlanFile_proofs`**: `FileTypeCorrect`, `NothingElseIsWritten`, and the refinement
`PlanFileImplementsAtomicPlan`. `FileInv` says of every inode that FILE is or was:
FILE, and whatever a reader has open, is never a planner's inode before that planner
is done with it (`Published`), by the time it is closed the temporary file holds the
whole plan of its writer (`Filled`), the whole plan that a reader's inode holds is one
it was offered (`Seen`), and nothing is answered before it is decided (`Undecided`). The simulation then goes action by action: the
`rename` is `Replace`, the final compare of a reader is `Accept`, everything else
stutters or is a move of the environment that `AtomicPlan` has too.

**`Shell_proofs`**: first `ShellSpec => FileSpec`, again by simulation (a command's
step is a system call of `PlanFile` or leaves FILE alone), which carries the theorems
about the file over to whole commands: `CommandsReplaceAtomically`,
`CommandsWriteNothingElse`. Then `ShellTypeCorrect`, `EveryCommandReportsOnce`,
`ReportsFitTheFile`, `UsageTouchesNothing` and `OneSignalLosesNothing`, from an invariant with one part per thing a command can have
done by each stage: nothing printed (`Silent`), a document buffered (`Ready`) or
written (`Told`), arguments refused before anything happened (`Early`), what it may
have acted on (`Acts`), which signals reached it (`Heard`), that every panic is one of
the mishaps (`Counted`), and that a command that is not at its file is in no system
call of `PlanFile` (`Between`).

**`World_proofs`** has no theorem of its own: it collects the facts about the machine
that both commands rest on (`WorldTypes`, `HostTools`, `WorldAges`: whatever happens
under a PID, start times only grow, and `WorldNames`: who keeps its PID keeps its name).

**`LegacyKill_proofs`**: `LegacyTypeCorrect`, `KilledRowsLeft`, `FreedPortsWereFree`,
`RefusedAreSpared`, `LateKillsAreUnclaimed`, and `LegacyAlwaysAdvances` (below).
`LegacyInv` says which tool runs at which stage (`Staged`), what
a goroutine of `execute` may be doing (`Working`), that nobody protected has an action
and who was signalled had one (`Chosen`), that Docker lists nothing that is not
published (`Honest`), and that
whoever was on a port at every instant of the last enumeration is in it (`ShowsRows`,
`ShowsContainers`): the last is what a "killed" rests on. Two more invariants rest on
it:

- `SparingInv`, about names and start times. Each row carries the name of the process
  that held the port when its tool ran, if that process still has the PID
  (`RowsWereTrue`, `Nameless`). Hence all rows of a process that had its PID to itself
  carry one name, and it is in the plan with all of them or with none
  (`PlanIsSparing`). The machine cannot undo this: who takes the PID later is younger
  than all that was listed (`Aged`).
- `LateInv`: once a kill has gone out under a dead context, the verification does not
  get past its first tool, so that every planned row fails.

**`Apply_proofs`**: `ApplyTypeCorrect`, `SignalledForAReason`, `OriginalsAreOriginal`,
`FreePortsWereFree`, `GoneResourcesWereGone`, `NoEffectUncounted`, `FewActionsTooLate`,
`RefusedOwnersWereThere`, `UndoneIsAlwaysSaid`, and what is described after this list.
`ApplyInv` has a part about control and a part about data:

- `Turns`: who may be collecting, or have begun, in which phase; `Slotted`: at most
  `MaxConcurrent` goroutines are in flight, and late actions together with the
  goroutines past their last look at the context (`PastLook`) never exceed the slots;
- `SawTable`, `SawRows`, `SawDocker`: each part of a snapshot was true at the instant
  its source was read, for every way a source can answer or fail (one lemma for each
  stage: `TableStage`, `OwnersStage`, `DockerStage`, `IdentsStage`);
- `SameProcess`, `SameIdent`, `Left`: the rows, the identities and the planned start
  time are read at three different times, and by PID. That they speak of one process
  follows from `Clocked`: no start time anybody knows is later than the clock, so a
  process that has the planned start time now has had the PID ever since the plan.

*The decisions carried over.* `ApplyImplementsDocuments` is the refinement
`Spec => ImplementsDocuments`. It needs three facts that `ApplyInv` does not have
(`DecisionInv`): an observation past its first source is a snapshot that `Documents`
admits, on its way there (`Halfway`, again one lemma for each stage); what no goroutine
finished has no result (`LeftAlone`); and the report is the verdict on the results and
on the last look, while one written without a look is never ok (`Verdict`). Then
`MakePlan` is `Save`, the planner's last source is `Build`, `LookEnds` is `Judge`, and
everything else stutters. `Proved` is an instance of `Documents_proofs` under the same
mapping, so `DecisionsHold` gets its seven theorems for every behaviour of `Apply`
without repeating a proof, and `ExitZeroWasTrue` puts the two halves together: an ok
means that every endpoint was judged free (`OkIsEarned`), and judged free means that
the port was free when it was looked at (`FreeWasFree`).

*Progress.* That apply ends is a liveness property and stays with TLC, but most of the
reason is not about fairness: `EveryStepAdvances` gives every actor a number of steps
it still has to do (`StepsLeft`) and proves that each step of the program lowers one
and raises none, but for another look while the grace period lasts, and that the
machine, Docker and a cancellation change none. `LegacyAlwaysAdvances` says the same of
the classic command, with no exception: its verification attempts are counted. What is
left for fairness is that some goroutine that can run does and that the grace period
passes.

**`Deadlines_proofs`**: `ClockKeepsItsTypes`, `EveryPlanIsUsable`, `ApplyEndsInTime`,
`TheWavesFit`, `TheGraceIsWaited`, for every grid of seconds, every number of resources
and slots and every choice of the timeouts. The first half is arithmetic: what
truncating and rounding up do to times that are whole seconds apart (`Seconds`,
`Graces`), and that the last of `n` resources has its turn before the last wave
(`Turns`). `ClockInv` then adds

- `Timely`: where the clock may be while each step runs. A step with the context of
  apply ends a `ToolDelay` after it; one with a context of its own begins only when that
  of apply is done, hence before `Late`;
- `InWaves`: as long as no action is overdue, a resource takes its slot by its turn.
  While it waits all slots are taken by resources before it, so one of them is a whole
  wave before it (`WaveBefore`, by counting), and that one ends in time;
- `Waited`: the context is then not done before the grace period is over, because
  `Limit` has room for all the turns and the grace period.

Only model-checked, because out of reach of the prover (fairness and ENABLED): the
liveness properties `Returns` and, of `Apply` and `LegacyKill`, `Terminates`.

## 6. Abstractions to keep in mind

- `Apply` and `LegacyKill` take `SignalIfSame` as one step. `MeetsContract` shows that
  this is right where the signal is bound to the process; elsewhere a PID reused
  between compare and kill can be hit (`DeliverByPID`), which `StaleTokenSilent` bounds.
- Protocol is not a parameter: tcp and udp differ in the tools' arguments and the
  parser, not in the control.
- In `Apply` durations are nondeterministic: the grace period may end, the context die
  and a docker stop time out at any instant. `Deadlines` has the durations, and there
  what the tools say is nondeterministic. `Shell` has neither.
- In `Deadlines` what runs no tool takes no time, signalling included, and the wall
  clock does not jump.
- In `Shell` every command runs with `--json`, and arguments are wrong or not.
- `collect` stops at nothing when its context dies: a tool that is running then
  fails (`Killed`). `/proc` and identity lookups go on. The socket table of macOS is
  read by a tool too; that it fails then is covered by `MaxFaults`.
- `requireTools` refuses to start without tools. The hosts here have them.
- The plan and its apply run on one host; `runApply` refuses any other system before
  anything else (`workflow.go:470`).
- A process of `World` frees its PID when it exits; zombies are in `Machine`.

## 7. Plan

Order of work. The signal first, because every other promise rests on it; then the
decisions, then the two commands.

1. *Done*: `Machine`, `IdentitySignal`, `SignalIfSame`; `Observation`, `Planning`,
   `Outcome`, `Documents`; `World`, `Collect`, `Apply`, `LegacyKill`; `AtomicPlan`,
   `PlanFile`, `Shell`; `Deadlines`.
2. *Done*: proofs of all of the above.
3. *Left*: the rows that check mode and the classic listing
   print, as a function of one listing; UDP as a parameter of `Collect`.

## 8. Not modelled

The parsers of `/proc/net`, lsof, ss, netstat, tasklist and `docker ps` output and of
port arguments are character-level code without state, covered by the corpus tests;
`Collect` models what they return. Of check mode and `inspect` the process is in
`Shell` and the observation in `Collect`; the tables they print are not modelled. Sanitising, rendering, warnings, provider error categories and observation
ids decide nothing. `install.sh` and `scripts/` are not part of the program.

## 9. Running

In this directory: `tlc -workers 2 -config SignalIfSame.cfg MC_SignalIfSame` and so on
(`PROJECT.json` lists module and configuration of each run), and
`tlapm M.tla` for each of the `_proofs` modules (the longest, `Apply_proofs` and
`Shell_proofs`, take a few minutes).
