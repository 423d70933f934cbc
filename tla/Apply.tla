------------------------------- MODULE Apply -------------------------------
(***************************************************************************)
(* One plan and its apply (workflow.go:298-349, 458-492, apply.go).         *)
(*                                                                          *)
(* The planner observes the machine and writes a plan.  Any time later the  *)
(* apply dispatches its resources in order, at most MaxConcurrent at a      *)
(* time, each to a goroutine that makes an observation of its own and then  *)
(* acts; when all are done it polls until every endpoint is free or the     *)
(* grace period is over, and reports.  A cancellation or the time limit may *)
(* come at any instant.                                                     *)
(*                                                                          *)
(* SignalIfSame is the one step its contract promises (IdentitySignal).     *)
(***************************************************************************)
EXTENDS Collect, Outcome

CONSTANTS
    MaxConcurrent,  \* maxConcurrentActions
    Mode,           \* --mode
    Planner,        \* the goroutine of plan
    Observer,       \* the goroutine of apply that looks at the outcome
    MaxFaults       \* bound: how many calls to other programs fail

ASSUME ApplyAssumption ==
    /\ MaxConcurrent \in Nat \ {0}
    /\ Mode \in Modes
    /\ Planner # Observer /\ {Planner, Observer} \cap Keys = {}
    /\ MaxFaults \in Nat
    /\ IsFiniteSet(Keys)

Actors == {Planner, Observer} \cup Keys

VARIABLES
    phase,        \* what the two commands are doing
    plan,         \* the plan document
    obs,          \* obs[a]: the snapshot actor a is collecting
    stage,        \* stage[a]: the source it reads next, "collected" at the end
    work,         \* work[k]: the next step of the goroutine of resource k
    result,       \* result[k]
    attempted,    \* resources whose action was counted
    skipped,      \* the dispatcher left resources out because of ctx
    ctx,          \* "alive", or "dead" once cancelled or out of time
    lookCtx,      \* "dead" if the current look at the outcome began after that
    graceOver,    \* the outcome deadline has passed
    report,       \* the apply document, NoReport until it is written
    faults        \* calls that failed so far

\* History variables, read by properties only.
VARIABLES
    truth,        \* what was true when an actor read the table and the owners
    why,          \* why[k]: on what grounds the process k was signalled
    effects,      \* resources a signal or a stop request really reached
    late,         \* how many actions began after ctx was dead
    cut           \* resources left alone because ctx was dead

run == <<phase, plan, obs, stage, work, result, attempted, skipped, ctx,
         lookCtx, graceOver, report, faults>>
history == <<truth, why, effects, late, cut>>
vars == <<world, run, history>>

NoReport == [class |-> "none"]
NoPlan == [resources |-> {}]
NoTruth == [free |-> {}, held |-> {}, up |-> {}]

Init ==
    /\ WorldInit
    /\ phase = "observing"
    /\ plan = NoPlan
    /\ obs = [a \in Actors |-> Blank(OnWindows)]
    /\ stage = [a \in Actors |-> IF a = Planner THEN "table" ELSE "idle"]
    /\ work = [k \in Keys |-> "idle"]
    /\ result = [k \in Keys |-> "not_attempted"]
    /\ attempted = {}
    /\ skipped = FALSE
    /\ ctx = "alive"
    /\ lookCtx = "alive"
    /\ graceOver = FALSE
    /\ report = NoReport
    /\ faults = 0
    /\ truth = [a \in Actors |-> NoTruth]
    /\ why = [k \in Keys |-> "none"]
    /\ effects = {}
    /\ late = 0
    /\ cut = {}

-----------------------------------------------------------------------------
(* Collecting *)

Fault == faults < MaxFaults /\ faults' = faults + 1

HeldNow ==
    {<<r[1], r[2], bound[r[2]]>> : r \in {x \in Ports \X PIDs : x[1] \in HeldBy(x[2])}}

\* What is true now of the things the stage about to run looks at.
TruthNow(a) ==
    [ free |-> IF stage[a] = "table" THEN Ports \ NativelyHeld ELSE truth[a].free,
      held |-> IF stage[a] = (IF OnWindows THEN "table" ELSE "owners")
               THEN HeldNow ELSE truth[a].held,
      up   |-> IF stage[a] = "docker" THEN up ELSE truth[a].up ]

\* Everything but /proc and the identities is another program, and one that is
\* started or running when its context dies is killed.
Killed(a) == /\ a = Observer /\ ctx = "dead" /\ lookCtx = "alive"
             /\ \/ stage[a] \in {"owners", "docker"}
                \/ stage[a] = "table" /\ OnWindows

Collecting(a) == stage[a] \notin {"idle", "collected"}

CollectStep(a) ==
    /\ Collecting(a)
    /\ \/ /\ ~Killed(a)
          /\ \E s \in ReadStage(stage[a], obs[a]) : obs' = [obs EXCEPT ![a] = s]
          /\ UNCHANGED faults
       \/ /\ Killed(a)
          /\ \E s \in FailStage(stage[a], obs[a]) : obs' = [obs EXCEPT ![a] = s]
          /\ UNCHANGED faults
       \/ /\ Fault
          /\ \E s \in FailStage(stage[a], obs[a]) \cup DegradedStage(stage[a], obs[a]) :
                obs' = [obs EXCEPT ![a] = s]
    /\ stage' = [stage EXCEPT ![a] = NextStage(stage[a])]
    /\ truth' = [truth EXCEPT ![a] = TruthNow(a)]
    /\ UNCHANGED <<world, phase, plan, work, result, attempted, skipped, ctx,
                   lookCtx, graceOver, report, why, effects, late, cut>>

Discard(a) ==
    /\ obs' = [obs EXCEPT ![a] = Blank(OnWindows)]
    /\ stage' = [stage EXCEPT ![a] = "idle"]
    /\ truth' = [truth EXCEPT ![a] = NoTruth]
-----------------------------------------------------------------------------
(* plan, and the start of apply *)

MakePlan ==
    /\ phase = "observing"
    /\ stage[Planner] = "collected"
    /\ plan' = BuildPlan(obs[Planner], Mode)
    /\ phase' = "saved"
    /\ Discard(Planner)
    /\ UNCHANGED <<world, work, result, attempted, skipped, ctx, lookCtx,
                   graceOver, report, faults, why, effects, late, cut>>

Report(class, error, status) ==
    report' = [class |-> class, error |-> error, status |-> status,
               executed |-> Cardinality(attempted), gone |-> {}]

\* The plan's time is over: a report, and nothing attempted.
ApplyExpired ==
    /\ phase = "saved"
    /\ ValidatePlan(plan)
    /\ phase' = "done"
    /\ Report("needs_fresh_plan", TRUE, [port \in Ports |-> "not_observed"])
    /\ UNCHANGED <<world, plan, obs, stage, work, result, attempted, skipped,
                   ctx, lookCtx, graceOver, faults, history>>

ApplyStarts ==
    /\ phase = "saved"
    /\ IF ValidatePlan(plan)
       THEN phase' = "acting" /\ UNCHANGED report
       ELSE /\ phase' = "done"
            /\ Report("usage", TRUE, [port \in Ports |-> "not_observed"])
    /\ UNCHANGED <<world, plan, obs, stage, work, result, attempted, skipped,
                   ctx, lookCtx, graceOver, faults, history>>
-----------------------------------------------------------------------------
(* The dispatch loop *)

InFlight == {k \in Keys : work[k] \notin {"idle", "done"}}

\* Containers come first, then processes by PID.
Before(k, l) ==
    \/ k \in Containers /\ l \in PIDs
    \/ k \in PIDs /\ l \in PIDs /\ k < l

\* Mutant of Undispatched: not only what the plan names.
Undispatched_All == {k \in Keys : work[k] = "idle"}

Undispatched == {k \in plan.resources : work[k] = "idle"}

\* Mutant of Dispatch: one goroutine more than there are slots.
Dispatch_OneMore(k) ==
    /\ phase = "acting"
    /\ k \in Undispatched
    /\ \A l \in Undispatched : ~Before(l, k)
    /\ Cardinality(InFlight) <= MaxConcurrent
    /\ IF ctx = "dead"
       THEN /\ work' = [work EXCEPT ![k] = "done"]
            /\ skipped' = TRUE
            /\ cut' = cut \cup {k}
       ELSE /\ work' = [work EXCEPT ![k] = "begin"]
            /\ UNCHANGED <<skipped, cut>>
    /\ UNCHANGED <<world, phase, plan, obs, stage, result, attempted, ctx,
                   lookCtx, graceOver, report, faults, truth, why, effects, late>>

Dispatch(k) ==
    /\ phase = "acting"
    /\ k \in Undispatched
    /\ \A l \in Undispatched : ~Before(l, k)
    /\ Cardinality(InFlight) < MaxConcurrent
    /\ IF ctx = "dead"
       THEN /\ work' = [work EXCEPT ![k] = "done"]
            /\ skipped' = TRUE
            /\ cut' = cut \cup {k}
       ELSE /\ work' = [work EXCEPT ![k] = "begin"]
            /\ UNCHANGED <<skipped, cut>>
    /\ UNCHANGED <<world, phase, plan, obs, stage, result, attempted, ctx,
                   lookCtx, graceOver, report, faults, truth, why, effects, late>>

\* wg.Wait
ActionsDone ==
    /\ phase = "acting"
    /\ \A k \in plan.resources : work[k] = "done"
    /\ phase' = "looking"
    /\ UNCHANGED <<world, plan, obs, stage, work, result, attempted, skipped,
                   ctx, lookCtx, graceOver, report, faults, history>>
-----------------------------------------------------------------------------
(* act, on the goroutine of resource k *)

goto(k, l) == work' = [work EXCEPT ![k] = l]

\* The goroutine ends with result r.
Ends(k, r, counted) ==
    /\ goto(k, "done")
    /\ result' = [result EXCEPT ![k] = r]
    /\ attempted' = IF counted THEN attempted \cup {k} ELSE attempted
    /\ Discard(k)

\* The goroutine finds ctx dead and leaves its resource alone.
Interrupted(k) ==
    /\ Ends(k, "not_attempted", FALSE)
    /\ cut' = cut \cup {k}

actFrame == <<world, phase, plan, skipped, ctx, lookCtx, graceOver, report>>

\* The first look at ctx, then an observation of its own.
ActBegins(k) ==
    /\ work[k] = "begin"
    /\ IF ctx = "dead"
       THEN Interrupted(k)
       ELSE /\ goto(k, "collect")
            /\ stage' = [stage EXCEPT ![k] = "table"]
            /\ UNCHANGED <<obs, truth, result, attempted, cut>>
    /\ UNCHANGED <<actFrame, faults, why, effects, late>>

\* Mutant of RowsSayGone: it asks whether the port is free.
RowsSayGone_PortFree(k, s) ==
    \A port \in plan.ports[k] :
        /\ s.tableOK /\ ~s.ownerErr /\ ~Unattributed(s, port)
        /\ port \notin s.tableHas

\* noLongerHolds, up to its call of ProcessIdentity: the sources are complete
\* and none of them shows the PID on a planned port.
RowsSayGone(k, s) ==
    \A port \in plan.ports[k] :
        /\ s.tableOK /\ ~s.ownerErr /\ ~Unattributed(s, port)
        /\ k \notin Owners(s, port)

\* dockerLists and the checks around it.
ConfirmedRunning(k, s) ==
    /\ ~s.dockerErr /\ s.dockerAvail
    /\ k \in s.dockerIDs
    /\ s.publishes[k] \cap plan.ports[k] # {}

\* The second look at ctx, then the decision on the observation just made.
ActDecides(k) ==
    /\ work[k] = "collect"
    /\ stage[k] = "collected"
    /\ IF ctx = "dead" THEN Interrupted(k)
       ELSE /\ UNCHANGED cut
            /\ IF k \in Containers /\ ~ConfirmedRunning(k, obs[k])
               THEN Ends(k, "not_attempted", FALSE)
               ELSE IF k = SelfPID THEN Ends(k, "failed", FALSE)
               ELSE /\ goto(k, IF k \in Containers THEN "stop"
                              ELSE IF RowsSayGone(k, obs[k]) THEN "confirm"
                              ELSE "signal")
                    /\ UNCHANGED <<obs, stage, truth, result, attempted>>
    /\ UNCHANGED <<actFrame, faults, why, effects, late>>

\* Mutant of Confirm: a process that holds nothing is observed again.
Confirm_Again(k) ==
    /\ work[k] = "confirm"
    /\ IF bound[k] = plan.start[k]
       THEN goto(k, "collect") /\ stage' = [stage EXCEPT ![k] = "table"]
       ELSE goto(k, "signal") /\ UNCHANGED stage
    /\ UNCHANGED <<actFrame, obs, truth, result, attempted, faults, why, effects, late, cut>>

\* The end of noLongerHolds: a live process of the planned identity.
Confirm(k) ==
    /\ work[k] = "confirm"
    /\ \/ /\ bound[k] = plan.start[k]
          /\ Ends(k, "not_attempted", FALSE)
          /\ UNCHANGED <<faults, why>>
       \/ /\ bound[k] # plan.start[k]
          /\ goto(k, "signal")
          /\ UNCHANGED <<obs, stage, truth, result, attempted, faults, why>>
       \/ /\ Fault
          /\ why' = [why EXCEPT ![k] = "blind"]
          /\ goto(k, "signal")
          /\ UNCHANGED <<obs, stage, truth, result, attempted>>
    /\ UNCHANGED <<actFrame, effects, late, cut>>

Acts(k) ==
    /\ effects' = effects \cup {k}
    /\ late' = IF ctx = "dead" THEN late + 1 ELSE late

\* Did the planned process hold a planned port when the owners were read, or
\* was the observation too poor to tell?
Grounds(k) ==
    IF why[k] # "none" THEN why[k]
    ELSE IF \E port \in plan.ports[k] : <<port, k, plan.start[k]>> \in truth[k].held
    THEN "held"
    ELSE IF \E port \in plan.ports[k] :
               ~obs[k].tableOK \/ obs[k].ownerErr \/ Unattributed(obs[k], port)
    THEN "blind"
    ELSE "wrong"

\* SignalIfSame
Signal(k) ==
    /\ work[k] = "signal"
    /\ \/ /\ bound[k] # 0 /\ bound[k] = plan.start[k]
          /\ Ends(k, "signal_sent", TRUE)
          /\ why' = [why EXCEPT ![k] = Grounds(k)]
          /\ Acts(k)
          /\ UNCHANGED faults
       \/ /\ bound[k] # 0 /\ bound[k] # plan.start[k]
          /\ Ends(k, "identity_changed", FALSE)
          /\ UNCHANGED <<why, effects, late, faults>>
       \/ /\ bound[k] = 0
          /\ Ends(k, "not_attempted", FALSE)
          /\ UNCHANGED <<why, effects, late, faults>>
       \/ /\ Fault
          /\ \E r \in {"permission_denied", "failed"} : Ends(k, r, FALSE)
          /\ UNCHANGED <<why, effects, late>>
    /\ UNCHANGED <<actFrame, cut>>

\* docker stop is started; a dead context kills it before it says anything.
StopBegins(k) ==
    /\ work[k] = "stop"
    /\ IF ctx = "dead"
       THEN /\ goto(k, "again")
            /\ UNCHANGED <<stopping, effects, late, obs, stage, truth, result, attempted>>
       ELSE /\ goto(k, "wait")
            /\ stopping' = stopping \cup {k}
            /\ Acts(k)
            /\ UNCHANGED <<obs, stage, truth, result, attempted>>
    /\ UNCHANGED <<host, bound, clock, holds, kind, up, moves, phase, plan, skipped,
                   ctx, lookCtx, graceOver, report, faults, why, cut>>

StopEnds(k) ==
    /\ work[k] = "wait"
    /\ \/ /\ k \notin up \/ k \notin stopping   \* the client reports success
          /\ Ends(k, "stopped", TRUE)
          /\ stopping' = stopping \ {k}
          /\ UNCHANGED <<faults, effects>>
       \/ /\ ctx = "alive"                    \* no such container
          /\ k \notin up /\ k \in stopping
          /\ Ends(k, "not_attempted", FALSE)
          /\ stopping' = stopping \ {k}
          /\ effects' = effects \ {k}
          /\ UNCHANGED faults
       \/ /\ goto(k, "again")                  \* the wrapper's time is over, or ctx is dead
          /\ UNCHANGED <<stopping, faults, effects, obs, stage, truth, result, attempted>>
       \/ /\ Fault                             \* the daemon refuses
          /\ ctx = "alive" /\ k \in stopping
          /\ stopping' = stopping \ {k}
          /\ \E r \in {"permission_denied", "failed"} : Ends(k, r, TRUE)
          /\ UNCHANGED effects
    /\ UNCHANGED <<host, bound, clock, holds, kind, up, moves, phase, plan, skipped,
                   ctx, lookCtx, graceOver, report, why, late, cut>>

\* Mutant of StopAsksAgain: a stop that timed out is not an attempt.
StopAsksAgain_Uncounted(k) ==
    /\ work[k] = "again"
    /\ Ends(k, IF k \in up THEN "timeout_unknown" ELSE "stopped", FALSE)
    /\ UNCHANGED <<actFrame, faults, why, effects, late, cut>>

\* After a timeout or a cancellation Docker is asked again, briefly.
StopAsksAgain(k) ==
    /\ work[k] = "again"
    /\ \/ /\ Ends(k, IF k \in up THEN "timeout_unknown" ELSE "stopped", TRUE)
          /\ UNCHANGED faults
       \/ Fault /\ Ends(k, "timeout_unknown", TRUE)
    /\ UNCHANGED <<actFrame, why, effects, late, cut>>

\* safeAct: a panic on the goroutine is a failed resource.
Panics(k) ==
    /\ work[k] \notin {"idle", "done"}
    /\ Fault
    /\ Ends(k, "failed", TRUE)
    /\ UNCHANGED <<actFrame, why, effects, late, cut>>

Act(k) ==
    \/ ActBegins(k) \/ ActDecides(k) \/ Confirm(k) \/ Signal(k)
    \/ StopBegins(k) \/ StopEnds(k) \/ StopAsksAgain(k) \/ Panics(k)
-----------------------------------------------------------------------------
(* observeOutcome *)

Waitable == \E k \in plan.resources :
                result[k] \in {"signal_sent", "stopped", "timeout_unknown"}

LookBegins ==
    /\ phase = "looking"
    /\ stage[Observer] = "idle"
    /\ lookCtx' = ctx
    /\ stage' = [stage EXCEPT ![Observer] = "table"]
    /\ UNCHANGED <<world, phase, plan, obs, work, result, attempted, skipped,
                   ctx, graceOver, report, faults, history>>

statusNow == Classify(plan, result, obs[Observer])

\* Mutant of LookIsLast: the outcome deadline is not looked at.
LookIsLast_Patient == AllFree(statusNow) \/ ~Waitable \/ lookCtx = "dead"

LookIsLast ==
    AllFree(statusNow) \/ ~Waitable \/ lookCtx = "dead" \/ graceOver

LookAgain ==
    /\ phase = "looking"
    /\ stage[Observer] = "collected"
    /\ ~LookIsLast
    /\ Discard(Observer)
    /\ UNCHANGED <<world, phase, plan, work, result, attempted, skipped, ctx,
                   lookCtx, graceOver, report, faults, why, effects, late, cut>>

\* Mutant of VerifiedGone: a Docker that does not answer lists nothing.
VerifiedGone_Unlisted(k) ==
    IF k \in Containers THEN k \notin obs[Observer].dockerIDs
    ELSE bound[k] # plan.start[k]

\* verifiedGone
VerifiedGone(k) ==
    IF k \in Containers
    THEN /\ obs[Observer].dockerAvail /\ ~obs[Observer].dockerErr
         /\ k \notin obs[Observer].dockerIDs
    ELSE bound[k] # plan.start[k]

\* Mutant of Interruption: a dead ctx is one, even if nothing was left undone.
Interruption_Always == ctx = "dead"

\* Mutant of Interruption: only what the dispatcher left out counts.
Interruption_Skipped == ctx = "dead" /\ skipped

\* interrupted
Interruption == ctx = "dead" /\ (skipped \/ ~AllFree(statusNow))

LookEnds ==
    /\ phase = "looking"
    /\ stage[Observer] = "collected"
    /\ LookIsLast
    /\ phase' = "done"
    /\ report' = [class |-> IF Interruption THEN "uncertain"
                            ELSE ApplyClass(plan, result, statusNow, obs[Observer]),
                  error |-> Interruption,
                  status |-> statusNow,
                  executed |-> Cardinality(attempted),
                  gone |-> {k \in plan.resources : VerifiedGone(k)}]
    /\ UNCHANGED <<world, plan, obs, stage, work, result, attempted, skipped,
                   ctx, lookCtx, graceOver, faults, history>>
-----------------------------------------------------------------------------
Cancel ==
    /\ phase \in {"acting", "looking"}
    /\ ctx = "alive"
    /\ ctx' = "dead"
    /\ UNCHANGED <<world, phase, plan, obs, stage, work, result, attempted,
                   skipped, lookCtx, graceOver, report, faults, history>>

GraceEnds ==
    /\ phase = "looking"
    /\ ~graceOver
    /\ graceOver' = TRUE
    /\ UNCHANGED <<world, phase, plan, obs, stage, work, result, attempted,
                   skipped, ctx, lookCtx, report, faults, history>>

WorldMoves == phase # "done" /\ WorldNext /\ UNCHANGED <<run, history>>

Done == phase = "done" /\ UNCHANGED vars

Command ==
    \/ MakePlan \/ ApplyExpired \/ ApplyStarts
    \/ \E k \in Keys : Dispatch(k)
    \/ ActionsDone \/ LookBegins \/ LookAgain \/ LookEnds

Program ==
    \/ Command
    \/ \E a \in Actors : CollectStep(a)
    \/ \E k \in Keys : Act(k)

Next ==
    \/ Program
    \/ Cancel \/ GraceEnds \/ WorldMoves \/ Done

Spec == Init /\ [][Next]_vars

\* Some goroutine that can run does, and time passes.  Nothing is assumed of
\* the machine, of Docker or of whoever may cancel.
FairSpec == Spec /\ WF_vars(Program) /\ WF_vars(GraceEnds)
-----------------------------------------------------------------------------
(* Properties *)

\* TypeOK: the variables keep their types; only resources of the plan are ever
\* attempted, reached or left out (apply.go:158-159).
TypeOK ==
    /\ WorldTypeOK
    /\ phase \in {"observing", "saved", "acting", "looking", "done"}
    /\ plan.resources \subseteq Keys
    /\ obs \in [Actors -> Snapshot]
    /\ stage \in [Actors -> {"idle", "table", "owners", "docker", "idents", "collected"}]
    /\ work \in [Keys -> {"idle", "begin", "collect", "confirm", "signal",
                          "stop", "wait", "again", "done"}]
    /\ result \in [Keys -> ActionResults]
    /\ attempted \subseteq plan.resources
    /\ skipped \in BOOLEAN /\ graceOver \in BOOLEAN
    /\ {ctx, lookCtx} \subseteq {"alive", "dead"}
    /\ faults \in 0..MaxFaults
    /\ why \in [Keys -> {"none", "held", "blind", "wrong"}]
    /\ effects \subseteq plan.resources
    /\ late \in 0..Cardinality(plan.resources)
    /\ cut \subseteq plan.resources

Reported == phase = "done" /\ report.class \notin {"usage"} /\ \A port \in Ports :
                report.status[port] # "not_observed"

\* SignalsJustified: a process that was signalled held a planned port when the
\* goroutine read the owners, or that reading was incomplete.  A process that
\* gave its port up while its resource waited behind a slow wave is not
\* signalled (apply.go:261-264, 301-327).
SignalsJustified == \A k \in PIDs : why[k] # "wrong"

\* FreeWasFree: when a port is reported free, no process held it when the table
\* was read and no running container published it when Docker was asked, in
\* the observation the report rests on (observe.go:20-22, apply.go:415-418).
FreeWasFree ==
    Reported => \A port \in Ports :
        report.status[port] = "free" =>
            /\ port \in truth[Observer].free
            /\ DockerInstalled =>
                  port \notin UNION {Publishes[c] : c \in truth[Observer].up}

\* OriginalWasOriginal: "blocked by original" is only said when the planned
\* incarnation, not a process that reused its PID, really held the port when
\* the owners were read, or a planned container was really running
\* (apply.go:415-418, 484-485).
OriginalWasOriginal ==
    Reported => \A port \in Ports :
        report.status[port] = "blocked_by_original" =>
            \/ \E p \in PIDs \cap plan.resources :
                  <<port, p, plan.start[p]>> \in truth[Observer].held
            \/ \E c \in Containers \cap plan.resources :
                  port \in Publishes[c] /\ c \in truth[Observer].up

\* GoneWasGone: a resource reported gone really was: the planned process has
\* exited by the time of the report, and the container was not running when
\* Docker was asked.  A Docker that is missing or does not answer never makes
\* a container look gone (apply.go:528-541).
GoneWasGone ==
    phase = "done" => \A k \in report.gone :
        /\ k \in PIDs => bound[k] # plan.start[k]
        /\ k \in Containers => k \notin truth[Observer].up

\* EffectsCounted: whatever happened to the goroutine (a timeout, a
\* cancellation, a panic), a signal that was delivered and a stop the daemon
\* accepted are in actions_executed (apply.go:254-255, 187-190).
EffectsCounted == phase = "done" => Cardinality(effects) <= report.executed

\* LateActionsBounded: once apply is cancelled or out of time, at most one
\* action per slot of the semaphore can still begin: the ones already past
\* their last look at ctx (apply.go:57-61, 172-180, 257-267).
LateActionsBounded == late <= MaxConcurrent

\* InterruptedIsReported: an apply that left a resource alone because it was
\* interrupted says so (docs/workflow.md:180: it "prints the partial results
\* with `error` set and exit class `uncertain` (4)").
InterruptedIsReported ==
    Reported /\ cut # {} => report.error /\ report.class = "uncertain"

\* UndoneIsSaid: an interrupted apply that left a resource out of the dispatch,
\* or left one alone and an endpoint occupied, says so; the only one that does
\* not is that of a goroutine that gave up while its port became free
\* (apply.go:171-182, 202, 257-267).
UndoneIsSaid ==
    phase = "done" /\ (skipped \/ (cut # {} /\ ~AllFree(report.status))) =>
        report.error /\ report.class = "uncertain"

\* RefusedWasThere: "blocked by a refused owner" is only said when a process
\* under a PID that the plan refuses on the port held it when the owners were
\* read, or a container of a refused name was running on it, or the plan refused
\* the port for an owner it could not see and there still is one.  That it is the
\* refused process itself, and not one that got its PID, nobody can tell: a plan
\* keeps no start time of what it refuses (apply.go:474, 489-491, 502-504).
RefusedWasThere ==
    Reported => \A port \in Ports :
        report.status[port] = "blocked_by_refused_owner" =>
            \/ \E h \in truth[Observer].held :
                  h[1] = port /\ h[2] \in plan.refusedPID[port]
            \/ \E c \in truth[Observer].up :
                  port \in Publishes[c] /\ RefusedName(plan, port, c)
            \/ port \in plan.refusedHidden /\ HiddenOwner(obs[Observer], port)

\* OkWasFree: an apply that exits 0 is right: in the observation its report
\* rests on, no process held a requested port when the table was read and no
\* running container published one when Docker was asked, and none of the plan's
\* resources failed, was denied, was replaced or is still in doubt
\* (apply.go:416-418, 544-570).
OkWasFree ==
    phase = "done" /\ report.class = "ok" =>
        /\ \A port \in Ports :
              /\ port \in truth[Observer].free
              /\ DockerInstalled =>
                    port \notin UNION {Publishes[c] : c \in truth[Observer].up}
        /\ \A k \in plan.resources :
              result[k] \in {"not_attempted", "signal_sent", "stopped"}

\* What each actor still has to do: a number that its own steps lower.
ToRead(a) ==
    CASE stage[a] = "table" -> 4
      [] stage[a] = "owners" -> 3
      [] stage[a] = "docker" -> 2
      [] stage[a] = "idents" -> 1
      [] stage[a] = "collected" -> 0
      [] stage[a] = "idle" -> 5

ToDo(k) ==
    CASE work[k] = "idle" -> 10
      [] work[k] = "begin" -> 9
      [] work[k] = "collect" -> 4 + ToRead(k)
      [] work[k] = "stop" -> 3
      [] work[k] \in {"confirm", "wait"} -> 2
      [] work[k] \in {"signal", "again"} -> 1
      [] work[k] = "done" -> 0

PhasesLeft ==
    CASE phase = "observing" -> 4
      [] phase = "saved" -> 3
      [] phase = "acting" -> 2
      [] phase = "looking" -> 1
      [] phase = "done" -> 0

\* The commands' own steps count with the planner's.
StepsLeft ==
    [a \in Actors |->
        IF a \in Keys THEN ToDo(a)
        ELSE IF a = Observer THEN ToRead(a)
        ELSE PhasesLeft + (IF phase = "observing" THEN ToRead(a) ELSE 0)]

\* Nobody has more to do, and somebody has less.
Fewer(m, n) == /\ \A a \in Actors : m[a] <= n[a]
               /\ m # n

\* Advances: apply never goes round in circles.  Every step of the program
\* leaves less to do, but for another look at the outcome while the grace period
\* lasts, and nothing that the machine, Docker or a cancellation does gives it
\* more (apply.go:171-188, 254-272, 400-413).
Advances ==
    [][ \/ Fewer(StepsLeft', StepsLeft)
        \/ LookAgain /\ ~graceOver
        \/ (WorldMoves \/ Cancel \/ GraceEnds) /\ StepsLeft' = StepsLeft ]_vars

\* Terminates: an apply ends and a report is written.
Terminates == <>(phase = "done")
-----------------------------------------------------------------------------
(* What the goroutines, the machine and the clock amount to for the plan and *)
(* the report: the decisions of Documents.                                   *)

Judged == phase = "done" /\ stage[Observer] = "collected"

docPhase ==
    CASE phase = "observing" /\ stage[Planner] # "collected" -> "observing"
      [] phase = "observing" /\ stage[Planner] = "collected" -> "planned"
      [] Judged -> "applied"
      [] OTHER -> "saved"

docPlan == IF docPhase = "planned" THEN BuildPlan(obs[Planner], Mode) ELSE plan

docSnap ==
    CASE docPhase = "planned" -> obs[Planner]
      [] docPhase = "applied" -> obs[Observer]
      [] OTHER -> Blank(OnWindows)

docResult == IF Judged THEN result ELSE [k \in Keys |-> "not_attempted"]

docReport == IF Judged THEN [status |-> report.status, class |-> report.class]
             ELSE [class |-> "none"]

Decisions == INSTANCE Documents WITH
    phase <- docPhase, plan <- docPlan, snap <- docSnap,
    result <- docResult, report <- docReport

\* ImplementsDocuments: however the observations are torn and the goroutines
\* interleaved, the plan is one built from a snapshot the collectors can leave
\* behind, it survives until the outcome is judged, and the report is the
\* verdict on its results and on one such snapshot of the same system: what is
\* proved of Documents holds of every plan and report (workflow.go:324-348,
\* apply.go:201-222, 400-526).
ImplementsDocuments == Decisions!Spec
=============================================================================
