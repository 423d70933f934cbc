----------------------------- MODULE Deadlines -----------------------------
(***************************************************************************)
(* The clock in plan and apply: the times written into a plan (plan.go:     *)
(* 200-205, 228-237, 464-476), its expiry (workflow.go:477-484), the time   *)
(* limit of apply, its slots, the timeouts of the tools and of docker stop, *)
(* the wait for the outcome and the short looks that outlive the limit      *)
(* (apply.go:133-187, 254-266, 365-379, 397-413; system.go:127-149,         *)
(* 182-202).                                                                *)
(*                                                                          *)
(* Time is counted in ticks.  A step takes any time up to its own timeout,  *)
(* none included, and the clock cannot pass the point where a timer of the  *)
(* program has to fire.  What the tools say and what the actions do is in   *)
(* Apply and in Documents.                                                  *)
(***************************************************************************)
EXTENDS Integers, FiniteSets

CONSTANTS
    Second,       \* the ticks of a second, in which a plan states its times
    MaxTTL, MaxGrace,
    Slots,        \* maxConcurrentActions
    Wave, Cap,    \* applyWaveTimeout, maxApplyDuration
    Margin,       \* dockerStopMargin
    Brief,        \* briefObserveTimeout
    ToolDelay,    \* WaitDelay: how long a killed tool may hold its output open
    LookTime,     \* the timeouts of the tools of one observation, added up
    Poll,         \* outcomePollInterval
    Requests,     \* <<ttl, grace, number of resources>> that are asked for
    MaxIdle       \* bound: how long after the plan it is applied

ASSUME DeadlinesAssumption ==
    /\ {Second, Slots, Wave, Cap, Poll, MaxTTL} \subseteq Nat \ {0}
    /\ {MaxGrace, Margin, Brief, ToolDelay, LookTime, MaxIdle} \subseteq Nat
    /\ Requests \subseteq (1..MaxTTL) \X (0..MaxGrace) \X Nat

ASSUME WholeSeconds == MaxTTL % Second = 0 /\ MaxGrace % Second = 0

VARIABLES
    now,
    request,      \* what was asked for
    created,      \* when the plan was made
    phase,        \* "kept", "acting", "looking", "sleeping", "done", "expired"
    started,      \* when apply began
    cut,          \* when the context of apply is, or was, done
    next,         \* the resource to dispatch next
    job,          \* job[i]: where the goroutine of resource i is
    since,        \* since[i]: when its slot was taken
    due,          \* due[i]: when the timeout of its current step fires
    own,          \* own[i]: that step has a context of its own, not apply's
    longest,      \* the longest an action has taken (used by properties only)
    waits,        \* some action was not one that is over at once
    waitEnd,      \* when the wait for the outcome is over
    lookDue,      \* when the observation, or the sleep, has to end
    lookOwn,      \* the observation has a context of its own
    free          \* the last observation found everything free

jobs == <<job, since, due, own>>
looks == <<waits, waitEnd, lookDue, lookOwn, free>>
vars == <<now, request, created, phase, started, cut, next, jobs, longest, looks>>

ttl == request[1]
grace == request[2]
Resources == 1..request[3]

Phases == {"kept", "acting", "looking", "sleeping", "done", "expired"}
Jobs == {"queued", "collecting", "stopping", "asking", "done", "skipped"}

\* ClockTypeOK: the variables keep their types; resources are dispatched in
\* their order, and no more of them at a time than there are slots
\* (apply.go:169-187).
ClockTypeOK ==
    /\ now \in Nat /\ request \in Requests /\ created \in Nat
    /\ phase \in Phases
    /\ started \in Nat /\ cut \in Nat
    /\ next \in 1..(request[3] + 1)
    /\ job \in [Resources -> Jobs]
    /\ since \in [Resources -> Nat] /\ due \in [Resources -> Nat]
    /\ own \in [Resources -> BOOLEAN]
    /\ longest \in Nat
    /\ waits \in BOOLEAN /\ waitEnd \in Nat
    /\ lookDue \in Nat /\ lookOwn \in BOOLEAN /\ free \in BOOLEAN
    /\ \A i \in Resources : job[i] = "queued" <=> i >= next
    /\ Cardinality({i \in Resources : job[i] \in {"collecting", "stopping", "asking"}}) <= Slots
-----------------------------------------------------------------------------
(* Times in a plan *)

\* formatTime.
Truncate(t) == Second * (t \div Second)

\* graceSeconds, in ticks.
GraceSeconds(d) == Second * ((d + Second - 1) \div Second)

Expires == Truncate(created + ttl)

Validates ==
    /\ Expires >= Truncate(created)
    /\ Expires - Truncate(created) <= MaxTTL
    /\ GraceSeconds(grace) \in grace..MaxGrace

\* Mutant of Expired: the times are compared as they are printed.
Expired_Printed == Truncate(now) > Expires

Expired == now > Expires

PlanGrace == GraceSeconds(grace)

Least(a, b) == IF a < b THEN a ELSE b

Waves(n) == IF n = 0 THEN 1 ELSE (n + Slots - 1) \div Slots

\* Mutant of Limit: an incomplete last wave does not count.
Limit_Floor ==
    Least(PlanGrace + (IF request[3] < Slots THEN 1 ELSE request[3] \div Slots) * Wave, Cap)

\* applyDeadline.
Limit == Least(PlanGrace + Waves(request[3]) * Wave, Cap)

ClockInit ==
    /\ now \in 0..(Second - 1)
    /\ created = now
    /\ request \in Requests
    /\ phase = "kept"
    /\ started = 0 /\ cut = 0
    /\ next = 1
    /\ job = [i \in Resources |-> "queued"]
    /\ since = [i \in Resources |-> 0]
    /\ due = [i \in Resources |-> 0]
    /\ own = [i \in Resources |-> FALSE]
    /\ longest = 0
    /\ waits = FALSE /\ waitEnd = 0 /\ lookDue = 0 /\ lookOwn = FALSE /\ free = FALSE

\* runApply: an expired plan ends it.
StartApply ==
    /\ phase = "kept"
    /\ started' = now
    /\ cut' = now + Limit
    /\ phase' = IF Expired THEN "expired" ELSE "acting"
    /\ UNCHANGED <<now, request, created, next, jobs, longest, looks>>
-----------------------------------------------------------------------------
(* The actions *)

CtxDone == now >= cut

Busy == {i \in Resources : job[i] \in {"collecting", "stopping", "asking"}}

SlotFree == Cardinality(Busy) < Slots

\* A step of resource i that a timeout of d bounds begins.
Begin(i, s, d, alone) ==
    /\ job' = [job EXCEPT ![i] = s]
    /\ due' = [due EXCEPT ![i] = now + d + ToolDelay]
    /\ own' = [own EXCEPT ![i] = alone]

\* Goroutine i ends and gives its slot back.
Finish(i) ==
    /\ job' = [job EXCEPT ![i] = "done"]
    /\ longest' = IF now - since[i] > longest THEN now - since[i] ELSE longest
    /\ since' = [since EXCEPT ![i] = 0]
    /\ due' = [due EXCEPT ![i] = 0]
    /\ own' = [own EXCEPT ![i] = FALSE]

Acting == UNCHANGED <<now, request, created, phase, started, cut, looks>>

\* A slot was free: the resource is dispatched, or left out.
Dispatch ==
    /\ phase = "acting"
    /\ next \in Resources
    /\ SlotFree
    /\ next' = next + 1
    /\ IF CtxDone
       THEN job' = [job EXCEPT ![next] = "skipped"] /\ UNCHANGED <<since, due, own>>
       ELSE since' = [since EXCEPT ![next] = now] /\ Begin(next, "collecting", LookTime, FALSE)
    /\ UNCHANGED longest
    /\ Acting

\* Signalling takes no time.  A container is stopped within its grace period
\* and the margin, unless there is nothing to stop.
CollectEnds(i) ==
    /\ job[i] = "collecting"
    /\ \/ Finish(i)
       \/ /\ ~CtxDone
          /\ Begin(i, "stopping", PlanGrace + Margin, FALSE)
          /\ UNCHANGED <<since, longest>>
    /\ UNCHANGED next
    /\ Acting

\* Mutant of BriefTime: the context that outlives the cancellation has no
\* limit of its own.
BriefTime_Unlimited == LookTime

BriefTime == Brief

\* The docker client was killed, by its own timeout or with the context: Docker
\* is asked about the container, in a short context if that of apply is done.
StopEnds(i) ==
    /\ job[i] = "stopping"
    /\ \/ Finish(i)
       \/ /\ CtxDone \/ now + ToolDelay >= due[i]
          /\ Begin(i, "asking", IF CtxDone THEN BriefTime ELSE LookTime, CtxDone)
          /\ UNCHANGED <<since, longest>>
    /\ UNCHANGED next
    /\ Acting

AskEnds(i) ==
    /\ job[i] = "asking"
    /\ Finish(i)
    /\ UNCHANGED next
    /\ Acting
-----------------------------------------------------------------------------
(* The outcome *)

StartLook ==
    /\ phase' = "looking"
    /\ lookOwn' = CtxDone
    /\ lookDue' = now + (IF CtxDone THEN BriefTime ELSE LookTime) + ToolDelay

AllActed ==
    /\ phase = "acting"
    /\ next \notin Resources /\ Busy = {}
    /\ waits' \in BOOLEAN
    /\ waitEnd' = now + PlanGrace
    /\ StartLook
    /\ UNCHANGED <<now, request, created, started, cut, next, jobs, longest, free>>

\* The observation that began after the context was done is the last one.
LookEnds ==
    /\ phase = "looking"
    /\ free' \in BOOLEAN
    /\ IF free' \/ ~waits \/ lookOwn \/ now >= waitEnd
       THEN phase' = "done" /\ UNCHANGED lookDue
       ELSE phase' = "sleeping" /\ lookDue' = now + Poll
    /\ UNCHANGED <<now, request, created, started, cut, next, jobs, longest, waits,
                   waitEnd, lookOwn>>

WakeUp ==
    /\ phase = "sleeping"
    /\ now >= lookDue \/ CtxDone
    /\ StartLook
    /\ UNCHANGED <<now, request, created, started, cut, next, jobs, longest, waits,
                   waitEnd, free>>
-----------------------------------------------------------------------------
(* Everything else *)

\* The first SIGINT or SIGTERM.
Interrupt ==
    /\ phase \in {"acting", "looking", "sleeping"}
    /\ ~CtxDone
    /\ cut' = now
    /\ UNCHANGED <<now, request, created, phase, started, next, jobs, longest, looks>>

\* When a step whose timeout fires at d has ended at the latest.
Ends(d, alone) == IF alone THEN d ELSE Least(d, cut + ToolDelay)

Tick ==
    /\ CASE phase = "kept" -> now < created + MaxIdle
         [] phase = "acting" ->
                /\ Busy # {} /\ ~(next \in Resources /\ SlotFree)
                /\ \A i \in Busy : now < Ends(due[i], own[i])
         [] phase = "looking" -> now < Ends(lookDue, lookOwn)
         [] phase = "sleeping" -> now < lookDue /\ ~CtxDone
         [] OTHER -> FALSE
    /\ now' = now + 1
    /\ UNCHANGED <<request, created, phase, started, cut, next, jobs, longest, looks>>

Ended == phase \in {"done", "expired"} /\ UNCHANGED vars

ClockNext ==
    \/ StartApply
    \/ Dispatch \/ AllActed \/ LookEnds \/ WakeUp
    \/ \E i \in Resources : CollectEnds(i) \/ StopEnds(i) \/ AskEnds(i)
    \/ Interrupt \/ Tick \/ Ended

ClockSpec == ClockInit /\ [][ClockNext]_vars
-----------------------------------------------------------------------------
(* Properties *)

\* PlanIsUsable: whatever --ttl and --grace plan accepts, apply finds the times
\* of the plan valid and no grace period shorter than asked for, never acts
\* later than the ttl, and calls no plan expired that is more than a second
\* from it (plan.go:200-205, 451, 472-476, workflow.go:317-322, 478-484).
PlanIsUsable ==
    /\ Validates
    /\ phase \notin {"kept", "expired"} => started <= created + ttl
    /\ phase = "expired" => started > created + ttl - Second

\* EndsInTime: apply is over soon after its time limit or its cancellation:
\* docker stop is killed, Docker is asked about the container, and the outcome
\* is observed, each within its own short limit (apply.go:44-49, 148-156,
\* 397-413; docs/workflow.md:180).
EndsInTime ==
    phase \in {"acting", "looking", "sleeping", "done"} =>
        now <= cut + 3 * ToolDelay + 2 * Brief

Interrupted == cut < started + Limit
Uncapped == PlanGrace + Waves(request[3]) * Wave <= Cap

\* WavesFit: the limit leaves every resource its wave: one is left out only
\* after an interrupt, after an action that took longer than a wave, or when
\* there are more waves than fit under the cap (apply.go:133-146, 171-180).
WavesFit ==
    phase # "kept" /\ Uncapped /\ ~Interrupted /\ (\E i \in Resources : job[i] = "skipped")
        => \/ longest > Wave
           \/ \E i \in Busy : now - since[i] > Wave

\* GraceIsWaited: and it leaves the outcome its grace period: apply reports a
\* port that it waited for as still occupied only when that is over, with the
\* same exceptions (apply.go:397-413; docs/workflow.md:19).
GraceIsWaited ==
    phase = "done" /\ Uncapped /\ ~Interrupted /\ longest <= Wave /\ waits /\ ~free
        => now >= waitEnd
=============================================================================
