----------------------------- MODULE Documents -----------------------------
(***************************************************************************)
(* The decisions of the workflow with the machine left out: a plan is built *)
(* from any snapshot the collectors can produce, something is done to each  *)
(* resource, and the outcome is judged from any other snapshot.  Every      *)
(* disagreement between sources (a row without an identity, a table without *)
(* rows, a provider that failed) is a snapshot here.                        *)
(*                                                                          *)
(* Apply, with its goroutines and a machine that moves, implements this     *)
(* specification.                                                           *)
(***************************************************************************)
EXTENDS Outcome

VARIABLES
    phase,        \* "observing", "planned", "saved", "applied"
    plan,         \* the plan document
    snap,         \* the snapshot it was, or the outcome is, judged from
    result,       \* result[k]: what became of resource k
    report        \* the apply document, NoReport until it is written

vars == <<phase, plan, snap, result, report>>

NoPlan == [resources |-> {}]
NoReport == [class |-> "none"]
Untouched == [k \in Keys |-> "not_attempted"]

Snapshots == {s \in Snapshot : WellFormed(s)}

SnapshotsOn(windows) == {s \in Snapshots : s.windows = windows}

Init ==
    /\ phase = "observing"
    /\ plan = NoPlan
    /\ \E windows \in BOOLEAN : snap = Blank(windows)
    /\ result = Untouched
    /\ report = NoReport

Build ==
    /\ phase = "observing"
    /\ phase' = "planned"
    /\ snap' \in SnapshotsOn(snap.windows)
    /\ \E mode \in Modes : plan' = BuildPlan(snap', mode)
    /\ UNCHANGED <<result, report>>

\* Only the document survives: apply never sees the snapshot behind a plan.
Save ==
    /\ phase = "planned"
    /\ phase' = "saved"
    /\ snap' = Blank(plan.windows)
    /\ UNCHANGED <<plan, result, report>>

\* An interrupted apply, one that left a resource alone or an endpoint blocked,
\* is "uncertain" whatever its class would have been.
Verdicts(r, status, s) ==
    {ApplyClass(plan, r, status, s)}
    \cup {class \in {"uncertain"} : \/ ~AllFree(status)
                                    \/ \E k \in plan.resources : r[k] = "not_attempted"}

Judge ==
    /\ phase = "saved"
    /\ phase' = "applied"
    /\ snap' \in SnapshotsOn(plan.windows)
    /\ result' \in [Keys -> ActionResults]
    /\ \A k \in Keys \ plan.resources : result'[k] = "not_attempted"
    /\ LET status == Classify(plan, result', snap')
       IN  \E class \in Verdicts(result', status, snap') :
              report' = [status |-> status, class |-> class]
    /\ UNCHANGED plan

\* Nothing follows the report.
Done == phase = "applied" /\ UNCHANGED vars

Next == Build \/ Save \/ Judge \/ Done

Spec == Init /\ [][Next]_vars
-----------------------------------------------------------------------------
(* Properties *)

\* TypeOK: the variables keep their types; a plan names visible owners and
\* containers only, its exit class is one of the documented ones, and so is the
\* class of the report.
TypeOK ==
    /\ phase \in {"observing", "planned", "saved", "applied"}
    /\ snap \in Snapshot
    /\ plan.resources \subseteq Keys
    /\ phase # "observing" =>
          /\ plan.windows \in BOOLEAN
          /\ \A port \in Ports : plan.used[port] \subseteq Keys
          /\ \A port \in Ports : plan.visibility[port] \in Visibilities
          /\ PlanClass(plan) \in Classes
    /\ result \in [Keys -> ActionResults]
    /\ phase = "applied" => report \in [status : [Ports -> Statuses], class : Classes]

\* PlansValidate: every plan killport writes passes the validation apply insists on, whatever
\* the sources reported (plan.go:436-555 against plan.go:221-382).
PlansValidate == phase # "observing" => ValidatePlan(plan)

\* AccountedFor: no occupant is silently dropped.  An occupied endpoint has a
\* resource to act on, a refusal that says why not, or a visibility that says
\* the answer is incomplete (plan.go:249-354).
AccountedFor ==
    phase = "planned" =>
        \A port \in plan.occupied :
            \/ plan.used[port] # {}
            \/ RefusesOn(plan, port)
            \/ plan.visibility[port] # "complete"

\* LimitedIsRefused: "In plan, a permission-limited endpoint always carries a
\* refusal" (docs/workflow.md:159), so such a plan exits with class failed.
LimitedIsRefused ==
    phase = "planned" =>
        \A port \in Ports :
            plan.visibility[port] = "permission_limited" => RefusesOn(plan, port)

\* StableWorldIsRecognised: judged against the very snapshot the plan was made
\* from, an occupant is one the plan knows (original or refused), never a new
\* owner that would send the user round the loop again (apply.go:419-526).
StableWorldIsRecognised ==
    phase = "planned" =>
        \A port \in Ports : Status(plan, result, snap, port) # "blocked_by_new_owner"

\* FreeIsProven: "free" rests on a socket table that was read and does not have
\* the port, an owner source that answered and has no live owner for it, and a
\* Docker that is not failing ("nobody owns this port" is never mistaken for
\* "this port is free", observe.go:20-22, apply.go:416-418).
FreeIsProven ==
    phase = "applied" =>
        \A port \in Ports :
            report.status[port] = "free" =>
                /\ snap.tableOK /\ port \notin snap.tableHas
                /\ ~snap.ownerErr /\ ~snap.dockerErr
                /\ Owners(snap, port) = {} /\ Publishers(snap, port) = {}
                /\ <<port, Hidden>> \notin snap.rows

\* NewOwnerIsSomebody: "blocked by a new owner" always names an occupant with a
\* verified identity that the plan does not know; the catch-all of the status
\* switch is never what decides (apply.go:507-519).
NewOwnerIsSomebody ==
    phase = "applied" =>
        \A port \in Ports :
            report.status[port] = "blocked_by_new_owner" =>
                \/ \E p \in Owners(snap, port) :
                      /\ snap.ident[p] = "ok"
                      /\ p \notin plan.refusedPID[port]
                      /\ PlannedOn(plan, p, port) => plan.start[p] # snap.start[p]
                \/ \E c \in Publishers(snap, port) : ~PlannedOn(plan, c, port)

\* OkIsEarned: an apply that exits ok has every endpoint free and no resource
\* failed, was denied, was replaced or is still in doubt (apply.go:544-570).
OkIsEarned ==
    phase = "applied" /\ report.class = "ok" =>
        /\ AllFree(report.status)
        /\ \A k \in plan.resources :
              result[k] \in {"not_attempted", "signal_sent", "stopped"}
=============================================================================
