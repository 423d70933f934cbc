----------------------------- MODULE LegacyKill -----------------------------
(***************************************************************************)
(* The legacy command `killport PORT...` (cli.go:239-290, kill.go,          *)
(* listeners.go:70-180, docker.go:62-79).                                   *)
(*                                                                          *)
(* One goroutine lists listeners and containers, binds every process it may *)
(* kill to an identity, lets goroutines act, at most MaxConcurrent at a     *)
(* time, and lists again until nobody unexpected is left on a port it acted *)
(* on.  A row is a pair <<port, owner>>.                                    *)
(*                                                                          *)
(* SignalIfSame is the one step its contract promises (IdentitySignal).     *)
(***************************************************************************)
EXTENDS Collect

CONSTANTS
    MaxConcurrent,   \* maxConcurrentActions
    VerifyAttempts,  \* verifyAttempts
    MaxFaults        \* bound: how many calls to other programs fail

ASSUME LegacyAssumption ==
    /\ MaxConcurrent \in Nat \ {0}
    /\ VerifyAttempts \in Nat \ {0}
    /\ MaxFaults \in Nat

Owner == PIDs \cup {Hidden} \cup Containers
Row == Ports \X Owner

VARIABLES
    phase,        \* what the command is doing
    dryRun,       \* --dry-run
    stage,        \* the tool that is run next
    list,         \* the listing being collected
    ident,        \* ident[p]: outcome of captureIdentity
    token,        \* token[p]: the start time it captured
    planned,      \* rows with an action
    refused,      \* rows that failed at planning
    work,         \* work[k]: the next step of the action on k
    err,          \* keys whose action failed
    attempt,      \* enumerations verify has begun
    ctx,          \* "alive", or "dead" after a signal
    report,       \* what is printed, NoReport before
    faults

\* History variables, read by properties only.
VARIABLES
    listed,       \* <<port, PID, start>> that were true while listing
    heldLast,     \* native rows true at every read of the last enumeration
    upLast,       \* containers up when Docker was last asked
    hits          \* the processes signalled, each as it was at that instant

run == <<phase, dryRun, stage, list, ident, token, planned, refused, work, err,
         attempt, ctx, report, faults>>
history == <<listed, heldLast, upLast, hits>>
vars == <<world, run, history>>

NoReport == [exit |-> -1, killed |-> {}, failed |-> {}]

NoListing ==
    [rows |-> {}, name |-> [r \in Ports \X PIDs |-> ""], namesUnavailable |-> FALSE,
     degraded |-> FALSE, publishes |-> [c \in Containers |-> {}]]

HaveLsof == host.lsof
HaveSS == host.ss
HasIdentity == host.identity   \* FALSE where procid_other.go is built in

FirstTool == IF OnWindows THEN "netstat" ELSE IF HaveLsof THEN "lsof" ELSE "ss"

Init ==
    /\ WorldInit
    /\ phase = "listing"
    /\ dryRun \in BOOLEAN
    /\ stage = FirstTool
    /\ list = NoListing
    /\ ident = [p \in PIDs |-> "unasked"]
    /\ token = [p \in PIDs |-> 0]
    /\ planned = {} /\ refused = {}
    /\ work = [k \in Keys |-> "idle"]
    /\ err = {}
    /\ attempt = 0
    /\ ctx = "alive"
    /\ report = NoReport
    /\ faults = 0
    /\ listed = {} /\ heldLast = {} /\ upLast = {} /\ hits = {}

-----------------------------------------------------------------------------
(* Listing: the same code for the first look and for each verification. *)

\* Mutant of Works: a tool is run under a dead context.
Works_Regardless == UNCHANGED faults

Works == ctx = "alive" /\ UNCHANGED faults

\* A call may fail; one made under a dead context does.
Fault == faults < MaxFaults /\ faults' = faults + 1
Breaks == Fault \/ (ctx = "dead" /\ UNCHANGED faults)

\* The rows whose action did not fail, and what may stay on their ports.
Acted == {r \in planned : r[2] \notin err}
ActedPorts == {r[1] : r \in Acted}
NeedDocker == \E r \in Acted : r[2] \in Containers
Tolerated == refused \cup (planned \ Acted)

Listed == IF phase = "listing" \/ NeedDocker THEN "docker" ELSE "listed"

\* A row keeps the name its tool gave it; two rows of a PID may differ.
Named(rows) ==
    [r \in Ports \X PIDs |-> IF r \in rows THEN NamesNow[r[2]] ELSE ""]

Truth ==
    /\ listed' = IF phase = "listing"
                 THEN listed \cup {<<r[1], r[2], bound[r[2]]>> :
                          r \in {x \in Ports \X PIDs : x[1] \in HeldBy(x[2])}}
                 ELSE listed
    /\ heldLast' = IF stage = FirstTool THEN VisibleRows ELSE heldLast \cap VisibleRows

listFrame == <<world, phase, dryRun, ident, token, planned, refused, work, err,
               attempt, ctx, report, hits>>

Lsof ==
    /\ stage = "lsof"
    /\ \/ /\ Works
          /\ list' = [NoListing EXCEPT !.rows = VisibleRows, !.name = Named(VisibleRows)]
          /\ stage' = IF HaveSS THEN "ss" ELSE Listed
       \/ /\ ctx = "alive" /\ Fault   \* exit 1, no output, a message
          /\ list' = [NoListing EXCEPT !.degraded = TRUE]
          /\ stage' = IF HaveSS THEN "ss" ELSE Listed
       \/ /\ Breaks
          /\ list' = NoListing
          /\ stage' = "failed"
    /\ Truth
    /\ UNCHANGED <<listFrame, upLast>>

Shown(port) == \E r \in list.rows : r[1] = port

\* What the rows of ss are added to: without lsof it is the only source.
Unmerged == IF HaveLsof THEN list ELSE NoListing

Ss ==
    /\ stage = "ss"
    /\ \/ /\ Works
          /\ LET seen == VisibleRows \cup HiddenRows
                 new == IF HaveLsof THEN {r \in seen : ~Shown(r[1])} ELSE seen
             IN  list' = [Unmerged EXCEPT
                            !.rows = @ \cup new,
                            !.name = [r \in Ports \X PIDs |->
                                        IF r \in new THEN NamesNow[r[2]] ELSE @[r]],
                            !.degraded = FALSE]
          /\ stage' = Listed
       \/ /\ Breaks
          /\ list' = Unmerged
          /\ stage' = IF HaveLsof THEN Listed ELSE "failed"
    /\ Truth
    /\ UNCHANGED <<listFrame, upLast>>

\* Rows without a PID are dropped.
Netstat ==
    /\ stage = "netstat"
    /\ \/ /\ Works
          /\ list' = [NoListing EXCEPT !.rows = VisibleRows]
          /\ stage' = IF VisibleRows = {} THEN Listed ELSE "tasklist"
       \/ /\ Breaks
          /\ list' = NoListing
          /\ stage' = "failed"
    /\ Truth
    /\ UNCHANGED <<listFrame, upLast>>

Tasklist ==
    /\ stage = "tasklist"
    /\ \/ Works /\ list' = [list EXCEPT !.name = Named(list.rows)]
       \/ Breaks /\ list' = [list EXCEPT !.namesUnavailable = TRUE]
    /\ stage' = Listed
    /\ UNCHANGED <<listFrame, listed, heldLast, upLast>>

\* queryDocker: without an answer there are no owners; verify gives up.
Docker ==
    /\ stage = "docker"
    /\ \/ /\ ~DockerInstalled
          /\ stage' = "listed"
          /\ UNCHANGED <<list, faults>>
       \/ /\ DockerInstalled /\ Works
          /\ list' = [list EXCEPT !.publishes =
                        [c \in Containers |-> IF c \in up THEN Publishes[c] ELSE {}]]
          /\ stage' = "listed"
       \/ /\ DockerInstalled /\ Breaks
          /\ stage' = IF phase = "listing" THEN "listed" ELSE "failed"
          /\ UNCHANGED list
    /\ upLast' = up
    /\ UNCHANGED <<listFrame, listed, heldLast>>

Lists == Lsof \/ Ss \/ Netstat \/ Tasklist \/ Docker

\* The exit code and the rows with the status killed or stopped, and failed.
Conclude(killed, failed) ==
    /\ phase' = "done"
    /\ report' = [exit |-> IF failed = {} THEN 0 ELSE 1,
                  killed |-> killed, failed |-> failed]

EnumerationFails ==
    /\ phase = "listing" /\ stage = "failed"
    /\ phase' = "done"
    /\ report' = [NoReport EXCEPT !.exit = 1]
    /\ UNCHANGED <<world, dryRun, stage, list, ident, token, planned, refused,
                   work, err, attempt, ctx, faults, history>>
-----------------------------------------------------------------------------
(* planKill *)

Contained(port) == \E c \in Containers : port \in list.publishes[c]

ContainerRows == {r \in Ports \X Containers : r[1] \in list.publishes[r[2]]}

\* Mutant of Candidates: Docker's own processes are known by a container.
Candidates_Contained ==
    {r \in list.rows \cap (Ports \X PIDs) :
        /\ ~(list.name[r] = "infra" /\ Contained(r[1]))
        /\ ~Protected(OnWindows, r[2])
        /\ ~(list.namesUnavailable /\ list.name[r] = "")}

\* Rows of processes it would kill, if they have an identity.
Candidates ==
    {r \in list.rows \cap (Ports \X PIDs) :
        /\ list.name[r] # "infra"
        /\ ~Protected(OnWindows, r[2])
        /\ ~(list.namesUnavailable /\ list.name[r] = "")}

\* A proxy goes away with the container that publishes its port.
LeftAlone ==
    {r \in list.rows \cap (Ports \X PIDs) :
        list.name[r] = "infra" /\ Contained(r[1])}

\* Rows are visited by port, then containers, then processes by PID.
FirstPort(rows, k) ==
    CHOOSE port \in Ports :
        /\ <<port, k>> \in rows
        /\ \A q \in Ports : <<q, k>> \in rows => port <= q

Earlier(rows, k, l) ==
    \/ FirstPort(rows, k) < FirstPort(rows, l)
    \/ /\ FirstPort(rows, k) = FirstPort(rows, l)
       /\ \/ k \in Containers /\ l \in PIDs
          \/ k \in PIDs /\ l \in PIDs /\ k < l

Unbound == {p \in PIDs : ident[p] = "unasked" /\ \E port \in Ports : <<port, p>> \in Candidates}

\* captureIdentity, once for a PID
CaptureIdentity(p) ==
    /\ phase = "listing" /\ stage = "listed"
    /\ p \in Unbound
    /\ \A q \in Unbound : ~Earlier(Candidates, q, p)
    /\ \/ /\ HasIdentity
          /\ ident' = [ident EXCEPT ![p] = IF bound[p] = 0 THEN "gone" ELSE "ok"]
          /\ token' = [token EXCEPT ![p] = bound[p]]
          /\ UNCHANGED faults
       \/ /\ ~HasIdentity
          /\ ident' = [ident EXCEPT ![p] = "none"]
          /\ UNCHANGED <<token, faults>>
       \/ /\ HasIdentity /\ Fault
          /\ ident' = [ident EXCEPT ![p] = "denied"]
          /\ UNCHANGED token
    /\ UNCHANGED <<world, phase, dryRun, stage, list, planned, refused, work,
                   err, attempt, ctx, report, history>>

PlanKill ==
    /\ phase = "listing" /\ stage = "listed"
    /\ Unbound = {}
    /\ planned' = ContainerRows \cup {r \in Candidates : ident[r[2]] # "denied"}
    /\ refused' = list.rows \ (planned' \cup LeftAlone)
    /\ IF dryRun
       THEN Conclude({}, refused')
       ELSE phase' = "acting" /\ UNCHANGED report
    /\ UNCHANGED <<world, dryRun, stage, list, ident, token, work, err, attempt,
                   ctx, faults, history>>
-----------------------------------------------------------------------------
(* execute *)

ToAct == {r[2] : r \in planned}

Waiting == {k \in ToAct : work[k] = "idle"}
InFlight == {k \in Keys : work[k] \notin {"idle", "done"}}

goto(k, l) == work' = [work EXCEPT ![k] = l]

Dispatch(k) ==
    /\ phase = "acting"
    /\ k \in Waiting
    /\ \A l \in Waiting : ~Earlier(planned, l, k)
    /\ Cardinality(InFlight) < MaxConcurrent
    /\ goto(k, "begin")
    /\ UNCHANGED <<world, phase, dryRun, stage, list, ident, token, planned,
                   refused, err, attempt, ctx, report, faults, history>>

Ends(k, failed) ==
    /\ goto(k, "done")
    /\ err' = IF failed THEN err \cup {k} ELSE err

\* killNative.  Without identities it hits whatever has the PID now.
KillNative(p) ==
    /\ work[p] = "begin"
    /\ \/ /\ ident[p] = "gone"
          /\ Ends(p, FALSE)
          /\ UNCHANGED <<faults, hits>>
       \/ /\ ident[p] # "gone" /\ bound[p] = 0
          /\ Ends(p, FALSE)
          /\ UNCHANGED <<faults, hits>>
       \/ /\ bound[p] # 0 /\ (ident[p] = "none" \/ token[p] = bound[p])
          /\ Ends(p, FALSE)
          /\ hits' = hits \cup {[pid |-> p, start |-> bound[p], kind |-> kind[p],
                              late |-> ctx = "dead"]}
          /\ UNCHANGED faults
       \/ /\ ident[p] = "ok" /\ bound[p] \notin {0, token[p]}
          /\ Ends(p, TRUE)
          /\ UNCHANGED <<faults, hits>>
       \/ /\ ident[p] # "gone" /\ Fault
          /\ Ends(p, TRUE)
          /\ UNCHANGED hits
    /\ UNCHANGED <<world, phase, dryRun, stage, list, ident, token, planned,
                   refused, attempt, ctx, report, listed, heldLast, upLast>>

\* docker stop is started; under a dead context it fails at once.
StopBegins(c) ==
    /\ c \in Containers
    /\ work[c] = "begin"
    /\ IF ctx = "dead"
       THEN Ends(c, TRUE) /\ UNCHANGED stopping
       ELSE /\ goto(c, "wait")
            /\ stopping' = stopping \cup {c}
            /\ UNCHANGED err
    /\ UNCHANGED <<host, bound, clock, holds, kind, up, moves, phase, dryRun, stage,
                   list, ident, token, planned, refused, attempt, ctx, report,
                   faults, history>>

StopEnds(c) ==
    /\ c \in Containers
    /\ work[c] = "wait"
    /\ \/ /\ c \notin up \/ c \notin stopping
          /\ Ends(c, FALSE)
          /\ stopping' = stopping \ {c}
          /\ UNCHANGED faults
       \/ /\ c \notin up /\ c \in stopping   \* no such container
          /\ Ends(c, TRUE)
          /\ stopping' = stopping \ {c}
          /\ UNCHANGED faults
       \/ /\ Ends(c, TRUE)                   \* its time is over, or a signal came
          /\ UNCHANGED <<stopping, faults>>
       \/ /\ Fault                           \* the daemon refuses
          /\ c \in stopping
          /\ Ends(c, TRUE)
          /\ stopping' = stopping \ {c}
    /\ UNCHANGED <<host, bound, clock, holds, kind, up, moves, phase, dryRun, stage,
                   list, ident, token, planned, refused, attempt, ctx, report,
                   history>>

\* wg.Wait, and finishRows up to its call of verify
ActionsDone ==
    /\ phase = "acting"
    /\ \A k \in ToAct : work[k] = "done"
    /\ IF ActedPorts = {}
       THEN /\ Conclude({}, refused \cup planned)
            /\ UNCHANGED <<stage, attempt>>
       ELSE /\ phase' = "verifying"
            /\ stage' = FirstTool
            /\ attempt' = 1
            /\ UNCHANGED report
    /\ UNCHANGED <<world, dryRun, list, ident, token, planned, refused, work,
                   err, ctx, faults, history>>
-----------------------------------------------------------------------------
(* verify and finishRows *)

\* Mutant of ownersOnPorts: whoever was not planned for goes unnoticed.
ownersOnPorts_Known == (list.rows \cup ContainerRows) \cap planned

ownersOnPorts ==
    {r \in list.rows : r[1] \in ActedPorts}
    \cup {r \in ContainerRows : r[1] \in ActedPorts}

Settled == ownersOnPorts \subseteq Tolerated

\* Mutant of VerifyAgain: attempts are not counted.
VerifyAgain_Uncounted ==
    /\ phase = "verifying" /\ stage = "listed"
    /\ ~Settled
    /\ stage' = FirstTool
    /\ UNCHANGED <<world, phase, dryRun, list, ident, token, planned, refused,
                   work, err, attempt, ctx, report, faults, history>>

VerifyAgain ==
    /\ phase = "verifying" /\ stage = "listed"
    /\ ~Settled
    /\ attempt < VerifyAttempts
    /\ attempt' = attempt + 1
    /\ stage' = FirstTool
    /\ UNCHANGED <<world, phase, dryRun, list, ident, token, planned, refused,
                   work, err, ctx, report, faults, history>>

\* Mutant of FinishRows: an action without an error is a success.
FinishRows_Trusting ==
    /\ phase = "verifying" /\ stage = "listed"
    /\ Conclude(Acted, Tolerated)
    /\ UNCHANGED <<world, dryRun, stage, list, ident, token, planned, refused,
                   work, err, attempt, ctx, faults, history>>

\* A row is killed if its own owner is gone; whoever else is on a port that
\* was acted on gets a failed row.
FinishRows ==
    /\ phase = "verifying"
    /\ \/ /\ stage = "listed"
          /\ Settled \/ attempt = VerifyAttempts
          /\ LET killed == Acted \ ownersOnPorts
             IN  Conclude(killed, refused \cup (planned \ killed) \cup ownersOnPorts)
       \/ /\ stage = "failed"
          /\ Conclude({}, refused \cup planned)
    /\ UNCHANGED <<world, dryRun, stage, list, ident, token, planned, refused,
                   work, err, attempt, ctx, faults, history>>
-----------------------------------------------------------------------------
Cancel ==
    /\ phase # "done" /\ ctx = "alive"
    /\ ctx' = "dead"
    /\ UNCHANGED <<world, phase, dryRun, stage, list, ident, token, planned,
                   refused, work, err, attempt, report, faults, history>>

WorldMoves == phase # "done" /\ WorldNext /\ UNCHANGED <<run, history>>

Done == phase = "done" /\ UNCHANGED vars

Command ==
    \/ Lists \/ EnumerationFails
    \/ \E p \in PIDs : CaptureIdentity(p)
    \/ PlanKill
    \/ \E k \in Keys : Dispatch(k)
    \/ ActionsDone \/ VerifyAgain \/ FinishRows

ActOn(k) ==
    \/ k \in PIDs /\ KillNative(k)
    \/ StopBegins(k) \/ StopEnds(k)

Program == Command \/ \E k \in Keys : ActOn(k)

Next == Program \/ Cancel \/ WorldMoves \/ Done

Spec == Init /\ [][Next]_vars

\* Some goroutine that can run does.  Nothing is assumed of the machine or of
\* Docker: the wrapper around docker stop has a time limit of its own.
FairSpec == Spec /\ WF_vars(Program)
-----------------------------------------------------------------------------
(* Properties *)

\* TypeOK: the variables keep their types; verify makes at most VerifyAttempts
\* attempts (kill.go:354) and only rows with an action are reported killed.
TypeOK ==
    /\ WorldTypeOK
    /\ phase \in {"listing", "acting", "verifying", "done"}
    /\ dryRun \in BOOLEAN
    /\ stage \in {"lsof", "ss", "netstat", "tasklist", "docker", "listed", "failed"}
    /\ list.rows \subseteq Row /\ list.name \in [Ports \X PIDs -> Names]
    /\ ident \in [PIDs -> {"unasked", "ok", "gone", "denied", "none"}]
    /\ token \in [PIDs -> 0..MaxStart]
    /\ planned \subseteq Ports \X Keys
    /\ refused \subseteq Ports \X (PIDs \cup {Hidden})
    /\ work \in [Keys -> {"idle", "begin", "wait", "done"}]
    /\ err \subseteq ToAct
    /\ attempt \in 0..VerifyAttempts
    /\ ctx \in {"alive", "dead"}
    /\ report.exit \in {-1, 0, 1}
    /\ report.killed \subseteq planned
    /\ faults \in 0..MaxFaults

Trusted == ~list.degraded

\* KilledLeftThePort: behind a row "killed" there is an instant after the
\* action, in the last enumeration, at which that process did not hold the
\* port, and behind "stopped" one at which the container was not running,
\* unless lsof gave up in that enumeration (kill.go:410-411).
KilledLeftThePort ==
    phase = "done" => \A r \in report.killed :
        /\ r[2] \in PIDs /\ Trusted => r \notin heldLast
        /\ r[2] \in Containers => r[2] \notin upLast

\* FreedIsFree: an exit code 0 means that nobody this user can see was left on
\* any port that was acted on: not the owner, not a replacement, not a proxy,
\* not a second container (kill.go:411-413, 468-485).
FreedIsFree ==
    phase = "done" /\ report.exit = 0 /\ ~dryRun => \A port \in ActedPorts :
        /\ Trusted => \A p \in PIDs : <<port, p>> \notin heldLast
        /\ NeedDocker => \A c \in upLast : port \notin Publishes[c]

\* Nobody else had its PID while the ports were listed.
HadItsPID(h) == \A e \in listed : e[2] = h.pid => e[3] = h.start

\* RefusedIsSpared: rows are refused one by one and processes are killed whole,
\* and still a process refused on one port is not killed on account of another,
\* and one of Docker's own is not killed whatever port it is on, if nobody else
\* had its PID while the ports were listed; nobody protected is signalled, and
\* nobody at all by a dry run (kill.go:100-112, 157-213, 281-284).
RefusedIsSpared == \A h \in hits :
    /\ ~Protected(OnWindows, h.pid) /\ ~dryRun
    /\ HadItsPID(h) => h.kind # "infra" /\ \A r \in refused : r[2] # h.pid

\* LateKillsUnclaimed: after Ctrl-C the queued kills still go out, and then no
\* row may say that anything was killed: the verification runs on the context
\* that was cancelled, fails, and fails every row (kill.go:287-292, 355-357,
\* 447-448).
LateKillsUnclaimed ==
    phase = "done" /\ (\E h \in hits : h.late) => report.killed = {} /\ report.exit = 1

\* KilledOnlyWhatItListed: a process that reused the PID of an owner is not hit:
\* the identity is "captured at enumeration time" (kill.go:58) and a signal
\* through it "cannot hit a process that reused the PID" (system.go:29-30).
KilledOnlyWhatItListed ==
    HasIdentity => \A h \in hits : \E port \in Ports : <<port, h.pid, h.start>> \in listed

\* KilledMeansGone: "A row is `killed` or `stopped` only when its own PID or
\* container is gone" (docs/cli-reference.md:13).
KilledMeansGone ==
    phase = "done" => \A r \in report.killed : r \notin heldLast

\* What is left of the command's own work, and of what concerns one resource: a
\* number that their steps lower.  An enumeration is at most five tools.
ToolsLeft ==
    CASE stage = "lsof" -> 5
      [] stage \in {"ss", "netstat"} -> 4
      [] stage = "tasklist" -> 3
      [] stage = "docker" -> 2
      [] stage = "listed" -> 1
      [] stage = "failed" -> 0

CommandLeft ==
    CASE phase = "listing" -> 8 * VerifyAttempts + 1 + ToolsLeft
      [] phase = "acting" -> 8 * VerifyAttempts
      [] phase = "verifying" -> 8 * (VerifyAttempts - attempt) + 1 + ToolsLeft
      [] phase = "done" -> 0

ActionLeft(k) ==
    (CASE work[k] = "idle" -> 3
       [] work[k] = "begin" -> 2
       [] work[k] = "wait" -> 1
       [] work[k] = "done" -> 0)
    + (IF k \in PIDs /\ ident[k] = "unasked" THEN 1 ELSE 0)

ActionsLeft == [k \in Keys |-> ActionLeft(k)]

\* Advances: the command never goes round in circles.  Each of its steps leaves
\* less to do of its own or of one action, whatever the machine does in between
\* and however its calls fail; nothing is listed, bound, acted on or verified
\* more often than planned (kill.go:286-315, 354-373).
Advances ==
    [][ \/ CommandLeft' < CommandLeft /\ ActionsLeft' = ActionsLeft
        \/ /\ CommandLeft' = CommandLeft
           /\ \E k \in Keys : /\ ActionsLeft'[k] < ActionsLeft[k]
                              /\ \A l \in Keys \ {k} : ActionsLeft'[l] = ActionsLeft[l]
        \/ (WorldMoves \/ Cancel) /\ CommandLeft' = CommandLeft /\ ActionsLeft' = ActionsLeft ]_vars

\* Terminates: the command ends.
Terminates == <>(phase = "done")
=============================================================================
