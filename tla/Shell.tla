------------------------------- MODULE Shell -------------------------------
(***************************************************************************)
(* killport commands as processes, from main to the exit status: Main and   *)
(* runContext (cli.go:54-67, 119-222), reportPanic, execute, runInspect,    *)
(* runPlan, runApply, the buffered standard output, the first and the       *)
(* second SIGINT or SIGTERM, and the guard around the read-only commands    *)
(* (system.go:254-293).  The commands share FILE, see PlanFile.             *)
(*                                                                          *)
(* All run with --json.  What they observe and what exactly apply and kill  *)
(* do are in Collect, Apply and LegacyKill; here they end in any of the     *)
(* exit classes that those parts end in.                                    *)
(***************************************************************************)
EXTENDS PlanFile, Sequences, FiniteSets

CONSTANTS
    ModeOf,       \* what the commands are that neither write nor read FILE
    Casts,        \* the sets of commands that are run together
    MaxSignals,   \* bound: signals sent, to one command at a time
    MaxMishaps    \* bound: panics and failed writes to standard output

Rest == DOMAIN ModeOf
Commands == Planners \cup Appliers \cup Rest
Modes == {"kill", "dry-run", "check", "inspect"}

ASSUME ShellAssumption ==
    /\ ModeOf \in [Rest -> Modes]
    /\ Rest \cap (Planners \cup Appliers) = {}
    /\ Casts \subseteq SUBSET Commands
    /\ MaxSignals \in Nat /\ MaxMishaps \in Nat

VARIABLES
    stage,        \* stage[p]: how far command p is, or where it was ended
    over,         \* over[p]: whether and how it ended
    observed,     \* the commands that have looked at the machine
    acted,        \* the commands that have signalled or stopped something
    panicked,     \* the commands that have panicked on some goroutine
    buf, stdout,  \* the documents in the buffer and on standard output
    class,        \* class[p]: the exit class the command is going to return
    sigs,         \* sigs[p]: the signals it was sent
    restored,     \* the commands that stop() gave the default handling back
    mishaps

shell == <<stage, over, observed, acted, panicked, buf, stdout, class,
           sigs, restored, mishaps>>
shellVars == <<fileVars, shell>>

Stages == {"starting", "observing", "file", "acting", "writing", "exiting", "leaving"}
Ends == {"no", "absent", "left", "signal", "killed", "crash", "dark"}
Classes == {"none", "ok", "failed", "usage", "needs_fresh_plan", "uncertain"}
Documents == [kind : {"result", "error", "help", "cut"}, class : Classes]

\* ShellTypeOK: the variables keep their types; a command that is not in its
\* file stage is between system calls of PlanFile (workflow.go:334-342, 462-469).
ShellTypeOK ==
    /\ FileTypeOK
    /\ stage \in [Commands -> Stages] /\ over \in [Commands -> Ends]
    /\ observed \subseteq Commands /\ acted \subseteq Commands
    /\ panicked \subseteq Commands /\ restored \subseteq Commands
    /\ buf \in [Commands -> Seq(Documents)] /\ stdout \in [Commands -> Seq(Documents)]
    /\ class \in [Commands -> Classes]
    /\ sigs \in [Commands -> 0..MaxSignals] /\ mishaps \in 0..MaxMishaps
    /\ \A p \in Planners \cup Appliers : stage[p] # "file" =>
           pc[p] \in {"lstat", "open"} \cup Ended

ShellInit ==
    /\ FileInit
    /\ stage = [p \in Commands |-> "starting"]
    /\ \E cast \in Casts : over = [p \in Commands |-> IF p \in cast THEN "no" ELSE "absent"]
    /\ observed = {} /\ acted = {} /\ panicked = {} /\ restored = {}
    /\ buf = [p \in Commands |-> << >>] /\ stdout = [p \in Commands |-> << >>]
    /\ class = [p \in Commands |-> "none"]
    /\ sigs = [p \in Commands |-> 0]
    /\ mishaps = 0
-----------------------------------------------------------------------------
At(p, s) == over[p] = "no" /\ stage[p] = s
go(p, s) == stage' = [stage EXCEPT ![p] = s]

Mishap == mishaps < MaxMishaps /\ mishaps' = mishaps + 1

Document(k, c) == [kind |-> k, class |-> c]

\* What a failed write leaves of a document.
Cut == Document("cut", "none")

\* The command puts its only document into the buffer and returns class c.
Returns(p, k, c) ==
    /\ buf' = [buf EXCEPT ![p] = Append(@, Document(k, c))]
    /\ class' = [class EXCEPT ![p] = c]
    /\ go(p, "writing")

Result(p, c) == Returns(p, "result", c)
Fatal(p, c) == Returns(p, "error", c)

Same == UNCHANGED <<over, stdout, sigs, restored>>
-----------------------------------------------------------------------------
(* The commands *)

\* signal.NotifyContext, then flags, ports, protocol, mode and times: any of
\* them wrong is a usage error.  --help and --version are answered and no more.
Start(p) ==
    /\ At(p, "starting")
    /\ \/ Fatal(p, "usage")
       \/ Returns(p, "help", "ok")
       \/ /\ go(p, IF p \in Appliers THEN "file" ELSE "observing")
          /\ UNCHANGED <<buf, class>>
    /\ Same /\ UNCHANGED <<fileVars, observed, acted, panicked, mishaps>>

\* The tools an observation may run, each with the word that says what it does.
Lookups ==
    ({"lsof", "ss", "netstat", "tasklist"} \X {"list"})
        \cup ({"docker"} \X {"ps", "context inspect"})

\* What readOnlySystem lets through; on anything else it panics.
Allowed(call) ==
    \/ call[1] \in {"lsof", "ss", "netstat", "tasklist"}
    \/ call[1] = "docker" /\ call[2] \in {"ps", "context inspect"}

Guarded(p) ==
    p \in Planners \/ (p \in Rest /\ ModeOf[p] \in {"dry-run", "inspect"})

\* The exit classes of the commands that look and do not act.
LookClasses(m) ==
    CASE m = "inspect" -> {"ok", "failed", "uncertain"}
      [] m = "check" -> {"ok"}
      [] m = "dry-run" -> {"ok", "failed"}

Panics(p) == panicked' = panicked \cup {p}

\* Mutant of Recovered: the buffer is written on every way out.
Recovered_Flushes(p) ==
    /\ Panics(p)
    /\ stdout' = [stdout EXCEPT ![p] = @ \o buf[p] \o <<Document("error", "failed")>>]
    /\ class' = [class EXCEPT ![p] = "failed"]
    /\ go(p, "exiting")
    /\ UNCHANGED <<over, sigs, restored, buf, observed, acted>>

\* A panic on the main goroutine.  Whatever the buffer holds is dropped.
Recovered(p) ==
    /\ Panics(p)
    /\ stdout' = [stdout EXCEPT ![p] = Append(@, Document("error", "failed"))]
    /\ class' = [class EXCEPT ![p] = "failed"]
    /\ go(p, "exiting")
    /\ UNCHANGED <<over, sigs, restored, buf, observed, acted>>

MissingTools(p) ==
    /\ At(p, "observing")
    /\ Fatal(p, "failed")
    /\ Same /\ UNCHANGED <<fileVars, observed, acted, panicked, mishaps>>

\* The machine was observed.  Only the classic command stops when the listeners
\* cannot be enumerated.
Observed(p) ==
    /\ observed' = observed \cup {p}
    /\ \/ p \in Planners /\ go(p, "file") /\ UNCHANGED <<buf, class>>
       \/ /\ p \in Rest /\ ModeOf[p] = "kill"
          /\ go(p, "acting") /\ UNCHANGED <<buf, class>>
       \/ p \in Rest /\ ModeOf[p] # "kill" /\ \E c \in LookClasses(ModeOf[p]) : Result(p, c)
       \/ p \in Rest /\ ModeOf[p] # "inspect" /\ Fatal(p, "failed")
    /\ Same /\ UNCHANGED <<acted, panicked>>

\* The tools are run, under the guard if the command is a read-only one.
Observe(p) ==
    /\ At(p, "observing")
    /\ IF Guarded(p) /\ \E call \in Lookups : ~Allowed(call)
       THEN Recovered(p)
       ELSE Observed(p)
    /\ UNCHANGED <<fileVars, mishaps>>

\* A system call of writePlanFile or readPlan.
FileStep(p) ==
    /\ At(p, "file")
    /\ \/ p \in Planners /\ WriterStep(p)
       \/ p \in Appliers /\ ReaderStep(p)
    /\ UNCHANGED shell

\* Mutant of PlanWritten: an error of writePlanFile is only a warning.
PlanWritten_Anyway(w) ==
    /\ At(w, "file")
    /\ w \in Planners /\ pc[w] \in {"ok", "failed"}
    /\ \E c \in {"ok", "failed", "uncertain"} : Result(w, c)
    /\ Same /\ UNCHANGED <<fileVars, observed, acted, panicked, mishaps>>

PlanWritten(w) ==
    /\ At(w, "file")
    /\ w \in Planners
    /\ \/ pc[w] = "ok" /\ \E c \in {"ok", "failed", "uncertain"} : Result(w, c)
       \/ pc[w] = "failed" /\ Fatal(w, "failed")
    /\ Same /\ UNCHANGED <<fileVars, observed, acted, panicked, mishaps>>

\* A plan that was refused, of another OS or invalid; an expired plan; missing
\* tools; or a plan to be applied.
PlanRead(r) ==
    /\ At(r, "file")
    /\ r \in Appliers /\ pc[r] = "done"
    /\ \/ Fatal(r, "usage") /\ UNCHANGED observed
       \/ /\ got[r] # "refused"
          /\ Result(r, "needs_fresh_plan") \/ Fatal(r, "failed")
          /\ UNCHANGED observed
       \/ /\ got[r] # "refused"
          /\ go(r, "acting")
          /\ observed' = observed \cup {r}
          /\ UNCHANGED <<buf, class>>
    /\ Same /\ UNCHANGED <<fileVars, acted, panicked, mishaps>>

Act(p) ==
    /\ At(p, "acting")
    /\ acted' = acted \cup {p}
    /\ Same /\ UNCHANGED <<fileVars, stage, observed, panicked, buf, class, mishaps>>

ActingEnds(p) ==
    /\ At(p, "acting")
    /\ \E c \in IF p \in Appliers THEN {"ok", "failed", "needs_fresh_plan", "uncertain"}
                ELSE {"ok", "failed"} : Result(p, c)
    /\ Same /\ UNCHANGED <<fileVars, observed, acted, panicked, mishaps>>

\* A panic on a worker goroutine: safeAct of apply makes it a failed resource;
\* execute has no such thing, and the process ends with the status of a usage
\* error and without a document.
WorkerPanics(p) ==
    /\ At(p, "acting")
    /\ Mishap
    /\ IF p \in Appliers
       THEN /\ acted' = acted \cup {p}
            /\ Result(p, "failed")
            /\ Same /\ UNCHANGED panicked
       ELSE /\ Panics(p)
            /\ over' = [over EXCEPT ![p] = "crash"]
            /\ UNCHANGED <<stage, acted, buf, stdout, class, sigs, restored>>
    /\ UNCHANGED <<fileVars, observed>>

\* A panic on the main goroutine, the deferred function of runContext.
MainPanics(p) ==
    /\ At(p, "observing") \/ At(p, "acting") \/ At(p, "writing")
    /\ Mishap
    /\ Recovered(p)
    /\ UNCHANGED fileVars

\* The buffer is written at once.  An error of that is ignored.
Flush(p) ==
    /\ At(p, "writing")
    /\ \/ stdout' = [stdout EXCEPT ![p] = @ \o buf[p]] /\ UNCHANGED mishaps
       \/ Mishap /\ stdout' = [stdout EXCEPT ![p] = Append(@, Cut)]
    /\ go(p, "exiting")
    /\ UNCHANGED <<fileVars, over, observed, acted, panicked, buf, class, sigs,
                   restored>>

\* stop() at the end of Main.
Stop(p) ==
    /\ At(p, "exiting")
    /\ restored' = restored \cup {p}
    /\ go(p, "leaving")
    /\ UNCHANGED <<fileVars, over, observed, acted, panicked, buf, stdout, class,
                   sigs, mishaps>>

\* os.Exit.
Exit(p) ==
    /\ At(p, "leaving")
    /\ over' = [over EXCEPT ![p] = "left"]
    /\ UNCHANGED <<fileVars, stage, observed, acted, panicked, buf, stdout, class,
                   sigs, restored, mishaps>>

Run(p) ==
    \/ Start(p) \/ MissingTools(p) \/ Observe(p)
    \/ FileStep(p) \/ PlanWritten(p) \/ PlanRead(p)
    \/ Act(p) \/ ActingEnds(p) \/ WorkerPanics(p) \/ MainPanics(p)
    \/ Flush(p) \/ Stop(p) \/ Exit(p)
-----------------------------------------------------------------------------
(* Signals, and everybody else *)

\* The files of a process that ends at once are closed, see PlanFile.Dies.
FilesClosed(p) ==
    IF p \in Planners \cup Appliers /\ pc[p] \notin Ended
    THEN Dies(p) ELSE UNCHANGED fileVars

End(p, how) ==
    /\ over' = [over EXCEPT ![p] = how]
    /\ FilesClosed(p)

\* SIGINT or SIGTERM.  Before NotifyContext and after stop() it ends the
\* process, otherwise it cancels the context, once.
Signal(p) ==
    /\ over[p] = "no"
    /\ sigs[p] < MaxSignals
    /\ \A q \in Commands \ {p} : sigs[q] = 0
    /\ sigs' = [sigs EXCEPT ![p] = @ + 1]
    /\ IF stage[p] = "starting" \/ p \in restored
       THEN End(p, "signal")
       ELSE UNCHANGED <<fileVars, over>>
    /\ UNCHANGED <<stage, observed, acted, panicked, buf, stdout, class,
                   restored, mishaps>>

\* Mutant of Restore: stop() is called as soon as the context exists.
Restore_AtOnce(p) ==
    /\ over[p] = "no" /\ stage[p] # "starting"
    /\ restored' = restored \cup {p}
    /\ UNCHANGED <<fileVars, stage, over, observed, acted, panicked, buf, stdout,
                   class, sigs, mishaps>>

\* The goroutine of Main that calls stop() once the context is cancelled.
Restore(p) ==
    /\ over[p] = "no" /\ stage[p] # "starting"
    /\ sigs[p] > 0 /\ p \notin restored
    /\ restored' = restored \cup {p}
    /\ UNCHANGED <<fileVars, stage, over, observed, acted, panicked, buf, stdout,
                   class, sigs, mishaps>>

\* SIGKILL, TerminateProcess, out of memory.
Killed(p) ==
    /\ over[p] = "no" /\ stage[p] # "starting"
    /\ End(p, "killed")
    /\ UNCHANGED <<stage, observed, acted, panicked, buf, stdout, class, sigs,
                   restored, mishaps>>

\* Commands that have not started yet are run after the reboot.
Blackout ==
    /\ PowerFails
    /\ over' = [p \in Commands |->
                  IF over[p] = "no" /\ stage[p] # "starting" THEN "dark" ELSE over[p]]
    /\ UNCHANGED <<stage, observed, acted, panicked, buf, stdout, class, sigs,
                   restored, mishaps>>

Outside ==
    \/ \E p \in Commands : Signal(p) \/ Restore(p) \/ Killed(p)
    \/ (Swapped \/ Scribbled) /\ UNCHANGED shell
    \/ Blackout

\* Every command has ended.
Over == (\A p \in Commands : over[p] # "no") /\ UNCHANGED shellVars

ShellNext == (\E p \in Commands : Run(p)) \/ Outside \/ Over

ShellSpec == ShellInit /\ [][ShellNext]_shellVars
-----------------------------------------------------------------------------
(* Properties *)

\* OneDocument: a command that ends by itself leaves one document on standard
\* output, the one of the class it exits with, panics included; unless standard
\* output itself failed (cli.go:119-137).
OneDocument ==
    \A p \in Commands : over[p] = "left" =>
        \/ stdout[p] = <<Cut>>
        \/ Len(stdout[p]) = 1 /\ stdout[p][1].class = class[p]

\* FileMatchesReport: plan reports a plan only when FILE was replaced by it,
\* and says that it was replaced when it was (workflow.go:334-348).
FileMatchesReport ==
    \A w \in Planners : over[w] = "left" =>
        \/ w \in panicked \/ stdout[w] = <<Cut>>
        \/ (stdout[w][1].kind = "result") = (pc[w] = "ok")

\* UsageMeansUntouched: exit class usage is returned before anything was
\* observed, acted on or written, and apply acts only on a whole plan that it
\* accepted (workflow.go:298-328, 458-491; docs/workflow.md:153).
UsageMeansUntouched ==
    /\ \A p \in Commands : class[p] = "usage" =>
           p \notin observed \cup acted /\ (p \in Planners => pc[p] \in {"lstat", "dead"})
    /\ \A r \in Appliers : r \in observed => got[r] \in Plans

\* SignalsLoseNothing: one SIGINT or SIGTERM never ends a command that has
\* started without its report (cli.go:54-67).
SignalsLoseNothing ==
    \A p \in Commands : over[p] = "signal" /\ sigs[p] = 1 =>
        stage[p] = "starting" \/ stdout[p] # << >>

Status(p) == IF over[p] = "crash" THEN "usage" ELSE class[p]

\* PanicIsNotUsage: "A panic exits with 1, never with the usage code"
\* (cli.go:125).
PanicIsNotUsage ==
    \A p \in panicked : over[p] \in {"left", "crash"} => Status(p) # "usage"
=============================================================================
