---------------------------- MODULE Shell_proofs ----------------------------
(***************************************************************************)
(* Proofs about Shell for any number of commands, of signals, of panics, of *)
(* failing writes and of moves of others.                                   *)
(***************************************************************************)
EXTENDS Shell, PlanFile_proofs

(***************************************************************************)
(* The commands keep to PlanFile: what they do to FILE is a step of it, or   *)
(* nothing.  So what PlanFile guarantees holds of the commands as well.     *)
(***************************************************************************)
LEMMA RunKeepsToFile ==
    ASSUME NEW p \in Commands, Run(p)
    PROVE  [FileNext]_fileVars
  <1>1. CASE FileStep(p)
    BY <1>1 DEF FileStep, FileNext
  <1>2. CASE ~FileStep(p)
    BY <1>2 DEF Run, Start, MissingTools, Observe, PlanWritten, PlanRead, Act, ActingEnds,
                WorkerPanics, MainPanics, Flush, Stop, Exit
  <1> QED BY <1>1, <1>2

LEMMA ShellKeepsToFile ==
    ASSUME [ShellNext]_shellVars
    PROVE  [FileNext]_fileVars
  <1>1. CASE \E p \in Commands : Run(p)
    BY <1>1, RunKeepsToFile
  <1>2. CASE \E p \in Commands : Signal(p) \/ Restore(p) \/ Killed(p)
    BY <1>2 DEF Signal, Restore, Killed, End, FilesClosed, FileNext
  <1>3. CASE (Swapped \/ Scribbled) \/ Blackout
    BY <1>3 DEF Blackout, FileNext, Others
  <1>4. CASE UNCHANGED shellVars
    BY <1>4 DEF shellVars
  <1> QED BY <1>1, <1>2, <1>3, <1>4 DEF ShellNext, Outside, Over

LEMMA ShellIsFile == ShellSpec => FileSpec
  <1>1. ShellInit => FileInit
    BY DEF ShellInit
  <1>2. [ShellNext]_shellVars => [FileNext]_fileVars
    BY ShellKeepsToFile
  <1> QED BY <1>1, <1>2, PTL DEF ShellSpec, FileSpec

\* CommandsReplaceAtomically: whole commands, which panic, are interrupted or
\* lose power anywhere between main and exit, replace FILE in one step or leave
\* it alone, and accept only whole plans (workflow.go:334-389, 458-469).
THEOREM CommandsReplaceAtomically == ShellSpec => AtomicReplace
  BY ShellIsFile, PlanFileImplementsAtomicPlan, PTL

\* CommandsWriteNothingElse: nor do they write where a planted link leads
\* (workflow.go:334-389).
THEOREM CommandsWriteNothingElse == ShellSpec => []NothingElseWritten
  BY ShellIsFile, NothingElseIsWritten, PTL
-----------------------------------------------------------------------------
(***************************************************************************)
(* The inductive invariant, for each command on its own.                     *)
(*                                                                          *)
(* Up to the moment it returns, a command has said nothing and looked at     *)
(* nothing that a usage error may not follow (Silent, Early); then its one   *)
(* document, of the class it returns, is in the buffer and nowhere else      *)
(* (Ready), or on standard output (Told).  stop() has run only after a       *)
(* signal or at the very end (Heard).                                        *)
(***************************************************************************)
Before == {"starting", "observing", "file", "acting"}

\* The sequence docs is the one document of command p.
IsReport(docs, p) ==
    \E k \in {"result", "error", "help"} :
        /\ docs = <<Document(k, class[p])>>
        /\ p \in Planners /\ p \notin panicked => (k = "result" <=> pc[p] = "ok")

Silent(p) == stage[p] \in Before => buf[p] = << >> /\ stdout[p] = << >> /\ class[p] = "none"

Ready(p) == stage[p] = "writing" => IsReport(buf[p], p) /\ stdout[p] = << >>

Told(p) ==
    /\ stage[p] \in {"exiting", "leaving"} => stdout[p] = <<Cut>> \/ IsReport(stdout[p], p)
    /\ over[p] = "left" => stage[p] = "leaving"

Untouched(p) == p \notin observed \cup acted

Early(p) ==
    /\ stage[p] \in {"starting", "observing"} => Untouched(p)
    /\ p \in Planners /\ stage[p] \in {"starting", "observing"} => pc[p] \in {"lstat", "dead"}
    /\ p \in Appliers /\ stage[p] = "file" => Untouched(p)
    /\ p \in Appliers => stage[p] # "observing"
    /\ p \in Appliers /\ p \in observed => got[p] \in Plans
    /\ class[p] = "usage" => Untouched(p) /\ (p \in Planners => pc[p] \in {"lstat", "dead"})

Acts(p) == stage[p] = "acting" => p \notin Planners

Heard(p) ==
    /\ p \in restored => sigs[p] > 0 \/ stage[p] = "leaving"
    /\ over[p] = "signal" /\ sigs[p] = 1 => stage[p] = "starting" \/ stdout[p] # << >>

CommandInv(p) ==
    Silent(p) /\ Ready(p) /\ Told(p) /\ Early(p) /\ Acts(p) /\ Heard(p)

ShellFuncs ==
    /\ stage \in [Commands -> Stages] /\ over \in [Commands -> Ends]
    /\ buf \in [Commands -> Seq(Documents)] /\ stdout \in [Commands -> Seq(Documents)]
    /\ class \in [Commands -> Classes]
    /\ sigs \in [Commands -> 0..MaxSignals] /\ mishaps \in 0..MaxMishaps
    /\ observed \subseteq Commands /\ acted \subseteq Commands
    /\ panicked \subseteq Commands /\ restored \subseteq Commands

ShellInv ==
    /\ ShellFuncs
    /\ FileInv
    /\ \A p \in Commands : CommandInv(p)
-----------------------------------------------------------------------------
LEMMA Kinds ==
    /\ \A w \in Planners : w \in Commands /\ w \notin Appliers /\ w \notin Rest
    /\ \A r \in Appliers : r \in Commands /\ r \notin Planners /\ r \notin Rest
    /\ \A p \in Rest : p \in Commands /\ p \notin Planners /\ p \notin Appliers /\ ModeOf[p] \in Modes
    /\ \A p \in Commands : p \in Planners \/ p \in Appliers \/ p \in Rest
    /\ MaxSignals \in Nat /\ MaxMishaps \in Nat
  BY ShellAssumption, PlanFileAssumption DEF Commands, Rest

LEMMA DocumentFacts ==
    /\ \A k, c : Document(k, c).kind = k /\ Document(k, c).class = c
    /\ \A k \in {"result", "error", "help", "cut"}, c \in Classes : Document(k, c) \in Documents
    /\ Cut \in Documents
  BY DEF Document, Documents, Cut, Classes

\* The guard lets through whatever an observation has to run.
LEMMA GuardLetsThrough == \A call \in Lookups : Allowed(call)
  BY DEF Lookups, Allowed

\* What a step of another command, or of nobody's, leaves of command q.
Idle(q) ==
    /\ stage'[q] = stage[q] /\ over'[q] = over[q] /\ buf'[q] = buf[q]
    /\ stdout'[q] = stdout[q] /\ class'[q] = class[q] /\ sigs'[q] = sigs[q]
    /\ q \in observed' <=> q \in observed
    /\ q \in acted' <=> q \in acted
    /\ q \in panicked' <=> q \in panicked
    /\ q \in restored' <=> q \in restored

\* What may happen to command q in its file: a command in the middle of nothing
\* may find itself dead.
FileIdle(q) ==
    /\ q \in Planners => \/ pc'[q] = pc[q]
                         \/ pc[q] \notin Ended /\ pc'[q] = "dead"
    /\ q \in Appliers => got'[q] = got[q] \/ got[q] = "none"

LEMMA IdleKeeps ==
    ASSUME NEW q \in Commands, CommandInv(q), Idle(q), FileIdle(q)
    PROVE  CommandInv(q)'
  <1>1. Silent(q)'
    BY DEF CommandInv, Silent, Idle
  <1>2. Ready(q)'
    BY DEF CommandInv, Ready, IsReport, Idle, FileIdle, Ended
  <1>3. Told(q)'
    BY DEF CommandInv, Told, IsReport, Idle, FileIdle, Ended
  <1>4. Early(q)'
    BY Names DEF CommandInv, Early, Untouched, Idle, FileIdle
  <1>5. Acts(q)' /\ Heard(q)'
    BY DEF CommandInv, Acts, Heard, Idle
  <1> QED BY <1>1, <1>2, <1>3, <1>4, <1>5 DEF CommandInv
-----------------------------------------------------------------------------
(* What a step leaves of the commands that do not take it. *)
LEMMA Unmoved ==
    ASSUME UNCHANGED fileVars
    PROVE  UNCHANGED <<pc, got>> /\ \A q \in Commands : FileIdle(q)
  BY DEF fileVars, reader, FileIdle

LEMMA OthersIdle ==
    ASSUME ShellFuncs, FileTypeOK, NEW p \in Commands, Run(p),
           NEW q \in Commands, q # p
    PROVE  Idle(q) /\ FileIdle(q)
  <1>1. Idle(q)
    <2> USE DEF ShellFuncs, Idle, Same, go, Returns, Result, Fatal
    <2>1. CASE Start(p) \/ MissingTools(p) \/ PlanWritten(p) \/ PlanRead(p)
      BY <2>1 DEF Start, MissingTools, PlanWritten, PlanRead
    <2>2. CASE Observe(p) \/ MainPanics(p)
      BY <2>2 DEF Observe, Observed, MainPanics, Recovered, Panics
    <2>3. CASE FileStep(p)
      BY <2>3 DEF FileStep, shell
    <2>4. CASE Act(p) \/ ActingEnds(p) \/ WorkerPanics(p)
      BY <2>4 DEF Act, ActingEnds, WorkerPanics, Panics
    <2>5. CASE Flush(p) \/ Stop(p) \/ Exit(p)
      BY <2>5 DEF Flush, Stop, Exit
    <2> QED BY <2>1, <2>2, <2>3, <2>4, <2>5 DEF Run
  <1>2. FileIdle(q)
    <2>1. CASE FileStep(p) /\ p \in Planners
      <3>1. WriterStep(p)
        BY <2>1, Names DEF FileStep
      <3>2. got' = got /\ pc' = [pc EXCEPT ![p] = pc'[p]]
        BY <3>1, Names DEF FileTypeOK, WriterStep, Lstat, CreateTemp, Write, WriteRest, Close,
               WriteFails, Rename, RenameFails, Remove, Keep, reader, goto
      <3> QED BY <3>2, Kinds DEF FileTypeOK, FileIdle
    <2>2. CASE FileStep(p) /\ p \in Appliers
      <3>1. ReaderStep(p)
        BY <2>2, Names DEF FileStep
      <3>2. pc' = [pc EXCEPT ![p] = pc'[p]] /\ got' = [got EXCEPT ![p] = got'[p]]
        BY <3>1 DEF FileTypeOK, ReaderStep, OpenPlan, Read, ReadRest, ReadFails, Refuses,
               reader, goto
      <3> QED BY <3>2, Kinds DEF FileTypeOK, FileIdle
    <2>3. CASE UNCHANGED fileVars
      BY <2>3, Unmoved
    <2> QED
      BY <2>1, <2>2, <2>3 DEF FileStep, Run, Start, MissingTools, Observe, PlanWritten, PlanRead,
         Act, ActingEnds, WorkerPanics, MainPanics, Flush, Stop, Exit
  <1> QED BY <1>1, <1>2

\* A command that ends takes nothing from what has been said and done.
LEMMA FilesClosedIdle ==
    ASSUME FileTypeOK, NEW p \in Commands, FilesClosed(p), NEW q \in Commands
    PROVE  FileIdle(q)
  BY Kinds, Unmoved DEF FileTypeOK, FilesClosed, Dies, goto, FileIdle, fileVars

LEMMA PowerFailsIdle ==
    ASSUME FileTypeOK, PowerFails, NEW q \in Commands
    PROVE  FileIdle(q)
  BY DEF FileTypeOK, PowerFails, FileIdle, Ended
-----------------------------------------------------------------------------
(* What a step leaves of the command that takes it. *)

\* A command that returns its document, for a reason that fits the class.
LEMMA ReturnsInv ==
    ASSUME ShellFuncs, NEW p \in Commands, CommandInv(p), over[p] = "no", stage[p] \in Before,
           NEW k \in {"result", "error", "help"}, NEW c \in Classes, Returns(p, k, c),
           Same, UNCHANGED <<fileVars, panicked>>,
           p \in Planners /\ p \notin panicked => (k = "result" <=> pc[p] = "ok"),
           c = "usage" => Untouched(p)' /\ (p \in Planners => pc[p] \in {"lstat", "dead"}),
           p \in Appliers /\ p \in observed' => got[p] \in Plans
    PROVE  CommandInv(p)'
  <1>1. /\ stage'[p] = "writing" /\ class'[p] = c /\ buf'[p] = <<Document(k, c)>>
        /\ stdout'[p] = << >> /\ over'[p] = "no"
    <2>1. buf'[p] = Append(buf[p], Document(k, c)) /\ class'[p] = c /\ stage'[p] = "writing"
      BY DEF Returns, go, ShellFuncs
    <2>2. buf[p] = << >> /\ stdout' = stdout /\ stdout[p] = << >> /\ over' = over
      BY DEF CommandInv, Silent, Same
    <2>3. Append(<< >>, Document(k, c)) = <<Document(k, c)>>
      OBVIOUS
    <2> QED BY <2>1, <2>2, <2>3
  <1>2. UNCHANGED <<pc, got, panicked, sigs, restored>>
    BY Unmoved DEF Same
  <1>3. Silent(p)' /\ Told(p)'
    BY <1>1 DEF Silent, Told, Before
  <1>4. Ready(p)'
    BY <1>1, <1>2 DEF Ready, IsReport
  <1>5. Early(p)'
    BY <1>1, <1>2, Kinds DEF Early
  <1>6. Acts(p)' /\ Heard(p)'
    BY <1>1, <1>2 DEF Acts, Heard, CommandInv, Before
  <1> QED BY <1>3, <1>4, <1>5, <1>6 DEF CommandInv

\* A command that panics on its main goroutine drops what it had in the buffer.
LEMMA RecoveredInv ==
    ASSUME ShellFuncs, NEW p \in Commands, CommandInv(p), over[p] = "no",
           stage[p] \in Before \cup {"writing"}, Recovered(p), UNCHANGED fileVars
    PROVE  CommandInv(p)'
  <1>1. /\ stage'[p] = "exiting" /\ class'[p] = "failed" /\ over'[p] = "no"
        /\ stdout'[p] = <<Document("error", "failed")>> /\ p \in panicked'
    <2>1. stdout[p] = << >>
      BY DEF CommandInv, Silent, Ready
    <2>2. Append(<< >>, Document("error", "failed")) = <<Document("error", "failed")>>
      OBVIOUS
    <2> QED BY <2>1, <2>2 DEF Recovered, Panics, go, ShellFuncs
  <1>2. UNCHANGED <<pc, got, observed, acted, sigs, restored>>
    BY Unmoved DEF Recovered
  <1>3. Silent(p)' /\ Ready(p)' /\ Told(p)'
    BY <1>1 DEF Silent, Ready, Told, IsReport, Before
  <1>4. Early(p)' /\ Acts(p)' /\ Heard(p)'
    BY <1>1, <1>2 DEF CommandInv, Early, Untouched, Acts, Heard, Before
  <1> QED BY <1>3, <1>4 DEF CommandInv

LEMMA StartInv ==
    ASSUME ShellInv, NEW p \in Commands, Start(p)
    PROVE  CommandInv(p)'
  <1> USE DEF ShellInv
  <1>1. /\ At(p, "starting") /\ CommandInv(p) /\ Same
        /\ UNCHANGED <<fileVars, observed, acted, panicked>>
    BY DEF Start
  <1>2. /\ over[p] = "no" /\ stage[p] \in Before /\ Untouched(p) /\ Untouched(p)'
        /\ p \in Planners => pc[p] \in {"lstat", "dead"}
    BY <1>1 DEF At, Before, CommandInv, Early, Untouched
  <1>3. CASE \E k \in {"error", "help"}, c \in {"usage", "ok"} : Returns(p, k, c)
    <2>1. PICK k \in {"error", "help"}, c \in {"usage", "ok"} : Returns(p, k, c)
      BY <1>3
    <2>2. k \in {"result", "error", "help"} /\ c \in Classes
      BY DEF Classes
    <2> QED BY <1>1, <1>2, <2>1, <2>2, ReturnsInv DEF Untouched
  <1>4. CASE go(p, IF p \in Appliers THEN "file" ELSE "observing") /\ UNCHANGED <<buf, class>>
    <2>1. /\ stage'[p] = IF p \in Appliers THEN "file" ELSE "observing"
          /\ UNCHANGED <<pc, got, buf, class, over, stdout, sigs, restored>>
      BY <1>1, <1>4, Unmoved DEF go, ShellFuncs, Same
    <2> QED
      BY <1>1, <1>2, <2>1, Kinds DEF CommandInv, Silent, Ready, Told, Early, Acts, Heard, At,
         Before, Untouched
  <1> QED BY <1>3, <1>4 DEF Start, Fatal

LEMMA ObserveInv ==
    ASSUME ShellInv, NEW p \in Commands, Observe(p) \/ MissingTools(p)
    PROVE  CommandInv(p)'
  <1> USE DEF ShellInv
  <1>1. /\ over[p] = "no" /\ stage[p] = "observing" /\ stage[p] \in Before
        /\ CommandInv(p) /\ Untouched(p)
        /\ p \notin Appliers /\ (p \in Planners => pc[p] \in {"lstat", "dead"})
    BY DEF Observe, MissingTools, At, Before, CommandInv, Early
  <1>2. CASE MissingTools(p)
    BY <1>1, <1>2, ReturnsInv DEF MissingTools, Fatal, Classes, Untouched
  <1>3. CASE Observe(p)
    <2>1. Observed(p) /\ UNCHANGED <<fileVars, mishaps>>
      BY <1>3, GuardLetsThrough DEF Observe
    <2>2. Same /\ UNCHANGED <<acted, panicked>>
      BY <1>1, <2>1 DEF Observed, Untouched
    <2>3. CASE p \in Rest /\ ModeOf[p] # "kill" /\ \E c \in LookClasses(ModeOf[p]) : Result(p, c)
      <3>1. PICK c \in LookClasses(ModeOf[p]) : Result(p, c)
        BY <2>3
      <3>2. c \in Classes /\ c # "usage"
        BY <2>3, Kinds DEF Modes, LookClasses, Classes
      <3> QED BY <1>1, <2>1, <2>2, <2>3, <3>1, <3>2, Kinds, ReturnsInv DEF Result
    <2>4. CASE p \in Rest /\ Fatal(p, "failed")
      BY <1>1, <2>1, <2>2, <2>4, Kinds, ReturnsInv DEF Fatal, Classes
    <2>5. CASE /\ \/ p \in Planners /\ go(p, "file")
                  \/ p \in Rest /\ ModeOf[p] = "kill" /\ go(p, "acting")
               /\ UNCHANGED <<buf, class>>
      <3>1. /\ stage'[p] = IF p \in Planners THEN "file" ELSE "acting"
            /\ UNCHANGED <<pc, got, buf, class, over, stdout, sigs, restored>>
        BY <2>1, <2>2, <2>5, Kinds, Unmoved DEF go, ShellFuncs, Same
      <3> QED
        BY <1>1, <2>2, <3>1, Kinds DEF CommandInv, Silent, Ready, Told, Early, Acts, Heard,
           Before, Untouched
    <2> QED BY <2>1, <2>3, <2>4, <2>5 DEF Observed
  <1> QED BY <1>2, <1>3

LEMMA FileStageInv ==
    ASSUME ShellInv, NEW p \in Commands, FileStep(p) \/ PlanWritten(p) \/ PlanRead(p)
    PROVE  CommandInv(p)'
  <1> USE DEF ShellInv
  <1>1. over[p] = "no" /\ stage[p] = "file" /\ stage[p] \in Before /\ CommandInv(p)
    BY DEF FileStep, PlanWritten, PlanRead, At, Before
  <1>2. CASE FileStep(p)
    <2>1. UNCHANGED shell
      BY <1>2 DEF FileStep
    <2> QED
      BY <1>1, <2>1 DEF shell, CommandInv, Silent, Ready, Told, Early, Acts, Heard, Before,
         Untouched
  <1>3. CASE PlanWritten(p)
    <2>1. /\ p \in Planners /\ Same
          /\ UNCHANGED <<fileVars, observed, acted, panicked>>
      BY <1>3 DEF PlanWritten
    <2>2. CASE pc[p] = "ok" /\ \E c \in {"ok", "failed", "uncertain"} : Result(p, c)
      <3>1. PICK c \in {"ok", "failed", "uncertain"} : Result(p, c)
        BY <2>2
      <3> QED BY <1>1, <2>1, <2>2, <3>1, Kinds, ReturnsInv DEF Result, Classes
    <2>3. CASE pc[p] = "failed" /\ Fatal(p, "failed")
      BY <1>1, <2>1, <2>3, Kinds, ReturnsInv DEF Fatal, Classes
    <2> QED BY <1>3, <2>2, <2>3 DEF PlanWritten
  <1>4. CASE PlanRead(p)
    <2>1. p \in Appliers /\ pc[p] = "done" /\ Same /\ UNCHANGED <<fileVars, acted, panicked>>
      BY <1>4 DEF PlanRead
    <2>2. Untouched(p)
      BY <1>1, <2>1, Kinds DEF CommandInv, Early
    <2>3. got[p] # "refused" => got[p] \in Plans
      BY <2>1 DEF FileInv, FileTypeOK, Undecided, ReaderSteps
    <2>4. CASE \E k \in {"result", "error"}, c \in {"usage", "needs_fresh_plan", "failed"} :
                   Returns(p, k, c) /\ UNCHANGED observed
      <3>1. PICK k \in {"result", "error"}, c \in {"usage", "needs_fresh_plan", "failed"} :
                   Returns(p, k, c) /\ UNCHANGED observed
        BY <2>4
      <3>2. c \in Classes /\ Untouched(p)' /\ p \notin observed'
        BY <2>1, <2>2, <3>1 DEF Untouched, Classes
      <3> QED BY <1>1, <2>1, <2>2, <3>1, <3>2, Kinds, ReturnsInv
    <2>5. CASE /\ got[p] # "refused" /\ go(p, "acting")
               /\ observed' = observed \cup {p} /\ UNCHANGED <<buf, class>>
      <3>1. /\ stage'[p] = "acting"
            /\ UNCHANGED <<pc, got, buf, class, over, stdout, sigs, restored>>
        BY <2>1, <2>5, Unmoved DEF go, ShellFuncs, Same
      <3> QED
        BY <1>1, <2>1, <2>2, <2>3, <2>5, <3>1, Kinds DEF CommandInv, Silent, Ready, Told, Early,
           Acts, Heard, Before, Untouched
    <2> QED BY <1>4, <2>4, <2>5 DEF PlanRead, Fatal, Result
  <1> QED BY <1>2, <1>3, <1>4

LEMMA ActingInv ==
    ASSUME ShellInv, NEW p \in Commands, Act(p) \/ ActingEnds(p) \/ WorkerPanics(p)
    PROVE  CommandInv(p)'
  <1> USE DEF ShellInv
  <1>1. /\ over[p] = "no" /\ stage[p] = "acting" /\ stage[p] \in Before
        /\ CommandInv(p) /\ p \notin Planners
        /\ p \in Appliers /\ p \in observed => got[p] \in Plans
    BY DEF Act, ActingEnds, WorkerPanics, At, Before, CommandInv, Acts, Early
  <1>2. CASE Act(p)
    <2>1. UNCHANGED <<pc, got, stage, over, buf, stdout, class, sigs, restored, observed>>
      BY <1>2, Unmoved DEF Act, Same
    <2>2. stage[p] \notin {"starting", "observing", "file"} /\ class[p] # "usage"
      BY <1>1 DEF CommandInv, Silent
    <2> QED
      BY <1>1, <2>1, <2>2 DEF CommandInv, Silent, Ready, Told, Early, Acts, Heard, Before
  <1>3. CASE ActingEnds(p)
    <2>1. PICK c \in Classes \ {"usage"} : Result(p, c)
      BY <1>3 DEF ActingEnds, Classes
    <2> QED BY <1>1, <1>3, <2>1, ReturnsInv DEF ActingEnds, Result
  <1>4. CASE WorkerPanics(p) /\ p \in Appliers
    <2>1. /\ Result(p, "failed") /\ Same /\ UNCHANGED <<fileVars, panicked, observed>>
      BY <1>4 DEF WorkerPanics
    <2> QED BY <1>1, <1>4, <2>1, ReturnsInv DEF Result, Classes
  <1>5. CASE WorkerPanics(p) /\ p \notin Appliers
    <2>1. /\ over'[p] = "crash"
          /\ UNCHANGED <<pc, got, stage, observed, acted, buf, stdout, class, sigs, restored>>
      BY <1>5, Unmoved DEF WorkerPanics, ShellFuncs
    <2> QED
      BY <1>1, <2>1 DEF CommandInv, Silent, Ready, Told, Early, Acts, Heard, Before,
         Untouched
  <1> QED BY <1>2, <1>3, <1>4, <1>5

LEMMA MainPanicsInv ==
    ASSUME ShellInv, NEW p \in Commands, MainPanics(p)
    PROVE  CommandInv(p)'
  BY RecoveredInv DEF ShellInv, MainPanics, At, Before

LEMMA EndingInv ==
    ASSUME ShellInv, NEW p \in Commands, Flush(p) \/ Stop(p) \/ Exit(p)
    PROVE  CommandInv(p)'
  <1> USE DEF ShellInv
  <1>1. CommandInv(p)
    OBVIOUS
  <1>2. /\ UNCHANGED <<pc, got, class, observed, acted, panicked>> /\ over[p] = "no"
        /\ stage[p] \in {"writing", "exiting", "leaving"}
    BY Unmoved DEF Flush, Stop, Exit, At
  <1>3. Early(p)' /\ Acts(p)'
    <2>1. stage'[p] \in {"exiting", "leaving"}
      BY DEF Flush, Stop, Exit, At, go, ShellFuncs
    <2> QED BY <1>1, <1>2, <2>1 DEF CommandInv, Early, Untouched, Acts
  <1>4. CASE Flush(p)
    <2>1. stage[p] = "writing" /\ stage'[p] = "exiting" /\ UNCHANGED <<over, sigs, restored>>
      BY <1>4 DEF Flush, At, go, ShellFuncs
    <2>2. stdout[p] = << >> /\ IsReport(buf[p], p)
      BY <1>1, <2>1 DEF CommandInv, Ready
    <2>3. PICK k \in {"result", "error", "help"} :
              /\ buf[p] = <<Document(k, class[p])>>
              /\ p \in Planners /\ p \notin panicked => (k = "result" <=> pc[p] = "ok")
      BY <2>2 DEF IsReport
    <2>4. << >> \o <<Document(k, class[p])>> = <<Document(k, class[p])>>
          /\ Append(<< >>, Cut) = <<Cut>>
      OBVIOUS
    <2>5. stdout'[p] = <<Cut>> \/ stdout'[p] = <<Document(k, class[p])>>
      BY <1>4, <2>2, <2>3, <2>4 DEF Flush, ShellFuncs
    <2>6. stdout'[p] = <<Cut>> \/ IsReport(stdout[p], p)'
      BY <1>2, <2>3, <2>5 DEF IsReport
    <2> QED
      BY <1>1, <1>2, <1>3, <2>1, <2>6 DEF CommandInv, Silent, Ready, Told, Heard, Before
  <1>5. CASE Stop(p) \/ Exit(p)
    <2>1. /\ stage[p] \in {"exiting", "leaving"} /\ stage'[p] = "leaving"
          /\ UNCHANGED <<stdout, sigs>> /\ over'[p] # "signal"
      BY <1>2, <1>5 DEF Stop, Exit, At, go, ShellFuncs
    <2>2. stdout'[p] = <<Cut>> \/ IsReport(stdout[p], p)'
      BY <1>1, <1>2, <2>1 DEF CommandInv, Told, IsReport
    <2> QED
      BY <1>3, <2>1, <2>2 DEF CommandInv, Silent, Ready, Told, Heard, Before
  <1> QED BY <1>4, <1>5

(* What happens to the commands from outside. *)
LEMMA SignalInv ==
    ASSUME ShellInv, NEW p \in Commands, Signal(p), NEW q \in Commands
    PROVE  CommandInv(q)'
  <1> USE DEF ShellInv
  <1>1. FileIdle(q)
    BY FilesClosedIdle, Unmoved DEF Signal, End, FileInv
  <1>2. CASE q # p
    <2>1. Idle(q)
      BY <1>2 DEF Signal, End, ShellFuncs, Idle
    <2> QED BY <1>1, <2>1, IdleKeeps
  <1>3. CASE q = p
    <2>1. /\ UNCHANGED <<stage, observed, acted, panicked, buf, stdout, class, restored>>
          /\ over[p] = "no" /\ over'[p] \in {"no", "signal"}
          /\ sigs[p] \in Nat /\ sigs'[p] = sigs[p] + 1
          /\ over'[p] = "signal" => stage[p] = "starting" \/ p \in restored
      BY DEF Signal, End, ShellFuncs
    <2>2. Told(p) /\ Heard(p)
      BY DEF CommandInv
    <2>3. Heard(p)'
      <3>1. p \in restored' => sigs'[p] > 0
        BY <2>1
      <3>2. over'[p] = "signal" /\ sigs'[p] = 1 => stage'[p] = "starting" \/ stdout'[p] # << >>
        <4>1. SUFFICES ASSUME over'[p] = "signal", sigs'[p] = 1, stage[p] # "starting"
                       PROVE  stdout[p] # << >>
          BY <2>1
        <4>2. sigs[p] = 0 /\ p \in restored
          BY <2>1, <4>1
        <4>3. stage[p] = "leaving"
          BY <2>2, <4>2 DEF Heard
        <4>4. \A d : <<d>> # << >>
          OBVIOUS
        <4>5. \E d : stdout[p] = <<d>>
          BY <2>2, <4>3 DEF Told, IsReport
        <4> QED BY <4>4, <4>5
      <3> QED BY <3>1, <3>2 DEF Heard
    <2>4. Silent(p)' /\ Ready(p)' /\ Told(p)'
      BY <1>1, <1>3, <2>1 DEF CommandInv, Silent, Ready, Told, IsReport, FileIdle, Ended
    <2>5. Early(p)' /\ Acts(p)'
      BY <1>1, <1>3, <2>1, Names DEF CommandInv, Early, Untouched, Acts, FileIdle
    <2> QED BY <1>3, <2>3, <2>4, <2>5 DEF CommandInv
  <1> QED BY <1>2, <1>3

LEMMA KilledInv ==
    ASSUME ShellInv, NEW p \in Commands, Killed(p) \/ Restore(p), NEW q \in Commands
    PROVE  CommandInv(q)'
  <1> USE DEF ShellInv
  <1>1. FileIdle(q)
    BY FilesClosedIdle, Unmoved DEF Killed, End, Restore, FileInv
  <1>2. CASE q # p
    <2>1. Idle(q)
      BY <1>2 DEF Killed, End, Restore, ShellFuncs, Idle
    <2> QED BY <1>1, <2>1, IdleKeeps
  <1>3. CASE q = p
    <2>1. /\ UNCHANGED <<stage, observed, acted, panicked, buf, stdout, class, sigs>>
          /\ over'[p] \in {"no", "killed"}
          /\ p \in restored' => p \in restored \/ sigs[p] > 0
      BY DEF Killed, End, Restore, ShellFuncs
    <2>2. Silent(p)' /\ Ready(p)' /\ Told(p)'
      BY <1>1, <1>3, <2>1 DEF CommandInv, Silent, Ready, Told, IsReport, FileIdle, Ended
    <2>3. Early(p)' /\ Acts(p)' /\ Heard(p)'
      BY <1>1, <1>3, <2>1, Names DEF CommandInv, Early, Untouched, Acts, Heard, FileIdle
    <2> QED BY <1>3, <2>2, <2>3 DEF CommandInv
  <1> QED BY <1>2, <1>3

LEMMA BlackoutInv ==
    ASSUME ShellInv, Blackout, NEW q \in Commands
    PROVE  CommandInv(q)'
  <1> USE DEF ShellInv
  <1>1. FileIdle(q)
    BY PowerFailsIdle DEF Blackout, FileInv
  <1>2. /\ UNCHANGED <<stage, observed, acted, panicked, buf, stdout, class, sigs, restored>>
        /\ over'[q] = over[q] \/ over'[q] = "dark"
    BY DEF Blackout
  <1>3. Silent(q)' /\ Ready(q)' /\ Told(q)'
    BY <1>1, <1>2 DEF CommandInv, Silent, Ready, Told, IsReport, FileIdle, Ended
  <1>4. Early(q)' /\ Acts(q)' /\ Heard(q)'
    BY <1>1, <1>2, Names DEF CommandInv, Early, Untouched, Acts, Heard, FileIdle
  <1> QED BY <1>3, <1>4 DEF CommandInv

LEMMA MeddledInv ==
    ASSUME ShellInv, Swapped \/ Scribbled, UNCHANGED shell, NEW q \in Commands
    PROVE  CommandInv(q)'
  <1>1. Idle(q)
    BY DEF shell, Idle
  <1>2. FileIdle(q)
    BY DEF Swapped, Scribbled, reader, FileIdle
  <1> QED BY <1>1, <1>2, IdleKeeps DEF ShellInv
-----------------------------------------------------------------------------
(* The types. *)
LEMMA ReturnsTypes ==
    ASSUME ShellFuncs, NEW p \in Commands, NEW k \in {"result", "error", "help"},
           NEW c \in Classes, Returns(p, k, c)
    PROVE  /\ stage' \in [Commands -> Stages] /\ class' \in [Commands -> Classes]
           /\ buf' \in [Commands -> Seq(Documents)]
  <1>1. Append(buf[p], Document(k, c)) \in Seq(Documents)
    BY DocumentFacts DEF ShellFuncs
  <1>2. buf' = [buf EXCEPT ![p] = Append(buf[p], Document(k, c))]
    BY DEF Returns
  <1>3. buf' \in [Commands -> Seq(Documents)]
    BY <1>1, <1>2 DEF ShellFuncs
  <1>4. stage' \in [Commands -> Stages] /\ class' \in [Commands -> Classes]
    BY DEF Returns, go, ShellFuncs, Stages
  <1> QED BY <1>3, <1>4

LEMMA StageTypes ==
    ASSUME ShellFuncs, NEW p \in Commands, NEW s \in Stages, go(p, s)
    PROVE  stage' \in [Commands -> Stages]
  BY DEF ShellFuncs, go

LEMMA RecoveredTypes ==
    ASSUME ShellFuncs, NEW p \in Commands, Recovered(p), mishaps' \in 0..MaxMishaps
    PROVE  ShellFuncs'
  <1>1. Append(stdout[p], Document("error", "failed")) \in Seq(Documents)
    BY DocumentFacts DEF ShellFuncs, Classes
  <1>2. stdout' = [stdout EXCEPT ![p] = Append(stdout[p], Document("error", "failed"))]
    BY DEF Recovered
  <1>3. stdout' \in [Commands -> Seq(Documents)]
    BY <1>1, <1>2 DEF ShellFuncs
  <1>4. "exiting" \in Stages /\ "failed" \in Classes
    BY DEF Stages, Classes
  <1> QED BY <1>3, <1>4, StageTypes DEF Recovered, Panics, ShellFuncs

LEMMA RunTypes ==
    ASSUME ShellInv, NEW p \in Commands, Run(p)
    PROVE  ShellFuncs'
  <1> USE DEF ShellInv
  <1>1. /\ {"file", "observing", "acting", "exiting", "leaving"} \subseteq Stages
        /\ {"ok", "usage", "failed", "uncertain", "needs_fresh_plan"} \subseteq Classes
        /\ {"crash", "left", "no"} \subseteq Ends
    BY DEF Stages, Classes, Ends
  <1>2. CASE Start(p) \/ MissingTools(p)
    <2>1. \/ \E k \in {"error", "help"}, c \in {"usage", "ok", "failed"} : Returns(p, k, c)
          \/ \E s \in {"file", "observing"} : go(p, s) /\ UNCHANGED <<buf, class>>
      BY <1>2 DEF Start, MissingTools, Fatal
    <2>2. Same /\ UNCHANGED <<observed, acted, panicked, mishaps>>
      BY <1>2 DEF Start, MissingTools
    <2>3. CASE \E k \in {"error", "help"}, c \in {"usage", "ok", "failed"} : Returns(p, k, c)
      BY <1>1, <2>2, <2>3, ReturnsTypes DEF ShellFuncs, Same
    <2>4. CASE \E s \in {"file", "observing"} : go(p, s) /\ UNCHANGED <<buf, class>>
      BY <1>1, <2>2, <2>4, StageTypes DEF ShellFuncs, Same
    <2> QED BY <2>1, <2>3, <2>4
  <1>3. CASE Observe(p) \/ PlanWritten(p) \/ PlanRead(p)
    <2>1. Observe(p) => Observed(p)
      BY GuardLetsThrough DEF Observe
    <2>2. \A c : p \in Rest /\ c \in LookClasses(ModeOf[p]) /\ ModeOf[p] # "kill" => c \in Classes
      BY Kinds DEF Modes, LookClasses, Classes
    <2>3. \/ \E k \in {"result", "error"}, c \in Classes : Returns(p, k, c)
          \/ \E s \in {"file", "acting"} : go(p, s) /\ UNCHANGED <<buf, class>>
      BY <1>1, <1>3, <2>1, <2>2 DEF Observed, PlanWritten, PlanRead, Fatal, Result
    <2>4. /\ Same /\ UNCHANGED <<acted, panicked, mishaps>>
          /\ observed' = observed \/ observed' = observed \cup {p}
      BY <1>3, <2>1 DEF Observe, Observed, PlanWritten, PlanRead
    <2>5. CASE \E k \in {"result", "error"}, c \in Classes : Returns(p, k, c)
      BY <2>4, <2>5, ReturnsTypes DEF ShellFuncs, Same
    <2>6. CASE \E s \in {"file", "acting"} : go(p, s) /\ UNCHANGED <<buf, class>>
      BY <1>1, <2>4, <2>6, StageTypes DEF ShellFuncs, Same
    <2> QED BY <2>3, <2>5, <2>6
  <1>4. CASE FileStep(p)
    BY <1>4 DEF FileStep, shell, ShellFuncs
  <1>5. CASE Act(p) \/ ActingEnds(p)
    <2>1. CASE Act(p)
      BY <2>1 DEF Act, Same, ShellFuncs
    <2>2. CASE ActingEnds(p)
      <3>1. \E c \in Classes : Returns(p, "result", c)
        BY <1>1, <2>2 DEF ActingEnds, Result
      <3> QED BY <2>2, <3>1, ReturnsTypes DEF ActingEnds, Same, ShellFuncs
    <2> QED BY <1>5, <2>1, <2>2
  <1>6. CASE WorkerPanics(p)
    <2>1. mishaps' \in 0..MaxMishaps
      BY <1>6, Kinds DEF WorkerPanics, Mishap, ShellFuncs
    <2>2. CASE p \in Appliers
      <3>1. Returns(p, "result", "failed")
        BY <1>6, <2>2 DEF WorkerPanics, Result
      <3>2. Same /\ UNCHANGED <<panicked, observed>> /\ acted' = acted \cup {p}
        BY <1>6, <2>2 DEF WorkerPanics
      <3> QED BY <1>1, <2>1, <3>1, <3>2, ReturnsTypes DEF Same, ShellFuncs
    <2>3. CASE p \notin Appliers
      BY <1>1, <1>6, <2>1, <2>3 DEF WorkerPanics, Panics, ShellFuncs
    <2> QED BY <2>2, <2>3
  <1>7. CASE MainPanics(p)
    <2>1. mishaps' \in 0..MaxMishaps
      BY <1>7, Kinds DEF MainPanics, Mishap, ShellFuncs
    <2> QED BY <1>7, <2>1, RecoveredTypes DEF MainPanics
  <1>8. CASE Flush(p)
    <2>1. stdout[p] \o buf[p] \in Seq(Documents) /\ Append(stdout[p], Cut) \in Seq(Documents)
      BY DocumentFacts DEF ShellFuncs
    <2>2. PICK d \in Seq(Documents) : stdout' = [stdout EXCEPT ![p] = d]
      BY <1>8, <2>1 DEF Flush
    <2>3. stdout' \in [Commands -> Seq(Documents)]
      BY <2>2 DEF ShellFuncs
    <2>4. mishaps' \in 0..MaxMishaps
      BY <1>8, Kinds DEF Flush, Mishap, ShellFuncs
    <2> QED BY <1>1, <1>8, <2>3, <2>4, StageTypes DEF Flush, ShellFuncs
  <1>9. CASE Stop(p) \/ Exit(p)
    <2>1. stage' \in [Commands -> Stages] /\ over' \in [Commands -> Ends]
      BY <1>1, <1>9, StageTypes DEF Stop, Exit, ShellFuncs
    <2> QED BY <1>9, <2>1 DEF Stop, Exit, ShellFuncs
  <1> QED BY <1>2, <1>3, <1>4, <1>5, <1>6, <1>7, <1>8, <1>9 DEF Run

LEMMA OutsideTypes ==
    ASSUME ShellInv, Outside
    PROVE  ShellFuncs'
  <1> USE DEF ShellInv, Ends
  <1>1. CASE \E p \in Commands : Signal(p)
    <2>1. PICK p \in Commands : Signal(p)
      BY <1>1
    <2>2. sigs' \in [Commands -> 0..MaxSignals]
      BY <2>1, Kinds DEF Signal, ShellFuncs
    <2>3. over' \in [Commands -> Ends]
      BY <2>1 DEF Signal, End, ShellFuncs
    <2> QED BY <2>1, <2>2, <2>3 DEF Signal, ShellFuncs
  <1>2. CASE \E p \in Commands : Restore(p) \/ Killed(p)
    BY <1>2 DEF Restore, Killed, End, ShellFuncs
  <1>3. CASE UNCHANGED shell
    BY <1>3 DEF shell, ShellFuncs
  <1>4. CASE Blackout
    BY <1>4 DEF Blackout, ShellFuncs
  <1> QED BY <1>1, <1>2, <1>3, <1>4 DEF Outside
-----------------------------------------------------------------------------
(* The invariant as a whole. *)
LEMMA InitShell == ShellInit => ShellInv
  <1> SUFFICES ASSUME ShellInit PROVE ShellInv
    OBVIOUS
  <1>1. FileInv
    BY InitFile DEF ShellInit
  <1>2. ShellFuncs
    <2>1. << >> \in Seq(Documents)
      OBVIOUS
    <2>2. over \in [Commands -> Ends]
      BY DEF ShellInit, Ends
    <2> QED BY <2>1, <2>2, Kinds DEF ShellInit, ShellFuncs, Stages, Classes
  <1>3. ASSUME NEW p \in Commands PROVE CommandInv(p)
    <2>1. p \in Planners => pc[p] = "lstat"
      BY DEF ShellInit, FileInit
    <2>2. over[p] \in {"no", "absent"} /\ stage[p] = "starting" /\ class[p] = "none"
      BY DEF ShellInit
    <2> QED
      BY <2>1, <2>2 DEF ShellInit, CommandInv, Silent, Ready, Told, Early, Acts, Heard,
         Untouched, Before
  <1> QED BY <1>1, <1>2, <1>3 DEF ShellInv

LEMMA RunInv ==
    ASSUME ShellInv, NEW p \in Commands, Run(p), NEW q \in Commands
    PROVE  CommandInv(q)'
  <1>1. CASE q # p
    BY <1>1, OthersIdle, IdleKeeps DEF ShellInv, FileInv
  <1>2. CASE q = p
    BY <1>2, StartInv, ObserveInv, FileStageInv, ActingInv, MainPanicsInv, EndingInv DEF Run
  <1> QED BY <1>1, <1>2

LEMMA ShellStepInv == ShellInv /\ [ShellNext]_shellVars => ShellInv'
  <1> SUFFICES ASSUME ShellInv, [ShellNext]_shellVars PROVE ShellInv'
    OBVIOUS
  <1>1. FileInv'
    BY ShellKeepsToFile, FileStepInv DEF ShellInv
  <1>2. CASE UNCHANGED shellVars
    <2>1. UNCHANGED shell /\ UNCHANGED fileVars
      BY <1>2 DEF shellVars
    <2>2. ASSUME NEW q \in Commands PROVE CommandInv(q)'
      BY <2>1, Unmoved, IdleKeeps DEF shell, Idle, ShellInv
    <2>3. ShellFuncs'
      BY <2>1 DEF shell, ShellInv, ShellFuncs
    <2> QED BY <1>1, <2>2, <2>3 DEF ShellInv
  <1>3. CASE \E p \in Commands : Run(p)
    BY <1>1, <1>3, RunInv, RunTypes DEF ShellInv
  <1>4. CASE Outside
    <2>1. ASSUME NEW q \in Commands PROVE CommandInv(q)'
      BY <1>4, SignalInv, KilledInv, BlackoutInv, MeddledInv DEF Outside
    <2> QED BY <1>1, <1>4, <2>1, OutsideTypes DEF ShellInv
  <1> QED BY <1>2, <1>3, <1>4 DEF ShellNext, Over

LEMMA ShellInvariant == ShellSpec => []ShellInv
  BY InitShell, ShellStepInv, PTL DEF ShellSpec

\* EveryCommandReportsOnce: a command that ends by itself leaves one document, of
\* the class it exits with, however it was interrupted and wherever it panicked,
\* unless standard output failed (cli.go:119-137).
THEOREM EveryCommandReportsOnce == ShellSpec => []OneDocument
  <1>1. ShellInv => OneDocument
    <2> SUFFICES ASSUME ShellInv, NEW p \in Commands, over[p] = "left", stdout[p] # <<Cut>>
                 PROVE  Len(stdout[p]) = 1 /\ stdout[p][1].class = class[p]
      BY DEF OneDocument
    <2>1. PICK k : stdout[p] = <<Document(k, class[p])>>
      BY DEF ShellInv, CommandInv, Told, IsReport
    <2> QED BY <2>1, DocumentFacts
  <1> QED BY ShellInvariant, <1>1, PTL

\* ReportsFitTheFile: for any number of plan commands that write the same FILE,
\* each says that it replaced FILE exactly when it did (workflow.go:334-348).
THEOREM ReportsFitTheFile == ShellSpec => []FileMatchesReport
  <1>1. ShellInv => FileMatchesReport
    <2> SUFFICES ASSUME ShellInv, NEW w \in Planners, over[w] = "left", w \notin panicked,
                        stdout[w] # <<Cut>>
                 PROVE  (stdout[w][1].kind = "result") = (pc[w] = "ok")
      BY DEF FileMatchesReport
    <2>1. w \in Commands
      BY Kinds
    <2>2. PICK k \in {"result", "error", "help"} :
              stdout[w] = <<Document(k, class[w])>> /\ (k = "result" <=> pc[w] = "ok")
      BY <2>1 DEF ShellInv, CommandInv, Told, IsReport
    <2>3. stdout[w][1].kind = k
      BY <2>2, DocumentFacts
    <2> QED BY <2>2, <2>3
  <1> QED BY ShellInvariant, <1>1, PTL

\* UsageTouchesNothing: a usage error comes before the machine is looked at or
\* acted on and before FILE is written, and apply acts only on a whole plan
\* that it accepted (workflow.go:298-328, 458-491).
THEOREM UsageTouchesNothing == ShellSpec => []UsageMeansUntouched
  <1>1. ShellInv => UsageMeansUntouched
    BY Kinds DEF ShellInv, CommandInv, Early, Untouched, UsageMeansUntouched
  <1> QED BY ShellInvariant, <1>1, PTL

\* OneSignalLosesNothing: however many commands run and are signalled, a single
\* SIGINT or SIGTERM never ends a started command without its report
\* (cli.go:54-67).
THEOREM OneSignalLosesNothing == ShellSpec => []SignalsLoseNothing
  <1>1. ShellInv => SignalsLoseNothing
    BY DEF ShellInv, CommandInv, Heard, SignalsLoseNothing
  <1> QED BY ShellInvariant, <1>1, PTL
-----------------------------------------------------------------------------
\* A command that is not at its file is in no system call of PlanFile.
Between ==
    \A p \in Planners \cup Appliers : stage[p] # "file" => pc[p] \in {"lstat", "open"} \cup Ended

LEMMA BetweenInv == ShellInv /\ Between /\ [ShellNext]_shellVars => Between'
  <1> SUFFICES ASSUME ShellInv, Between, [ShellNext]_shellVars,
                      NEW q \in Planners \cup Appliers
               PROVE  stage'[q] # "file" => pc'[q] \in {"lstat", "open"} \cup Ended
    BY DEF Between
  <1> USE DEF Between, ShellInv, FileInv, Ended
  <1>1. q \in Commands
    BY DEF Commands
  <1>2. CASE UNCHANGED shellVars
    BY <1>2, Unmoved DEF shellVars, shell
  <1>3. ASSUME NEW p \in Commands, Run(p)
        PROVE  stage'[q] # "file" => pc'[q] \in {"lstat", "open"} \cup Ended
    <2>1. CASE FileStep(p)
      <3>1. UNCHANGED stage /\ stage[p] = "file"
        BY <2>1 DEF FileStep, shell, At
      <3>2. q # p => pc'[q] = pc[q]
        BY <2>1, Names DEF FileStep, FileTypeOK, WriterStep, Lstat, CreateTemp, Write,
           WriteRest, Close, WriteFails, Rename, RenameFails, Remove, ReaderStep, OpenPlan,
           Read, ReadRest, ReadFails, Refuses, goto
      <3> QED BY <3>1, <3>2
    <2>2. CASE UNCHANGED fileVars
      <3>1. UNCHANGED pc
        BY <2>2, Unmoved
      <3>2. CASE q # p
        BY <1>1, <1>3, <3>1, <3>2, OthersIdle DEF Idle
      <3>3. CASE q = p
        BY <1>3, <2>2, <3>1, <3>3 DEF Run, Start, MissingTools, Observe, FileStep, shell,
           PlanWritten, PlanRead, Act, ActingEnds, WorkerPanics, MainPanics, Flush, Stop, Exit, At
      <3> QED BY <3>2, <3>3
    <2> QED
      BY <1>3, <2>1, <2>2 DEF Run, Start, MissingTools, Observe, PlanWritten, PlanRead, Act,
         ActingEnds, WorkerPanics, MainPanics, Flush, Stop, Exit
  <1>4. ASSUME NEW p \in Commands, Signal(p) \/ Restore(p) \/ Killed(p)
        PROVE  stage'[q] # "file" => pc'[q] \in {"lstat", "open"} \cup Ended
    <2>1. UNCHANGED stage
      BY <1>4 DEF Signal, Restore, Killed
    <2>2. pc'[q] = pc[q] \/ pc'[q] = "dead"
      BY <1>4, Unmoved DEF Signal, Restore, Killed, End, FilesClosed, Dies, goto, FileTypeOK
    <2> QED BY <2>1, <2>2
  <1>5. CASE (Swapped \/ Scribbled) /\ UNCHANGED shell
    BY <1>5 DEF Swapped, Scribbled, shell
  <1>6. CASE Blackout
    BY <1>6 DEF Blackout, PowerFails
  <1> QED BY <1>2, <1>3, <1>4, <1>5, <1>6 DEF ShellNext, Outside, Over

\* ShellTypeCorrect: the variables keep their types, and a command is in the
\* middle of a system call on FILE only where it writes or reads it
\* (workflow.go:334-342, 462-469).
THEOREM ShellTypeCorrect == ShellSpec => []ShellTypeOK
  <1>1. ShellInit => Between
    BY DEF ShellInit, FileInit, Between
  <1>2. ShellInv /\ Between => ShellTypeOK
    BY DEF ShellInv, ShellFuncs, FileInv, Between, ShellTypeOK
  <1> QED BY InitShell, ShellStepInv, BetweenInv, <1>1, <1>2, PTL DEF ShellSpec
=============================================================================
