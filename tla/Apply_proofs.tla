---------------------------- MODULE Apply_proofs ----------------------------
(***************************************************************************)
(* Proofs about Apply for every number of ports, processes, containers and  *)
(* slots, of failing calls and of moves of the machine.                     *)
(***************************************************************************)
EXTENDS Apply, World_proofs, FiniteSetTheorems

(***************************************************************************)
(* The inductive invariant.                                                  *)
(*                                                                          *)
(* Control: who can be collecting and who has not begun, in which phase     *)
(* (Turns), and the slots with the actions past their last look at ctx      *)
(* (Slotted).                                                               *)
(*                                                                          *)
(* Data: a snapshot only says what was true when its source was read        *)
(* (SawTable, SawRows, SawDocker).  The rows and the identities are read at *)
(* different times, and a planned start time with them at a third; they     *)
(* name one process because start times only grow (Clocked): while the PID  *)
(* has the planned start time, no other process had it since the plan       *)
(* (SameProcess, SameIdent, Left).                                          *)
(***************************************************************************)
Truths ==
    [free : SUBSET Ports, held : SUBSET (Ports \X PIDs \X (0..MaxStart)), up : SUBSET Containers]

PlanType ==
    /\ phase = "observing" => plan.resources = {}
    /\ phase # "observing" => /\ plan.ports \in [Keys -> SUBSET Ports]
                              /\ plan.start \in [PIDs -> 0..clock]

Clocked ==
    /\ \A p \in PIDs : bound[p] \in 0..clock
    /\ \A a \in Actors, p \in PIDs : obs[a].start[p] \in 0..clock

Turns ==
    /\ stage[Planner] # "idle" <=> phase = "observing"
    /\ stage[Observer] # "idle" => phase \in {"looking", "done"}
    /\ phase = "done" => stage[Observer] \in {"idle", "collected"}
    /\ \A k \in Keys :
          /\ work[k] \in {"idle", "begin", "done"} => stage[k] = "idle"
          /\ work[k] \notin {"idle", "begin", "done", "collect"} => stage[k] = "collected"
          /\ work[k] \in {"confirm", "signal"} => k \in PIDs
          /\ work[k] \in {"stop", "wait", "again"} => k \in Containers
          /\ work[k] # "idle" => k \in plan.resources /\ phase \notin {"observing", "saved"}
          /\ phase \in {"looking", "done"} => work[k] \in {"idle", "done"}

PastLook == {k \in Keys : work[k] \in {"confirm", "signal", "stop"}}

Slotted ==
    /\ Cardinality(InFlight) <= MaxConcurrent
    /\ phase \in {"observing", "saved"} => ctx = "alive"
    /\ ctx = "alive" => late = 0
    /\ ctx = "dead" => /\ late + Cardinality(PastLook) <= MaxConcurrent
                       /\ late + Cardinality(PastLook) <= Cardinality(plan.resources)

Counted ==
    /\ \A k \in effects : k \in attempted \/ work[k] \in {"wait", "again"}
    /\ phase = "done" => report.executed = Cardinality(attempted)

SawTable(s, t) == s.tableOK => Ports \ s.tableHas \subseteq t.free

SawRows(s, t) ==
    \A port \in Ports, p \in PIDs :
        <<port, p>> \in s.rows => \E b \in 0..MaxStart : <<port, p, b>> \in t.held

Running(up_) == [c \in Containers |-> IF c \in up_ THEN Publishes[c] ELSE {}]

SawDocker(s, t, st) ==
    IF st \in {"idle", "table", "owners", "docker"}
    THEN ~s.dockerAvail /\ ~s.dockerErr /\ s.publishes = Running({})
    ELSE /\ s.dockerAvail = DockerInstalled
         /\ IF s.dockerAvail /\ ~s.dockerErr
            THEN s.dockerIDs = t.up /\ s.publishes = Running(t.up)
            ELSE s.publishes = Running({})

\* What an observation has not read yet.
Unread(s, t, st) ==
    /\ st \in {"idle", "table"} => s = Blank(OnWindows) /\ t = NoTruth
    /\ st = "owners" /\ ~OnWindows => s.rows = {}
    /\ \A p \in PIDs : s.ident[p] = "ok" => s.start[p] # 0 /\ st = "collected"

SawAll(s, t, st) ==
    SawTable(s, t) /\ SawRows(s, t) /\ SawDocker(s, t, st) /\ Unread(s, t, st)

Saw(a) == SawAll(obs[a], truth[a], stage[a])

\* The process that has the planned start time now held what was seen held
\* under its PID.
SameProcess(a) ==
    \A h \in truth[a].held :
        bound[h[2]] = plan.start[h[2]] /\ bound[h[2]] # 0 => h[3] = bound[h[2]]

SameIdent(a) ==
    \A h \in truth[a].held :
        obs[a].ident[h[2]] = "ok" /\ obs[a].start[h[2]] = plan.start[h[2]]
            => h[3] = plan.start[h[2]]

Left(k) ==
    work[k] = "signal" /\ why[k] = "none" /\ RowsSayGone(k, obs[k])
        => bound[k] # plan.start[k] \/ plan.start[k] = 0

Linked ==
    /\ \A a \in Actors \ {Planner} : SameProcess(a) /\ SameIdent(a)
    /\ \A k \in Keys : Left(k)
    /\ \A k \in PIDs : why[k] # "wrong"

Core ==
    /\ TypeOK /\ truth \in [Actors -> Truths]
    /\ PlanType /\ Clocked /\ Turns /\ Slotted /\ Counted
    /\ \A a \in Actors : Saw(a)
    /\ Linked

ApplyInv ==
    Core /\ OriginalWasOriginal /\ RefusedWasThere /\ FreeWasFree /\ GoneWasGone
-----------------------------------------------------------------------------
LEMMA Bounds ==
    /\ MaxConcurrent \in Nat \ {0} /\ MaxFaults \in Nat /\ IsFiniteSet(Keys)
    /\ Planner # Observer /\ Planner \notin Keys /\ Observer \notin Keys
    /\ \A k \in Keys : k \in Actors /\ k # Planner /\ k # Observer
    /\ Planner \in Actors /\ Observer \in Actors
  BY ApplyAssumption DEF Actors

(* One source is read, or fails. *)
StageNames == {"table", "owners", "docker", "idents"}

Outcomes(st, s) == ReadStage(st, s) \cup FailStage(st, s) \cup DegradedStage(st, s)

\* TruthNow, of any stage and what was true before.
TruthAfter(st, t) ==
    [ free |-> IF st = "table" THEN Ports \ NativelyHeld ELSE t.free,
      held |-> IF st = (IF OnWindows THEN "table" ELSE "owners") THEN HeldNow ELSE t.held,
      up   |-> IF st = "docker" THEN up ELSE t.up ]

LEMMA BlankFacts ==
    ASSUME WorldTypeOK
    PROVE  /\ Blank(OnWindows) \in Snapshot /\ NoTruth \in Truths
           /\ SawAll(Blank(OnWindows), NoTruth, "idle") /\ SawAll(Blank(OnWindows), NoTruth, "table")
           /\ \A p \in PIDs : Blank(OnWindows).start[p] = 0 /\ Blank(OnWindows).ident[p] # "ok"
  <1> USE Sorts, HostTools
  <1>1. Blank(OnWindows) \in Snapshot
    BY DEF Blank, Snapshot, Names, Idents
  <1>2. NoTruth \in Truths
    BY DEF NoTruth, Truths
  <1>3. SawTable(Blank(OnWindows), NoTruth) /\ SawRows(Blank(OnWindows), NoTruth)
    BY DEF SawTable, SawRows, Blank
  <1>4. /\ SawDocker(Blank(OnWindows), NoTruth, "idle") /\ SawDocker(Blank(OnWindows), NoTruth, "table")
    BY DEF SawDocker, Blank, Running
  <1>5. \A p \in PIDs : Blank(OnWindows).start[p] = 0 /\ Blank(OnWindows).ident[p] # "ok"
    BY DEF Blank
  <1>6. Unread(Blank(OnWindows), NoTruth, "idle") /\ Unread(Blank(OnWindows), NoTruth, "table")
    BY <1>5 DEF Unread
  <1> QED BY <1>1, <1>2, <1>3, <1>4, <1>5, <1>6 DEF SawAll

\* HeldNow is who holds what; the visible part of it are rows.
LEMMA RowFacts ==
    ASSUME WorldTypeOK
    PROVE  /\ HeldNow \subseteq Ports \X PIDs \X (0..MaxStart)
           /\ \A h \in HeldNow : h[3] = bound[h[2]]
           /\ NativelyHeld \subseteq Ports /\ Published \subseteq Ports
           /\ \A R \in RowsNow : /\ R \subseteq Ports \X (PIDs \cup {Hidden})
                                 /\ \A port \in Ports, p \in PIDs : <<port, p>> \in R =>
                                         \E b \in 0..MaxStart : <<port, p, b>> \in HeldNow
  <1> USE Sorts
  <1> DEFINE Holds == {x \in Ports \X PIDs : x[1] \in HeldBy(x[2])}
  <1>0. HeldNow = {<<r[1], r[2], bound[r[2]]>> : r \in Holds}
    BY DEF HeldNow
  <1>1. HeldNow \subseteq Ports \X PIDs \X (0..MaxStart) /\ \A h \in HeldNow : h[3] = bound[h[2]]
    <2>1. SUFFICES ASSUME NEW h \in HeldNow
                   PROVE  h \in Ports \X PIDs \X (0..MaxStart) /\ h[3] = bound[h[2]]
      OBVIOUS
    <2>2. PICK r \in Holds : h = <<r[1], r[2], bound[r[2]]>>
      BY <1>0
    <2>3. r[1] \in Ports /\ r[2] \in PIDs
      OBVIOUS
    <2>4. bound[r[2]] \in 0..MaxStart
      BY <2>3 DEF WorldTypeOK
    <2> QED BY <2>2, <2>3, <2>4
  <1>2. \A p \in PIDs : HeldBy(p) \subseteq Ports
    BY DEF WorldTypeOK, HeldBy
  <1>3. NativelyHeld \subseteq Ports /\ Published \subseteq Ports
    BY <1>2 DEF WorldTypeOK, Published, NativelyHeld
  <1>4. Published \cup UNION {HeldBy(p) : p \in Invisible} \subseteq Ports
    BY <1>2, <1>3, WorldAssumption
  <1>5. HiddenRows \subseteq Ports \X {Hidden} /\ VisibleRows \subseteq Ports \X PIDs
    BY <1>4 DEF HiddenRows, VisibleRows
  <1>6. ASSUME NEW R \in RowsNow
        PROVE  R \subseteq Ports \X (PIDs \cup {Hidden})
    BY <1>5 DEF RowsNow
  <1>7. ASSUME NEW R \in RowsNow, NEW port \in Ports, NEW p \in PIDs, <<port, p>> \in R
        PROVE  \E b \in 0..MaxStart : <<port, p, b>> \in HeldNow
    <2>1. <<port, p>> \in VisibleRows
      BY <1>5, <1>7 DEF RowsNow
    <2>2. port \in HeldBy(p) /\ bound[p] \in 0..MaxStart
      BY <2>1 DEF VisibleRows, WorldTypeOK
    <2>3. <<port, p, bound[p]>> \in HeldNow
      <3>1. <<port, p>> \in Holds
        BY <2>2
      <3>2. \A r \in Holds : <<r[1], r[2], bound[r[2]]>> \in HeldNow
        BY <1>0
      <3>3. <<<<port, p>>[1], <<port, p>>[2], bound[<<port, p>>[2]]>> \in HeldNow
        BY <3>1, <3>2
      <3> QED BY <3>3
    <2> QED BY <2>2, <2>3
  <1> QED BY <1>1, <1>3, <1>6, <1>7

LEMMA TruthType ==
    ASSUME WorldTypeOK, NEW t \in Truths, NEW st
    PROVE  TruthAfter(st, t) \in Truths
  BY RowFacts DEF TruthAfter, Truths, WorldTypeOK

\* What a stage proves: s2 is a snapshot, what it shows was true, and the
\* identities are only touched by the last stage.
StageGoal(st, s, t, s2) ==
    /\ s2 \in Snapshot
    /\ SawAll(s2, TruthAfter(st, t), NextStage(st))
    /\ st # "idents" => s2.ident = s.ident /\ s2.start = s.start
    /\ st = "idents" => \A p \in PIDs : /\ s2.start[p] \in {0, bound[p]}
                                        /\ s2.ident[p] = "ok" => s2.start[p] = bound[p]

LEMMA TableStage ==
    ASSUME WorldTypeOK, NEW s \in Snapshot, NEW t \in Truths, SawAll(s, t, "table"),
           NEW s2 \in Outcomes("table", s)
    PROVE  StageGoal("table", s, t, s2)
  <1> DEFINE t2 == TruthAfter("table", t)
  <1>1. /\ s = Blank(OnWindows) /\ t = NoTruth
        /\ \A p \in PIDs : s.ident[p] # "ok"
        /\ OnWindows \in BOOLEAN
    BY HostTools, BlankFacts DEF SawAll, Unread
  <1>2. /\ s.rows = {} /\ s.tableHas = {} /\ s.tableOK = FALSE
        /\ s.dockerAvail = FALSE /\ s.dockerErr = FALSE /\ s.publishes = Running({})
    BY <1>1 DEF Blank, Running
  <1>3. \/ \E R \in NetstatRows : s2 = [s EXCEPT !.tableOK = TRUE, !.tableHas = {r[1] : r \in R}, !.rows = R]
              /\ OnWindows
        \/ \E T \in TablesNow : s2 = [s EXCEPT !.tableOK = TRUE, !.tableHas = T] /\ ~OnWindows
        \/ s2 = [s EXCEPT !.ownerErr = TRUE]
        \/ s2 = s
    BY <1>1 DEF Outcomes, ReadStage, FailStage, DegradedStage, ReadTable, TableFails
  <1>4. /\ s2 \in Snapshot
        /\ s2.ident = s.ident /\ s2.start = s.start
        /\ s2.dockerAvail = FALSE /\ s2.dockerErr = FALSE /\ s2.publishes = Running({})
        /\ s2.rows = {} \/ (OnWindows /\ s2.rows \in RowsNow)
        /\ s2.tableOK => NativelyHeld \subseteq s2.tableHas
    <2>1. CASE \E R \in NetstatRows : s2 = [s EXCEPT !.tableOK = TRUE, !.tableHas = {r[1] : r \in R}, !.rows = R]
                 /\ OnWindows
      <3>1. PICK R \in NetstatRows : s2 = [s EXCEPT !.tableOK = TRUE, !.tableHas = {r[1] : r \in R}, !.rows = R]
        BY <2>1
      <3>2. /\ R \in RowsNow /\ NativelyHeld \subseteq {r[1] : r \in R}
            /\ R \subseteq Ports \X (PIDs \cup {Hidden})
        BY RowFacts DEF NetstatRows
      <3>3. {r[1] : r \in R} \subseteq Ports
        BY <3>2
      <3> QED BY <1>2, <2>1, <3>1, <3>2, <3>3 DEF Snapshot
    <2>2. CASE \E T \in TablesNow : s2 = [s EXCEPT !.tableOK = TRUE, !.tableHas = T] /\ ~OnWindows
      <3>1. PICK T \in TablesNow : s2 = [s EXCEPT !.tableOK = TRUE, !.tableHas = T]
        BY <2>2
      <3>2. T \subseteq Ports /\ NativelyHeld \subseteq T
        BY RowFacts DEF TablesNow
      <3> QED BY <1>2, <3>1, <3>2 DEF Snapshot
    <2>3. CASE s2 = [s EXCEPT !.ownerErr = TRUE] \/ s2 = s
      BY <1>2, <2>3 DEF Snapshot
    <2> QED BY <1>3, <2>1, <2>2, <2>3
  <1>5. t2.free = Ports \ NativelyHeld /\ (OnWindows => t2.held = HeldNow)
    BY DEF TruthAfter
  <1>6. SawTable(s2, t2)
    BY <1>4, <1>5 DEF SawTable
  <1>7. SawRows(s2, t2)
    BY <1>4, <1>5, RowFacts DEF SawRows
  <1>8. NextStage("table") = "owners"
    BY DEF NextStage
  <1>9. SawDocker(s2, t2, "owners")
    BY <1>4 DEF SawDocker
  <1>10. Unread(s2, t2, "owners")
    BY <1>1, <1>4 DEF Unread
  <1> QED BY <1>4, <1>6, <1>7, <1>8, <1>9, <1>10 DEF StageGoal, SawAll

LEMMA OwnersStage ==
    ASSUME WorldTypeOK, NEW s \in Snapshot, NEW t \in Truths, SawAll(s, t, "owners"),
           NEW s2 \in Outcomes("owners", s)
    PROVE  StageGoal("owners", s, t, s2)
  <1> DEFINE t2 == TruthAfter("owners", t)
  <1>1. /\ ~OnWindows => s.rows = {}
        /\ \A p \in PIDs : s.ident[p] # "ok"
        /\ s.dockerAvail = FALSE /\ s.dockerErr = FALSE /\ s.publishes = Running({})
        /\ OnWindows \in BOOLEAN
    BY HostTools DEF SawAll, Unread, SawDocker, Snapshot
  <1>2. /\ s2 \in Snapshot
        /\ s2.ident = s.ident /\ s2.start = s.start
        /\ s2.tableOK = s.tableOK /\ s2.tableHas = s.tableHas
        /\ s2.dockerAvail = FALSE /\ s2.dockerErr = FALSE /\ s2.publishes = Running({})
        /\ OnWindows => s2.rows = s.rows
        /\ ~OnWindows => s2.rows = {} \/ s2.rows \in RowsNow
    <2>1. CASE s2 \in ReadOwners(s) /\ OnWindows
      <3> DEFINE names == [p \in PIDs |-> IF p \in Rowed(s) THEN NamesNow[p] ELSE ""]
      <3>1. s2 = [s EXCEPT !.name = names]
        BY <2>1 DEF ReadOwners
      <3>2. names \in [PIDs -> Names]
        BY DEF NamesNow, Names, WorldTypeOK
      <3> HIDE DEF names
      <3> QED BY <1>1, <2>1, <3>1, <3>2 DEF Snapshot
    <2>2. CASE s2 \in ReadOwners(s) /\ ~OnWindows
      <3> DEFINE names(R) == [p \in PIDs |-> IF R \cap (Ports \X {p}) # {} THEN NamesNow[p] ELSE ""]
      <3>1. PICK R \in RowsNow : s2 = [s EXCEPT !.rows = R, !.name = names(R)]
        BY <2>2 DEF ReadOwners
      <3>2. names(R) \in [PIDs -> Names]
        BY DEF NamesNow, Names, WorldTypeOK
      <3>3. R \subseteq Ports \X (PIDs \cup {Hidden})
        BY RowFacts
      <3> HIDE DEF names
      <3> QED BY <1>1, <2>2, <3>1, <3>2, <3>3 DEF Snapshot
    <2>3. CASE s2 = OwnersFail(s) /\ OnWindows
      <3>1. s2 = [s EXCEPT !.namesUnavailable = ~s.ownerErr /\ Rowed(s) # {}]
        BY <2>3 DEF OwnersFail
      <3> QED BY <1>1, <2>3, <3>1 DEF Snapshot
    <2>4. CASE s2 = OwnersFail(s) /\ ~OnWindows
      <3>1. s2 = [s EXCEPT !.ownerErr = TRUE]
        BY <2>4 DEF OwnersFail
      <3> QED BY <1>1, <2>4, <3>1 DEF Snapshot
    <2>5. CASE s2 = s
      BY <1>1, <2>5
    <2>6. s2 \in ReadOwners(s) \/ s2 = OwnersFail(s) \/ s2 = s
      BY DEF Outcomes, ReadStage, FailStage, DegradedStage
    <2> QED BY <1>1, <2>1, <2>2, <2>3, <2>4, <2>5, <2>6
  <1>3. t2.free = t.free /\ t2.held = (IF OnWindows THEN t.held ELSE HeldNow)
    BY DEF TruthAfter
  <1>4. SawTable(s2, t2)
    BY <1>2, <1>3 DEF SawTable, SawAll
  <1>5. SawRows(s2, t2)
    <2>1. CASE OnWindows
      BY <1>2, <1>3, <2>1 DEF SawRows, SawAll
    <2>2. CASE ~OnWindows
      BY <1>2, <1>3, <2>2, RowFacts DEF SawRows
    <2> QED BY <2>1, <2>2, <1>1
  <1>6. NextStage("owners") = "docker"
    BY DEF NextStage
  <1>7. SawDocker(s2, t2, "docker")
    BY <1>2 DEF SawDocker
  <1>8. Unread(s2, t2, "docker")
    BY <1>1, <1>2 DEF Unread
  <1> QED BY <1>2, <1>4, <1>5, <1>6, <1>7, <1>8 DEF StageGoal, SawAll

LEMMA DockerStage ==
    ASSUME WorldTypeOK, NEW s \in Snapshot, NEW t \in Truths, SawAll(s, t, "docker"),
           NEW s2 \in Outcomes("docker", s)
    PROVE  StageGoal("docker", s, t, s2)
  <1> DEFINE t2 == TruthAfter("docker", t)
  <1>1. /\ \A p \in PIDs : s.ident[p] # "ok"
        /\ s.dockerAvail = FALSE /\ s.dockerErr = FALSE /\ s.publishes = Running({})
        /\ DockerInstalled \in BOOLEAN /\ OnWindows \in BOOLEAN
        /\ up \subseteq Containers
    BY HostTools DEF SawAll, Unread, SawDocker, Snapshot, WorldTypeOK
  <1>2. /\ s2 \in Snapshot
        /\ s2.ident = s.ident /\ s2.start = s.start /\ s2.rows = s.rows
        /\ s2.tableOK = s.tableOK /\ s2.tableHas = s.tableHas
        /\ s2.dockerAvail = DockerInstalled
        /\ IF s2.dockerAvail /\ ~s2.dockerErr
           THEN s2.dockerIDs = up /\ s2.publishes = Running(up)
           ELSE s2.publishes = Running({})
    <2>1. Running(up) \in [Containers -> SUBSET Ports]
      BY Sorts DEF Running
    <2>2. CASE DockerInstalled /\ s2 = [s EXCEPT !.dockerAvail = TRUE, !.dockerIDs = up, !.publishes = Running(up)]
      BY <1>1, <2>1, <2>2 DEF Snapshot
    <2>3. CASE DockerInstalled /\ s2 = [s EXCEPT !.dockerAvail = TRUE, !.dockerErr = TRUE]
      BY <1>1, <2>3 DEF Snapshot
    <2>4. CASE ~DockerInstalled /\ s2 = s
      BY <1>1, <2>4 DEF Snapshot
    <2>5. s2 \in ReadDocker(s) \cup {DockerFails(s)}
      BY DEF Outcomes, ReadStage, FailStage, DegradedStage
    <2> QED BY <1>1, <2>2, <2>3, <2>4, <2>5 DEF ReadDocker, DockerFails, Running
  <1>3. t2.free = t.free /\ t2.held = t.held /\ t2.up = up
    BY <1>1 DEF TruthAfter
  <1>4. SawTable(s2, t2) /\ SawRows(s2, t2)
    BY <1>2, <1>3 DEF SawTable, SawRows, SawAll
  <1>5. NextStage("docker") = "idents"
    BY DEF NextStage
  <1>6. SawDocker(s2, t2, "idents")
    BY <1>2, <1>3 DEF SawDocker
  <1>7. Unread(s2, t2, "idents")
    BY <1>1, <1>2 DEF Unread
  <1> QED BY <1>2, <1>4, <1>5, <1>6, <1>7 DEF StageGoal, SawAll

LEMMA IdentsStage ==
    ASSUME WorldTypeOK, NEW s \in Snapshot, NEW t \in Truths, SawAll(s, t, "idents"),
           NEW s2 \in Outcomes("idents", s)
    PROVE  StageGoal("idents", s, t, s2)
  <1> DEFINE t2 == TruthAfter("idents", t)
             ident == [p \in PIDs |-> IF p \notin Rowed(s) THEN "none"
                                      ELSE IF bound[p] = 0 THEN "gone" ELSE "ok"]
             start == [p \in PIDs |-> IF p \in Rowed(s) THEN bound[p] ELSE 0]
             read == [s EXCEPT !.ident = ident, !.start = start]
  <1>1. /\ ident \in [PIDs -> Idents] /\ start \in [PIDs -> 0..MaxStart]
        /\ \A p \in PIDs : /\ start[p] \in {0, bound[p]}
                           /\ ident[p] = "ok" => start[p] = bound[p] /\ bound[p] # 0
    BY Sorts DEF Idents, WorldTypeOK
  <1>2. s2 = read \/ \E p \in PIDs, r \in {"denied", "none"} : s2 = Unidentified(read, p, r)
    <2>1. ReadIdents(s) = {read}
      BY DEF ReadIdents
    <2> HIDE DEF read
    <2>2. s2 \in ReadIdents(s) \cup IdentsFail(s)
      BY DEF Outcomes, ReadStage, FailStage, DegradedStage
    <2>3. Rowed(s) \subseteq PIDs
      BY DEF Rowed
    <2>4. CASE s2 \in IdentsFail(s)
      <3>1. PICK x \in ReadIdents(s), p \in Rowed(s), r \in {"denied", "none"} :
                s2 = Unidentified(x, p, r)
        BY <2>4 DEF IdentsFail
      <3>2. x = read /\ p \in PIDs
        BY <2>1, <2>3
      <3> QED BY <3>1, <3>2
    <2> QED BY <2>1, <2>2, <2>4
  <1> HIDE DEF ident, start
  <1>3. /\ read \in Snapshot /\ read.ident = ident /\ read.start = start
        /\ read.rows = s.rows /\ read.tableOK = s.tableOK /\ read.tableHas = s.tableHas
        /\ read.dockerAvail = s.dockerAvail /\ read.dockerErr = s.dockerErr
        /\ read.dockerIDs = s.dockerIDs /\ read.publishes = s.publishes
    BY <1>1 DEF Snapshot
  <1> HIDE DEF read
  <1>4. /\ s2 \in Snapshot
        /\ s2.rows = s.rows /\ s2.tableOK = s.tableOK /\ s2.tableHas = s.tableHas
        /\ s2.dockerAvail = s.dockerAvail /\ s2.dockerErr = s.dockerErr
        /\ s2.dockerIDs = s.dockerIDs /\ s2.publishes = s.publishes
        /\ \A p \in PIDs : /\ s2.start[p] \in {0, bound[p]}
                           /\ s2.ident[p] = "ok" => s2.start[p] = bound[p] /\ bound[p] # 0
    <2>1. CASE s2 = read
      BY <1>1, <1>3, <2>1
    <2>2. CASE \E p \in PIDs, r \in {"denied", "none"} : s2 = Unidentified(read, p, r)
      <3>1. PICK p \in PIDs, r \in {"denied", "none"} : s2 = Unidentified(read, p, r)
        BY <2>2
      <3> DEFINE ident2 == [ident EXCEPT ![p] = r]
                 start2 == [start EXCEPT ![p] = 0]
      <3>2. s2 = [read EXCEPT !.ident = ident2, !.start = start2]
        BY <1>3, <3>1 DEF Snapshot, Unidentified
      <3>3. /\ ident2 \in [PIDs -> Idents] /\ start2 \in [PIDs -> 0..MaxStart]
            /\ \A q \in PIDs : /\ start2[q] \in {0, bound[q]}
                               /\ ident2[q] = "ok" => start2[q] = bound[q] /\ bound[q] # 0
        BY <1>1, Sorts DEF Idents
      <3> HIDE DEF ident2, start2
      <3>4. s2 \in Snapshot /\ s2.ident = ident2 /\ s2.start = start2
        BY <1>3, <3>2, <3>3 DEF Snapshot
      <3> QED BY <1>3, <3>2, <3>3, <3>4 DEF Snapshot
    <2> QED BY <1>2, <2>1, <2>2
  <1>5. t2.free = t.free /\ t2.held = t.held /\ t2.up = t.up
    BY HostTools DEF TruthAfter
  <1>6. SawTable(s2, t2) /\ SawRows(s2, t2)
    BY <1>4, <1>5 DEF SawTable, SawRows, SawAll
  <1>7. NextStage("idents") = "collected"
    BY DEF NextStage
  <1>8. SawDocker(s2, t2, "collected")
    BY <1>4, <1>5 DEF SawDocker, SawAll
  <1>9. Unread(s2, t2, "collected")
    BY <1>4 DEF Unread
  <1> QED BY <1>4, <1>6, <1>7, <1>8, <1>9 DEF StageGoal, SawAll

LEMMA EveryStage ==
    ASSUME WorldTypeOK, NEW st \in StageNames, NEW s \in Snapshot, NEW t \in Truths,
           SawAll(s, t, st), NEW s2 \in Outcomes(st, s)
    PROVE  StageGoal(st, s, t, s2)
  BY TableStage, OwnersStage, DockerStage, IdentsStage DEF StageNames
-----------------------------------------------------------------------------
(* The invariant at the start *)
LEMMA InitApply == Init => ApplyInv
  <1> SUFFICES ASSUME Init PROVE ApplyInv
    OBVIOUS
  <1> USE DEF Init
  <1>1. WorldTypeOK
    BY WorldInitTypes
  <1>2. InFlight = {} /\ PastLook = {} /\ plan.resources = {}
    BY DEF InFlight, PastLook, NoPlan
  <1>3. Cardinality({}) = 0
    BY FS_EmptySet
  <1>4. TypeOK
    <2>1. obs \in [Actors -> Snapshot]
      BY <1>1, BlankFacts
    <2>2. result \in [Keys -> ActionResults] /\ why \in [Keys -> {"none", "held", "blind", "wrong"}]
      BY DEF ActionResults
    <2>3. faults \in 0..MaxFaults /\ late \in 0..Cardinality(plan.resources)
      BY <1>2, <1>3, Bounds
    <2>4. stage \in [Actors -> {"idle", "table", "owners", "docker", "idents", "collected"}]
      OBVIOUS
    <2>5. work \in [Keys -> {"idle", "begin", "collect", "confirm", "signal", "stop", "wait", "again", "done"}]
      OBVIOUS
    <2> QED BY <1>1, <1>2, <2>1, <2>2, <2>3, <2>4, <2>5 DEF TypeOK
  <1>5. truth \in [Actors -> Truths] /\ PlanType
    BY <1>1, <1>2, BlankFacts DEF PlanType
  <1>6. Clocked
    <2>1. clock \in Nat /\ \A q \in PIDs : bound[q] \in 0..clock
      BY DEF WorldInit
    <2>2. \A a \in Actors, q \in PIDs : obs[a].start[q] = 0
      BY <1>1, BlankFacts
    <2> QED BY <2>1, <2>2 DEF Clocked
  <1>7. Turns
    <2>1. \A k \in Keys : work[k] = "idle" /\ stage[k] = "idle"
      BY Bounds
    <2>2. stage[Planner] = "table" /\ stage[Observer] = "idle"
      BY Bounds
    <2> QED BY <2>1, <2>2 DEF Turns
  <1>8. Slotted /\ Counted
    BY <1>2, <1>3, Bounds DEF Slotted, Counted
  <1>9. ASSUME NEW a \in Actors PROVE Saw(a)
    <2>1. obs[a] = Blank(OnWindows) /\ truth[a] = NoTruth /\ stage[a] \in {"idle", "table"}
      OBVIOUS
    <2> QED BY <1>1, <2>1, BlankFacts DEF Saw
  <1>10. Linked
    <2>1. \A a \in Actors : truth[a].held = {}
      BY DEF NoTruth
    <2> QED BY <2>1, Sorts DEF Linked, SameProcess, SameIdent, Left
  <1>11. OriginalWasOriginal /\ RefusedWasThere /\ FreeWasFree /\ GoneWasGone
    BY DEF OriginalWasOriginal, RefusedWasThere, FreeWasFree, GoneWasGone, Reported
  <1> QED BY <1>4, <1>5, <1>6, <1>7, <1>8, <1>9, <1>10, <1>11 DEF Core, ApplyInv
-----------------------------------------------------------------------------
(* What the steps of the invariant have in common *)

LEMMA Slots ==
    ASSUME Core
    PROVE  /\ IsFiniteSet(InFlight) /\ IsFiniteSet(PastLook) /\ IsFiniteSet(plan.resources)
           /\ Cardinality(InFlight) \in Nat /\ Cardinality(PastLook) \in Nat
           /\ Cardinality(plan.resources) \in Nat
           /\ PastLook \subseteq InFlight /\ PastLook \subseteq plan.resources
  <1>1. InFlight \subseteq Keys /\ PastLook \subseteq Keys /\ plan.resources \subseteq Keys
    BY DEF InFlight, PastLook, Core, TypeOK
  <1>2. PastLook \subseteq InFlight /\ PastLook \subseteq plan.resources
    BY DEF PastLook, InFlight, Core, Turns
  <1> QED BY <1>1, <1>2, Bounds, FS_Subset, FS_CardinalityType

\* The goroutine of a resource runs while the actions run.
LEMMA Live ==
    ASSUME Core, NEW k \in Keys, work[k] \notin {"idle", "done"}
    PROVE  phase = "acting" /\ k \in plan.resources /\ k \in InFlight
  BY DEF Core, TypeOK, Turns, InFlight

LEMMA FaultsStay ==
    ASSUME Core, Fault \/ UNCHANGED faults
    PROVE  faults' \in 0..MaxFaults
  BY Bounds DEF Core, TypeOK, Fault

\* Nobody collects for apply before it starts.
LEMMA NothingSeen ==
    ASSUME Core, phase \in {"observing", "saved"}, NEW a \in Actors, a # Planner
    PROVE  stage[a] = "idle" /\ truth[a] = NoTruth /\ obs[a] = Blank(OnWindows)
  <1>1. stage[a] = "idle"
    BY DEF Core, Turns, TypeOK, Actors
  <1> QED BY <1>1 DEF Core, Saw, SawAll, Unread

LEMMA NoTruthHeld == NoTruth.held = {}
  BY DEF NoTruth
-----------------------------------------------------------------------------
(* Collecting *)
LEMMA CollectStepInv ==
    ASSUME Core, NEW a \in Actors, CollectStep(a)
    PROVE  Core' /\ phase # "done" /\ UNCHANGED <<phase, report>>
  <1>1. /\ UNCHANGED <<world, phase, plan, work, result, attempted, skipped, ctx,
                       lookCtx, graceOver, report, why, effects, late, cut>>
        /\ stage[a] \in StageNames
        /\ stage' = [stage EXCEPT ![a] = NextStage(stage[a])]
        /\ truth' = [truth EXCEPT ![a] = TruthAfter(stage[a], truth[a])]
        /\ faults' \in 0..MaxFaults
        /\ WorldTypeOK /\ obs[a] \in Snapshot /\ truth[a] \in Truths
    <2>1. faults' \in 0..MaxFaults
      BY FaultsStay DEF CollectStep
    <2>2. TruthNow(a) = TruthAfter(stage[a], truth[a])
      BY DEF TruthNow, TruthAfter
    <2>3. stage[a] \in StageNames
      BY DEF CollectStep, Collecting, Core, TypeOK, StageNames
    <2> QED BY <2>1, <2>2, <2>3 DEF CollectStep, Core, TypeOK
  <1>2. PICK s2 \in Outcomes(stage[a], obs[a]) : obs' = [obs EXCEPT ![a] = s2]
    BY DEF CollectStep, Outcomes
  <1> DEFINE s == obs[a]
             t == truth[a]
             st == stage[a]
  <1>3. /\ StageGoal(st, s, t, s2) /\ TruthAfter(st, t) \in Truths
        /\ \A q \in PIDs : s.ident[q] # "ok"
    <2>1. SawAll(s, t, st)
      BY DEF Core, Saw
    <2>2. \A q \in PIDs : s.ident[q] # "ok"
      BY <1>1, <2>1 DEF SawAll, Unread, StageNames
    <2> QED BY <1>1, <2>1, <2>2, EveryStage, TruthType
  <1>3a. st = "idents" => \A q \in PIDs : /\ s2.start[q] \in {0, bound[q]}
                                          /\ s2.ident[q] = "ok" => s2.start[q] = bound[q] /\ bound[q] # 0
    <2>1. ASSUME st = "idents", NEW q \in PIDs
          PROVE  s2.start[q] \in {0, bound[q]} /\ (s2.ident[q] = "ok" => s2.start[q] = bound[q])
      BY <1>3, <2>1 DEF StageGoal
    <2>2. \A q \in PIDs : s2.ident[q] = "ok" => s2.start[q] # 0
      BY <1>3 DEF StageGoal, SawAll, Unread
    <2> QED BY <2>1, <2>2
  <1>4. NextStage(st) \in {"owners", "docker", "idents", "collected"} /\ (NextStage(st) = "collected" <=> st = "idents")
    BY <1>1 DEF StageNames, NextStage
  <1>5. /\ obs'[a] = s2 /\ truth'[a] = TruthAfter(st, t) /\ stage'[a] = NextStage(st)
        /\ \A b \in Actors : b # a => obs'[b] = obs[b] /\ truth'[b] = truth[b] /\ stage'[b] = stage[b]
        /\ obs' \in [Actors -> Snapshot] /\ truth' \in [Actors -> Truths]
    BY <1>1, <1>2, <1>3 DEF Core, TypeOK, StageGoal
  <1>6. TypeOK'
    <2>1. stage' \in [Actors -> {"idle", "table", "owners", "docker", "idents", "collected"}]
      BY <1>1, <1>4 DEF Core, TypeOK
    <2> QED BY <1>1, <1>5, <2>1 DEF Core, TypeOK, world, WorldTypeOK
  <1>7. PlanType'
    BY <1>1 DEF Core, PlanType, world
  <1>8. Clocked'
    <2>1. \A q \in PIDs : s2.start[q] \in 0..clock
      <3>1. \A q \in PIDs : s.start[q] \in 0..clock /\ bound[q] \in 0..clock /\ 0 \in 0..clock
        BY <1>1, Sorts DEF Core, Clocked, WorldTypeOK
      <3>2. \A q \in PIDs : s2.start[q] \in {s.start[q], 0, bound[q]}
        <4>1. CASE st = "idents"
          BY <1>3a, <4>1
        <4>2. CASE st # "idents"
          <5>1. s2.start = s.start
            BY <1>3, <4>2 DEF StageGoal
          <5> QED BY <5>1
        <4> QED BY <4>1, <4>2
      <3> QED BY <3>1, <3>2
    <2>2. \A b \in Actors, q \in PIDs : obs'[b].start[q] \in 0..clock
      BY <1>5, <2>1 DEF Core, Clocked
    <2> QED BY <1>1, <2>2 DEF Core, Clocked, world
  <1>9. phase # "done" /\ (a \in Keys => work[a] = "collect")
    <2>1. a = Planner => phase = "observing"
      BY <1>1 DEF Core, Turns, StageNames
    <2>2. a = Observer => phase = "looking"
      BY <1>1 DEF Core, Turns, StageNames
    <2>3. ASSUME a \in Keys PROVE work[a] = "collect" /\ phase = "acting"
      BY <1>1, <2>3, Live DEF Core, Turns, StageNames
    <2> QED BY <2>1, <2>2, <2>3 DEF Actors
  <1>10. Turns'
    BY <1>1, <1>4, <1>5, <1>9, Bounds DEF Core, Turns, StageNames
  <1>11. Slotted' /\ Counted'
    BY <1>1 DEF Core, Slotted, Counted, InFlight, PastLook
  <1>12. \A b \in Actors : Saw(b)'
    <2>1. OnWindows' = OnWindows /\ DockerInstalled' = DockerInstalled
      BY <1>1 DEF world, OnWindows, DockerInstalled
    <2>2. SawAll(s2, TruthAfter(st, t), NextStage(st))
      BY <1>3 DEF StageGoal
    <2>3. \A b \in Actors : SawAll(obs'[b], truth'[b], stage'[b])
      BY <1>5, <2>2 DEF Core, Saw
    <2> QED BY <2>1, <2>3 DEF Saw, SawAll, SawTable, SawRows, SawDocker, Unread
  <1>13. Linked'
    <2>1. ASSUME NEW b \in Actors \ {Planner} PROVE SameProcess(b)' /\ SameIdent(b)'
      <3>1. bound' = bound /\ plan' = plan
        BY <1>1 DEF world
      <3>2. SameProcess(b) /\ SameIdent(b)
        BY <2>1 DEF Core, Linked
      <3>3. CASE b # a
        BY <1>5, <3>1, <3>2, <3>3 DEF SameProcess, SameIdent
      <3>4. CASE b = a
        <4>1. truth'[a].held = t.held \/ truth'[a].held = HeldNow
          BY <1>5 DEF TruthAfter
        <4>2. SameProcess(a)'
          <5>1. \A h \in HeldNow : h[3] = bound[h[2]]
            BY <1>1, RowFacts
          <5>2. \A h \in truth'[a].held : bound[h[2]] = plan.start[h[2]] /\ bound[h[2]] # 0 => h[3] = bound[h[2]]
            BY <3>2, <3>4, <4>1, <5>1 DEF SameProcess
          <5> QED BY <3>1, <3>4, <5>2 DEF SameProcess
        <4>3. CASE st = "idents"
          <5>1. truth'[a].held = t.held /\ t.held \subseteq Ports \X PIDs \X (0..MaxStart)
            BY <1>1, <1>5, <4>3 DEF TruthAfter, Truths
          <5>2. \A q \in PIDs : s2.ident[q] = "ok" => s2.start[q] = bound[q] /\ bound[q] # 0
            BY <1>3a, <4>3
          <5>3. ASSUME NEW h \in truth'[a].held, s2.ident[h[2]] = "ok", s2.start[h[2]] = plan.start[h[2]]
                PROVE  h[3] = plan.start[h[2]]
            <6>1. h[2] \in PIDs /\ h \in t.held
              BY <5>1
            <6>2. bound[h[2]] = plan.start[h[2]] /\ bound[h[2]] # 0
              BY <5>2, <5>3, <6>1
            <6> QED BY <3>2, <3>4, <6>1, <6>2 DEF SameProcess
          <5> QED BY <1>5, <3>1, <3>4, <4>2, <5>3 DEF SameIdent
        <4>4. CASE st # "idents"
          <5>1. \A q \in PIDs : s2.ident[q] # "ok"
            BY <1>3, <4>4 DEF StageGoal
          <5>2. \A h \in truth'[a].held : h[2] \in PIDs
            BY <1>5 DEF Truths
          <5> QED BY <1>5, <3>4, <4>2, <5>1, <5>2 DEF SameIdent
        <4> QED BY <4>3, <4>4
      <3> QED BY <3>3, <3>4
    <2>2. ASSUME NEW k \in Keys PROVE Left(k)'
      <3>1. UNCHANGED <<bound, plan, work, why>> /\ Left(k) /\ k \in Actors
        BY <1>1, Bounds DEF world, Core, Linked
      <3>2. CASE k = a
        BY <1>9, <3>1, <3>2 DEF Left
      <3>3. CASE k # a
        <4>1. obs'[k] = obs[k]
          BY <1>5, <3>1, <3>3
        <4>2. RowsSayGone(k, obs[k])' = RowsSayGone(k, obs[k])
          BY <3>1, <4>1 DEF RowsSayGone
        <4> QED BY <3>1, <4>2 DEF Left
      <3> QED BY <3>2, <3>3
    <2> QED BY <1>1, <2>1, <2>2 DEF Core, Linked
  <1> QED BY <1>1, <1>5, <1>6, <1>7, <1>8, <1>9, <1>10, <1>11, <1>12, <1>13 DEF Core
-----------------------------------------------------------------------------
(* The goroutine of one resource *)

\* What act leaves alone at each of its steps.
goFrame == <<host, bound, clock, holds, kind, up, moves, phase, plan, skipped, ctx, lookCtx,
             graceOver, report>>

\* It goes on: what it has seen stays, and after ctx is dead it cannot pass
\* its last look at it.
LEMMA MovesInv ==
    ASSUME Core, NEW k \in Keys, work[k] \notin {"idle", "done"},
           NEW step \in {"confirm", "signal", "stop", "wait", "again"}, goto(k, step),
           stage[k] = "collected",
           UNCHANGED goFrame, UNCHANGED <<obs, stage, truth, result, attempted, cut, late>>,
           stopping' \subseteq Containers, faults' \in 0..MaxFaults,
           why' \in {why, [why EXCEPT ![k] = "blind"]},
           step \in {"confirm", "signal"} => k \in PIDs,
           step \in {"stop", "wait", "again"} => k \in Containers,
           ctx = "dead" /\ step \in {"confirm", "signal", "stop"} => k \in PastLook,
           \/ effects' = effects /\ (work[k] \in {"wait", "again"} => step = "again")
           \/ effects' = effects \cup {k} /\ step = "wait",
           step = "signal" => \/ why'[k] # "none" \/ ~RowsSayGone(k, obs[k])
                              \/ bound[k] # plan.start[k]
    PROVE  Core'
  <1>1. /\ work' \in [Keys -> {"idle", "begin", "collect", "confirm", "signal", "stop", "wait",
                               "again", "done"}]
        /\ work'[k] = step /\ \A l \in Keys : l # k => work'[l] = work[l]
        /\ phase = "acting" /\ k \in plan.resources /\ k \in InFlight
    BY Live DEF goto, Core, TypeOK
  <1>2. /\ why' \in [Keys -> {"none", "held", "blind", "wrong"}]
        /\ \A l \in Keys : l # k => why'[l] = why[l]
        /\ \A l \in PIDs : why'[l] # "wrong"
    BY Sorts DEF Core, TypeOK, Linked
  <1>3. InFlight' = InFlight
    BY <1>1 DEF InFlight
  <1>4. TypeOK'
    BY <1>1, <1>2 DEF goFrame, Core, TypeOK, WorldTypeOK
  <1>5. PlanType' /\ Clocked' /\ truth' \in [Actors -> Truths]
    BY DEF goFrame, Core, PlanType, Clocked
  <1>6. Turns'
    BY <1>1 DEF goFrame, Core, Turns
  <1>7. Slotted'
    <2>1. CASE ctx = "alive"
      BY <1>3, <2>1 DEF goFrame, Core, Slotted
    <2>2. CASE ctx = "dead"
      <3>1. PastLook' \subseteq PastLook
        BY <1>1, <2>2 DEF PastLook
      <3>2. Cardinality(PastLook') <= Cardinality(PastLook) /\ Cardinality(PastLook') \in Nat
        BY <3>1, Slots, FS_Subset, FS_CardinalityType
      <3> QED BY <1>3, <2>2, <3>2, Slots, Bounds DEF goFrame, Core, Slotted, TypeOK
    <2> QED BY <2>1, <2>2 DEF Core, TypeOK
  <1>8. Counted'
    <2>1. effects \subseteq Keys /\ phase' = "acting"
      BY <1>1 DEF goFrame, Core, TypeOK
    <2>2. \A l \in effects : l \in attempted \/ work[l] \in {"wait", "again"}
      BY DEF Core, Counted
    <2>3. \A l \in effects' : l \in attempted' \/ work'[l] \in {"wait", "again"}
      BY <1>1, <2>1, <2>2
    <2> QED BY <2>1, <2>3 DEF Counted
  <1>9. \A a \in Actors : Saw(a)'
    BY DEF goFrame, Core, Saw, SawAll, SawTable, SawRows, SawDocker, Unread, OnWindows, DockerInstalled
  <1>10. Linked'
    <2>1. \A a \in Actors \ {Planner} : SameProcess(a)' /\ SameIdent(a)'
      BY DEF goFrame, Core, Linked, SameProcess, SameIdent
    <2>2. ASSUME NEW l \in Keys, l # k PROVE Left(l)'
      BY <1>1, <1>2, <2>2 DEF goFrame, Core, Linked, Left, RowsSayGone
    <2>3. Left(k)'
      <3>1. RowsSayGone(k, obs[k])' = RowsSayGone(k, obs[k]) /\ UNCHANGED <<bound, plan>>
        BY DEF goFrame, RowsSayGone
      <3> QED BY <1>1, <3>1 DEF Left
    <2> QED BY <1>2, <2>1, <2>2, <2>3 DEF Linked
  <1> QED BY <1>4, <1>5, <1>6, <1>7, <1>8, <1>9, <1>10 DEF Core

\* It ends: what it has seen is discarded.  A signal or a stop that began
\* after ctx was dead takes it out of the actions past their last look.
LEMMA EndsInv ==
    ASSUME Core, NEW k \in Keys, work[k] \notin {"idle", "done"},
           NEW r \in ActionResults, NEW counted \in BOOLEAN, Ends(k, r, counted),
           UNCHANGED goFrame,
           stopping' \subseteq Containers, faults' \in 0..MaxFaults,
           NEW grounds \in {"held", "blind"}, why' \in {why, [why EXCEPT ![k] = grounds]},
           cut' \in {cut, cut \cup {k}},
           effects' \subseteq effects \cup {k},
           k \in effects' => counted \/ k \in attempted,
           \/ late' = late
           \/ late' = (IF ctx = "dead" THEN late + 1 ELSE late) /\ k \in PastLook
    PROVE  Core'
  <1>1. /\ work' \in [Keys -> {"idle", "begin", "collect", "confirm", "signal", "stop", "wait",
                               "again", "done"}]
        /\ work'[k] = "done" /\ \A l \in Keys : l # k => work'[l] = work[l]
        /\ phase = "acting" /\ k \in plan.resources /\ k \in InFlight
        /\ k \in Actors /\ k # Planner /\ k # Observer /\ WorldTypeOK
    BY Live, Bounds DEF Ends, goto, Core, TypeOK
  <1>2. /\ obs' = [obs EXCEPT ![k] = Blank(OnWindows)]
        /\ stage' = [stage EXCEPT ![k] = "idle"]
        /\ truth' = [truth EXCEPT ![k] = NoTruth]
        /\ result' = [result EXCEPT ![k] = r]
        /\ attempted' = IF counted THEN attempted \cup {k} ELSE attempted
    BY DEF Ends, Discard
  <1>3. /\ why' \in [Keys -> {"none", "held", "blind", "wrong"}]
        /\ \A l \in Keys : l # k => why'[l] = why[l]
        /\ \A l \in PIDs : why'[l] # "wrong"
    BY Sorts DEF Core, TypeOK, Linked
  <1>4. /\ obs' \in [Actors -> Snapshot] /\ truth' \in [Actors -> Truths]
        /\ stage' \in [Actors -> {"idle", "table", "owners", "docker", "idents", "collected"}]
        /\ obs'[k] = Blank(OnWindows) /\ stage'[k] = "idle" /\ truth'[k] = NoTruth
        /\ \A a \in Actors : a # k => obs'[a] = obs[a] /\ truth'[a] = truth[a] /\ stage'[a] = stage[a]
    BY <1>1, <1>2, BlankFacts DEF Core, TypeOK
  <1>5. Slotted' /\ late' \in 0..Cardinality(plan.resources)
    <2>1. InFlight' \subseteq InFlight
      BY <1>1 DEF InFlight
    <2>2. Cardinality(InFlight') <= Cardinality(InFlight)
      BY <2>1, Slots, FS_Subset
    <2>3. PastLook' = PastLook \ {k}
      BY <1>1 DEF PastLook
    <2>4. /\ Cardinality(PastLook') \in Nat
          /\ Cardinality(PastLook') = IF k \in PastLook THEN Cardinality(PastLook) - 1
                                      ELSE Cardinality(PastLook)
      <3>1. IsFiniteSet(PastLook) /\ Cardinality(PastLook) \in Nat
        BY Slots
      <3>2. CASE k \in PastLook
        BY <2>3, <3>1, <3>2, FS_RemoveElement, FS_CardinalityType
      <3>3. CASE k \notin PastLook
        <4>1. PastLook' = PastLook
          BY <2>3, <3>3
        <4> QED BY <3>1, <3>3, <4>1
      <3> QED BY <3>2, <3>3
    <2>5. late \in Nat /\ Cardinality(InFlight') \in Nat
      BY <2>1, Slots, FS_Subset, FS_CardinalityType DEF Core, TypeOK
    <2>6. CASE ctx = "alive"
      BY <1>1, <2>2, <2>5, <2>6, Slots, Bounds DEF goFrame, Core, Slotted
    <2>7. CASE ctx = "dead"
      BY <1>1, <2>2, <2>4, <2>5, <2>7, Slots, Bounds DEF goFrame, Core, Slotted
    <2> QED BY <2>6, <2>7 DEF Core, TypeOK
  <1>6. TypeOK'
    <2>1. result' \in [Keys -> ActionResults]
      BY <1>2 DEF Core, TypeOK
    <2>2. /\ attempted' \subseteq plan.resources /\ effects' \subseteq plan.resources
          /\ cut' \subseteq plan.resources
      BY <1>1, <1>2 DEF Core, TypeOK
    <2> QED BY <1>1, <1>3, <1>4, <1>5, <2>1, <2>2 DEF goFrame, Core, TypeOK, WorldTypeOK
  <1>7. PlanType' /\ Clocked'
    <2>1. \A q \in PIDs : Blank(OnWindows).start[q] \in 0..clock
      BY <1>1, BlankFacts, Sorts DEF WorldTypeOK
    <2> QED BY <1>4, <2>1 DEF goFrame, Core, PlanType, Clocked
  <1>8. Turns'
    BY <1>1, <1>4, Bounds DEF goFrame, Core, Turns
  <1>9. Counted'
    <2>1. effects \subseteq Keys /\ phase' = "acting"
      BY <1>1 DEF goFrame, Core, TypeOK
    <2>2. \A l \in effects : l \in attempted \/ work[l] \in {"wait", "again"}
      BY DEF Core, Counted
    <2>3. \A l \in effects' : l \in attempted' \/ work'[l] \in {"wait", "again"}
      BY <1>1, <1>2, <2>1, <2>2
    <2> QED BY <2>1, <2>3 DEF Counted
  <1>10. \A a \in Actors : Saw(a)'
    <2>1. OnWindows' = OnWindows /\ DockerInstalled' = DockerInstalled
      BY DEF goFrame, OnWindows, DockerInstalled
    <2>2. \A a \in Actors : SawAll(obs'[a], truth'[a], stage'[a])
      BY <1>1, <1>4, BlankFacts DEF Core, Saw
    <2> QED BY <2>1, <2>2 DEF Saw, SawAll, SawTable, SawRows, SawDocker, Unread
  <1>11. Linked'
    <2>1. ASSUME NEW a \in Actors \ {Planner} PROVE SameProcess(a)' /\ SameIdent(a)'
      BY <1>4, <2>1, NoTruthHeld DEF goFrame, Core, Linked, SameProcess, SameIdent
    <2>2. ASSUME NEW l \in Keys, l # k PROVE Left(l)'
      BY <1>1, <1>3, <1>4, <2>2, Bounds DEF goFrame, Core, Linked, Left, RowsSayGone
    <2>3. Left(k)'
      BY <1>1 DEF Left
    <2> QED BY <1>3, <2>1, <2>2, <2>3 DEF Linked
  <1> QED BY <1>4, <1>5, <1>6, <1>7, <1>8, <1>9, <1>10, <1>11 DEF Core

LEMMA ResultNames ==
    /\ "not_attempted" \in ActionResults /\ "identity_changed" \in ActionResults
    /\ "signal_sent" \in ActionResults /\ "stopped" \in ActionResults
    /\ "permission_denied" \in ActionResults /\ "timeout_unknown" \in ActionResults
    /\ "failed" \in ActionResults
  BY DEF ActionResults

LEMMA StoppingType ==
    ASSUME Core, NEW k \in Keys, k \in Containers \/ UNCHANGED stopping,
           stopping' \in {stopping, stopping \cup {k}, stopping \ {k}}
    PROVE  stopping' \subseteq Containers
  BY DEF Core, TypeOK, WorldTypeOK

LEMMA InterruptedInv ==
    ASSUME Core, NEW k \in Keys, work[k] \in {"begin", "collect"}, Interrupted(k),
           UNCHANGED <<actFrame, faults, why, effects, late>>
    PROVE  Core'
  <1>1. Ends(k, "not_attempted", FALSE) /\ cut' = cut \cup {k}
    BY DEF Interrupted
  <1>2. UNCHANGED goFrame /\ stopping' \subseteq Containers /\ faults' \in 0..MaxFaults
    BY FaultsStay DEF actFrame, world, goFrame, Core, TypeOK, WorldTypeOK
  <1>3. k \in effects => k \in attempted
    BY DEF Core, Counted
  <1> QED BY <1>1, <1>2, <1>3, EndsInv, ResultNames

LEMMA ActBeginsInv ==
    ASSUME Core, NEW k \in Keys, ActBegins(k)
    PROVE  Core'
  <1>1. work[k] = "begin" /\ UNCHANGED <<actFrame, faults, why, effects, late>>
    BY DEF ActBegins
  <1>2. CASE ctx = "dead"
    BY <1>1, <1>2, InterruptedInv DEF ActBegins
  <1>3. CASE ctx # "dead"
    <2>1. /\ goto(k, "collect") /\ stage' = [stage EXCEPT ![k] = "table"]
          /\ UNCHANGED <<obs, truth, result, attempted, cut>>
      BY <1>3 DEF ActBegins
    <2>2. /\ work' \in [Keys -> {"idle", "begin", "collect", "confirm", "signal", "stop", "wait",
                                 "again", "done"}]
          /\ work'[k] = "collect" /\ \A l \in Keys : l # k => work'[l] = work[l]
          /\ phase = "acting" /\ k \in plan.resources /\ stage[k] = "idle"
          /\ k \in Actors /\ k # Planner /\ k # Observer /\ WorldTypeOK
      BY <1>1, <2>1, Live, Bounds DEF goto, Core, TypeOK, Turns
    <2>3. /\ stage' \in [Actors -> {"idle", "table", "owners", "docker", "idents", "collected"}]
          /\ stage'[k] = "table" /\ \A a \in Actors : a # k => stage'[a] = stage[a]
      BY <2>1, <2>2 DEF Core, TypeOK
    <2>4. TypeOK'
      BY <1>1, <2>1, <2>2, <2>3 DEF actFrame, world, Core, TypeOK, WorldTypeOK
    <2>5. PlanType' /\ Clocked' /\ truth' \in [Actors -> Truths]
      BY <1>1, <2>1 DEF actFrame, world, Core, PlanType, Clocked
    <2>6. Turns'
      BY <1>1, <2>2, <2>3, Bounds DEF actFrame, Core, Turns
    <2>7. Slotted'
      <3>1. InFlight' = InFlight /\ PastLook' = PastLook
        BY <1>1, <2>2 DEF InFlight, PastLook
      <3> QED BY <1>1, <3>1 DEF actFrame, Core, Slotted
    <2>8. Counted'
      <3>1. \A l \in effects : l \in Keys /\ (l \in attempted \/ work[l] \in {"wait", "again"})
        BY DEF Core, TypeOK, Counted
      <3> QED BY <1>1, <2>1, <2>2, <3>1 DEF actFrame, Counted
    <2>9. \A a \in Actors : Saw(a)'
      <3>1. OnWindows' = OnWindows /\ DockerInstalled' = DockerInstalled
        BY <1>1 DEF actFrame, world, OnWindows, DockerInstalled
      <3>2. obs[k] = Blank(OnWindows) /\ truth[k] = NoTruth
        BY <2>2 DEF Core, Saw, SawAll, Unread
      <3>3. \A a \in Actors : SawAll(obs'[a], truth'[a], stage'[a])
        BY <2>1, <2>2, <2>3, <3>2, BlankFacts DEF Core, Saw
      <3> QED BY <3>1, <3>3 DEF Saw, SawAll, SawTable, SawRows, SawDocker, Unread
    <2>10. Linked'
      <3>1. \A a \in Actors \ {Planner} : SameProcess(a)' /\ SameIdent(a)'
        BY <1>1, <2>1 DEF actFrame, world, Core, Linked, SameProcess, SameIdent
      <3>2. \A l \in Keys : Left(l)'
        BY <1>1, <2>1, <2>2 DEF actFrame, world, Core, Linked, Left, RowsSayGone
      <3> QED BY <1>1, <3>1, <3>2 DEF Core, Linked
    <2> QED BY <2>4, <2>5, <2>6, <2>7, <2>8, <2>9, <2>10 DEF Core
  <1> QED BY <1>2, <1>3

LEMMA ActDecidesInv ==
    ASSUME Core, NEW k \in Keys, ActDecides(k)
    PROVE  Core'
  <1>1. /\ work[k] = "collect" /\ stage[k] = "collected"
        /\ UNCHANGED <<actFrame, faults, why, effects, late>>
    BY DEF ActDecides
  <1>2. UNCHANGED goFrame /\ stopping' \subseteq Containers /\ faults' \in 0..MaxFaults
    BY <1>1, FaultsStay DEF actFrame, world, goFrame, Core, TypeOK, WorldTypeOK
  <1>3. k \in effects => k \in attempted
    BY <1>1 DEF Core, Counted
  <1>4. k \in PIDs \/ k \in Containers
    BY Sorts
  <1>5. CASE ctx = "dead"
    BY <1>1, <1>5, InterruptedInv DEF ActDecides
  <1>6. CASE /\ ctx # "dead" /\ UNCHANGED cut
             /\ Ends(k, "not_attempted", FALSE) \/ Ends(k, "failed", FALSE)
    BY <1>1, <1>2, <1>3, <1>6, EndsInv, ResultNames
  <1>7. CASE /\ ctx # "dead" /\ UNCHANGED <<cut, obs, stage, truth, result, attempted>>
             /\ goto(k, IF k \in Containers THEN "stop"
                        ELSE IF RowsSayGone(k, obs[k]) THEN "confirm" ELSE "signal")
    <2> DEFINE step == IF k \in Containers THEN "stop"
                       ELSE IF RowsSayGone(k, obs[k]) THEN "confirm" ELSE "signal"
    <2>1. step \in {"confirm", "signal", "stop"} /\ goto(k, step)
      BY <1>7
    <2>2. /\ step \in {"confirm", "signal"} => k \in PIDs
          /\ step \in {"stop", "wait", "again"} => k \in Containers
          /\ step = "signal" => ~RowsSayGone(k, obs[k])
      BY <1>4
    <2> HIDE DEF step
    <2> QED BY <1>1, <1>2, <1>7, <2>1, <2>2, MovesInv
  <1>8. ctx # "dead" => \/ /\ UNCHANGED cut
                           /\ Ends(k, "not_attempted", FALSE) \/ Ends(k, "failed", FALSE)
                        \/ /\ UNCHANGED <<cut, obs, stage, truth, result, attempted>>
                           /\ goto(k, IF k \in Containers THEN "stop"
                                      ELSE IF RowsSayGone(k, obs[k]) THEN "confirm" ELSE "signal")
    BY DEF ActDecides
  <1> QED BY <1>5, <1>6, <1>7, <1>8

LEMMA ConfirmInv ==
    ASSUME Core, NEW k \in Keys, Confirm(k)
    PROVE  Core'
  <1>1. work[k] = "confirm" /\ UNCHANGED <<actFrame, effects, late, cut>>
    BY DEF Confirm
  <1>2. /\ UNCHANGED goFrame /\ stopping' \subseteq Containers /\ stage[k] = "collected"
        /\ k \in PIDs /\ k \in PastLook /\ faults' \in 0..MaxFaults
    BY <1>1, FaultsStay DEF Confirm, actFrame, world, goFrame, Core, TypeOK, WorldTypeOK, Turns, PastLook
  <1>3. k \in effects => k \in attempted
    BY <1>1 DEF Core, Counted
  <1>4. CASE Ends(k, "not_attempted", FALSE) /\ UNCHANGED why
    BY <1>1, <1>2, <1>3, <1>4, EndsInv, ResultNames
  <1>5. CASE /\ goto(k, "signal") /\ UNCHANGED <<obs, stage, truth, result, attempted>>
             /\ \/ bound[k] # plan.start[k] /\ UNCHANGED why
                \/ why' = [why EXCEPT ![k] = "blind"]
    <2>1. why' = [why EXCEPT ![k] = "blind"] => why'[k] # "none"
      BY DEF Core, TypeOK
    <2> QED BY <1>1, <1>2, <1>5, <2>1, MovesInv
  <1> QED BY <1>4, <1>5 DEF Confirm

\* Whoever is signalled held a planned port, as far as could be seen.
LEMMA GroundsHold ==
    ASSUME Core, NEW k \in PIDs, work[k] = "signal", bound[k] = plan.start[k], bound[k] # 0
    PROVE  Grounds(k) \in {"held", "blind"}
  <1>1. k \in Keys /\ k \in Actors /\ k # Planner
    BY Sorts, Bounds
  <1>2. phase = "acting"
    BY <1>1, Live
  <1>3. CASE why[k] # "none"
    BY <1>1, <1>3 DEF Grounds, Core, TypeOK, Linked
  <1>4. CASE why[k] = "none"
    <2>1. ~RowsSayGone(k, obs[k])
      BY <1>1, <1>4 DEF Core, Linked, Left
    <2>2. PICK port \in plan.ports[k] :
              \/ ~obs[k].tableOK \/ obs[k].ownerErr \/ Unattributed(obs[k], port)
              \/ k \in Owners(obs[k], port)
      BY <2>1 DEF RowsSayGone
    <2>3. CASE ~obs[k].tableOK \/ obs[k].ownerErr \/ Unattributed(obs[k], port)
      BY <1>4, <2>3 DEF Grounds
    <2>4. CASE k \in Owners(obs[k], port)
      <3>1. port \in Ports /\ <<port, k>> \in obs[k].rows
        BY <1>1, <1>2, <2>4 DEF Owners, Core, PlanType
      <3>2. PICK b \in 0..MaxStart : <<port, k, b>> \in truth[k].held
        BY <1>1, <3>1 DEF Core, Saw, SawAll, SawRows
      <3>3. b = plan.start[k]
        <4>1. SameProcess(k)
          BY <1>1 DEF Core, Linked
        <4> QED BY <3>2, <4>1 DEF SameProcess
      <3> QED BY <1>4, <3>2, <3>3 DEF Grounds
    <2> QED BY <2>2, <2>3, <2>4
  <1> QED BY <1>3, <1>4

LEMMA SignalInv ==
    ASSUME Core, NEW k \in Keys, Signal(k)
    PROVE  Core'
  <1>1. work[k] = "signal" /\ UNCHANGED <<actFrame, cut>>
    BY DEF Signal
  <1>2. /\ UNCHANGED goFrame /\ stopping' \subseteq Containers /\ k \in PIDs /\ k \in PastLook
        /\ faults' \in 0..MaxFaults
    BY <1>1, FaultsStay DEF Signal, actFrame, world, goFrame, Core, TypeOK, WorldTypeOK, Turns, PastLook
  <1>3. k \in effects => k \in attempted
    BY <1>1 DEF Core, Counted
  <1>4. CASE /\ bound[k] # 0 /\ bound[k] = plan.start[k] /\ Ends(k, "signal_sent", TRUE)
             /\ why' = [why EXCEPT ![k] = Grounds(k)] /\ Acts(k)
    <2>1. Grounds(k) \in {"held", "blind"}
      BY <1>1, <1>2, <1>4, GroundsHold
    <2>2. effects' = effects \cup {k} /\ late' = IF ctx = "dead" THEN late + 1 ELSE late
      BY <1>4 DEF Acts
    <2> QED BY <1>1, <1>2, <1>4, <2>1, <2>2, EndsInv, ResultNames
  <1>5. CASE /\ \/ Ends(k, "identity_changed", FALSE) \/ Ends(k, "not_attempted", FALSE)
                \/ Ends(k, "permission_denied", FALSE) \/ Ends(k, "failed", FALSE)
             /\ UNCHANGED <<why, effects, late>>
    BY <1>1, <1>2, <1>3, <1>5, EndsInv, ResultNames
  <1> QED BY <1>4, <1>5 DEF Signal

LEMMA StopBeginsInv ==
    ASSUME Core, NEW k \in Keys, StopBegins(k)
    PROVE  Core'
  <1>1. /\ work[k] = "stop"
        /\ UNCHANGED <<host, bound, clock, holds, kind, up, moves, phase, plan, skipped,
                       ctx, lookCtx, graceOver, report, faults, why, cut>>
    BY DEF StopBegins
  <1>2. /\ UNCHANGED goFrame /\ stage[k] = "collected" /\ k \in Containers /\ k \in PastLook
        /\ faults' \in 0..MaxFaults
    BY <1>1, FaultsStay DEF goFrame, Core, Turns, PastLook
  <1>3. /\ UNCHANGED <<obs, stage, truth, result, attempted>>
        /\ \/ goto(k, "again") /\ UNCHANGED <<stopping, effects, late>>
           \/ /\ goto(k, "wait") /\ stopping' = stopping \cup {k}
              /\ effects' = effects \cup {k} /\ late' = late
    BY DEF StopBegins, Acts
  <1>4. stopping' \subseteq Containers
    BY <1>2, <1>3, StoppingType
  <1> QED BY <1>1, <1>2, <1>3, <1>4, MovesInv

LEMMA StopEndsInv ==
    ASSUME Core, NEW k \in Keys, StopEnds(k)
    PROVE  Core'
  <1>1. /\ work[k] = "wait"
        /\ UNCHANGED <<host, bound, clock, holds, kind, up, moves, phase, plan, skipped,
                       ctx, lookCtx, graceOver, report, why, late, cut>>
        /\ stopping' \in {stopping, stopping \ {k}}
    BY DEF StopEnds
  <1>2. /\ UNCHANGED goFrame /\ stage[k] = "collected" /\ k \in Containers
        /\ stopping' \subseteq Containers /\ faults' \in 0..MaxFaults
    BY <1>1, FaultsStay DEF StopEnds, goFrame, Core, Turns, TypeOK, WorldTypeOK
  <1>3. CASE /\ \/ Ends(k, "stopped", TRUE) \/ Ends(k, "permission_denied", TRUE)
                \/ Ends(k, "failed", TRUE)
             /\ UNCHANGED effects
    BY <1>1, <1>2, <1>3, EndsInv, ResultNames
  <1>4. CASE Ends(k, "not_attempted", FALSE) /\ effects' = effects \ {k}
    BY <1>1, <1>2, <1>4, EndsInv, ResultNames
  <1>5. CASE goto(k, "again") /\ UNCHANGED <<stopping, faults, effects, obs, stage, truth, result, attempted>>
    BY <1>1, <1>2, <1>5, MovesInv
  <1> QED BY <1>3, <1>4, <1>5 DEF StopEnds

LEMMA AfterStopInv ==
    ASSUME Core, NEW k \in Keys, StopAsksAgain(k) \/ Panics(k)
    PROVE  Core'
  <1>1. /\ work[k] \notin {"idle", "done"} /\ UNCHANGED <<actFrame, why, effects, late, cut>>
        /\ \/ Ends(k, "timeout_unknown", TRUE) \/ Ends(k, "stopped", TRUE)
           \/ Ends(k, "failed", TRUE)
    BY DEF StopAsksAgain, Panics
  <1>2. UNCHANGED goFrame /\ stopping' \subseteq Containers /\ faults' \in 0..MaxFaults
    BY <1>1, FaultsStay DEF StopAsksAgain, Panics, actFrame, world, goFrame, Core, TypeOK, WorldTypeOK
  <1> QED BY <1>1, <1>2, EndsInv, ResultNames

LEMMA ActInv ==
    ASSUME Core, NEW k \in Keys, Act(k)
    PROVE  Core' /\ phase = "acting" /\ UNCHANGED <<phase, report>>
  <1>1. Core'
    BY ActBeginsInv, ActDecidesInv, ConfirmInv, SignalInv, StopBeginsInv, StopEndsInv,
       AfterStopInv DEF Act
  <1>2. work[k] \notin {"idle", "done"}
    BY DEF Act, ActBegins, ActDecides, Confirm, Signal, StopBegins, StopEnds, StopAsksAgain, Panics
  <1>3. UNCHANGED <<phase, report>>
    BY DEF Act, ActBegins, ActDecides, Confirm, Signal, StopBegins, StopEnds, StopAsksAgain, Panics,
       actFrame
  <1> QED BY <1>1, <1>2, <1>3, Live
-----------------------------------------------------------------------------
(* The two commands *)

Phases == {"observing", "saved", "acting", "looking", "done"}

\* A step that looks at nothing and acts on nothing.
LEMMA ControlInv ==
    ASSUME Core, UNCHANGED <<world, plan, obs, stage, work, result, attempted, skipped, faults, history>>,
           phase' \in Phases, {ctx, lookCtx}' \subseteq {"alive", "dead"}, graceOver' \in BOOLEAN,
           phase' = "observing" <=> phase = "observing",
           Turns', Slotted', Counted'
    PROVE  Core'
  <1>1. TypeOK' /\ truth' \in [Actors -> Truths]
    BY DEF Core, TypeOK, Phases, world, WorldTypeOK, history
  <1>2. PlanType' /\ Clocked'
    BY DEF Core, PlanType, Clocked, world
  <1>3. \A a \in Actors : Saw(a)'
    BY DEF Core, Saw, SawAll, SawTable, SawRows, SawDocker, Unread, world, history, OnWindows,
       DockerInstalled
  <1>4. Linked'
    <2>1. UNCHANGED <<bound, plan, obs, truth, work, why>>
      BY DEF world, history
    <2>2. \A a \in Actors \ {Planner} : SameProcess(a)' /\ SameIdent(a)'
      BY <2>1 DEF Core, Linked, SameProcess, SameIdent
    <2>3. \A k \in Keys : Left(k)'
      BY <2>1 DEF Core, Linked, Left, RowsSayGone
    <2> QED BY <2>1, <2>2, <2>3 DEF Core, Linked
  <1> QED BY <1>1, <1>2, <1>3, <1>4 DEF Core

LEMMA MakePlanInv ==
    ASSUME Core, MakePlan
    PROVE  Core' /\ phase' = "saved"
  <1> DEFINE s == obs[Planner]
  <1>1. /\ phase = "observing" /\ phase' = "saved"
        /\ plan' = BuildPlan(s, Mode)
        /\ UNCHANGED <<world, work, result, attempted, skipped, ctx, lookCtx,
                       graceOver, report, faults, why, effects, late, cut>>
        /\ obs' = [obs EXCEPT ![Planner] = Blank(OnWindows)]
        /\ stage' = [stage EXCEPT ![Planner] = "idle"]
        /\ truth' = [truth EXCEPT ![Planner] = NoTruth]
    BY DEF MakePlan, Discard
  <1>2. /\ s \in Snapshot /\ WorldTypeOK /\ Planner \in Actors /\ plan.resources = {}
        /\ attempted = {} /\ effects = {} /\ cut = {}
        /\ \A q \in PIDs : s.start[q] \in 0..clock
    BY <1>1, Bounds DEF Core, TypeOK, PlanType, Clocked
  <1>3. \A k \in Keys : work[k] = "idle"
    BY <1>1 DEF Core, Turns
  <1>4. /\ plan'.resources \subseteq Keys /\ plan'.ports \in [Keys -> SUBSET Ports]
        /\ plan'.start \in [PIDs -> 0..clock]
    <2>1. \A port \in Ports : UsedOn(s, Mode, port) \subseteq Keys
      BY DEF UsedOn, Owners, Publishers, Keys
    <2>2. s.start \in [PIDs -> 0..clock]
      BY <1>2 DEF Snapshot
    <2>3. /\ plan'.resources = UNION {UsedOn(s, Mode, port) : port \in Ports}
          /\ plan'.ports = [k \in Keys |-> {port \in Ports : k \in UsedOn(s, Mode, port)}]
          /\ plan'.start = s.start
      BY <1>1 DEF BuildPlan
    <2> QED BY <2>1, <2>2, <2>3
  <1>5. /\ obs' \in [Actors -> Snapshot] /\ truth' \in [Actors -> Truths]
        /\ stage' \in [Actors -> {"idle", "table", "owners", "docker", "idents", "collected"}]
        /\ obs'[Planner] = Blank(OnWindows) /\ stage'[Planner] = "idle" /\ truth'[Planner] = NoTruth
        /\ \A a \in Actors : a # Planner => obs'[a] = obs[a] /\ truth'[a] = truth[a] /\ stage'[a] = stage[a]
    BY <1>1, <1>2, BlankFacts DEF Core, TypeOK
  <1>6. InFlight' = {} /\ PastLook' = {} /\ ctx = "alive" /\ late = 0
    BY <1>1, <1>3 DEF InFlight, PastLook, Core, Slotted
  <1>7. Cardinality({}) = 0 /\ Cardinality(plan'.resources) \in Nat
    BY <1>4, Bounds, FS_EmptySet, FS_Subset, FS_CardinalityType
  <1>8. TypeOK'
    BY <1>1, <1>2, <1>4, <1>5, <1>6, <1>7 DEF Core, TypeOK, world, WorldTypeOK
  <1>9. PlanType' /\ Clocked'
    <2>1. \A q \in PIDs : Blank(OnWindows).start[q] \in 0..clock
      BY <1>2, BlankFacts, Sorts DEF WorldTypeOK
    <2> QED BY <1>1, <1>4, <1>5, <2>1 DEF Core, PlanType, Clocked, world
  <1>10. Turns' /\ Slotted' /\ Counted'
    <2>1. Turns'
      BY <1>1, <1>3, <1>5, Bounds DEF Core, Turns
    <2> QED BY <1>1, <1>2, <1>6, <1>7, <2>1, Bounds DEF Slotted, Counted
  <1>11. \A a \in Actors : Saw(a)'
    <2>1. OnWindows' = OnWindows /\ DockerInstalled' = DockerInstalled
      BY <1>1 DEF world, OnWindows, DockerInstalled
    <2>2. \A a \in Actors : SawAll(obs'[a], truth'[a], stage'[a])
      BY <1>2, <1>5, BlankFacts DEF Core, Saw
    <2> QED BY <2>1, <2>2 DEF Saw, SawAll, SawTable, SawRows, SawDocker, Unread
  <1>12. Linked'
    <2>1. ASSUME NEW a \in Actors \ {Planner} PROVE truth'[a].held = {}
      BY <1>1, <1>5, <2>1, NothingSeen, NoTruthHeld
    <2>2. \A a \in Actors \ {Planner} : SameProcess(a)' /\ SameIdent(a)'
      BY <2>1 DEF SameProcess, SameIdent
    <2>3. \A k \in Keys : Left(k)'
      BY <1>1, <1>3 DEF Left
    <2> QED BY <1>1, <2>2, <2>3 DEF Core, Linked
  <1> QED BY <1>1, <1>5, <1>8, <1>9, <1>10, <1>11, <1>12 DEF Core

LEMMA ReportsNothing ==
    ASSUME Core, phase = "saved",
           ApplyExpired \/ (ApplyStarts /\ phase' = "done")
    PROVE  Core' /\ OriginalWasOriginal' /\ RefusedWasThere' /\ FreeWasFree' /\ GoneWasGone'
  <1>1. /\ UNCHANGED <<world, plan, obs, stage, work, result, attempted, skipped,
                       ctx, lookCtx, graceOver, faults, history>>
        /\ phase' = "done"
    BY DEF ApplyExpired, ApplyStarts
  <1>2. /\ report'.status = [port \in Ports |-> "not_observed"]
        /\ report'.gone = {} /\ report'.executed = Cardinality(attempted)
    BY DEF ApplyExpired, ApplyStarts, Report
  <1>3. Turns'
    BY <1>1 DEF Core, Turns
  <1>4. Slotted' /\ Counted'
    BY <1>1, <1>2 DEF Core, Slotted, Counted, InFlight, PastLook, history
  <1>5. Core'
    BY <1>1, <1>3, <1>4, ControlInv DEF Phases, Core, TypeOK
  <1>6. OriginalWasOriginal' /\ RefusedWasThere' /\ FreeWasFree' /\ GoneWasGone'
    BY <1>2 DEF OriginalWasOriginal, RefusedWasThere, FreeWasFree, GoneWasGone, Reported
  <1> QED BY <1>5, <1>6

LEMMA PhaseInv ==
    ASSUME Core, ActionsDone \/ Cancel \/ GraceEnds \/ (ApplyStarts /\ phase' # "done")
    PROVE  Core' /\ phase' # "done"
  <1>1. /\ UNCHANGED <<world, plan, obs, stage, work, result, attempted, skipped, lookCtx,
                       report, faults, history>>
        /\ phase \in {"saved", "acting", "looking"} /\ phase' \in {"acting", "looking"}
        /\ phase = "looking" => phase' = "looking"
        /\ phase = "saved" => phase' = "acting"
    BY DEF ActionsDone, Cancel, GraceEnds, ApplyStarts
  <1>2. ctx' \in {"alive", "dead"} /\ graceOver' \in BOOLEAN /\ lookCtx \in {"alive", "dead"}
    BY DEF ActionsDone, Cancel, GraceEnds, ApplyStarts, Core, TypeOK
  <1>3. phase = "acting" /\ phase' = "looking" => \A k \in Keys : work[k] \in {"idle", "done"}
    BY DEF ActionsDone, Cancel, GraceEnds, ApplyStarts, Core, Turns
  <1>4. Turns'
    BY <1>1, <1>3 DEF Core, Turns
  <1>5. Counted'
    BY <1>1 DEF Core, Counted, history
  <1>6. Slotted'
    <2>1. InFlight' = InFlight /\ PastLook' = PastLook /\ late' = late
      BY <1>1 DEF InFlight, PastLook, history
    <2>2. ctx' = ctx \/ (ctx = "alive" /\ ctx' = "dead")
      BY DEF ActionsDone, Cancel, GraceEnds, ApplyStarts
    <2>3. /\ Cardinality(PastLook) <= Cardinality(InFlight)
          /\ Cardinality(PastLook) <= Cardinality(plan.resources)
      BY Slots, FS_Subset
    <2>4. ctx = "alive" => late = 0
      BY DEF Core, Slotted
    <2> QED BY <1>1, <2>1, <2>2, <2>3, <2>4, Slots, Bounds DEF Core, Slotted
  <1> QED BY <1>1, <1>2, <1>4, <1>5, <1>6, ControlInv DEF Phases

LEMMA DispatchInv ==
    ASSUME Core, NEW k \in Keys, Dispatch(k)
    PROVE  Core' /\ phase' # "done"
  <1>1. /\ phase = "acting" /\ k \in plan.resources /\ work[k] = "idle"
        /\ Cardinality(InFlight) < MaxConcurrent
        /\ UNCHANGED <<world, phase, plan, obs, stage, result, attempted, ctx, lookCtx,
                       graceOver, report, faults, truth, why, effects, late>>
        /\ skipped' \in BOOLEAN /\ cut' \in {cut, cut \cup {k}}
    BY DEF Dispatch, Undispatched, Core, TypeOK
  <1>2. PICK step \in {"begin", "done"} : /\ work' = [work EXCEPT ![k] = step]
                                          /\ step = "begin" => ctx = "alive"
    BY DEF Dispatch, Core, TypeOK
  <1>3. /\ work' \in [Keys -> {"idle", "begin", "collect", "confirm", "signal", "stop", "wait",
                               "again", "done"}]
        /\ work'[k] = step /\ \A l \in Keys : l # k => work'[l] = work[l]
    BY <1>2 DEF Core, TypeOK
  <1>4. TypeOK' /\ truth' \in [Actors -> Truths]
    BY <1>1, <1>3 DEF Core, TypeOK, world, WorldTypeOK
  <1>5. PlanType' /\ Clocked'
    BY <1>1 DEF Core, PlanType, Clocked, world
  <1>6. Turns'
    BY <1>1, <1>3 DEF Core, Turns
  <1>7. Slotted'
    <2>1. PastLook' = PastLook
      BY <1>1, <1>3 DEF PastLook
    <2>2. InFlight' \subseteq InFlight \cup {k}
      BY <1>1, <1>3 DEF InFlight
    <2>3. /\ IsFiniteSet(InFlight \cup {k})
          /\ Cardinality(InFlight \cup {k}) <= Cardinality(InFlight) + 1
          /\ Cardinality(InFlight \cup {k}) \in Nat
      <3>1. IsFiniteSet(InFlight) /\ Cardinality(InFlight) \in Nat
        BY Slots
      <3>2. /\ IsFiniteSet(InFlight \cup {k})
            /\ \/ Cardinality(InFlight \cup {k}) = Cardinality(InFlight) + 1
               \/ Cardinality(InFlight \cup {k}) = Cardinality(InFlight)
        BY <3>1, FS_AddElement
      <3> QED BY <3>1, <3>2
    <2>4. Cardinality(InFlight') <= Cardinality(InFlight \cup {k}) /\ Cardinality(InFlight') \in Nat
      BY <2>2, <2>3, FS_Subset, FS_CardinalityType
    <2> QED BY <1>1, <2>1, <2>3, <2>4, Slots, Bounds DEF Core, Slotted
  <1>8. Counted'
    <2>1. \A l \in effects : l \in Keys /\ (l \in attempted \/ work[l] \in {"wait", "again"})
      BY DEF Core, TypeOK, Counted
    <2> QED BY <1>1, <1>3, <2>1 DEF Counted
  <1>9. \A a \in Actors : Saw(a)'
    BY <1>1 DEF Core, Saw, SawAll, SawTable, SawRows, SawDocker, Unread, world, OnWindows,
       DockerInstalled
  <1>10. Linked'
    <2>1. UNCHANGED <<bound, plan, obs, truth, why>>
      BY <1>1 DEF world
    <2>2. \A a \in Actors \ {Planner} : SameProcess(a)' /\ SameIdent(a)'
      BY <2>1 DEF Core, Linked, SameProcess, SameIdent
    <2>3. \A l \in Keys : Left(l)'
      BY <1>3, <2>1 DEF Core, Linked, Left, RowsSayGone
    <2> QED BY <2>1, <2>2, <2>3 DEF Core, Linked
  <1> QED BY <1>1, <1>4, <1>5, <1>6, <1>7, <1>8, <1>9, <1>10 DEF Core

\* The goroutine that looks at the outcome starts over.
LEMMA StartsOverInv ==
    ASSUME Core, NEW st \in {"idle", "table"}, phase = "looking",
           obs' = [obs EXCEPT ![Observer] = Blank(OnWindows)],
           stage' = [stage EXCEPT ![Observer] = st],
           truth' = [truth EXCEPT ![Observer] = NoTruth],
           UNCHANGED <<world, phase, plan, work, result, attempted, skipped, ctx, graceOver,
                       report, faults, why, effects, late, cut>>,
           lookCtx' \in {"alive", "dead"}
    PROVE  Core'
  <1>1. WorldTypeOK /\ Observer \in Actors /\ Observer # Planner /\ Observer \notin Keys
    BY Bounds DEF Core, TypeOK
  <1>2. /\ obs' \in [Actors -> Snapshot] /\ truth' \in [Actors -> Truths]
        /\ stage' \in [Actors -> {"idle", "table", "owners", "docker", "idents", "collected"}]
        /\ obs'[Observer] = Blank(OnWindows) /\ stage'[Observer] = st /\ truth'[Observer] = NoTruth
        /\ \A a \in Actors : a # Observer => obs'[a] = obs[a] /\ truth'[a] = truth[a] /\ stage'[a] = stage[a]
    BY <1>1, BlankFacts DEF Core, TypeOK
  <1>3. TypeOK'
    BY <1>2 DEF Core, TypeOK, world, WorldTypeOK
  <1>4. PlanType' /\ Clocked'
    <2>1. \A q \in PIDs : Blank(OnWindows).start[q] \in 0..clock
      BY <1>1, BlankFacts, Sorts DEF WorldTypeOK
    <2> QED BY <1>2, <2>1 DEF Core, PlanType, Clocked, world
  <1>5. Turns'
    BY <1>1, <1>2, Bounds DEF Core, Turns
  <1>6. Slotted' /\ Counted'
    BY DEF Core, Slotted, Counted, InFlight, PastLook
  <1>7. \A a \in Actors : Saw(a)'
    <2>1. OnWindows' = OnWindows /\ DockerInstalled' = DockerInstalled
      BY DEF world, OnWindows, DockerInstalled
    <2>2. \A a \in Actors : SawAll(obs'[a], truth'[a], stage'[a])
      BY <1>1, <1>2, BlankFacts DEF Core, Saw
    <2> QED BY <2>1, <2>2 DEF Saw, SawAll, SawTable, SawRows, SawDocker, Unread
  <1>8. Linked'
    <2>1. UNCHANGED <<bound, plan, work, why>>
      BY DEF world
    <2>2. \A a \in Actors \ {Planner} : SameProcess(a)' /\ SameIdent(a)'
      BY <1>2, <2>1, NoTruthHeld DEF Core, Linked, SameProcess, SameIdent
    <2>3. \A k \in Keys : Left(k)'
      BY <1>1, <1>2, <2>1, Bounds DEF Core, Linked, Left, RowsSayGone
    <2> QED BY <2>1, <2>2, <2>3 DEF Core, Linked
  <1> QED BY <1>2, <1>3, <1>4, <1>5, <1>6, <1>7, <1>8 DEF Core

LEMMA LookInv ==
    ASSUME Core, LookBegins \/ LookAgain
    PROVE  Core' /\ phase' # "done"
  <1>1. CASE LookAgain
    <2>1. lookCtx' \in {"alive", "dead"}
      BY <1>1 DEF LookAgain, Core, TypeOK
    <2> QED BY <1>1, <2>1, StartsOverInv DEF LookAgain, Discard
  <1>2. CASE LookBegins
    <2>1. /\ phase = "looking" /\ stage' = [stage EXCEPT ![Observer] = "table"]
          /\ UNCHANGED <<world, phase, plan, obs, truth, work, result, attempted, skipped,
                         ctx, graceOver, report, faults, why, effects, late, cut>>
          /\ lookCtx' \in {"alive", "dead"}
      BY <1>2 DEF LookBegins, Core, TypeOK, history
    <2>2. obs[Observer] = Blank(OnWindows) /\ truth[Observer] = NoTruth
      <3>1. SawAll(obs[Observer], truth[Observer], "idle")
        BY <1>2, Bounds DEF LookBegins, Core, Saw
      <3> QED BY <3>1 DEF SawAll, Unread
    <2>3. /\ obs' = [obs EXCEPT ![Observer] = Blank(OnWindows)]
          /\ truth' = [truth EXCEPT ![Observer] = NoTruth]
      BY <2>1, <2>2 DEF Core, TypeOK
    <2> QED BY <2>1, <2>3, StartsOverInv
  <1> QED BY <1>1, <1>2
-----------------------------------------------------------------------------
(* The report *)

\* "free" is said of a port with nothing in sight, everything being in sight.
LEMMA SaidFree ==
    ASSUME NEW pl, NEW r, NEW s, NEW port, Status(pl, r, s, port) = "free"
    PROVE  /\ s.tableOK /\ port \notin s.tableHas
           /\ ~s.dockerErr /\ Publishers(s, port) = {}
  <1>1. Visibility(s, port) = "complete" /\ ~Occupied(s, port)
    BY DEF Status
  <1>2. Publishers(s, port) = {} /\ Owners(s, port) = {} /\ ~TableOccupied(s, port)
    BY <1>1 DEF Occupied
  <1>3. ~s.dockerErr /\ s.tableOK
    BY <1>1, <1>2 DEF Visibility
  <1> QED BY <1>2, <1>3 DEF TableOccupied

\* "blocked by original" is said of a planned process whose identity was read,
\* or of a planned container.
LEMMA SaidOriginal ==
    ASSUME NEW pl, NEW r, NEW s, NEW port, Status(pl, r, s, port) = "blocked_by_original"
    PROVE  \/ \E p \in PIDs : /\ p \in pl.resources /\ <<port, p>> \in s.rows
                              /\ s.ident[p] = "ok" /\ pl.start[p] = s.start[p]
           \/ \E c \in Containers : c \in pl.resources /\ port \in s.publishes[c]
  <1>1. "original" \in Flags(pl, r, s, port)
    BY DEF Status
  <1>2. \/ \E p \in Owners(s, port) : OwnerFlag(pl, s, port, p) = "original"
        \/ \E c \in Publishers(s, port) : ContainerFlag(pl, r, port, c) = "original"
    BY <1>1 DEF Flags
  <1>3. ASSUME NEW p \in Owners(s, port), OwnerFlag(pl, s, port, p) = "original"
        PROVE  /\ p \in PIDs /\ p \in pl.resources /\ <<port, p>> \in s.rows
               /\ s.ident[p] = "ok" /\ pl.start[p] = s.start[p]
    BY <1>3 DEF OwnerFlag, Owners, PlannedOn
  <1>4. ASSUME NEW c \in Publishers(s, port), ContainerFlag(pl, r, port, c) = "original"
        PROVE  c \in Containers /\ c \in pl.resources /\ port \in s.publishes[c]
    BY <1>4 DEF ContainerFlag, Publishers, PlannedOn
  <1> QED BY <1>2, <1>3, <1>4

\* "blocked by a refused owner" is said of a PID or a container name the plan
\* refused there, or of a hidden owner where the plan met one.
LEMMA SaidRefused ==
    ASSUME NEW pl, NEW r, NEW s, NEW port, Status(pl, r, s, port) = "blocked_by_refused_owner"
    PROVE  \/ \E p \in PIDs : p \in pl.refusedPID[port] /\ <<port, p>> \in s.rows
           \/ \E c \in Containers : port \in s.publishes[c] /\ RefusedName(pl, port, c)
           \/ port \in pl.refusedHidden /\ HiddenOwner(s, port)
  <1>1. "refused" \in Flags(pl, r, s, port)
    BY DEF Status
  <1>2. \/ \E p \in Owners(s, port) : OwnerFlag(pl, s, port, p) = "refused"
        \/ \E c \in Publishers(s, port) : ContainerFlag(pl, r, port, c) = "refused"
        \/ port \in pl.refusedHidden /\ HiddenOwner(s, port)
    BY <1>1 DEF Flags
  <1>3. ASSUME NEW p \in Owners(s, port), OwnerFlag(pl, s, port, p) = "refused"
        PROVE  p \in PIDs /\ p \in pl.refusedPID[port] /\ <<port, p>> \in s.rows
    BY <1>3 DEF OwnerFlag, Owners
  <1>4. ASSUME NEW c \in Publishers(s, port), ContainerFlag(pl, r, port, c) = "refused"
        PROVE  c \in Containers /\ port \in s.publishes[c] /\ RefusedName(pl, port, c)
    BY <1>4 DEF ContainerFlag, Publishers
  <1> QED BY <1>2, <1>3, <1>4

LEMMA LookEndsInv ==
    ASSUME Core, LookEnds
    PROVE  Core' /\ OriginalWasOriginal' /\ RefusedWasThere' /\ FreeWasFree' /\ GoneWasGone'
  <1> DEFINE s == obs[Observer]
             t == truth[Observer]
  <1>1. /\ phase = "looking" /\ phase' = "done" /\ stage[Observer] = "collected"
        /\ UNCHANGED <<world, plan, obs, stage, work, result, attempted, skipped,
                       ctx, lookCtx, graceOver, faults, history>>
        /\ report'.status = statusNow /\ report'.executed = Cardinality(attempted)
        /\ report'.gone = {k \in plan.resources : VerifiedGone(k)}
    BY DEF LookEnds
  <1>2. Turns'
    BY <1>1 DEF Core, Turns
  <1>3. Slotted' /\ Counted'
    BY <1>1 DEF Core, Slotted, Counted, InFlight, PastLook, history
  <1>4. Core'
    BY <1>1, <1>2, <1>3, ControlInv DEF Phases, Core, TypeOK
  <1>5. /\ SawTable(s, t) /\ SawRows(s, t) /\ SawDocker(s, t, "collected") /\ SameIdent(Observer)
        /\ s \in Snapshot /\ t \in Truths
    BY <1>1, Bounds DEF Core, Saw, SawAll, Linked, TypeOK
  <1>6. UNCHANGED <<bound, plan, truth>> /\ DockerInstalled' = DockerInstalled
    BY <1>1 DEF world, history, DockerInstalled
  <1>7. \A c \in Containers : s.publishes[c] # {} =>
            s.dockerAvail /\ ~s.dockerErr /\ c \in t.up /\ s.publishes[c] = Publishes[c]
    BY <1>5, Sorts DEF SawDocker, Running
  <1>8. \A port \in Ports : report'.status[port] = Status(plan, result, s, port)
    BY <1>1 DEF statusNow, Classify
  <1>9. OriginalWasOriginal'
    <2>1. ASSUME NEW port \in Ports, Status(plan, result, s, port) = "blocked_by_original"
          PROVE  \/ \E p \in PIDs \cap plan.resources : <<port, p, plan.start[p]>> \in t.held
                 \/ \E c \in Containers \cap plan.resources : port \in Publishes[c] /\ c \in t.up
      <3>1. CASE \E p \in PIDs : /\ p \in plan.resources /\ <<port, p>> \in s.rows
                                 /\ s.ident[p] = "ok" /\ plan.start[p] = s.start[p]
        <4>1. PICK p \in PIDs : /\ p \in plan.resources /\ <<port, p>> \in s.rows
                                /\ s.ident[p] = "ok" /\ plan.start[p] = s.start[p]
          BY <3>1
        <4>2. PICK b \in 0..MaxStart : <<port, p, b>> \in t.held
          BY <1>5, <4>1 DEF SawRows
        <4>3. b = plan.start[p]
          BY <1>5, <4>1, <4>2 DEF SameIdent
        <4> QED BY <4>1, <4>2, <4>3
      <3>2. CASE \E c \in Containers : c \in plan.resources /\ port \in s.publishes[c]
        BY <1>7, <3>2
      <3> QED BY <2>1, <3>1, <3>2, SaidOriginal
    <2> QED BY <1>6, <1>8, <2>1 DEF OriginalWasOriginal
  <1>10. FreeWasFree'
    <2>1. ASSUME NEW port \in Ports, Status(plan, result, s, port) = "free"
          PROVE  /\ port \in t.free
                 /\ DockerInstalled => port \notin UNION {Publishes[c] : c \in t.up}
      <3>1. /\ s.tableOK /\ port \notin s.tableHas
            /\ ~s.dockerErr /\ Publishers(s, port) = {}
        BY <2>1, SaidFree
      <3>2. port \in t.free
        BY <1>5, <3>1 DEF SawTable
      <3>3. ASSUME DockerInstalled, NEW c \in t.up, port \in Publishes[c] PROVE FALSE
        <4>1. s.dockerAvail /\ s.publishes = Running(t.up) /\ c \in Containers
          BY <1>5, <3>1, <3>3 DEF SawDocker, Truths
        <4>2. port \in s.publishes[c]
          BY <3>3, <4>1 DEF Running
        <4> QED BY <3>1, <4>1, <4>2 DEF Publishers
      <3> QED BY <3>2, <3>3
    <2> QED BY <1>6, <1>8, <2>1 DEF FreeWasFree
  <1>11. GoneWasGone'
    <2>1. ASSUME NEW k \in plan.resources, VerifiedGone(k)
          PROVE  /\ k \in PIDs => bound[k] # plan.start[k]
                 /\ k \in Containers => k \notin t.up
      <3>1. k \in PIDs => k \notin Containers
        BY Sorts
      <3>2. k \in Containers => s.dockerAvail /\ ~s.dockerErr /\ k \notin s.dockerIDs
        BY <2>1 DEF VerifiedGone
      <3> QED BY <1>5, <2>1, <3>1, <3>2 DEF VerifiedGone, SawDocker
    <2> QED BY <1>1, <1>6, <2>1 DEF GoneWasGone
  <1>12. RefusedWasThere'
    <2>1. ASSUME NEW port \in Ports, Status(plan, result, s, port) = "blocked_by_refused_owner"
          PROVE  \/ \E h \in t.held : h[1] = port /\ h[2] \in plan.refusedPID[port]
                 \/ \E c \in t.up : port \in Publishes[c] /\ RefusedName(plan, port, c)
                 \/ port \in plan.refusedHidden /\ HiddenOwner(s, port)
      <3>1. CASE \E p \in PIDs : p \in plan.refusedPID[port] /\ <<port, p>> \in s.rows
        <4>1. PICK p \in PIDs : p \in plan.refusedPID[port] /\ <<port, p>> \in s.rows
          BY <3>1
        <4>2. PICK b \in 0..MaxStart : <<port, p, b>> \in t.held
          BY <1>5, <4>1 DEF SawRows
        <4> QED BY <4>1, <4>2
      <3>2. CASE \E c \in Containers : port \in s.publishes[c] /\ RefusedName(plan, port, c)
        BY <1>7, <3>2
      <3> QED BY <2>1, <3>1, <3>2, SaidRefused
    <2>2. obs' = obs
      BY <1>1
    <2> QED BY <1>6, <1>8, <2>1, <2>2 DEF RefusedWasThere
  <1> QED BY <1>4, <1>9, <1>10, <1>11, <1>12
-----------------------------------------------------------------------------
(* The machine moves *)
LEMMA WorldMovesInv ==
    ASSUME Core, WorldMoves
    PROVE  Core' /\ phase' # "done"
  <1>1. /\ phase # "done" /\ WorldNext /\ WorldTypeOK
        /\ UNCHANGED <<phase, plan, obs, stage, work, result, attempted, skipped, ctx,
                       lookCtx, graceOver, report, faults, truth, why, effects, late, cut>>
    BY DEF WorldMoves, run, history, Core, TypeOK
  <1>2. /\ WorldTypeOK' /\ host' = host
        /\ clock \in Nat /\ clock' \in Nat /\ clock <= clock'
        /\ \A p \in PIDs : \/ bound'[p] = bound[p]
                           \/ bound'[p] = 0
                           \/ bound'[p] \in (clock + 1)..clock'
    BY <1>1, WorldTypes, WorldAges
  <1>3. TypeOK' /\ truth' \in [Actors -> Truths]
    BY <1>1, <1>2 DEF Core, TypeOK
  <1>4. PlanType'
    <2>1. 0..clock \subseteq 0..clock'
      BY <1>2
    <2> QED BY <1>1, <2>1 DEF Core, PlanType
  <1>5. Clocked'
    BY <1>1, <1>2 DEF Core, Clocked
  <1>6. Turns' /\ Slotted' /\ Counted'
    BY <1>1 DEF Core, Turns, Slotted, Counted, InFlight, PastLook
  <1>7. \A a \in Actors : Saw(a)'
    BY <1>1, <1>2 DEF Core, Saw, SawAll, SawTable, SawRows, SawDocker, Unread, OnWindows,
       DockerInstalled
  <1>8. phase \notin {"observing", "saved"} =>
            \A p \in PIDs : bound'[p] = plan.start[p] /\ bound'[p] # 0 => bound'[p] = bound[p]
    <2>1. ASSUME phase \notin {"observing", "saved"}, NEW p \in PIDs,
                 bound'[p] = plan.start[p], bound'[p] # 0
          PROVE  bound'[p] = bound[p]
      <3>1. plan.start[p] \in 0..clock
        BY <2>1 DEF Core, PlanType
      <3> QED BY <1>2, <2>1, <3>1
    <2> QED BY <2>1
  <1>9. Linked'
    <2>1. ASSUME NEW a \in Actors \ {Planner} PROVE SameProcess(a)'
      <3>1. CASE phase \in {"observing", "saved"}
        <4>1. truth[a].held = {}
          BY <3>1, NothingSeen, NoTruthHeld
        <4> QED BY <1>1, <4>1 DEF SameProcess
      <3>2. CASE phase \notin {"observing", "saved"}
        <4>1. SameProcess(a) /\ \A h \in truth[a].held : h[2] \in PIDs
          BY DEF Core, Linked, Truths
        <4> QED BY <1>1, <1>8, <3>2, <4>1 DEF SameProcess
      <3> QED BY <3>1, <3>2
    <2>2. ASSUME NEW a \in Actors \ {Planner} PROVE SameIdent(a)'
      BY <1>1 DEF Core, Linked, SameIdent
    <2>3. ASSUME NEW k \in Keys PROVE Left(k)'
      <3>1. CASE work[k] # "signal"
        BY <1>1, <3>1 DEF Left
      <3>2. CASE work[k] = "signal"
        <4>1. k \in PIDs /\ phase \notin {"observing", "saved"} /\ Left(k)
          BY <3>2, Live DEF Core, Turns, Linked
        <4>2. RowsSayGone(k, obs[k])' = RowsSayGone(k, obs[k])
          BY <1>1 DEF RowsSayGone
        <4> QED BY <1>1, <1>8, <3>2, <4>1, <4>2 DEF Left
      <3> QED BY <3>1, <3>2
    <2> QED BY <1>1, <2>1, <2>2, <2>3 DEF Core, Linked
  <1> QED BY <1>1, <1>3, <1>4, <1>5, <1>6, <1>7, <1>9 DEF Core
-----------------------------------------------------------------------------
(* Every step *)

LEMMA StutterInv ==
    ASSUME ApplyInv, UNCHANGED vars
    PROVE  ApplyInv'
  <1>1. UNCHANGED <<host, bound, clock, holds, kind, up, stopping, moves>>
    BY DEF vars, world
  <1>2. UNCHANGED <<phase, plan, obs, stage, work, result, attempted, skipped, ctx,
                    lookCtx, graceOver, report, faults, truth, why, effects, late, cut>>
    BY DEF vars, run, history
  <1>3. Core'
    <2>1. TypeOK' /\ truth' \in [Actors -> Truths]
      BY <1>1, <1>2 DEF ApplyInv, Core, TypeOK, WorldTypeOK
    <2>2. PlanType' /\ Clocked' /\ Turns'
      BY <1>1, <1>2 DEF ApplyInv, Core, PlanType, Clocked, Turns
    <2>3. Slotted' /\ Counted'
      BY <1>1, <1>2 DEF ApplyInv, Core, Slotted, Counted, InFlight, PastLook
    <2>4. \A a \in Actors : Saw(a)'
      BY <1>1, <1>2 DEF ApplyInv, Core, Saw, SawAll, SawTable, SawRows, SawDocker, Unread,
         OnWindows, DockerInstalled
    <2>5. Linked'
      BY <1>1, <1>2 DEF ApplyInv, Core, Linked, SameProcess, SameIdent, Left, RowsSayGone
    <2> QED BY <2>1, <2>2, <2>3, <2>4, <2>5 DEF Core
  <1>4. OriginalWasOriginal' /\ RefusedWasThere' /\ FreeWasFree' /\ GoneWasGone'
    BY <1>1, <1>2 DEF ApplyInv, OriginalWasOriginal, RefusedWasThere, FreeWasFree, GoneWasGone, Reported,
       DockerInstalled
  <1> QED BY <1>3, <1>4 DEF ApplyInv

LEMMA ApplyStep == ApplyInv /\ [Next]_vars => ApplyInv'
  <1> SUFFICES ASSUME ApplyInv, [Next]_vars PROVE ApplyInv'
    OBVIOUS
  <1>1. Core
    BY DEF ApplyInv
  <1>2. CASE UNCHANGED vars \/ Done
    BY <1>2, StutterInv DEF Done
  <1>3. ASSUME Core', phase' # "done" PROVE ApplyInv'
    BY <1>3 DEF ApplyInv, OriginalWasOriginal, RefusedWasThere, FreeWasFree, GoneWasGone, Reported
  <1>4. ASSUME NEW a \in Actors, CollectStep(a) PROVE ApplyInv'
    BY <1>1, <1>3, <1>4, CollectStepInv
  <1>5. ASSUME NEW k \in Keys, Act(k) PROVE ApplyInv'
    BY <1>1, <1>3, <1>5, ActInv
  <1>6. ASSUME NEW k \in Keys, Dispatch(k) PROVE ApplyInv'
    BY <1>1, <1>3, <1>6, DispatchInv
  <1>7. CASE MakePlan
    BY <1>1, <1>3, <1>7, MakePlanInv
  <1>8. CASE ApplyExpired \/ ApplyStarts
    <2>1. phase = "saved"
      BY <1>8 DEF ApplyExpired, ApplyStarts
    <2>2. CASE ApplyExpired \/ (ApplyStarts /\ phase' = "done")
      BY <1>1, <2>1, <2>2, ReportsNothing DEF ApplyInv
    <2>3. CASE ApplyStarts /\ phase' # "done"
      BY <1>1, <1>3, <2>3, PhaseInv
    <2> QED BY <1>8, <2>2, <2>3
  <1>9. CASE ActionsDone \/ Cancel \/ GraceEnds
    BY <1>1, <1>3, <1>9, PhaseInv
  <1>10. CASE LookBegins \/ LookAgain
    BY <1>1, <1>3, <1>10, LookInv
  <1>11. CASE LookEnds
    BY <1>1, <1>11, LookEndsInv DEF ApplyInv
  <1>12. CASE WorldMoves
    BY <1>1, <1>3, <1>12, WorldMovesInv
  <1> QED BY <1>2, <1>4, <1>5, <1>6, <1>7, <1>8, <1>9, <1>10, <1>11, <1>12
      DEF Next, Program, Command
-----------------------------------------------------------------------------
(* What follows *)

LEMMA ApplyAlways == Spec => []ApplyInv
  BY InitApply, ApplyStep, PTL DEF Spec

\* The variables keep their types: only resources of the plan are ever
\* attempted, reached or left out, whatever fails (apply.go:158-159).
THEOREM ApplyTypeCorrect == Spec => []TypeOK
  <1>1. ApplyInv => TypeOK
    BY DEF ApplyInv, Core
  <1> QED BY <1>1, ApplyAlways, PTL

\* A process that is signalled is the planned one and held a planned port when
\* its goroutine read the owners, or that reading was incomplete: a process
\* that gave its port up before its turn came is not signalled
\* (apply.go:261-264, 301-327).
THEOREM SignalledForAReason == Spec => []SignalsJustified
  <1>1. ApplyInv => SignalsJustified
    BY DEF ApplyInv, Core, Linked, SignalsJustified
  <1> QED BY <1>1, ApplyAlways, PTL

\* "blocked by original" is only said when the planned process itself, not one
\* that got its PID later, held the port when the owners were read, or a
\* planned container ran when Docker was asked (apply.go:415-418, 484-485).
THEOREM OriginalsAreOriginal == Spec => []OriginalWasOriginal
  <1>1. ApplyInv => OriginalWasOriginal
    BY DEF ApplyInv
  <1> QED BY <1>1, ApplyAlways, PTL

\* "blocked by a refused owner" is only said when a process under a PID the plan
\* refuses really held the port, a container of a refused name really ran on it,
\* or a port that had an owner the plan could not see has one still
\* (apply.go:474, 489-491, 502-504).
THEOREM RefusedOwnersWereThere == Spec => []RefusedWasThere
  <1>1. ApplyInv => RefusedWasThere
    BY DEF ApplyInv
  <1> QED BY <1>1, ApplyAlways, PTL

\* A port reported free had no process on it when the table was read and no
\* container publishing it when Docker was asked (observe.go:20-22,
\* apply.go:415-418).
THEOREM FreePortsWereFree == Spec => []FreeWasFree
  <1>1. ApplyInv => FreeWasFree
    BY DEF ApplyInv
  <1> QED BY <1>1, ApplyAlways, PTL

\* A resource reported gone was gone: no unavailable source makes it look so
\* (apply.go:528-541).
THEOREM GoneResourcesWereGone == Spec => []GoneWasGone
  <1>1. ApplyInv => GoneWasGone
    BY DEF ApplyInv
  <1> QED BY <1>1, ApplyAlways, PTL

\* Signals delivered and stops accepted are all in actions_executed, whether
\* the goroutine timed out, was cancelled or panicked (apply.go:254-255,
\* 187-190).
THEOREM NoEffectUncounted == Spec => []EffectsCounted
  <1>1. ASSUME ApplyInv PROVE EffectsCounted
    <2>1. SUFFICES ASSUME phase = "done" PROVE Cardinality(effects) <= report.executed
      BY DEF EffectsCounted
    <2>2. Core
      BY <1>1 DEF ApplyInv
    <2>3. effects \subseteq attempted
      <3>1. \A k \in effects : k \in Keys /\ (k \in attempted \/ work[k] \in {"wait", "again"})
        BY <2>2 DEF Core, TypeOK, Counted
      <3>2. \A k \in Keys : work[k] \in {"idle", "done"}
        BY <2>1, <2>2 DEF Core, Turns
      <3> QED BY <3>1, <3>2
    <2>4. IsFiniteSet(attempted)
      BY <2>2, Slots, FS_Subset DEF Core, TypeOK
    <2>5. Cardinality(effects) <= Cardinality(attempted)
      BY <2>3, <2>4, FS_Subset
    <2> QED BY <2>1, <2>2, <2>5 DEF Core, Counted
  <1> QED BY <1>1, ApplyAlways, PTL

\* After the cancellation or the time limit no more actions begin than there
\* are slots, however many resources the plan has (apply.go:57-61, 172-180,
\* 257-267).
THEOREM FewActionsTooLate == Spec => []LateActionsBounded
  <1>1. ASSUME ApplyInv PROVE LateActionsBounded
    <2>1. Core
      BY <1>1 DEF ApplyInv
    <2>2. late \in Nat /\ Cardinality(PastLook) \in Nat
      BY <2>1, Slots DEF Core, TypeOK
    <2>3. ctx \in {"alive", "dead"}
      BY <2>1 DEF Core, TypeOK
    <2> QED BY <2>1, <2>2, <2>3, Bounds DEF Core, Slotted, LateActionsBounded
  <1> QED BY <1>1, ApplyAlways, PTL
-----------------------------------------------------------------------------
(***************************************************************************)
(* What an interrupt left undone.                                            *)
(***************************************************************************)
InterruptInv ==
    /\ ctx = "dead" => phase \in {"acting", "looking", "done"}
    /\ skipped \/ cut # {} => ctx = "dead"
    /\ phase = "done" /\ ctx = "dead" /\ (skipped \/ ~AllFree(report.status)) =>
          report.error /\ report.class = "uncertain"

LEMMA InterruptStep ==
    ASSUME Core, InterruptInv, [Next]_vars
    PROVE  InterruptInv'
  <1>1. CASE LookEnds
    <2>1. /\ phase' = "done" /\ UNCHANGED <<ctx, skipped, cut>>
          /\ report'.status = statusNow /\ report'.error = Interruption
          /\ Interruption => report'.class = "uncertain"
      BY <1>1 DEF LookEnds, history
    <2> QED BY <2>1 DEF InterruptInv, Interruption
  <1>2. ASSUME NEW k \in Keys, Dispatch(k) PROVE InterruptInv'
    <2>1. phase = "acting" /\ UNCHANGED <<phase, ctx, report>>
          /\ (ctx = "dead" \/ UNCHANGED <<skipped, cut>>)
      BY <1>2 DEF Dispatch
    <2> QED BY <2>1 DEF InterruptInv
  <1>3. ASSUME NEW k \in Keys, Act(k) PROVE InterruptInv'
    <2>1. phase = "acting" /\ UNCHANGED <<phase, ctx, skipped>>
      BY <1>3, ActInv DEF Act, ActBegins, ActDecides, Confirm, Signal, StopBegins, StopEnds,
         StopAsksAgain, Panics, actFrame
    <2>2. ctx = "dead" \/ UNCHANGED cut
      BY <1>3 DEF Act, ActBegins, ActDecides, Confirm, Signal, StopBegins, StopEnds,
         StopAsksAgain, Panics, actFrame
    <2> QED BY <2>1, <2>2 DEF InterruptInv
  <1>4. ASSUME ApplyExpired \/ ApplyStarts PROVE InterruptInv'
    <2>1. phase = "saved" /\ phase' \in {"acting", "done"} /\ UNCHANGED <<ctx, skipped, cut>>
      BY <1>4 DEF ApplyExpired, ApplyStarts, history
    <2> QED BY <2>1 DEF InterruptInv
  <1>5. CASE Cancel
    <2>1. /\ phase \in {"acting", "looking"} /\ UNCHANGED <<phase, skipped, cut>>
          /\ ctx' = "dead"
      BY <1>5 DEF Cancel, history
    <2> QED BY <2>1 DEF InterruptInv
  <1>6. ASSUME \/ MakePlan \/ ActionsDone \/ LookBegins \/ LookAgain \/ GraceEnds
               \/ WorldMoves \/ Done \/ UNCHANGED vars
               \/ \E a \in Actors : CollectStep(a)
        PROVE  InterruptInv'
    <2>1. UNCHANGED <<ctx, skipped, cut, report>>
      BY <1>6 DEF MakePlan, ActionsDone, LookBegins, LookAgain, GraceEnds, WorldMoves, Done, vars,
         run, history, CollectStep
    <2>2. \/ phase' = phase
          \/ phase = "observing" /\ phase' = "saved"
          \/ phase = "acting" /\ phase' = "looking"
      BY <1>6 DEF MakePlan, ActionsDone, LookBegins, LookAgain, GraceEnds, WorldMoves, Done, vars,
         run, CollectStep
    <2> QED BY <2>1, <2>2 DEF InterruptInv
  <1> QED BY <1>1, <1>2, <1>3, <1>4, <1>5, <1>6 DEF Next, Program, Command

\* An interrupted apply that left something undone says so, unless it was left to
\* a goroutine and no endpoint is occupied (apply.go:171-182, 202, 257-267).
THEOREM UndoneIsAlwaysSaid == Spec => []UndoneIsSaid
  <1>1. Init => InterruptInv
    BY DEF Init, InterruptInv
  <1>2. ApplyInv /\ InterruptInv /\ [Next]_vars => InterruptInv'
    BY InterruptStep DEF ApplyInv
  <1>3. InterruptInv => UndoneIsSaid
    BY DEF InterruptInv, UndoneIsSaid
  <1> QED BY <1>1, <1>2, <1>3, ApplyAlways, PTL DEF Spec
-----------------------------------------------------------------------------
(***************************************************************************)
(* Apply implements Documents.                                               *)
(*                                                                          *)
(* Beyond the invariant above this needs to know that an observation past    *)
(* its first source is a snapshot Documents admits (Halfway), that what no   *)
(* goroutine finished has no result (LeftAlone), and that the report is the  *)
(* verdict on the results and the last look, or not "ok" (Verdict).         *)
(***************************************************************************)
Halfway(s, st) ==
    /\ s.windows = OnWindows
    /\ st \notin {"idle", "table"} => WellFormed(s)
    /\ st = "owners" => /\ ~s.namesUnavailable /\ \A p \in PIDs : s.name[p] = ""
                        /\ ~OnWindows => ~s.ownerErr
    /\ st \in {"owners", "docker"} => s.dockerIDs = {}
    /\ st \in {"owners", "docker", "idents"} => \A p \in PIDs : s.start[p] = 0

LeftAlone ==
    /\ phase # "observing" => plan.windows = OnWindows
    /\ \A k \in Keys : k \notin plan.resources \/ work[k] # "done" => result[k] = "not_attempted"
    /\ skipped => \E k \in plan.resources : work[k] = "done" /\ result[k] = "not_attempted"

Verdict ==
    /\ Judged =>
          /\ report.status = statusNow
          /\ \/ report.class = ApplyClass(plan, result, report.status, obs[Observer])
             \/ /\ report.class = "uncertain"
                /\ \/ ~AllFree(report.status)
                   \/ \E k \in plan.resources : result[k] = "not_attempted"
    /\ phase = "done" /\ ~Judged => report.class # "ok"

DecisionInv == (\A a \in Actors : Halfway(obs[a], stage[a])) /\ LeftAlone /\ Verdict

LEMMA BlankHalfway ==
    ASSUME WorldTypeOK
    PROVE  Halfway(Blank(OnWindows), "idle") /\ Halfway(Blank(OnWindows), "table")
  BY DEF Halfway, Blank

\* The first source: a table, or on Windows a table and its owners.
LEMMA TableHalfway ==
    ASSUME WorldTypeOK, NEW s2 \in Outcomes("table", Blank(OnWindows))
    PROVE  Halfway(s2, "owners")
  <1> DEFINE s == Blank(OnWindows)
  <1>1. /\ s.windows = OnWindows /\ OnWindows \in BOOLEAN
        /\ s.tableOK = FALSE /\ s.tableHas = {} /\ s.rows = {} /\ s.ownerErr = FALSE
        /\ s.namesUnavailable = FALSE /\ s.dockerAvail = FALSE /\ s.dockerErr = FALSE
        /\ s.dockerIDs = {} /\ \A c \in Containers : s.publishes[c] = {}
        /\ \A p \in PIDs : s.name[p] = "" /\ s.ident[p] = "none" /\ s.start[p] = 0
        /\ s \in Snapshot
    BY HostTools, BlankFacts DEF Blank
  <1>2. \/ \E R \in NetstatRows : s2 = [s EXCEPT !.tableOK = TRUE, !.tableHas = {r[1] : r \in R}, !.rows = R]
              /\ OnWindows
        \/ \E T \in TablesNow : s2 = [s EXCEPT !.tableOK = TRUE, !.tableHas = T] /\ ~OnWindows
        \/ s2 = [s EXCEPT !.ownerErr = TRUE] /\ OnWindows
        \/ s2 = s /\ ~OnWindows
    BY <1>1 DEF Outcomes, ReadStage, FailStage, DegradedStage, ReadTable, TableFails
  <1> HIDE DEF s
  <1>3. /\ s2.windows = OnWindows /\ s2.namesUnavailable = FALSE
        /\ s2.dockerAvail = FALSE /\ s2.dockerErr = FALSE /\ s2.dockerIDs = {}
        /\ s2.publishes = s.publishes /\ s2.name = s.name
        /\ s2.ident = s.ident /\ s2.start = s.start
        /\ ~s2.tableOK => s2.tableHas = {}
        /\ s2.ownerErr => s2.rows = {}
        /\ OnWindows => /\ s2.tableOK <=> ~s2.ownerErr
                        /\ s2.tableHas = {r[1] : r \in s2.rows}
        /\ ~OnWindows => ~s2.ownerErr
    <2>1. CASE OnWindows
      <3>1. CASE s2 = [s EXCEPT !.ownerErr = TRUE]
        <4>1. {r[1] : r \in s2.rows} = {}
          BY <1>1, <3>1 DEF Snapshot
        <4> QED BY <1>1, <2>1, <3>1, <4>1 DEF Snapshot
      <3>2. CASE \E R \in NetstatRows : s2 = [s EXCEPT !.tableOK = TRUE, !.tableHas = {r[1] : r \in R}, !.rows = R]
        BY <1>1, <2>1, <3>2 DEF Snapshot
      <3> QED BY <1>2, <2>1, <3>1, <3>2
    <2>2. CASE ~OnWindows
      BY <1>1, <1>2, <2>2 DEF Snapshot
    <2> QED BY <1>1, <2>1, <2>2
  <1> QED BY <1>1, <1>3 DEF Halfway, WellFormed

\* The owners, or on Windows their names.
LEMMA OwnersHalfway ==
    ASSUME WorldTypeOK, NEW s \in Snapshot, NEW t, SawAll(s, t, "owners"), Halfway(s, "owners"),
           NEW s2 \in Outcomes("owners", s)
    PROVE  Halfway(s2, "docker")
  <1>1. /\ WellFormed(s) /\ s.windows = OnWindows /\ OnWindows \in BOOLEAN
        /\ ~OnWindows => s.rows = {} /\ ~s.ownerErr
        /\ ~s.namesUnavailable /\ \A p \in PIDs : s.name[p] = ""
        /\ s.dockerIDs = {} /\ \A p \in PIDs : s.start[p] = 0
    BY HostTools DEF Halfway, SawAll, Unread
  <1>2. CASE s2 \in ReadOwners(s) /\ OnWindows
    <2> DEFINE names == [p \in PIDs |-> IF p \in Rowed(s) THEN NamesNow[p] ELSE ""]
    <2>1. s2 = [s EXCEPT !.name = names]
      BY <1>2 DEF ReadOwners
    <2> HIDE DEF names
    <2> QED BY <1>1, <1>2, <2>1 DEF Halfway, WellFormed, Snapshot
  <1>3. CASE s2 \in ReadOwners(s) /\ ~OnWindows
    <2> DEFINE names(R) == [p \in PIDs |-> IF R \cap (Ports \X {p}) # {} THEN NamesNow[p] ELSE ""]
    <2>1. PICK R \in RowsNow : s2 = [s EXCEPT !.rows = R, !.name = names(R)]
      BY <1>3 DEF ReadOwners
    <2> HIDE DEF names
    <2> QED BY <1>1, <1>3, <2>1 DEF Halfway, WellFormed, Snapshot
  <1>4. CASE s2 = OwnersFail(s)
    <2>1. CASE OnWindows
      <3>1. s2 = [s EXCEPT !.namesUnavailable = ~s.ownerErr /\ Rowed(s) # {}]
        BY <1>4, <2>1 DEF OwnersFail
      <3> QED BY <1>1, <2>1, <3>1 DEF Halfway, WellFormed, Snapshot
    <2>2. CASE ~OnWindows
      <3>1. s2 = [s EXCEPT !.ownerErr = TRUE]
        BY <1>4, <2>2 DEF OwnersFail
      <3> QED BY <1>1, <2>2, <3>1 DEF Halfway, WellFormed, Snapshot
    <2> QED BY <1>1, <2>1, <2>2
  <1>5. CASE s2 = s
    BY <1>1, <1>5 DEF Halfway
  <1>6. s2 \in ReadOwners(s) \/ s2 = OwnersFail(s) \/ s2 = s
    BY DEF Outcomes, ReadStage, FailStage, DegradedStage
  <1> QED BY <1>1, <1>2, <1>3, <1>4, <1>5, <1>6

\* Docker.
LEMMA DockerHalfway ==
    ASSUME WorldTypeOK, NEW s \in Snapshot, NEW t, SawAll(s, t, "docker"), Halfway(s, "docker"),
           NEW s2 \in Outcomes("docker", s)
    PROVE  Halfway(s2, "idents")
  <1>1. /\ WellFormed(s) /\ s.windows = OnWindows /\ s.dockerIDs = {}
        /\ \A p \in PIDs : s.start[p] = 0
        /\ ~s.dockerAvail /\ ~s.dockerErr /\ s.publishes = Running({})
    BY DEF Halfway, SawAll, SawDocker
  <1>2. \/ s2 = [s EXCEPT !.dockerAvail = TRUE, !.dockerIDs = up, !.publishes = Running(up)]
        \/ s2 = [s EXCEPT !.dockerAvail = TRUE, !.dockerErr = TRUE]
        \/ s2 = s
    <2>1. s2 \in ReadDocker(s) \cup {DockerFails(s)}
      BY DEF Outcomes, ReadStage, FailStage, DegradedStage
    <2> QED BY <2>1 DEF ReadDocker, DockerFails, Running
  <1>3. \A S : \A c \in Containers : Running(S)[c] # {} => c \in S
    BY DEF Running
  <1>4. /\ s2.windows = s.windows /\ s2.tableOK = s.tableOK /\ s2.tableHas = s.tableHas
        /\ s2.rows = s.rows /\ s2.ownerErr = s.ownerErr /\ s2.name = s.name
        /\ s2.namesUnavailable = s.namesUnavailable
        /\ s2.ident = s.ident /\ s2.start = s.start
        /\ s2.dockerErr => s2.dockerAvail
        /\ ~s2.dockerAvail \/ s2.dockerErr => s2.dockerIDs = {}
        /\ \A c \in Containers : s2.publishes[c] # {} => c \in s2.dockerIDs
    <2>1. CASE s2 = [s EXCEPT !.dockerAvail = TRUE, !.dockerIDs = up, !.publishes = Running(up)]
      BY <1>1, <1>3, <2>1 DEF Snapshot
    <2>2. CASE s2 = [s EXCEPT !.dockerAvail = TRUE, !.dockerErr = TRUE]
      BY <1>1, <1>3, <2>2 DEF Snapshot
    <2>3. CASE s2 = s
      BY <1>1, <1>3, <2>3
    <2> QED BY <1>2, <2>1, <2>2, <2>3
  <1> QED BY <1>1, <1>4 DEF Halfway, WellFormed

\* The identities.
LEMMA IdentsHalfway ==
    ASSUME WorldTypeOK, NEW s \in Snapshot, Halfway(s, "idents"),
           NEW s2 \in Outcomes("idents", s)
    PROVE  Halfway(s2, "collected")
  <1> DEFINE ident == [p \in PIDs |-> IF p \notin Rowed(s) THEN "none"
                                      ELSE IF bound[p] = 0 THEN "gone" ELSE "ok"]
             start == [p \in PIDs |-> IF p \in Rowed(s) THEN bound[p] ELSE 0]
             read == [s EXCEPT !.ident = ident, !.start = start]
  <1>1. /\ DOMAIN ident = PIDs /\ DOMAIN start = PIDs
        /\ \A p \in PIDs : ident[p] = "ok" <=> start[p] # 0
    OBVIOUS
  <1>2. s2 = read \/ \E p \in PIDs, r \in {"denied", "none"} : s2 = Unidentified(read, p, r)
    <2>1. ReadIdents(s) = {read}
      BY DEF ReadIdents
    <2> HIDE DEF read
    <2>2. s2 \in ReadIdents(s) \cup IdentsFail(s)
      BY DEF Outcomes, ReadStage, FailStage, DegradedStage
    <2>3. Rowed(s) \subseteq PIDs
      BY DEF Rowed
    <2>4. CASE s2 \in IdentsFail(s)
      <3>1. PICK x \in ReadIdents(s), p \in Rowed(s), r \in {"denied", "none"} :
                s2 = Unidentified(x, p, r)
        BY <2>4 DEF IdentsFail
      <3>2. x = read /\ p \in PIDs
        BY <2>1, <2>3
      <3> QED BY <3>1, <3>2
    <2> QED BY <2>1, <2>2, <2>4
  <1> HIDE DEF ident, start
  <1> DEFINE Same(x) == /\ x.windows = s.windows /\ x.tableOK = s.tableOK /\ x.tableHas = s.tableHas
                        /\ x.rows = s.rows /\ x.ownerErr = s.ownerErr /\ x.name = s.name
                        /\ x.namesUnavailable = s.namesUnavailable
                        /\ x.dockerAvail = s.dockerAvail /\ x.dockerErr = s.dockerErr
                        /\ x.dockerIDs = s.dockerIDs /\ x.publishes = s.publishes
  <1>3. Same(read) /\ read.ident = ident /\ read.start = start
    BY DEF Snapshot
  <1>4. Same(s2) /\ \A p \in PIDs : s2.ident[p] = "ok" <=> s2.start[p] # 0
    <2>1. CASE s2 = read
      BY <1>1, <1>3, <2>1
    <2>2. CASE \E p \in PIDs, r \in {"denied", "none"} : s2 = Unidentified(read, p, r)
      <3>1. PICK p \in PIDs, r \in {"denied", "none"} : s2 = Unidentified(read, p, r)
        BY <2>2
      <3>2. /\ Same(s2)
            /\ s2.ident = [ident EXCEPT ![p] = r] /\ s2.start = [start EXCEPT ![p] = 0]
        BY <1>3, <3>1 DEF Unidentified, Snapshot
      <3> QED BY <1>1, <3>2
    <2> QED BY <1>2, <2>1, <2>2
  <1> QED BY <1>4 DEF Halfway, WellFormed

\* What one step on the goroutine of a resource comes to: it ends, or it goes on
\* to a later step with its observation.
Onward == {<<"collect", "stop">>, <<"collect", "confirm">>, <<"collect", "signal">>,
           <<"confirm", "signal">>, <<"stop", "wait">>, <<"stop", "again">>, <<"wait", "again">>}

Ended(k) == work'[k] = "done" /\ obs'[k] = Blank(OnWindows) /\ stage'[k] = "idle"

WentOn(k) ==
    /\ UNCHANGED <<obs, result>>
    /\ \/ work[k] = "begin" /\ work'[k] = "collect" /\ stage' = [stage EXCEPT ![k] = "table"]
       \/ <<work[k], work'[k]>> \in Onward /\ stage' = stage
          /\ (work[k] = "collect" => stage[k] = "collected")

LEMMA EndsShape ==
    ASSUME Core, NEW k \in Keys, NEW r, NEW counted, Ends(k, r, counted)
    PROVE  /\ \A l \in Keys : l # k => work'[l] = work[l] /\ result'[l] = result[l]
           /\ \A a \in Actors : a # k => obs'[a] = obs[a] /\ stage'[a] = stage[a]
           /\ Ended(k)
  BY Bounds DEF Ends, goto, Discard, Ended, Core, TypeOK

LEMMA ActShape ==
    ASSUME Core, NEW k \in Keys, Act(k)
    PROVE  /\ UNCHANGED <<host, phase, plan, skipped, ctx, lookCtx, graceOver, report>>
           /\ phase = "acting" /\ k \in plan.resources /\ work[k] \notin {"idle", "done"}
           /\ \A l \in Keys : l # k => work'[l] = work[l] /\ result'[l] = result[l]
           /\ \A a \in Actors : a # k => obs'[a] = obs[a] /\ stage'[a] = stage[a]
           /\ Ended(k) \/ WentOn(k)
  <1>1. work[k] \notin {"idle", "done"}
    BY DEF Act, ActBegins, ActDecides, Confirm, Signal, StopBegins, StopEnds, StopAsksAgain, Panics
  <1>2. /\ work \in [Keys -> {"idle", "begin", "collect", "confirm", "signal", "stop", "wait",
                               "again", "done"}]
        /\ result \in [Keys -> ActionResults] /\ k \in Actors
        /\ stage \in [Actors -> {"idle", "table", "owners", "docker", "idents", "collected"}]
    BY Bounds DEF Core, TypeOK
  <1> DEFINE Frame == UNCHANGED <<host, phase, plan, skipped, ctx, lookCtx, graceOver, report>>
             Moved == /\ \A l \in Keys : l # k => work'[l] = work[l] /\ result'[l] = result[l]
                      /\ \A a \in Actors : a # k => obs'[a] = obs[a] /\ stage'[a] = stage[a]
                      /\ Ended(k) \/ WentOn(k)
  <1>3. ASSUME NEW r, NEW counted, Ends(k, r, counted) PROVE Moved
    BY <1>3, EndsShape
  <1>4. ASSUME NEW l, <<work[k], l>> \in Onward, work[k] = "collect" => stage[k] = "collected",
               goto(k, l), UNCHANGED <<obs, stage, result>>
        PROVE  Moved
    BY <1>2, <1>4 DEF goto, WentOn
  <1> HIDE DEF Moved
  <1>5. CASE ActBegins(k)
    <2>1. Frame /\ work[k] = "begin"
      BY <1>5 DEF ActBegins, actFrame, world
    <2>2. ASSUME ctx = "dead" PROVE Moved
      <3>1. \E r, c : Ends(k, r, c)
        BY <1>5, <2>2 DEF ActBegins, Interrupted
      <3> QED BY <1>3, <3>1
    <2>3. ASSUME ctx # "dead" PROVE Moved
      BY <1>2, <1>5, <2>1, <2>3 DEF ActBegins, goto, WentOn, Moved
    <2> QED BY <2>1, <2>2, <2>3, <1>1, Live DEF Moved
  <1>6. CASE ActDecides(k)
    <2>1. Frame /\ work[k] = "collect" /\ stage[k] = "collected"
      BY <1>6 DEF ActDecides, actFrame, world
    <2>2. \/ \E r, c : Ends(k, r, c)
          \/ /\ UNCHANGED <<obs, stage, result>>
             /\ goto(k, "stop") \/ goto(k, "confirm") \/ goto(k, "signal")
      BY <1>6 DEF ActDecides, Interrupted
    <2>3. Moved
      BY <1>3, <1>4, <2>1, <2>2 DEF Onward
    <2> QED BY <2>1, <2>3, <1>1, Live DEF Moved
  <1>7. CASE Confirm(k)
    <2>1. Frame /\ work[k] = "confirm"
      BY <1>7 DEF Confirm, actFrame, world
    <2>2. (\E r, c : Ends(k, r, c)) \/ (goto(k, "signal") /\ UNCHANGED <<obs, stage, result>>)
      BY <1>7 DEF Confirm
    <2>3. Moved
      BY <1>3, <1>4, <2>1, <2>2 DEF Onward
    <2> QED BY <2>1, <2>3, <1>1, Live DEF Moved
  <1>8. CASE Signal(k)
    <2>1. Frame
      BY <1>8 DEF Signal, actFrame, world
    <2>2. \E r, c : Ends(k, r, c)
      BY <1>8 DEF Signal
    <2>3. Moved
      BY <1>3, <2>2
    <2> QED BY <2>1, <2>3, <1>1, Live DEF Moved
  <1>9. CASE StopBegins(k)
    <2>1. Frame /\ work[k] = "stop"
      BY <1>9 DEF StopBegins
    <2>2. (goto(k, "again") \/ goto(k, "wait")) /\ UNCHANGED <<obs, stage, result>>
      BY <1>9 DEF StopBegins
    <2>3. Moved
      BY <1>4, <2>1, <2>2 DEF Onward
    <2> QED BY <2>1, <2>3, <1>1, Live DEF Moved
  <1>10. CASE StopEnds(k)
    <2>1. Frame /\ work[k] = "wait"
      BY <1>10 DEF StopEnds
    <2>2. (\E r, c : Ends(k, r, c)) \/ (goto(k, "again") /\ UNCHANGED <<obs, stage, result>>)
      BY <1>10 DEF StopEnds
    <2>3. Moved
      BY <1>3, <1>4, <2>1, <2>2 DEF Onward
    <2> QED BY <2>1, <2>3, <1>1, Live DEF Moved
  <1>11. CASE StopAsksAgain(k) \/ Panics(k)
    <2>1. Frame
      BY <1>11 DEF StopAsksAgain, Panics, actFrame, world
    <2>2. \E r, c : Ends(k, r, c)
      BY <1>11 DEF StopAsksAgain, Panics
    <2>3. Moved
      BY <1>3, <2>2
    <2> QED BY <2>1, <2>3, <1>1, Live DEF Moved
  <1> QED BY <1>5, <1>6, <1>7, <1>8, <1>9, <1>10, <1>11 DEF Act

\* The next source is read, or fails: still a snapshot Documents admits.
LEMMA StageHalfway ==
    ASSUME Core, NEW a \in Actors, Halfway(obs[a], stage[a]), CollectStep(a)
    PROVE  Halfway(obs'[a], stage'[a])
  <1>1. PICK s2 \in Outcomes(stage[a], obs[a]) : obs' = [obs EXCEPT ![a] = s2]
    BY DEF CollectStep, Outcomes
  <1>2. /\ stage[a] \in StageNames /\ WorldTypeOK /\ obs[a] \in Snapshot
        /\ SawAll(obs[a], truth[a], stage[a])
        /\ stage'[a] = NextStage(stage[a]) /\ obs'[a] = s2
    BY <1>1 DEF CollectStep, Collecting, Core, TypeOK, StageNames, Saw
  <1>3. /\ NextStage("table") = "owners" /\ NextStage("owners") = "docker"
        /\ NextStage("docker") = "idents" /\ NextStage("idents") = "collected"
    BY DEF NextStage
  <1>4. Halfway(s2, NextStage(stage[a]))
    <2>1. CASE stage[a] = "table"
      <3>1. obs[a] = Blank(OnWindows)
        BY <1>2, <2>1 DEF SawAll, Unread
      <3> QED BY <1>2, <1>3, <2>1, <3>1, TableHalfway
    <2>2. CASE stage[a] = "owners"
      BY <1>2, <1>3, <2>2, OwnersHalfway
    <2>3. CASE stage[a] = "docker"
      BY <1>2, <1>3, <2>3, DockerHalfway
    <2>4. CASE stage[a] = "idents"
      BY <1>2, <1>3, <2>4, IdentsHalfway
    <2> QED BY <1>2, <2>1, <2>2, <2>3, <2>4 DEF StageNames
  <1> QED BY <1>2, <1>4

\* The host never changes.
LEMMA HostStays ==
    ASSUME Core, [Next]_vars
    PROVE  host' = host /\ OnWindows' = OnWindows
  <1>0. SUFFICES host' = host
    BY DEF OnWindows
  <1>1. CASE WorldMoves
    BY <1>1, WorldTypes DEF WorldMoves, Core, TypeOK
  <1>2. CASE \E k \in Keys : Act(k)
    BY <1>2, ActShape
  <1>3. CASE Command
    BY <1>3 DEF Command, MakePlan, ApplyExpired, ApplyStarts, Dispatch, ActionsDone,
       LookBegins, LookAgain, LookEnds, world
  <1>4. CASE (\E a \in Actors : CollectStep(a)) \/ Cancel \/ GraceEnds \/ Done \/ UNCHANGED vars
    BY <1>4 DEF CollectStep, Cancel, GraceEnds, Done, vars, world
  <1> QED BY <1>1, <1>2, <1>3, <1>4 DEF Next, Program

\* Observations stay what Documents admits.
LEMMA HalfwayStays ==
    ASSUME Core, \A a \in Actors : Halfway(obs[a], stage[a]), [Next]_vars
    PROVE  (\A a \in Actors : Halfway(obs[a], stage[a]))'
  <1>1. \A a \in Actors : Halfway(obs'[a], stage'[a])
    <2>1. Halfway(Blank(OnWindows), "idle")
      BY BlankHalfway DEF Core, TypeOK
    <2>2. \A a \in Actors : Halfway(obs[a], "table")  \/ stage[a] # "idle"
      BY DEF Halfway
    <2>3. ASSUME NEW b \in Actors, CollectStep(b) PROVE \A a \in Actors : Halfway(obs'[a], stage'[a])
      <3>1. \A a \in Actors : a # b => obs'[a] = obs[a] /\ stage'[a] = stage[a]
        BY <2>3 DEF CollectStep, Core, TypeOK
      <3> QED BY <2>3, <3>1, StageHalfway
    <2>4. ASSUME NEW k \in Keys, Act(k) PROVE \A a \in Actors : Halfway(obs'[a], stage'[a])
      <3>1. k \in Actors /\ \A a \in Actors : a # k => obs'[a] = obs[a] /\ stage'[a] = stage[a]
        BY <2>4, ActShape, Bounds
      <3>2. CASE Ended(k)
        BY <2>1, <3>1, <3>2 DEF Ended
      <3>3. CASE WentOn(k)
        <4>1. obs' = obs /\ (stage'[k] = stage[k] \/ (stage'[k] = "table" /\ work[k] = "begin"))
          BY <3>1, <3>3 DEF WentOn, Core, TypeOK
        <4>2. work[k] = "begin" => stage[k] = "idle"
          BY DEF Core, Turns
        <4> QED BY <2>2, <3>1, <4>1, <4>2
      <3> QED BY <2>4, <3>2, <3>3, ActShape
    <2>5. ASSUME NEW b \in Actors, Discard(b) PROVE \A a \in Actors : Halfway(obs'[a], stage'[a])
      BY <2>1, <2>5 DEF Discard, Core, TypeOK
    <2>6. CASE MakePlan \/ LookAgain
      BY <2>5, <2>6, Bounds DEF MakePlan, LookAgain
    <2>7. CASE LookBegins
      BY <2>2, <2>7, Bounds DEF LookBegins, Core, TypeOK
    <2>8. CASE UNCHANGED <<obs, stage>>
      BY <2>8
    <2>9. ASSUME \/ ApplyExpired \/ ApplyStarts \/ ActionsDone \/ LookEnds
                 \/ Cancel \/ GraceEnds \/ WorldMoves \/ Done \/ UNCHANGED vars
                 \/ \E k \in Keys : Dispatch(k)
          PROVE  UNCHANGED <<obs, stage>>
      BY <2>9 DEF ApplyExpired, ApplyStarts, ActionsDone, LookEnds, Cancel, GraceEnds,
         WorldMoves, Done, vars, run, Dispatch
    <2> QED BY <2>3, <2>4, <2>6, <2>7, <2>8, <2>9 DEF Next, Program, Command
  <1>2. OnWindows' = OnWindows
    BY HostStays
  <1> QED BY <1>1, <1>2 DEF Halfway

\* A resource nobody finished has no result.
LEMMA LeftAloneStays ==
    ASSUME Core, \A a \in Actors : Halfway(obs[a], stage[a]), LeftAlone, [Next]_vars
    PROVE  LeftAlone'
  <1>1. OnWindows' = OnWindows
    BY HostStays
  <1>2. work \in [Keys -> {"idle", "begin", "collect", "confirm", "signal", "stop", "wait",
                           "again", "done"}] /\ plan.resources \subseteq Keys
    BY DEF Core, TypeOK
  <1>3. CASE MakePlan
    <2>1. plan' = BuildPlan(obs[Planner], Mode) /\ plan.resources = {}
          /\ UNCHANGED <<work, result, skipped>>
      BY <1>3 DEF MakePlan, Core, PlanType
    <2>2. plan'.windows = OnWindows
      BY <2>1, Bounds DEF BuildPlan, Halfway
    <2> QED BY <1>1, <2>1, <2>2 DEF LeftAlone
  <1>4. ASSUME NEW k \in Keys, Act(k) PROVE LeftAlone'
    <2>1. /\ k \in plan.resources /\ work[k] # "done"
          /\ UNCHANGED <<plan, phase, skipped>>
          /\ \A l \in Keys : l # k => work'[l] = work[l] /\ result'[l] = result[l]
          /\ work'[k] # "done" => result'[k] = result[k]
      BY <1>4, ActShape DEF Ended, WentOn
    <2> QED BY <1>1, <1>2, <2>1 DEF LeftAlone
  <1>5. ASSUME NEW k \in Keys, Dispatch(k) PROVE LeftAlone'
    <2>1. /\ k \in plan.resources /\ work[k] = "idle" /\ UNCHANGED <<plan, phase, result>>
          /\ \/ work' = [work EXCEPT ![k] = "done"] /\ skipped' = TRUE
             \/ work' = [work EXCEPT ![k] = "begin"] /\ skipped' = skipped
      BY <1>5 DEF Dispatch, Undispatched
    <2>2. result[k] = "not_attempted"
      BY <2>1 DEF LeftAlone
    <2> QED BY <1>1, <1>2, <2>1, <2>2 DEF LeftAlone
  <1>6. CASE UNCHANGED <<plan, work, result, skipped>> /\ (phase = "observing" => phase' = "observing")
    BY <1>1, <1>6 DEF LeftAlone
  <1>7. ASSUME \/ ApplyExpired \/ ApplyStarts \/ ActionsDone \/ LookBegins \/ LookAgain \/ LookEnds
               \/ Cancel \/ GraceEnds \/ WorldMoves \/ Done \/ UNCHANGED vars
               \/ \E a \in Actors : CollectStep(a)
        PROVE  UNCHANGED <<plan, work, result, skipped>> /\ (phase = "observing" => phase' = "observing")
    BY <1>7 DEF ApplyExpired, ApplyStarts, ActionsDone, LookBegins, LookAgain, LookEnds, Cancel,
       GraceEnds, WorldMoves, Done, vars, run, CollectStep
  <1> QED BY <1>3, <1>4, <1>5, <1>6, <1>7 DEF Next, Program, Command

\* The report is the verdict on the results and on the last look.
LEMMA VerdictStays ==
    ASSUME Core, Core', LeftAlone, Verdict, [Next]_vars
    PROVE  Verdict'
  <1>1. CASE LookEnds
    <2>1. /\ UNCHANGED <<plan, result, obs>> /\ report'.status = statusNow
          /\ report'.class = IF Interruption THEN "uncertain"
                             ELSE ApplyClass(plan, result, statusNow, obs[Observer])
      BY <1>1 DEF LookEnds
    <2>2. Interruption => ~AllFree(statusNow) \/ \E k \in plan.resources : result[k] = "not_attempted"
      BY DEF Interruption, LeftAlone
    <2>3. statusNow' = statusNow
      BY <2>1 DEF statusNow
    <2>4. Judged'
      BY <1>1 DEF LookEnds, Judged
    <2> QED BY <2>1, <2>2, <2>3, <2>4 DEF Verdict
  <1>2. CASE UNCHANGED vars \/ Done
    <2>1. UNCHANGED <<phase, stage, report, plan, result, obs>>
      BY <1>2 DEF vars, run, Done
    <2> QED BY <2>1 DEF Verdict, Judged, statusNow
  <1>3. CASE ApplyExpired \/ ApplyStarts
    <2>1. /\ phase = "saved" /\ stage' = stage
          /\ phase' = "done" => report'.class # "ok"
      BY <1>3 DEF ApplyExpired, ApplyStarts, Report
    <2>2. stage[Observer] = "idle"
      BY <2>1, Bounds, NothingSeen
    <2> QED BY <2>1, <2>2 DEF Verdict, Judged
  <1>4. ASSUME phase' # "done" PROVE Verdict'
    BY <1>4 DEF Verdict, Judged
  <1>5. ASSUME NEW a \in Actors, CollectStep(a) PROVE phase' # "done"
    BY <1>5, CollectStepInv
  <1>6. ASSUME NEW k \in Keys, Act(k) PROVE phase' # "done"
    BY <1>6, ActShape
  <1>7. ASSUME \/ MakePlan \/ ActionsDone \/ LookBegins \/ LookAgain \/ Cancel \/ GraceEnds \/ WorldMoves
               \/ \E k \in Keys : Dispatch(k)
        PROVE  phase' # "done"
    BY <1>7 DEF MakePlan, ActionsDone, LookBegins, LookAgain, Cancel, GraceEnds, WorldMoves,
       run, Dispatch
  <1> QED BY <1>1, <1>2, <1>3, <1>4, <1>5, <1>6, <1>7 DEF Next, Program, Command

LEMMA DecisionAlways == Spec => [](ApplyInv /\ DecisionInv)
  <1>1. Init => DecisionInv
    <2> SUFFICES ASSUME Init PROVE DecisionInv
      OBVIOUS
    <2>1. \A a \in Actors : obs[a] = Blank(OnWindows) /\ stage[a] \in {"idle", "table"}
      BY DEF Init
    <2>2. WorldTypeOK
      BY WorldInitTypes DEF Init
    <2>3. \A a \in Actors : Halfway(obs[a], stage[a])
      BY <2>1, <2>2, BlankHalfway
    <2>4. LeftAlone /\ Verdict
      BY DEF Init, LeftAlone, Verdict, Judged
    <2> QED BY <2>3, <2>4 DEF DecisionInv
  <1>2. ApplyInv /\ DecisionInv /\ [Next]_vars => DecisionInv'
    <2> SUFFICES ASSUME ApplyInv, DecisionInv, [Next]_vars PROVE DecisionInv'
      OBVIOUS
    <2>1. Core /\ Core'
      BY ApplyStep DEF ApplyInv
    <2>2. (\A a \in Actors : Halfway(obs[a], stage[a]))'
      BY <2>1, HalfwayStays DEF DecisionInv
    <2>3. LeftAlone'
      BY <2>1, LeftAloneStays DEF DecisionInv
    <2>4. Verdict'
      BY <2>1, VerdictStays DEF DecisionInv
    <2> QED BY <2>2, <2>3, <2>4 DEF DecisionInv
  <1> QED BY <1>1, <1>2, InitApply, ApplyStep, PTL DEF Spec
-----------------------------------------------------------------------------
(* Documents speaks of the same plans, snapshots and statuses.               *)
LEMMA SameSnapshots ==
    /\ Decisions!Keys = Keys /\ Decisions!Modes = Modes
    /\ Decisions!ActionResults = ActionResults
    /\ Decisions!Untouched = [k \in Keys |-> "not_attempted"]
    /\ \A windows : Decisions!Blank(windows) = Blank(windows)
    /\ \A windows : Decisions!SnapshotsOn(windows)
                      = {s \in Snapshot : WellFormed(s) /\ s.windows = windows}
  <1>1. Decisions!Keys = Keys /\ Decisions!Modes = Modes /\ Decisions!ActionResults = ActionResults
    BY DEF Keys, Modes, ActionResults, Decisions!Keys, Decisions!Modes, Decisions!ActionResults
  <1>2. Decisions!Untouched = [k \in Keys |-> "not_attempted"]
    BY <1>1 DEF Decisions!Untouched
  <1>3. \A windows : Decisions!Blank(windows) = Blank(windows)
    BY DEF Blank, Decisions!Blank
  <1>4. Decisions!Snapshot = Snapshot
    BY DEF Snapshot, Names, Idents, Hidden,
       Decisions!Snapshot, Decisions!Names, Decisions!Idents, Decisions!Hidden
  <1>5. \A s : Decisions!WellFormed(s) <=> WellFormed(s)
    BY DEF WellFormed, Decisions!WellFormed
  <1>6. \A windows : Decisions!SnapshotsOn(windows)
                      = {s \in Snapshot : WellFormed(s) /\ s.windows = windows}
    BY <1>4, <1>5 DEF Decisions!SnapshotsOn, Decisions!Snapshots
  <1> QED BY <1>1, <1>2, <1>3, <1>6

LEMMA SameEndpoints ==
    ASSUME NEW s, NEW port
    PROVE  /\ Decisions!Owners(s, port) = Owners(s, port)
           /\ Decisions!Publishers(s, port) = Publishers(s, port)
           /\ Decisions!Explained(s, port) <=> Explained(s, port)
           /\ \A p : Decisions!Infra(s, p) <=> Infra(s, p)
           /\ Decisions!HiddenOwner(s, port) <=> HiddenOwner(s, port)
           /\ Decisions!Occupied(s, port) <=> Occupied(s, port)
           /\ Decisions!Visibility(s, port) = Visibility(s, port)
  <1>1. /\ Decisions!Owners(s, port) = Owners(s, port)
        /\ Decisions!Publishers(s, port) = Publishers(s, port)
        /\ Decisions!HiddenRow(s, port) <=> HiddenRow(s, port)
        /\ Decisions!TableOccupied(s, port) <=> TableOccupied(s, port)
        /\ \A p : Decisions!Infra(s, p) <=> Infra(s, p)
    BY DEF Owners, Publishers, HiddenRow, TableOccupied, Infra, Hidden,
       Decisions!Owners, Decisions!Publishers, Decisions!HiddenRow,
       Decisions!TableOccupied, Decisions!Infra, Decisions!Hidden
  <1>2. Decisions!Explained(s, port) <=> Explained(s, port)
    BY <1>1 DEF Explained, Decisions!Explained
  <1>3. Decisions!HiddenOwner(s, port) <=> HiddenOwner(s, port)
    BY <1>1, <1>2 DEF HiddenOwner, Decisions!HiddenOwner
  <1>4. Decisions!Unattributed(s, port) <=> Unattributed(s, port)
    BY <1>1, <1>2, <1>3 DEF Unattributed, DeniedActionable,
       Decisions!Unattributed, Decisions!DeniedActionable
  <1>5. Decisions!Occupied(s, port) <=> Occupied(s, port)
    BY <1>1 DEF Occupied, Decisions!Occupied
  <1>6. Decisions!Visibility(s, port) = Visibility(s, port)
    BY <1>1, <1>4 DEF Visibility, Decisions!Visibility
  <1> QED BY <1>1, <1>2, <1>3, <1>5, <1>6

LEMMA SamePlans ==
    ASSUME NEW s, NEW mode
    PROVE  Decisions!BuildPlan(s, mode) = BuildPlan(s, mode)
  <1>1. \A p : Decisions!UseProcess(s, mode, p) <=> UseProcess(s, mode, p)
    BY SameEndpoints DEF UseProcess, Protected, Decisions!UseProcess, Decisions!Protected
  <1>2. \A c : Decisions!UseContainer(mode, c) <=> UseContainer(mode, c)
    BY DEF UseContainer, Decisions!UseContainer
  <1>3. \A p, port : Decisions!LeftToContainer(s, mode, port, p) <=> LeftToContainer(s, mode, port, p)
    BY SameEndpoints DEF LeftToContainer, Decisions!LeftToContainer
  <1>4. ASSUME NEW port
        PROVE  /\ Decisions!UsedOn(s, mode, port) = UsedOn(s, mode, port)
               /\ Decisions!RefusedPIDs(s, mode, port) = RefusedPIDs(s, mode, port)
               /\ Decisions!RefusedContainers(s, mode, port) = RefusedContainers(s, mode, port)
    <2>1. /\ Decisions!Owners(s, port) = Owners(s, port)
          /\ Decisions!Publishers(s, port) = Publishers(s, port)
      BY SameEndpoints
    <2> QED BY <1>1, <1>2, <1>3, <2>1 DEF UsedOn, RefusedPIDs, RefusedContainers,
            Decisions!UsedOn, Decisions!RefusedPIDs, Decisions!RefusedContainers
  <1>5. \A port : /\ Decisions!HiddenOwner(s, port) <=> HiddenOwner(s, port)
                  /\ Decisions!Occupied(s, port) <=> Occupied(s, port)
                  /\ Decisions!Visibility(s, port) = Visibility(s, port)
    BY SameEndpoints
  <1>6. Decisions!Keys = Keys
    BY SameSnapshots
  <1>7. /\ UNION {Decisions!UsedOn(s, mode, port) : port \in Ports} = UNION {UsedOn(s, mode, port) : port \in Ports}
        /\ [port \in Ports |-> Decisions!UsedOn(s, mode, port)] = [port \in Ports |-> UsedOn(s, mode, port)]
        /\ [k \in Keys |-> {port \in Ports : k \in Decisions!UsedOn(s, mode, port)}]
             = [k \in Keys |-> {port \in Ports : k \in UsedOn(s, mode, port)}]
        /\ [port \in Ports |-> Decisions!RefusedPIDs(s, mode, port)] = [port \in Ports |-> RefusedPIDs(s, mode, port)]
        /\ [port \in Ports |-> Decisions!RefusedContainers(s, mode, port)]
             = [port \in Ports |-> RefusedContainers(s, mode, port)]
    BY <1>4
  <1>8. /\ {port \in Ports : Decisions!HiddenOwner(s, port)} = {port \in Ports : HiddenOwner(s, port)}
        /\ {port \in Ports : Decisions!Occupied(s, port)} = {port \in Ports : Occupied(s, port)}
        /\ [port \in Ports |-> Decisions!Visibility(s, port)] = [port \in Ports |-> Visibility(s, port)]
    BY <1>5
  <1> QED BY <1>6, <1>7, <1>8, Zenon DEF BuildPlan, Decisions!BuildPlan

LEMMA SameStatuses ==
    ASSUME NEW p, NEW r, NEW s
    PROVE  Decisions!Classify(p, r, s) = Classify(p, r, s)
  <1>1. \A k, port : Decisions!PlannedOn(p, k, port) <=> PlannedOn(p, k, port)
    BY DEF PlannedOn, Decisions!PlannedOn
  <1>2. \A port, c : Decisions!RefusedName(p, port, c) <=> RefusedName(p, port, c)
    BY DEF RefusedName, Decisions!RefusedName
  <1>3. \A port, c : Decisions!ContainerFlag(p, r, port, c) = ContainerFlag(p, r, port, c)
    BY <1>1, <1>2 DEF ContainerFlag, Decisions!ContainerFlag
  <1>4. \A port, q : Decisions!OwnerFlag(p, s, port, q) = OwnerFlag(p, s, port, q)
    BY <1>1, SameEndpoints DEF OwnerFlag, Decisions!OwnerFlag
  <1>5. ASSUME NEW port PROVE Decisions!Flags(p, r, s, port) = Flags(p, r, s, port)
    <2>1. /\ Decisions!Owners(s, port) = Owners(s, port)
          /\ Decisions!Publishers(s, port) = Publishers(s, port)
          /\ Decisions!HiddenOwner(s, port) <=> HiddenOwner(s, port)
      BY SameEndpoints
    <2> QED BY <1>3, <1>4, <2>1 DEF Flags, Decisions!Flags
  <1>6. \A port : Decisions!Status(p, r, s, port) = Status(p, r, s, port)
    BY <1>5, SameEndpoints DEF Status, Decisions!Status
  <1> QED BY <1>6 DEF Classify, Decisions!Classify

LEMMA SameClasses ==
    ASSUME NEW p, NEW r, NEW status, NEW s
    PROVE  /\ Decisions!AllFree(status) <=> AllFree(status)
           /\ Decisions!ApplyClass(p, r, status, s) = ApplyClass(p, r, status, s)
  <1>1. Decisions!AllFree(status) <=> AllFree(status)
    BY DEF AllFree, Decisions!AllFree
  <1>2. \A S : Decisions!WorstOf(S) = WorstOf(S)
    BY DEF WorstOf, WorseExit, ExitRank,
       Decisions!WorstOf, Decisions!WorseExit, Decisions!ExitRank
  <1>3. Decisions!ResultClasses(p, r) = ResultClasses(p, r)
    BY DEF ResultClasses, ResultClass, Decisions!ResultClasses, Decisions!ResultClass
  <1>4. Decisions!StatusClasses(status) = StatusClasses(status)
    BY DEF StatusClasses, StatusClass, Decisions!StatusClasses, Decisions!StatusClass
  <1>5. Decisions!VisibilityClasses(s) = VisibilityClasses(s)
    BY SameEndpoints DEF VisibilityClasses, Decisions!VisibilityClasses
  <1>6. Decisions!ApplyClass(p, r, status, s) = ApplyClass(p, r, status, s)
    BY <1>2, <1>3, <1>4, <1>5 DEF ApplyClass, Decisions!ApplyClass
  <1> QED BY <1>1, <1>6

\* What Documents sees in each part of a run: the plan while it is still in the
\* planner's memory, the last look once the report is written, else no snapshot.
DocStates ==
    /\ phase = "observing" /\ stage[Planner] # "collected" =>
          docPhase = "observing" /\ docPlan = plan /\ docSnap = Blank(OnWindows)
    /\ phase = "observing" /\ stage[Planner] = "collected" =>
          /\ docPhase = "planned" /\ docPlan = BuildPlan(obs[Planner], Mode)
          /\ docSnap = obs[Planner]
    /\ phase # "observing" /\ ~Judged =>
          docPhase = "saved" /\ docPlan = plan /\ docSnap = Blank(OnWindows)
    /\ Judged => /\ docPhase = "applied" /\ docPlan = plan /\ docSnap = obs[Observer]
                 /\ docResult = result
                 /\ docReport = [status |-> report.status, class |-> report.class]
    /\ ~Judged => /\ docResult = [k \in Keys |-> "not_attempted"]
                  /\ docReport = [class |-> "none"]

LEMMA DocStatesHold == DocStates /\ DocStates'
  <1>1. DocStates
    BY DEF DocStates, docPhase, docPlan, docSnap, docResult, docReport, Judged
  <1>2. DocStates'
    BY DEF DocStates, docPhase, docPlan, docSnap, docResult, docReport, Judged
  <1> QED BY <1>1, <1>2

LEMMA InitDecides == Init => Decisions!Init
  <1> SUFFICES ASSUME Init PROVE Decisions!Init
    OBVIOUS
  <1>1. /\ phase = "observing" /\ stage[Planner] # "collected" /\ ~Judged
        /\ plan = NoPlan /\ OnWindows \in BOOLEAN
    BY Bounds, HostTools, WorldInitTypes DEF Init, Judged, WorldTypeOK
  <1>2. /\ docPhase = "observing" /\ docPlan = NoPlan /\ docSnap = Blank(OnWindows)
        /\ docResult = [k \in Keys |-> "not_attempted"] /\ docReport = [class |-> "none"]
    BY <1>1, DocStatesHold DEF DocStates
  <1>3. /\ Decisions!NoPlan = NoPlan /\ Decisions!NoReport = [class |-> "none"]
        /\ Decisions!Blank(OnWindows) = Blank(OnWindows)
        /\ Decisions!Untouched = [k \in Keys |-> "not_attempted"]
    BY SameSnapshots DEF NoPlan, Decisions!NoPlan, Decisions!NoReport
  <1> QED BY <1>1, <1>2, <1>3 DEF Decisions!Init

\* The planner's last source makes a plan.
LEMMA PlannerBuilds ==
    ASSUME ApplyInv, DecisionInv, ApplyInv', DecisionInv', CollectStep(Planner), phase = "observing",
           stage'[Planner] = "collected", OnWindows' = OnWindows
    PROVE  Decisions!Build
  <1>1. phase' = "observing" /\ stage[Planner] # "collected" /\ ~Judged /\ ~Judged'
    BY DEF CollectStep, Collecting, Judged
  <1>2. /\ docPhase = "observing" /\ docSnap = Blank(OnWindows)
        /\ docPhase' = "planned" /\ docSnap' = obs'[Planner] /\ docPlan' = BuildPlan(obs'[Planner], Mode)
        /\ UNCHANGED <<docResult, docReport>>
    BY <1>1, DocStatesHold DEF DocStates
  <1>3. obs'[Planner] \in Snapshot /\ WellFormed(obs'[Planner]) /\ obs'[Planner].windows = OnWindows
    BY Bounds DEF DecisionInv, Halfway, ApplyInv, Core, TypeOK
  <1>4. docSnap.windows = OnWindows
    BY <1>2 DEF Blank
  <1>5. docSnap' \in Decisions!SnapshotsOn(docSnap.windows)
    BY <1>2, <1>3, <1>4, SameSnapshots
  <1>6. Mode \in Decisions!Modes
    BY SameSnapshots, ApplyAssumption
  <1>7. docPlan' = Decisions!BuildPlan(docSnap', Mode)
    BY <1>2, SamePlans
  <1> QED BY <1>2, <1>5, <1>6, <1>7 DEF Decisions!Build

\* Writing the plan document loses the snapshot.
LEMMA PlanSaves ==
    ASSUME ApplyInv, DecisionInv, MakePlan, OnWindows' = OnWindows
    PROVE  Decisions!Save
  <1>1. /\ phase = "observing" /\ stage[Planner] = "collected" /\ phase' = "saved"
        /\ plan' = BuildPlan(obs[Planner], Mode) /\ ~Judged /\ ~Judged'
    BY DEF MakePlan, Judged
  <1>2. /\ docPhase = "planned" /\ docPlan = plan'
        /\ docPhase' = "saved" /\ docPlan' = plan' /\ docSnap' = Blank(OnWindows)
        /\ UNCHANGED <<docResult, docReport>>
    BY <1>1, DocStatesHold DEF DocStates
  <1>3. docPlan.windows = OnWindows
    BY <1>1, <1>2, Bounds DEF DecisionInv, Halfway, BuildPlan
  <1>4. Decisions!Blank(docPlan.windows) = Blank(OnWindows)
    BY <1>3, SameSnapshots
  <1> QED BY <1>2, <1>4 DEF Decisions!Save

\* The last look judges.
LEMMA LookJudges ==
    ASSUME ApplyInv, DecisionInv, DecisionInv', LookEnds, OnWindows' = OnWindows
    PROVE  Decisions!Judge
  <1> DEFINE s == obs[Observer]
             status == Classify(plan, result, s)
  <1>1. /\ phase = "looking" /\ stage[Observer] = "collected" /\ Judged' /\ ~Judged
        /\ UNCHANGED <<plan, obs, stage, work, result>>
        /\ report'.status = status
    BY DEF LookEnds, Judged, statusNow
  <1>2. /\ docPhase = "saved" /\ docPlan = plan
        /\ docPhase' = "applied" /\ docPlan' = plan /\ docSnap' = s /\ docResult' = result
        /\ docReport' = [status |-> status, class |-> report'.class]
    BY <1>1, DocStatesHold DEF DocStates
  <1>3. s \in Snapshot /\ WellFormed(s) /\ s.windows = OnWindows /\ plan.windows = OnWindows
    BY <1>1, Bounds DEF DecisionInv, Halfway, LeftAlone, ApplyInv, Core, TypeOK
  <1>4. docSnap' \in Decisions!SnapshotsOn(docPlan.windows)
    BY <1>2, <1>3, SameSnapshots
  <1>5. docResult' \in [Decisions!Keys -> Decisions!ActionResults]
    BY <1>2, SameSnapshots DEF ApplyInv, Core, TypeOK
  <1>6. \A k \in Decisions!Keys \ docPlan.resources : docResult'[k] = "not_attempted"
    BY <1>2, SameSnapshots DEF DecisionInv, LeftAlone
  <1>7. \/ report'.class = ApplyClass(plan, result, status, s)
        \/ /\ report'.class = "uncertain"
           /\ ~AllFree(status) \/ \E k \in plan.resources : result[k] = "not_attempted"
    BY <1>1 DEF DecisionInv, Verdict
  <1>8. /\ Decisions!Classify(docPlan, docResult', docSnap') = status
        /\ Decisions!ApplyClass(docPlan, docResult', status, docSnap') = ApplyClass(plan, result, status, s)
        /\ Decisions!AllFree(status) <=> AllFree(status)
    BY <1>2, SameStatuses, SameClasses
  <1>9. report'.class \in Decisions!Verdicts(docResult', status, docSnap')
    BY <1>2, <1>7, <1>8 DEF Decisions!Verdicts
  <1> HIDE DEF status
  <1> QED BY <1>2, <1>4, <1>5, <1>6, <1>8, <1>9 DEF Decisions!Judge

\* Every other step leaves the documents as they are.
LEMMA DocumentsStay ==
    ASSUME ApplyInv, ApplyInv', [Next]_vars, OnWindows' = OnWindows,
           ~MakePlan, ~LookEnds,
           ~(CollectStep(Planner) /\ phase = "observing" /\ stage'[Planner] = "collected")
    PROVE  UNCHANGED Decisions!vars
  <1> DEFINE Unwritten == phase = "observing" /\ stage[Planner] # "collected"
             Between == phase # "observing" /\ ~Judged
  <1>1. ASSUME UNCHANGED plan, (Unwritten /\ Unwritten') \/ (Between /\ Between')
        PROVE  UNCHANGED Decisions!vars
    <2>1. ~Judged /\ ~Judged'
      BY <1>1 DEF Judged
    <2> QED BY <1>1, <2>1, DocStatesHold DEF DocStates, Decisions!vars
  <1>2. ASSUME UNCHANGED <<phase, plan, obs, stage, result, report>>
        PROVE  UNCHANGED Decisions!vars
    <2>1. Judged' <=> Judged
      BY <1>2 DEF Judged
    <2> QED BY <1>2, <2>1, DocStatesHold DEF DocStates, Decisions!vars
  <1>3. CASE WorldMoves \/ Cancel \/ GraceEnds \/ Done \/ UNCHANGED vars
             \/ \E k \in Keys : Dispatch(k)
    BY <1>2, <1>3 DEF WorldMoves, Cancel, GraceEnds, Done, vars, run, Dispatch
  <1>4. CASE ApplyExpired \/ ApplyStarts
    <2>1. phase = "saved" /\ UNCHANGED <<plan, stage>> /\ phase' # "observing"
      BY <1>4 DEF ApplyExpired, ApplyStarts
    <2>2. stage[Observer] = "idle"
      BY <2>1, Bounds, NothingSeen DEF ApplyInv
    <2> QED BY <1>1, <2>1, <2>2 DEF Judged
  <1>5. CASE ActionsDone \/ LookBegins \/ LookAgain
    BY <1>1, <1>5 DEF ActionsDone, LookBegins, LookAgain, Judged
  <1>6. CASE \E k \in Keys : Act(k)
    BY <1>1, <1>6, ActShape DEF ApplyInv, Judged
  <1>7. ASSUME NEW a \in Actors, CollectStep(a) PROVE UNCHANGED Decisions!vars
    <2>1. UNCHANGED <<phase, plan>> /\ phase # "done"
      BY <1>7, CollectStepInv DEF ApplyInv, CollectStep
    <2>2. CASE phase # "observing"
      BY <1>1, <2>1, <2>2 DEF Judged
    <2>3. CASE phase = "observing"
      <3>1. a = Planner
        <4>1. stage[a] # "idle"
          BY <1>7 DEF CollectStep, Collecting
        <4> QED BY <2>3, <4>1, NothingSeen DEF ApplyInv
      <3>2. stage[Planner] # "collected" /\ stage'[Planner] # "collected"
        BY <1>7, <2>3, <3>1 DEF CollectStep, Collecting
      <3> QED BY <1>1, <2>1, <2>3, <3>2
    <2> QED BY <2>2, <2>3
  <1> QED BY <1>3, <1>4, <1>5, <1>6, <1>7 DEF Next, Program, Command

\* The detailed apply implements the decisions: with observations that are torn
\* by a machine that moves, goroutines that overlap and a context that may die
\* at any step, every plan is built from a snapshot the collectors can leave
\* behind, outlives the run unchanged, and every report is the verdict on the
\* results and on one such snapshot (workflow.go:324-348, apply.go:201-222).
\* So what Documents_proofs proves of plans and reports holds of this program.
THEOREM ApplyImplementsDocuments == Spec => ImplementsDocuments
  <1>1. ApplyInv /\ DecisionInv /\ ApplyInv' /\ DecisionInv' /\ [Next]_vars
            => [Decisions!Next]_Decisions!vars
    <2> SUFFICES ASSUME ApplyInv, DecisionInv, ApplyInv', DecisionInv', [Next]_vars
                 PROVE  Decisions!Next \/ UNCHANGED Decisions!vars
      BY DEF Decisions!vars
    <2>1. OnWindows' = OnWindows
      BY HostStays DEF ApplyInv
    <2> QED BY <2>1, PlannerBuilds, PlanSaves, LookJudges, DocumentsStay DEF Decisions!Next
  <1> QED BY <1>1, InitDecides, DecisionAlways, PTL DEF Spec, ImplementsDocuments, Decisions!Spec

\* What Documents_proofs proves of those decisions, carried over to this program.
Proved == INSTANCE Documents_proofs WITH
    phase <- docPhase, plan <- docPlan, snap <- docSnap,
    result <- docResult, report <- docReport

LEMMA SameDecisions == Decisions!Spec => Proved!Spec
  <1> USE DEF Decisions!vars, Proved!vars,
     Decisions!Hidden, Decisions!Names, Decisions!Idents, Decisions!Snapshot,
     Decisions!Blank, Decisions!WellFormed, Decisions!TableOccupied, Decisions!Publishers,
     Decisions!HiddenRow, Decisions!Owners, Decisions!Explained, Decisions!HiddenOwner,
     Decisions!Infra, Decisions!DeniedActionable, Decisions!Unattributed,
     Decisions!Occupied, Decisions!Visibility, Decisions!Keys, Decisions!Modes,
     Decisions!Protected, Decisions!UseContainer, Decisions!LeftToContainer,
     Decisions!UseProcess, Decisions!UsedOn, Decisions!RefusedPIDs,
     Decisions!RefusedContainers, Decisions!BuildPlan, Decisions!ActionResults,
     Decisions!PlannedOn, Decisions!OwnerFlag, Decisions!RefusedName,
     Decisions!ContainerFlag, Decisions!Flags, Decisions!Status, Decisions!Classify,
     Decisions!AllFree, Decisions!ResultClass, Decisions!StatusClass,
     Decisions!ResultClasses, Decisions!StatusClasses, Decisions!VisibilityClasses,
     Decisions!ApplyClass, Decisions!Classes, Decisions!ExitRank, Decisions!WorseExit,
     Decisions!WorstOf, Decisions!NoPlan, Decisions!NoReport, Decisions!Untouched,
     Decisions!Snapshots, Decisions!SnapshotsOn, Decisions!Init, Decisions!Build,
     Decisions!Save, Decisions!Verdicts, Decisions!Judge, Decisions!Done, Decisions!Next,
     Proved!Hidden, Proved!Names, Proved!Idents, Proved!Snapshot, Proved!Blank,
     Proved!WellFormed, Proved!TableOccupied, Proved!Publishers, Proved!HiddenRow,
     Proved!Owners, Proved!Explained, Proved!HiddenOwner, Proved!Infra,
     Proved!DeniedActionable, Proved!Unattributed, Proved!Occupied, Proved!Visibility,
     Proved!Keys, Proved!Modes, Proved!Protected, Proved!UseContainer,
     Proved!LeftToContainer, Proved!UseProcess, Proved!UsedOn, Proved!RefusedPIDs,
     Proved!RefusedContainers, Proved!BuildPlan, Proved!ActionResults, Proved!PlannedOn,
     Proved!OwnerFlag, Proved!RefusedName, Proved!ContainerFlag, Proved!Flags,
     Proved!Status, Proved!Classify, Proved!AllFree, Proved!ResultClass,
     Proved!StatusClass, Proved!ResultClasses, Proved!StatusClasses,
     Proved!VisibilityClasses, Proved!ApplyClass, Proved!Classes, Proved!ExitRank,
     Proved!WorseExit, Proved!WorstOf, Proved!NoPlan, Proved!NoReport, Proved!Untouched,
     Proved!Snapshots, Proved!SnapshotsOn, Proved!Init, Proved!Build, Proved!Save,
     Proved!Verdicts, Proved!Judge, Proved!Done, Proved!Next
  <1>1. Decisions!Init <=> Proved!Init
    OBVIOUS
  <1>2. Decisions!Next <=> Proved!Next
    OBVIOUS
  <1>3. Decisions!vars = Proved!vars
    OBVIOUS
  <1> QED BY <1>1, <1>2, <1>3, PTL DEF Decisions!Spec, Proved!Spec

\* Every report and every plan of this program is one Documents describes: "free"
\* rests on sources that answered, a new owner is somebody, "ok" is earned, and
\* what the plan says of an occupied endpoint is never nothing.
THEOREM DecisionsHold == Spec => [](/\ Proved!PlansValidate /\ Proved!AccountedFor
                                   /\ Proved!LimitedIsRefused /\ Proved!StableWorldIsRecognised
                                   /\ Proved!FreeIsProven /\ Proved!NewOwnerIsSomebody
                                   /\ Proved!OkIsEarned)
  <1> USE OutcomeAssumption, PlanningAssumption, ObservationAssumption
  <1>1. Proved!Spec => []Proved!PlansValidate
    BY Proved!PlansAlwaysValidate
  <1>2. Proved!Spec => []Proved!AccountedFor
    BY Proved!EveryOccupantIsAccountedFor
  <1>3. Proved!Spec => []Proved!LimitedIsRefused
    BY Proved!LimitedIsAlwaysRefused
  <1>4. Proved!Spec => []Proved!StableWorldIsRecognised
    BY Proved!StableWorldIsAlwaysRecognised
  <1>5. Proved!Spec => []Proved!FreeIsProven
    BY Proved!FreeIsAlwaysProven
  <1>6. Proved!Spec => []Proved!NewOwnerIsSomebody
    BY Proved!NewOwnerIsAlwaysSomebody
  <1>7. Proved!Spec => []Proved!OkIsEarned
    BY Proved!OkIsAlwaysEarned
  <1> QED BY <1>1, <1>2, <1>3, <1>4, <1>5, <1>6, <1>7, SameDecisions,
          ApplyImplementsDocuments, PTL DEF ImplementsDocuments

\* Exit 0 tells the truth about the machine: the classes earn "ok" (Documents),
\* and the snapshot behind them really saw the ports free (FreeWasFree).
THEOREM ExitZeroWasTrue == Spec => []OkWasFree
  <1>1. ApplyInv /\ DecisionInv /\ Proved!OkIsEarned => OkWasFree
    <2> SUFFICES ASSUME ApplyInv, DecisionInv, Proved!OkIsEarned, phase = "done", report.class = "ok"
                 PROVE  /\ \A port \in Ports :
                              /\ port \in truth[Observer].free
                              /\ DockerInstalled =>
                                    port \notin UNION {Publishes[c] : c \in truth[Observer].up}
                        /\ \A k \in plan.resources :
                              result[k] \in {"not_attempted", "signal_sent", "stopped"}
      BY DEF OkWasFree
    <2>1. Judged
      BY DEF DecisionInv, Verdict
    <2>2. docPhase = "applied" /\ docPlan = plan /\ docResult = result
          /\ docReport = [status |-> report.status, class |-> report.class]
      BY <2>1, DocStatesHold DEF DocStates
    <2>3. /\ Proved!AllFree(report.status)
          /\ \A k \in plan.resources : result[k] \in {"not_attempted", "signal_sent", "stopped"}
      BY <2>2 DEF Proved!OkIsEarned
    <2>4. \A port \in Ports : report.status[port] = "free"
      BY <2>3 DEF Proved!AllFree
    <2>5. Reported
      BY <2>4 DEF Reported
    <2> QED BY <2>3, <2>4, <2>5 DEF ApplyInv, FreeWasFree
  <1> QED BY <1>1, DecisionAlways, DecisionsHold, PTL
-----------------------------------------------------------------------------
(* Progress.  Of Terminates, which says that an apply ends, this is the part  *)
(* that does not depend on fairness: how little is left to do after each step.*)
StageSteps == [st \in {"idle", "table", "owners", "docker", "idents", "collected"} |->
    CASE st = "table" -> 4
      [] st = "owners" -> 3
      [] st = "docker" -> 2
      [] st = "idents" -> 1
      [] st = "collected" -> 0
      [] st = "idle" -> 5]

LEMMA StepsAre ==
    ASSUME TypeOK
    PROVE  /\ \A a \in Actors : ToRead(a) = StageSteps[stage[a]] /\ ToRead(a) \in 0..5
           /\ \A k \in Keys : StepsLeft[k] = ToDo(k) /\ ToDo(k) \in 0..10
           /\ StepsLeft[Observer] = ToRead(Observer)
           /\ StepsLeft[Planner] = PhasesLeft + (IF phase = "observing" THEN ToRead(Planner) ELSE 0)
           /\ PhasesLeft \in 0..4
  <1>1. ASSUME NEW a \in Actors PROVE ToRead(a) = StageSteps[stage[a]] /\ ToRead(a) \in 0..5
    BY DEF ToRead, StageSteps, TypeOK
  <1>2. ASSUME NEW k \in Keys PROVE ToDo(k) \in 0..10
    BY <1>1, Bounds DEF ToDo, TypeOK
  <1>3. PhasesLeft \in 0..4
    BY DEF PhasesLeft, TypeOK
  <1>4. /\ \A k \in Keys : StepsLeft[k] = ToDo(k)
        /\ StepsLeft[Observer] = ToRead(Observer)
        /\ StepsLeft[Planner] = PhasesLeft + (IF phase = "observing" THEN ToRead(Planner) ELSE 0)
    BY Bounds DEF StepsLeft
  <1> QED BY <1>1, <1>2, <1>3, <1>4

LEMMA StepsAreNext ==
    ASSUME TypeOK'
    PROVE  /\ \A a \in Actors : ToRead(a)' = StageSteps[stage'[a]] /\ ToRead(a)' \in 0..5
           /\ \A k \in Keys : StepsLeft'[k] = ToDo(k)' /\ ToDo(k)' \in 0..10
           /\ StepsLeft'[Observer] = ToRead(Observer)'
           /\ StepsLeft'[Planner] = PhasesLeft' + (IF phase' = "observing" THEN ToRead(Planner)' ELSE 0)
           /\ PhasesLeft' \in 0..4
  <1>1. ASSUME NEW a \in Actors PROVE ToRead(a)' = StageSteps[stage'[a]] /\ ToRead(a)' \in 0..5
    BY DEF ToRead, StageSteps, TypeOK
  <1>2. ASSUME NEW k \in Keys PROVE ToDo(k)' \in 0..10
    BY <1>1, Bounds DEF ToDo, TypeOK
  <1>3. PhasesLeft' \in 0..4
    BY DEF PhasesLeft, TypeOK
  <1>4. /\ \A k \in Keys : StepsLeft'[k] = ToDo(k)'
        /\ StepsLeft'[Observer] = ToRead(Observer)'
        /\ StepsLeft'[Planner] = PhasesLeft' + (IF phase' = "observing" THEN ToRead(Planner)' ELSE 0)
    BY Bounds DEF StepsLeft
  <1> QED BY <1>1, <1>2, <1>3, <1>4

\* One actor has less to do and the others as much as before.
LEMMA OneAdvances ==
    ASSUME TypeOK, TypeOK', NEW b \in Actors, StepsLeft'[b] < StepsLeft[b],
           \A a \in Actors : a # b => StepsLeft'[a] = StepsLeft[a]
    PROVE  Fewer(StepsLeft', StepsLeft)
  <1>1. \A a \in Actors : StepsLeft[a] \in Nat /\ StepsLeft'[a] \in Nat
    <2>1. \A a \in Actors : a \in Keys \/ a = Observer \/ a = Planner
      BY DEF Actors
    <2> QED BY <2>1, StepsAre, StepsAreNext, Bounds
  <1>2. StepsLeft' # StepsLeft
    BY <1>1
  <1> QED BY <1>1, <1>2 DEF Fewer

\* What an actor has to do depends on its own step, and the planner's on phase.
LEMMA OthersStay ==
    ASSUME TypeOK, TypeOK', NEW a \in Actors, stage'[a] = stage[a],
           a \in Keys => work'[a] = work[a], a = Planner => phase' = phase
    PROVE  StepsLeft'[a] = StepsLeft[a]
  <1>1. ToRead(a)' = ToRead(a)
    BY StepsAre, StepsAreNext
  <1>2. a \in Keys => ToDo(a)' = ToDo(a)
    BY <1>1 DEF ToDo
  <1>3. a = Planner => PhasesLeft' = PhasesLeft
    BY DEF PhasesLeft
  <1> QED BY <1>1, <1>2, <1>3, StepsAre, StepsAreNext, Bounds DEF Actors

\* Reading a source.
LEMMA CollectAdvances ==
    ASSUME Core, TypeOK', NEW a \in Actors, CollectStep(a)
    PROVE  Fewer(StepsLeft', StepsLeft)
  <1>1. /\ UNCHANGED <<phase, work>> /\ stage[a] \in StageNames
        /\ stage' = [stage EXCEPT ![a] = NextStage(stage[a])] /\ TypeOK
    BY DEF CollectStep, Collecting, Core, TypeOK, StageNames
  <1>2. StageSteps[NextStage(stage[a])] < StageSteps[stage[a]]
    BY <1>1 DEF StageNames, NextStage, StageSteps
  <1>3. stage'[a] = NextStage(stage[a]) /\ \A b \in Actors : b # a => stage'[b] = stage[b]
    BY <1>1 DEF TypeOK
  <1>4. ToRead(a)' < ToRead(a)
    BY <1>1, <1>2, <1>3, StepsAre, StepsAreNext
  <1>5. StepsLeft'[a] < StepsLeft[a]
    <2>1. CASE a \in Keys
      <3>1. work[a] = "collect" /\ work'[a] = "collect"
        BY <1>1, <2>1 DEF Core, Turns, TypeOK, StageNames
      <3>2. ToDo(a) = 4 + ToRead(a) /\ ToDo(a)' = 4 + ToRead(a)'
        BY <3>1 DEF ToDo
      <3> QED BY <1>1, <1>4, <2>1, <3>2, StepsAre, StepsAreNext
    <2>2. CASE a = Observer
      BY <1>1, <1>4, <2>2, StepsAre, StepsAreNext
    <2>3. CASE a = Planner
      <3>1. phase = "observing" /\ phase' = "observing"
        BY <1>1, <2>3 DEF Core, Turns, StageNames
      <3>2. PhasesLeft' = PhasesLeft
        BY <3>1 DEF PhasesLeft
      <3> QED BY <1>1, <1>4, <2>3, <3>1, <3>2, StepsAre, StepsAreNext
    <2> QED BY <2>1, <2>2, <2>3 DEF Actors
  <1>6. \A b \in Actors : b # a => StepsLeft'[b] = StepsLeft[b]
    BY <1>1, <1>3, OthersStay
  <1> QED BY <1>1, <1>5, <1>6, OneAdvances

\* A step on the goroutine of a resource.
LEMMA ActAdvances ==
    ASSUME Core, TypeOK', NEW k \in Keys, Act(k)
    PROVE  Fewer(StepsLeft', StepsLeft)
  <1>1. /\ phase' = phase /\ TypeOK /\ k \in Actors /\ work[k] \notin {"idle", "done"}
        /\ \A l \in Keys : l # k => work'[l] = work[l]
        /\ \A a \in Actors : a # k => stage'[a] = stage[a]
        /\ Ended(k) \/ WentOn(k)
    BY ActShape, Bounds DEF Core
  <1>2. ToDo(k)' < ToDo(k)
    <2>1. CASE Ended(k)
      <3>1. ToDo(k)' = 0
        BY <2>1 DEF Ended, ToDo
      <3>2. ToDo(k) > 0
        BY <1>1, StepsAre DEF ToDo, TypeOK
      <3> QED BY <3>1, <3>2
    <2>2. CASE WentOn(k)
      <3>1. CASE work[k] = "begin" /\ work'[k] = "collect" /\ stage' = [stage EXCEPT ![k] = "table"]
        <4>1. ToRead(k)' = 4
          BY <1>1, <3>1 DEF ToRead, TypeOK
        <4> QED BY <3>1, <4>1 DEF ToDo
      <3>2. CASE <<work[k], work'[k]>> \in Onward /\ (work[k] = "collect" => stage[k] = "collected")
        <4>1. work[k] = "collect" => ToRead(k) = 0
          BY <3>2 DEF ToRead
        <4> QED BY <3>2, <4>1 DEF ToDo, Onward
      <3> QED BY <2>2, <3>1, <3>2 DEF WentOn
    <2> QED BY <1>1, <2>1, <2>2
  <1>3. StepsLeft'[k] < StepsLeft[k]
    BY <1>1, <1>2, StepsAre, StepsAreNext
  <1>4. \A a \in Actors : a # k => StepsLeft'[a] = StepsLeft[a]
    BY <1>1, OthersStay
  <1> QED BY <1>1, <1>3, <1>4, OneAdvances

\* A step of the commands' own.
LEMMA CommandAdvances ==
    ASSUME Core, TypeOK', Command, ~(LookAgain /\ ~graceOver)
    PROVE  Fewer(StepsLeft', StepsLeft)
  <1>0. TypeOK
    BY DEF Core
  <1>1. CASE MakePlan
    <2>1. /\ phase = "observing" /\ phase' = "saved" /\ work' = work
          /\ \A a \in Actors : a # Planner => stage'[a] = stage[a]
      BY <1>0, <1>1 DEF MakePlan, Discard, TypeOK
    <2>2. PhasesLeft = 4 /\ PhasesLeft' = 3
      BY <2>1 DEF PhasesLeft
    <2>3. StepsLeft'[Planner] < StepsLeft[Planner]
      BY <1>0, <2>1, <2>2, StepsAre, StepsAreNext, Bounds
    <2>4. \A a \in Actors : a # Planner => StepsLeft'[a] = StepsLeft[a]
      BY <1>0, <2>1, OthersStay
    <2> QED BY <1>0, <2>3, <2>4, OneAdvances, Bounds
  <1>2. CASE ApplyExpired \/ ApplyStarts \/ ActionsDone \/ LookEnds
    <2>1. /\ UNCHANGED <<work, stage>> /\ phase # "observing" /\ phase' # "observing"
          /\ <<phase, phase'>> \in {<<"saved", "done">>, <<"saved", "acting">>,
                                   <<"acting", "looking">>, <<"looking", "done">>}
      BY <1>2 DEF ApplyExpired, ApplyStarts, ActionsDone, LookEnds
    <2>2. PhasesLeft' < PhasesLeft
      BY <2>1 DEF PhasesLeft
    <2>3. StepsLeft'[Planner] < StepsLeft[Planner]
      BY <1>0, <2>1, <2>2, StepsAre, StepsAreNext
    <2>4. \A a \in Actors : a # Planner => StepsLeft'[a] = StepsLeft[a]
      BY <1>0, <2>1, OthersStay
    <2> QED BY <1>0, <2>3, <2>4, OneAdvances, Bounds
  <1>3. ASSUME NEW k \in Keys, Dispatch(k) PROVE Fewer(StepsLeft', StepsLeft)
    <2>1. /\ UNCHANGED <<stage, phase>> /\ work[k] = "idle"
          /\ work'[k] \in {"begin", "done"} /\ \A l \in Keys : l # k => work'[l] = work[l]
      BY <1>0, <1>3 DEF Dispatch, Undispatched, TypeOK
    <2>2. ToDo(k)' < ToDo(k)
      BY <2>1 DEF ToDo
    <2>3. StepsLeft'[k] < StepsLeft[k]
      BY <1>0, <2>2, StepsAre, StepsAreNext
    <2>4. \A a \in Actors : a # k => StepsLeft'[a] = StepsLeft[a]
      BY <1>0, <2>1, OthersStay
    <2> QED BY <1>0, <2>3, <2>4, OneAdvances, Bounds
  <1>4. CASE LookBegins
    <2>1. /\ UNCHANGED <<work, phase>> /\ stage[Observer] = "idle" /\ stage'[Observer] = "table"
          /\ \A a \in Actors : a # Observer => stage'[a] = stage[a]
      BY <1>0, <1>4, Bounds DEF LookBegins, TypeOK
    <2>2. ToRead(Observer)' < ToRead(Observer)
      BY <2>1 DEF ToRead
    <2>3. StepsLeft'[Observer] < StepsLeft[Observer]
      BY <1>0, <2>2, StepsAre, StepsAreNext
    <2>4. \A a \in Actors : a # Observer => StepsLeft'[a] = StepsLeft[a]
      BY <1>0, <2>1, OthersStay
    <2> QED BY <1>0, <2>3, <2>4, OneAdvances, Bounds
  <1>5. ~LookAgain
    BY DEF LookAgain, LookIsLast
  <1> QED BY <1>1, <1>2, <1>3, <1>4, <1>5 DEF Command

\* No step of the program leaves as much to do as there was, but for another look
\* while the grace period lasts; and nothing else changes what is left.  Since no
\* count rises without end, only a grace period that never ends could keep an
\* apply from ending (apply.go:171-188, 254-272, 400-413).
THEOREM EveryStepAdvances == Spec => Advances
  <1>1. Core /\ Core' /\ [Next]_vars =>
           [ \/ Fewer(StepsLeft', StepsLeft)
             \/ LookAgain /\ ~graceOver
             \/ (WorldMoves \/ Cancel \/ GraceEnds) /\ StepsLeft' = StepsLeft ]_vars
    <2> SUFFICES ASSUME Core, Core', Next
                 PROVE  \/ Fewer(StepsLeft', StepsLeft)
                        \/ LookAgain /\ ~graceOver
                        \/ (WorldMoves \/ Cancel \/ GraceEnds) /\ StepsLeft' = StepsLeft
                        \/ UNCHANGED vars
      OBVIOUS
    <2>0. TypeOK /\ TypeOK'
      BY DEF Core
    <2>1. CASE Command
      BY <2>0, <2>1, CommandAdvances
    <2>2. CASE \E a \in Actors : CollectStep(a)
      BY <2>0, <2>2, CollectAdvances
    <2>3. CASE \E k \in Keys : Act(k)
      BY <2>0, <2>3, ActAdvances
    <2>4. CASE WorldMoves \/ Cancel \/ GraceEnds
      <3>1. UNCHANGED <<phase, stage, work>>
        BY <2>4 DEF WorldMoves, run, Cancel, GraceEnds
      <3>2. StepsLeft' = StepsLeft
        BY <3>1 DEF StepsLeft, ToDo, ToRead, PhasesLeft
      <3> QED BY <2>4, <3>2
    <2>5. CASE Done
      BY <2>5 DEF Done
    <2> QED BY <2>1, <2>2, <2>3, <2>4, <2>5 DEF Next, Program
  <1> QED BY <1>1, ApplyAlways, PTL DEF Spec, Advances, ApplyInv

=============================================================================
