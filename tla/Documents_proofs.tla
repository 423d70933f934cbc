--------------------------- MODULE Documents_proofs ---------------------------
(***************************************************************************)
(* Proofs about Documents for every set of PIDs, containers and ports, and  *)
(* every snapshot the collectors can produce.                               *)
(***************************************************************************)
EXTENDS Documents, TLAPS

(***************************************************************************)
(* The invariant: until it is saved, the plan is the one built from the     *)
(* snapshot at hand, and a report is the verdict on the results and the     *)
(* snapshot beside it.  Nothing more is needed for what a fresh plan says,  *)
(* and nothing at all for what "free" means: those are facts about the      *)
(* operators, whatever plan and snapshot they are given.                    *)
(***************************************************************************)
Fresh ==
    phase = "planned" =>
        /\ snap \in Snapshots
        /\ \E mode \in Modes : plan = BuildPlan(snap, mode)

status == Classify(plan, result, snap)

Told ==
    phase = "applied" =>
        \E class \in Verdicts(result, status, snap) :
            report = [status |-> status, class |-> class]

\* Before the first step there is neither a plan nor a report.
LEMMA InitFresh == Init => Fresh /\ Told
  BY DEF Init, Fresh, Told

\* Only Build makes a plan, and only Judge a report.
LEMMA NextFresh == Fresh /\ Told /\ [Next]_vars => Fresh' /\ Told'
  <1> SUFFICES ASSUME Fresh, Told, [Next]_vars PROVE Fresh' /\ Told'
    OBVIOUS
  <1>1. CASE Build
    BY <1>1 DEF Build, Fresh, Told, SnapshotsOn
  <1>2. CASE Save
    BY <1>2 DEF Save, Fresh, Told
  <1>3. CASE Judge
    <2>1. Told'
      BY <1>3 DEF Judge, Told, status, Verdicts
    <2> QED BY <1>3, <2>1 DEF Judge, Fresh
  <1>4. CASE UNCHANGED vars
    BY <1>4 DEF vars, Fresh, Told, status, Verdicts
  <1> QED BY <1>1, <1>2, <1>3, <1>4 DEF Next, Done

\* A plan that is only built is the one of the snapshot at hand, and a report
\* is the verdict on what is beside it.
LEMMA AlwaysFresh == Spec => [](Fresh /\ Told)
  BY InitFresh, NextFresh, PTL DEF Spec

-----------------------------------------------------------------------------
(* Facts about the operators *)

\* Every container that publishes a port puts up a flag that is not "free".
LEMMA ContainerFlagged ==
    ASSUME NEW p, NEW r, NEW port, NEW c
    PROVE  ContainerFlag(p, r, port, c) \in {"refused", "other", "unknown", "original"}
  BY DEF ContainerFlag

\* Every owner does too, unless a container is there to be judged.
LEMMA OwnerFlagged ==
    ASSUME NEW p, NEW s, NEW port, NEW o
    PROVE  \/ OwnerFlag(p, s, port, o) \in {"refused", "other", "unknown", "original"}
           \/ Explained(s, port)
  BY DEF OwnerFlag

\* What a port reported free stands for, whatever the plan, the results and
\* the snapshot.
LEMMA FreeMeans ==
    ASSUME NEW p, NEW r, NEW s, NEW port, Status(p, r, s, port) = "free"
    PROVE  /\ Owners(s, port) = {} /\ Publishers(s, port) = {}
           /\ Visibility(s, port) = "complete" /\ ~Occupied(s, port)
  <1> DEFINE flags == Flags(p, r, s, port)
  <1>1. /\ \A f \in flags : f \notin {"refused", "other", "unknown", "original"}
        /\ Visibility(s, port) = "complete"
        /\ ~Occupied(s, port)
    BY DEF Status
  <1>2. Publishers(s, port) = {}
    <2>1. \A c \in Publishers(s, port) : ContainerFlag(p, r, port, c) \in flags
      BY DEF Flags
    <2> QED BY <1>1, <2>1, ContainerFlagged
  <1>3. Owners(s, port) = {}
    <2>1. \A o \in Owners(s, port) : OwnerFlag(p, s, port, o) \in flags
      BY DEF Flags
    <2>2. ~Explained(s, port)
      BY <1>2 DEF Explained
    <2> QED BY <1>1, <2>1, <2>2, OwnerFlagged
  <1> QED BY <1>1, <1>2, <1>3

\* An occupied port has an owner, a publisher, a hidden owner or is in the table;
\* either the plan uses or refuses it, or something is not visible.
LEMMA Accounted ==
    ASSUME NEW s, NEW mode, NEW port \in Ports, Occupied(s, port)
    PROVE  \/ UsedOn(s, mode, port) # {}
           \/ RefusedPIDs(s, mode, port) # {}
           \/ RefusedContainers(s, mode, port) # {}
           \/ HiddenOwner(s, port)
  <1>1. CASE Publishers(s, port) # {}
    <2>1. PICK c \in Publishers(s, port) : TRUE
      BY <1>1
    <2>2. CASE UseContainer(mode, c)
      BY <2>1, <2>2 DEF UsedOn
    <2>3. CASE ~UseContainer(mode, c)
      BY <2>1, <2>3 DEF RefusedContainers
    <2> QED BY <2>2, <2>3
  <1>2. CASE Publishers(s, port) = {} /\ Owners(s, port) # {}
    <2>1. PICK o \in Owners(s, port) : TRUE
      BY <1>2
    <2>2. ~LeftToContainer(s, mode, port, o)
      BY <1>2 DEF LeftToContainer, Explained
    <2>3. CASE UseProcess(s, mode, o)
      BY <2>1, <2>3 DEF UsedOn
    <2>4. CASE ~UseProcess(s, mode, o)
      BY <2>1, <2>2, <2>4 DEF RefusedPIDs
    <2> QED BY <2>3, <2>4
  <1>3. CASE Publishers(s, port) = {} /\ Owners(s, port) = {}
    BY <1>3 DEF Occupied, HiddenOwner, Explained
  <1> QED BY <1>1, <1>2, <1>3

\* A port with limited visibility has a hidden owner or an owner whose identity
\* was denied; the plan refuses either.
LEMMA LimitedRefused ==
    ASSUME NEW s, NEW mode, NEW port \in Ports,
           Visibility(s, port) = "permission_limited"
    PROVE  HiddenOwner(s, port) \/ RefusedPIDs(s, mode, port) # {}
  <1>1. Unattributed(s, port)
    BY DEF Visibility
  <1>2. CASE HiddenOwner(s, port)
    BY <1>2
  <1>3. CASE DeniedActionable(s, port)
    <2>1. PICK o \in Owners(s, port) :
              s.ident[o] = "denied" /\ ~(Explained(s, port) /\ Infra(s, o))
      BY <1>3 DEF DeniedActionable
    <2>2. ~UseProcess(s, mode, o)
      BY <2>1 DEF UseProcess
    <2>3. ~LeftToContainer(s, mode, port, o)
      BY <2>1 DEF LeftToContainer
    <2> QED BY <2>1, <2>2, <2>3 DEF RefusedPIDs
  <1> QED BY <1>1, <1>2, <1>3 DEF Unattributed

\* What a built plan records about a port.
LEMMA Built ==
    ASSUME NEW s, NEW mode, NEW port \in Ports
    PROVE  LET p == BuildPlan(s, mode)
           IN  /\ p.used[port] = UsedOn(s, mode, port)
               /\ p.refusedPID[port] = RefusedPIDs(s, mode, port)
               /\ p.refusedContainer[port] = RefusedContainers(s, mode, port)
               /\ port \in p.refusedHidden <=> HiddenOwner(s, port)
               /\ p.visibility[port] = Visibility(s, port)
               /\ port \in p.occupied <=> Occupied(s, port)
  BY DEF BuildPlan

\* What a built plan uses passes the checks apply makes, if the snapshot is one
\* the collectors can leave behind.
LEMMA BuiltIsValid ==
    ASSUME NEW s \in Snapshots, NEW mode \in Modes
    PROVE  ValidatePlan(BuildPlan(s, mode))
  <1> DEFINE p == BuildPlan(s, mode)
  <1>1. /\ p.mode = mode /\ p.windows = s.windows /\ p.start = s.start
        /\ p.resources = UNION {UsedOn(s, mode, port) : port \in Ports}
        /\ \A port \in Ports : p.used[port] = UsedOn(s, mode, port)
        /\ \A k \in Keys : p.ports[k] = {port \in Ports : k \in UsedOn(s, mode, port)}
    BY DEF BuildPlan
  <1>2. \A o \in PIDs : s.ident[o] = "ok" <=> s.start[o] # 0
    BY DEF Snapshots, WellFormed
  <1> HIDE DEF p
  <1>3. ASSUME NEW k \in p.resources
        PROVE  /\ p.ports[k] # {} /\ p.ports[k] \subseteq Ports
               /\ k \in PIDs => /\ p.mode # "container"
                                /\ k > 1
                                /\ ~(p.windows /\ k = 4)
                                /\ p.start[k] # 0
               /\ k \in Containers => p.mode # "native" /\ k \in FullIDs
    <2>1. PICK port \in Ports : k \in UsedOn(s, mode, port)
      BY <1>1, <1>3
    <2>2. /\ k \in Keys
          /\ k \in PIDs => UseProcess(s, mode, k)
          /\ k \in Containers => UseContainer(mode, k)
      BY <2>1, PlanningAssumption DEF UsedOn, Keys, Publishers, Owners
    <2>3. p.ports[k] # {} /\ p.ports[k] \subseteq Ports
      BY <1>1, <2>1, <2>2
    <2>4. ASSUME k \in PIDs
          PROVE  /\ p.mode # "container" /\ k > 1
                 /\ ~(p.windows /\ k = 4) /\ p.start[k] # 0
      <3>1. UseProcess(s, mode, k)
        BY <2>2, <2>4
      <3>2. ~(k <= 1) /\ ~(s.windows /\ k = 4)
        BY <3>1, Zenon DEF UseProcess, Protected
      <3>3. k > 1
        BY <2>4, <3>2, ObservationAssumption
      <3>4. s.start[k] # 0
        BY <1>2, <2>4, <3>1, Zenon DEF UseProcess
      <3>5. mode # "container"
        BY <3>1, Zenon DEF UseProcess
      <3> QED BY <1>1, <3>2, <3>3, <3>4, <3>5, Zenon
    <2>5. ASSUME k \in Containers PROVE p.mode # "native" /\ k \in FullIDs
      BY <1>1, <2>2, <2>5 DEF UseContainer
    <2> QED BY <2>3, <2>4, <2>5
  <1>4. \A port \in Ports : p.used[port] \subseteq p.resources
    BY <1>1
  <1>5. ValidatePlan(p)
    BY <1>1, <1>3, <1>4 DEF ValidatePlan
  <1> QED BY <1>5 DEF p

\* A status of "blocked by a new owner" has a flag that says so, or an occupied
\* port with complete visibility and nobody on it.
LEMMA BlockedMeans ==
    ASSUME NEW p, NEW r, NEW s, NEW port,
           Status(p, r, s, port) = "blocked_by_new_owner"
    PROVE  /\ "refused" \notin Flags(p, r, s, port)
           /\ "original" \notin Flags(p, r, s, port)
           /\ \/ "other" \in Flags(p, r, s, port)
              \/ HiddenOwner(s, port) /\ Visibility(s, port) = "complete"
  <1> DEFINE flags == Flags(p, r, s, port)
  <1>1. /\ "refused" \notin flags /\ "original" \notin flags
        /\ \/ "other" \in flags
           \/ /\ "unknown" \notin flags
              /\ Visibility(s, port) = "complete" /\ Occupied(s, port)
    BY DEF Status
  <1>2. ASSUME "other" \notin flags PROVE HiddenOwner(s, port)
    <2>1. Publishers(s, port) = {}
      <3>1. \A c \in Publishers(s, port) : ContainerFlag(p, r, port, c) \in flags
        BY DEF Flags
      <3> QED BY <1>1, <1>2, <3>1, ContainerFlagged
    <2>2. Owners(s, port) = {}
      <3>1. \A o \in Owners(s, port) : OwnerFlag(p, s, port, o) \in flags
        BY DEF Flags
      <3> QED BY <1>1, <1>2, <2>1, <3>1, OwnerFlagged DEF Explained
    <2> QED BY <1>1, <1>2, <2>1, <2>2 DEF Occupied, HiddenOwner, Explained
  <1> QED BY <1>1, <1>2

\* A worst class exists.
LEMMA WorstExists ==
    ASSUME NEW S \in SUBSET Classes
    PROVE  /\ WorstOf(S) \in S \cup {"ok"}
           /\ \A b \in S \cup {"ok"} : WorseExit(WorstOf(S), b) = WorstOf(S)
  <1> DEFINE T == S \cup {"ok"}
             IsWorst(a) == \A b \in T : WorseExit(a, b) = a
  <1>1. \A a, b \in Classes : WorseExit(a, b) = IF ExitRank(b) > ExitRank(a) THEN b ELSE a
    BY DEF WorseExit
  <1>2. /\ ExitRank("usage") = 4 /\ ExitRank("failed") = 3 /\ ExitRank("uncertain") = 2
        /\ ExitRank("needs_fresh_plan") = 1 /\ ExitRank("ok") = 0
    BY DEF ExitRank
  <1>3. T \subseteq Classes
    BY DEF Classes
  <1>4. \E a \in T : IsWorst(a)
    <2>1. CASE "usage" \in T
      BY <1>1, <1>2, <1>3, <2>1 DEF Classes
    <2>2. CASE "usage" \notin T /\ "failed" \in T
      BY <1>1, <1>2, <1>3, <2>2 DEF Classes
    <2>3. CASE "usage" \notin T /\ "failed" \notin T /\ "uncertain" \in T
      BY <1>1, <1>2, <1>3, <2>3 DEF Classes
    <2>4. CASE T \subseteq {"needs_fresh_plan", "ok"} /\ "needs_fresh_plan" \in T
      BY <1>1, <1>2, <1>3, <2>4 DEF Classes
    <2>5. CASE T = {"ok"}
      BY <1>1, <1>2, <2>5 DEF Classes
    <2> QED BY <1>3, <2>1, <2>2, <2>3, <2>4, <2>5 DEF Classes
  <1>5. WorstOf(S) = CHOOSE a \in T : IsWorst(a)
    BY DEF WorstOf
  <1>6. LET w == CHOOSE a \in T : IsWorst(a) IN w \in T /\ IsWorst(w)
    BY <1>4
  <1> QED BY <1>5, <1>6

\* An exit class ok means that every class met was ok.
LEMMA OkMeansAllOk ==
    ASSUME NEW S \in SUBSET Classes, WorstOf(S) = "ok"
    PROVE  S \subseteq {"ok"}
  <1>1. \A b \in S : WorseExit("ok", b) = "ok"
    BY WorstExists
  <1>2. S \subseteq Classes
    OBVIOUS
  <1> QED BY <1>1, <1>2 DEF WorseExit, ExitRank, Classes

\* The classes apply combines are classes.
LEMMA ApplyClassesAreClasses ==
    ASSUME NEW r, NEW st
    PROVE  ResultClass(r) \subseteq Classes /\ StatusClass(st) \subseteq Classes
  BY DEF ResultClass, StatusClass, Classes

-----------------------------------------------------------------------------
(* A port is only reported free when a table, an owner source and Docker     *)
(* say so together (observe.go:20-22, apply.go:416-418).                     *)
THEOREM FreeIsAlwaysProven == Spec => []FreeIsProven
  <1>1. Told => FreeIsProven
    <2> SUFFICES ASSUME Told, phase = "applied", NEW port \in Ports, report.status[port] = "free"
                 PROVE  /\ snap.tableOK /\ port \notin snap.tableHas
                        /\ ~snap.ownerErr /\ ~snap.dockerErr
                        /\ Owners(snap, port) = {} /\ Publishers(snap, port) = {}
                        /\ <<port, Hidden>> \notin snap.rows
      BY DEF FreeIsProven
    <2>0. report.status = status
      BY DEF Told
    <2>1. Status(plan, result, snap, port) = "free"
      BY <2>0 DEF status, Classify
    <2>2. /\ Owners(snap, port) = {} /\ Publishers(snap, port) = {}
          /\ Visibility(snap, port) = "complete" /\ ~Occupied(snap, port)
      BY <2>1, FreeMeans
    <2>3. snap.tableOK /\ ~snap.ownerErr /\ ~snap.dockerErr
      BY <2>2 DEF Visibility
    <2> QED BY <2>2, <2>3 DEF Occupied, TableOccupied, HiddenRow
  <1> QED BY <1>1, AlwaysFresh, PTL

(* No occupant is silently dropped from a plan (plan.go:249-354).            *)
THEOREM EveryOccupantIsAccountedFor == Spec => []AccountedFor
  <1>1. Fresh => AccountedFor
    <2> SUFFICES ASSUME Fresh, phase = "planned", NEW port \in plan.occupied
                 PROVE  \/ plan.used[port] # {}
                        \/ RefusesOn(plan, port)
      BY DEF AccountedFor
    <2>1. PICK mode \in Modes : plan = BuildPlan(snap, mode)
      BY DEF Fresh
    <2>2. port \in Ports
      BY <2>1 DEF BuildPlan
    <2>3. Occupied(snap, port)
      BY <2>1, <2>2, Built
    <2> QED BY <2>1, <2>2, <2>3, Built, Accounted DEF RefusesOn
  <1> QED BY <1>1, AlwaysFresh, PTL

(* A plan with a permission-limited endpoint refuses something on it         *)
(* (docs/workflow.md:159).                                                   *)
THEOREM LimitedIsAlwaysRefused == Spec => []LimitedIsRefused
  <1>1. Fresh => LimitedIsRefused
    <2> SUFFICES ASSUME Fresh, phase = "planned", NEW port \in Ports,
                        plan.visibility[port] = "permission_limited"
                 PROVE  RefusesOn(plan, port)
      BY DEF LimitedIsRefused
    <2>1. PICK mode \in Modes : plan = BuildPlan(snap, mode)
      BY DEF Fresh
    <2>2. Visibility(snap, port) = "permission_limited"
      BY <2>1, Built
    <2> QED BY <2>1, <2>2, Built, LimitedRefused DEF RefusesOn
  <1> QED BY <1>1, AlwaysFresh, PTL
(* Every plan killport writes passes the validation apply insists on         *)
(* (plan.go:436-555).                                                        *)
THEOREM PlansAlwaysValidate == Spec => []PlansValidate
  <1>1. Init => PlansValidate
    BY DEF Init, PlansValidate
  <1>2. PlansValidate /\ [Next]_vars => PlansValidate'
    <2> SUFFICES ASSUME PlansValidate, [Next]_vars PROVE PlansValidate'
      OBVIOUS
    <2>1. CASE Build
      BY <2>1, BuiltIsValid DEF Build, SnapshotsOn, PlansValidate, ValidatePlan
    <2>2. CASE Save \/ Judge \/ UNCHANGED vars
      BY <2>2 DEF PlansValidate, Save, Judge, vars, ValidatePlan
    <2> QED BY <2>1, <2>2 DEF Next, Done
  <1> QED BY <1>1, <1>2, PTL DEF Spec

(* "Blocked by a new owner" always names an occupant the plan does not know  *)
(* (apply.go:507-519).                                                       *)
THEOREM NewOwnerIsAlwaysSomebody == Spec => []NewOwnerIsSomebody
  <1>1. Told => NewOwnerIsSomebody
    <2> SUFFICES ASSUME Told, phase = "applied", NEW port \in Ports,
                        report.status[port] = "blocked_by_new_owner"
                 PROVE  \/ \E p \in Owners(snap, port) :
                              /\ snap.ident[p] = "ok"
                              /\ p \notin plan.refusedPID[port]
                              /\ PlannedOn(plan, p, port) => plan.start[p] # snap.start[p]
                        \/ \E c \in Publishers(snap, port) : ~PlannedOn(plan, c, port)
      BY DEF NewOwnerIsSomebody
    <2>0. report.status = status
      BY DEF Told
    <2>1. Status(plan, result, snap, port) = "blocked_by_new_owner"
      BY <2>0 DEF status, Classify
    <2>2. ~(HiddenOwner(snap, port) /\ Visibility(snap, port) = "complete")
      BY DEF Visibility, Unattributed
    <2>3. "other" \in Flags(plan, result, snap, port)
      BY <2>1, <2>2, BlockedMeans
    <2>4. CASE \E p \in Owners(snap, port) : OwnerFlag(plan, snap, port, p) = "other"
      BY <2>4 DEF OwnerFlag
    <2>5. CASE \E c \in Publishers(snap, port) : ContainerFlag(plan, result, port, c) = "other"
      BY <2>5 DEF ContainerFlag
    <2> QED BY <2>3, <2>4, <2>5 DEF Flags
  <1> QED BY <1>1, AlwaysFresh, PTL

(* Judged from the snapshot it was made from, a plan knows every occupant    *)
(* (apply.go:419-526).                                                       *)
THEOREM StableWorldIsAlwaysRecognised == Spec => []StableWorldIsRecognised
  <1>1. Fresh => StableWorldIsRecognised
    <2> SUFFICES ASSUME Fresh, phase = "planned", NEW port \in Ports,
                        Status(plan, result, snap, port) = "blocked_by_new_owner"
                 PROVE  FALSE
      BY DEF StableWorldIsRecognised
    <2> DEFINE flags == Flags(plan, result, snap, port)
    <2>1. PICK mode \in Modes : plan = BuildPlan(snap, mode)
      BY DEF Fresh
    <2>3. /\ plan.start = snap.start
          /\ \A k \in Keys : k \in UsedOn(snap, mode, port) => PlannedOn(plan, k, port)
      BY <2>1 DEF BuildPlan, PlannedOn
    <2>4. ASSUME NEW p \in Owners(snap, port), OwnerFlag(plan, snap, port, p) = "other"
          PROVE  FALSE
      <3>1. p \in PIDs /\ p \in Keys
        BY DEF Owners, Keys
      <3>2. p \notin RefusedPIDs(snap, mode, port) /\ ~(Infra(snap, p) /\ Explained(snap, port))
        BY <2>1, <2>4, Built DEF OwnerFlag
      <3>3. UseProcess(snap, mode, p)
        BY <3>2 DEF RefusedPIDs, LeftToContainer
      <3>4. PlannedOn(plan, p, port)
        BY <2>3, <3>1, <3>3 DEF UsedOn
      <3> QED BY <2>3, <2>4, <3>4 DEF OwnerFlag
    <2>5. ASSUME NEW c \in Publishers(snap, port),
                 ContainerFlag(plan, result, port, c) = "other"
          PROVE  FALSE
      <3>1. ~RefusedName(plan, port, c) /\ ~PlannedOn(plan, c, port)
        BY <2>5 DEF ContainerFlag
      <3>2. c \in Keys
        BY DEF Publishers, Keys
      <3>3. ~UseContainer(mode, c)
        BY <2>3, <3>1, <3>2 DEF UsedOn
      <3>4. c \in plan.refusedContainer[port]
        BY <2>1, <3>3, Built DEF RefusedContainers
      <3> QED BY <3>1, <3>4 DEF RefusedName
    <2>6. "other" \notin flags
      BY <2>4, <2>5 DEF Flags
    <2>7. HiddenOwner(snap, port) /\ "refused" \notin flags
      BY <2>6, BlockedMeans
    <2>8. port \in plan.refusedHidden
      BY <2>1, <2>7, Built
    <2> QED BY <2>7, <2>8 DEF Flags
  <1> QED BY <1>1, AlwaysFresh, PTL

\* What a plan built from a snapshot is made of.
LEMMA BuiltTyped ==
    ASSUME NEW s, NEW mode
    PROVE  LET p == BuildPlan(s, mode)
           IN  /\ p.resources \subseteq Keys
               /\ \A port \in Ports : p.used[port] \subseteq Keys
               /\ \A port \in Ports : p.visibility[port] \in Visibilities
  <1>1. \A port \in Ports : UsedOn(s, mode, port) \subseteq Keys
    BY DEF UsedOn, Keys, Publishers, Owners
  <1>2. \A port \in Ports : Visibility(s, port) \in Visibilities
    BY DEF Visibility, Visibilities
  <1> QED BY <1>1, <1>2 DEF BuildPlan

\* Whatever plan and snapshot they are given, plan and apply exit with one of
\* the documented classes.
LEMMA ClassesTyped ==
    ASSUME NEW p, NEW r, NEW st, NEW s
    PROVE  PlanClass(p) \in Classes /\ ApplyClass(p, r, st, s) \in Classes
  <1>1. \A port \in Ports : EndpointPlanClass(p, port) \in SUBSET Classes
    BY DEF EndpointPlanClass, Classes
  <1>2. UNION {EndpointPlanClass(p, port) : port \in Ports} \in SUBSET Classes
    BY <1>1
  <1>3. /\ ResultClasses(p, r) \subseteq Classes /\ StatusClasses(st) \subseteq Classes
        /\ VisibilityClasses(s) \subseteq Classes
    BY ApplyClassesAreClasses DEF ResultClasses, StatusClasses, VisibilityClasses, Classes
  <1>4. \A S \in SUBSET Classes : WorstOf(S) \in Classes
    BY WorstExists DEF Classes
  <1>5. ResultClasses(p, r) \cup StatusClasses(st) \cup VisibilityClasses(s) \in SUBSET Classes
    BY <1>3
  <1> QED BY <1>2, <1>4, <1>5 DEF PlanClass, ApplyClass

\* A blank snapshot is a snapshot.
LEMMA BlankTyped == \A windows \in BOOLEAN : Blank(windows) \in Snapshot
  BY ObservationAssumption DEF Blank, Snapshot, Names, Idents

(* The variables keep their types, and plan and apply exit with documented   *)
(* classes (plan.go:72-117, apply.go:53-70).                                 *)
THEOREM DocumentsTyped == Spec => []TypeOK
  <1>1. Init => TypeOK
    BY BlankTyped DEF Init, TypeOK, NoPlan, Untouched, ActionResults
  <1>2. TypeOK /\ [Next]_vars => TypeOK'
    <2> SUFFICES ASSUME TypeOK, [Next]_vars PROVE TypeOK'
      OBVIOUS
    <2>1. CASE Build
      <3>1. PICK mode \in Modes : plan' = BuildPlan(snap', mode)
        BY <2>1 DEF Build
      <3>2. PlanClass(plan') \in Classes
        BY ClassesTyped
      <3>3. snap' \in Snapshot /\ plan'.windows \in BOOLEAN
        BY <2>1, <3>1 DEF Build, SnapshotsOn, Snapshots, Snapshot, BuildPlan
      <3> QED BY <2>1, <3>1, <3>2, <3>3, BuiltTyped DEF Build, TypeOK, PlanClass, EndpointPlanClass, RefusesOn
    <2>2. CASE Save
      <3>1. plan.windows \in BOOLEAN
        BY <2>2 DEF Save, TypeOK
      <3> QED BY <2>2, <3>1, BlankTyped DEF Save, TypeOK, PlanClass, EndpointPlanClass, RefusesOn
    <2>3. CASE Judge
      <3> DEFINE st == Classify(plan, result', snap')
      <3>1. PICK class \in Verdicts(result', st, snap') : report' = [status |-> st, class |-> class]
        BY <2>3 DEF Judge
      <3>2. class \in Classes
        BY <3>1, ClassesTyped DEF Verdicts, Classes
      <3>3. st \in [Ports -> Statuses]
        BY DEF Classify, Status, Statuses
      <3> QED BY <2>3, <3>1, <3>2, <3>3 DEF Judge, TypeOK, SnapshotsOn, Snapshots, PlanClass, EndpointPlanClass, RefusesOn
    <2>4. CASE UNCHANGED vars
      BY <2>4 DEF vars, TypeOK, PlanClass, EndpointPlanClass, RefusesOn
    <2> QED BY <2>1, <2>2, <2>3, <2>4 DEF Next, Done
  <1> QED BY <1>1, <1>2, PTL DEF Spec

(* An apply that exits ok left every endpoint free and no resource in doubt  *)
(* (apply.go:544-570).                                                       *)
THEOREM OkIsAlwaysEarned == Spec => []OkIsEarned
  <1>1. Told /\ TypeOK => OkIsEarned
    <2> SUFFICES ASSUME Told, TypeOK, phase = "applied", report.class = "ok"
                 PROVE  /\ AllFree(report.status)
                        /\ \A k \in plan.resources :
                              result[k] \in {"not_attempted", "signal_sent", "stopped"}
      BY DEF OkIsEarned
    <2> DEFINE R == ResultClasses(plan, result)
               T == StatusClasses(status)
               V == VisibilityClasses(snap)
    <2>0. report.status = status /\ ApplyClass(plan, result, status, snap) = "ok"
      BY DEF Told, Verdicts
    <2>1. R \cup T \cup V \subseteq Classes
      <3>1. R \subseteq Classes
        BY ApplyClassesAreClasses DEF ResultClasses
      <3>2. T \subseteq Classes
        BY ApplyClassesAreClasses DEF StatusClasses
      <3>3. V \subseteq Classes
        BY DEF VisibilityClasses, Classes
      <3> QED BY <3>1, <3>2, <3>3
    <2>2. R \cup T \cup V \subseteq {"ok"}
      BY <2>0, <2>1, OkMeansAllOk DEF ApplyClass
    <2>4. ASSUME NEW k \in plan.resources
          PROVE  result[k] \in {"not_attempted", "signal_sent", "stopped"}
      <3>1. ResultClass(result[k]) \subseteq {"ok"}
        BY <2>2 DEF ResultClasses
      <3>2. result[k] \in ActionResults
        BY DEF TypeOK
      <3> QED BY <3>1, <3>2 DEF ResultClass, ActionResults
    <2>5. ASSUME NEW port \in Ports PROVE status[port] = "free"
      <3>1. StatusClass(status[port]) \subseteq {"ok"}
        BY <2>2 DEF StatusClasses
      <3>2. status[port] \in Statuses
        BY DEF status, Classify, Status, Statuses
      <3> QED BY <3>1, <3>2 DEF StatusClass, Statuses
    <2> QED BY <2>0, <2>4, <2>5 DEF AllFree
  <1> QED BY <1>1, AlwaysFresh, DocumentsTyped, PTL

=============================================================================
