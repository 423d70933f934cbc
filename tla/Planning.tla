------------------------------ MODULE Planning ------------------------------
(***************************************************************************)
(* buildPlan, planClass and validatePlan (plan.go): which owners a plan     *)
(* acts on, which it refuses, and how it exits.                             *)
(*                                                                          *)
(* A plan resource is keyed by its PID or its container ID: one snapshot    *)
(* holds one identity per PID, so one PID is one resource.                  *)
(***************************************************************************)
EXTENDS Observation, ExitClass

CONSTANTS
    FullIDs,      \* the containers whose ID has 64 hex digits
    SelfPID       \* the PID killport runs under

ASSUME PlanningAssumption ==
    /\ FullIDs \subseteq Containers
    /\ PIDs \cap Containers = {}

Keys == PIDs \cup Containers

Modes == {"auto", "native", "container"}

-----------------------------------------------------------------------------
(* What is done about each owner of one port. *)

Protected(windows, p) == p <= 1 \/ p = SelfPID \/ (windows /\ p = 4)

UseContainer(mode, c) == mode # "native" /\ c \in FullIDs

\* Mutant of LeftToContainer: any Docker process is left alone.
LeftToContainer_Always(s, mode, port, p) == Infra(s, p)

\* A port proxy goes away with the container that publishes the port.
LeftToContainer(s, mode, port, p) ==
    Infra(s, p) /\ mode # "native" /\ Explained(s, port)

\* Mutant of UseProcess: a failed identity lookup is not refused.
UseProcess_NoIdentity(s, mode, p) ==
    ~Infra(s, p) /\ mode # "container" /\ ~Protected(s.windows, p)

UseProcess(s, mode, p) ==
    /\ ~Infra(s, p)
    /\ mode # "container"
    /\ ~Protected(s.windows, p)
    /\ ~(s.namesUnavailable /\ s.name[p] = "")
    /\ s.ident[p] = "ok"

\* Mutant of UsedOn: the owner that is not visible becomes a resource.
UsedOn_Hidden(s, mode, port) ==
    {c \in Publishers(s, port) : UseContainer(mode, c)}
    \cup {o \in {Hidden} : HiddenRow(s, port)}

UsedOn(s, mode, port) ==
    {c \in Publishers(s, port) : UseContainer(mode, c)}
    \cup {p \in Owners(s, port) : UseProcess(s, mode, p)}

\* Mutant of RefusedPIDs: Docker's own processes are not recorded.
RefusedPIDs_NoInfra(s, mode, port) ==
    {p \in Owners(s, port) : ~UseProcess(s, mode, p) /\ ~Infra(s, p)}

RefusedPIDs(s, mode, port) ==
    {p \in Owners(s, port) : /\ ~UseProcess(s, mode, p)
                             /\ ~LeftToContainer(s, mode, port, p)}

RefusedContainers(s, mode, port) ==
    {c \in Publishers(s, port) : ~UseContainer(mode, c)}
-----------------------------------------------------------------------------
(* The plan document. *)

BuildPlan(s, mode) ==
    [ windows    |-> s.windows,
      mode       |-> mode,
      resources  |-> UNION {UsedOn(s, mode, port) : port \in Ports},
      ports      |-> [k \in Keys |-> {port \in Ports : k \in UsedOn(s, mode, port)}],
      start      |-> s.start,
      used       |-> [port \in Ports |-> UsedOn(s, mode, port)],
      refusedPID |-> [port \in Ports |-> RefusedPIDs(s, mode, port)],
      refusedContainer |-> [port \in Ports |-> RefusedContainers(s, mode, port)],
      refusedHidden    |-> {port \in Ports : HiddenOwner(s, port)},
      visibility |-> [port \in Ports |-> Visibility(s, port)],
      occupied   |-> {port \in Ports : Occupied(s, port)} ]

RefusesOn(plan, port) ==
    \/ plan.refusedPID[port] # {}
    \/ plan.refusedContainer[port] # {}
    \/ port \in plan.refusedHidden

EndpointPlanClass(plan, port) ==
    (IF plan.visibility[port] = "provider_unavailable" THEN {"failed"}
     ELSE IF plan.visibility[port] \in {"permission_limited", "none_visible"}
     THEN {"uncertain"} ELSE {})
    \cup (IF port \in plan.occupied /\ plan.used[port] = {} THEN {"failed"} ELSE {})
    \cup (IF RefusesOn(plan, port) THEN {"failed"} ELSE {})

PlanClass(plan) ==
    WorstOf(UNION {EndpointPlanClass(plan, port) : port \in Ports})

\* The checks of validatePlan that a plan's content can fail.
ValidatePlan(plan) ==
    /\ plan.mode \in Modes
    /\ \A k \in plan.resources :
          /\ plan.ports[k] # {}
          /\ plan.ports[k] \subseteq Ports
          /\ k \in PIDs => /\ plan.mode # "container"
                           /\ k > 1
                           /\ ~(plan.windows /\ k = 4)
                           /\ plan.start[k] # 0
          /\ k \in Containers => plan.mode # "native" /\ k \in FullIDs
    /\ \A port \in Ports : plan.used[port] \subseteq plan.resources
=============================================================================
