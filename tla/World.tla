------------------------------- MODULE World -------------------------------
(***************************************************************************)
(* The machine the workflow acts on: processes that hold ports and          *)
(* containers that publish them, changing on their own between any two      *)
(* steps of killport.  All of it belongs to the operating system and to     *)
(* Docker.                                                                  *)
(*                                                                          *)
(* A process that has exited frees its PID at once; that the PID may stay   *)
(* taken for a while (a zombie) is modelled in Machine.  MaxMoves bounds    *)
(* what the environment does in a behaviour.                                *)
(***************************************************************************)
EXTENDS Planning

CONSTANTS
    Publishes,    \* Publishes[c]: the host ports container c publishes
    Invisible,    \* PIDs whose sockets this user cannot attribute
    InitialPIDs,  \* PIDs that may be in use at the start
    InitialUp,    \* containers running at the start
    Hosts,        \* the hosts the program may find itself on
    MaxMoves

ASSUME WorldAssumption ==
    /\ Publishes \in [Containers -> SUBSET Ports]
    /\ Invisible \subseteq PIDs
    /\ InitialPIDs \subseteq PIDs
    /\ InitialUp \subseteq Containers
    /\ Hosts \subseteq [windows : BOOLEAN, docker : BOOLEAN, lsof : BOOLEAN,
                        ss : BOOLEAN, identity : BOOLEAN]
    /\ \A h \in Hosts : h.windows # (h.lsof \/ h.ss)
    /\ MaxMoves \in Nat
    /\ MaxStart > 0       \* there is a start time for the initial processes

VARIABLES
    host,         \* the system and the tools on its PATH, fixed for life
    bound,        \* bound[p]: start time of the process with PID p, or 0
    clock,        \* start time of the youngest process
    holds,        \* holds[p]: the ports process p holds
    kind,         \* kind[p]: its name, "plain" or "infra"
    up,           \* the running containers
    stopping,     \* containers the daemon was told to stop
    moves         \* moves of the environment so far

world == <<host, bound, clock, holds, kind, up, stopping, moves>>

OnWindows == host.windows
DockerInstalled == host.docker

WorldTypeOK ==
    /\ host \in Hosts
    /\ bound \in [PIDs -> 0..MaxStart]
    /\ clock \in 0..MaxStart
    /\ holds \in [PIDs -> SUBSET Ports]
    /\ kind \in [PIDs -> {"plain", "infra"}]
    /\ up \in SUBSET Containers
    /\ stopping \in SUBSET Containers
    /\ moves \in 0..MaxMoves

HeldBy(p) == IF bound[p] = 0 THEN {} ELSE holds[p]

NativelyHeld == UNION {HeldBy(p) : p \in PIDs}
Published == UNION {Publishes[c] : c \in up}

\* The initial processes all started at time 1.
WorldInit ==
    /\ host \in Hosts
    /\ bound = [p \in PIDs |-> IF p \in InitialPIDs THEN 1 ELSE 0]
    /\ clock = 1
    /\ holds \in [PIDs -> SUBSET Ports]
    /\ \A p \in PIDs : bound[p] = 0 => holds[p] = {}
    /\ kind \in [PIDs -> {"plain", "infra"}]
    /\ \A p \in PIDs : bound[p] = 0 => kind[p] = "plain"
    /\ up = InitialUp
    /\ stopping = {}
    /\ moves = 0

Move == moves < MaxMoves /\ moves' = moves + 1

Exits(p) ==
    /\ Move
    /\ bound[p] # 0
    /\ bound' = [bound EXCEPT ![p] = 0]
    /\ holds' = [holds EXCEPT ![p] = {}]
    /\ kind' = [kind EXCEPT ![p] = "plain"]
    /\ UNCHANGED <<host, clock, up, stopping>>

\* A new process, possibly under a PID that was used before: it binds ports
\* that are free, or shares all those of its parent.
Starts(p) ==
    /\ Move
    /\ bound[p] = 0 /\ clock < MaxStart
    /\ clock' = clock + 1
    /\ bound' = [bound EXCEPT ![p] = clock + 1]
    /\ \E ports \in {HeldBy(q) : q \in PIDs} \cup SUBSET (Ports \ (NativelyHeld \cup Published)) :
          holds' = [holds EXCEPT ![p] = ports]
    /\ \E name \in {"plain", "infra"} : kind' = [kind EXCEPT ![p] = name]
    /\ UNCHANGED <<host, up, stopping>>

Binds(p, port) ==
    /\ Move
    /\ bound[p] # 0 /\ port \notin NativelyHeld \cup Published
    /\ holds' = [holds EXCEPT ![p] = @ \cup {port}]
    /\ UNCHANGED <<host, bound, clock, kind, up, stopping>>

Closes(p, port) ==
    /\ Move
    /\ port \in HeldBy(p)
    /\ holds' = [holds EXCEPT ![p] = @ \ {port}]
    /\ UNCHANGED <<host, bound, clock, kind, up, stopping>>

ContainerStarts(c) ==
    /\ Move
    /\ c \notin up
    /\ Publishes[c] \cap (NativelyHeld \cup Published) = {}
    /\ up' = up \cup {c}
    /\ UNCHANGED <<host, bound, clock, holds, kind, stopping>>

ContainerDies(c) ==
    /\ Move
    /\ c \in up
    /\ up' = up \ {c}
    /\ UNCHANGED <<host, bound, clock, holds, kind, stopping>>

\* The daemon finishes a stop, maybe long after its client gave up.
DaemonStops(c) ==
    /\ c \in stopping
    /\ up' = up \ {c}
    /\ stopping' = stopping \ {c}
    /\ UNCHANGED <<host, bound, clock, holds, kind, moves>>

WorldNext ==
    \/ \E p \in PIDs : Exits(p) \/ Starts(p)
    \/ \E p \in PIDs, port \in Ports : Binds(p, port) \/ Closes(p, port)
    \/ \E c \in Containers : ContainerStarts(c) \/ ContainerDies(c) \/ DaemonStops(c)
=============================================================================
