---------------------------- MODULE World_proofs ----------------------------
(***************************************************************************)
(* Facts about the machine and about what one look at it shows, for every   *)
(* number of processes, containers, ports and moves of the environment.     *)
(***************************************************************************)
EXTENDS Collect, TLAPS

LEMMA Sorts ==
    /\ PIDs \subseteq Nat /\ 0 \notin PIDs /\ Hidden \notin PIDs /\ Hidden = 0
    /\ MaxStart \in Nat /\ MaxMoves \in Nat
    /\ \A p \in PIDs : p \notin Containers /\ p \in Keys
    /\ \A c \in Containers : c \notin PIDs /\ c \in Keys
    /\ \A k \in Keys : k \in PIDs \/ k \in Containers
    /\ Publishes \in [Containers -> SUBSET Ports]
  BY ObservationAssumption, PlanningAssumption, WorldAssumption DEF Hidden, Keys

\* A host runs Windows or has a Unix tool that lists owners, never both.
LEMMA HostTools ==
    ASSUME WorldTypeOK
    PROVE  /\ OnWindows \in BOOLEAN /\ DockerInstalled \in BOOLEAN
           /\ host.lsof \in BOOLEAN /\ host.ss \in BOOLEAN /\ host.identity \in BOOLEAN
           /\ OnWindows <=> ~(host.lsof \/ host.ss)
  BY WorldAssumption DEF WorldTypeOK, OnWindows, DockerInstalled

LEMMA WorldInitTypes ==
    ASSUME WorldInit
    PROVE  WorldTypeOK
  BY Sorts, WorldAssumption DEF WorldInit, WorldTypeOK

LEMMA WorldTypes ==
    ASSUME WorldTypeOK, WorldNext
    PROVE  WorldTypeOK' /\ host' = host
  <1> USE Sorts DEF WorldTypeOK, Move
  <1>1. CASE \E p \in PIDs : Exits(p)
    BY <1>1 DEF Exits
  <1>2. CASE \E p \in PIDs : Starts(p)
    <2>1. PICK p \in PIDs : Starts(p)
      BY <1>2
    <2>2. /\ UNCHANGED <<host, up, stopping>> /\ moves' \in 0..MaxMoves
          /\ bound' = [bound EXCEPT ![p] = clock + 1] /\ clock' = clock + 1 /\ clock < MaxStart
      BY <2>1 DEF Starts
    <2>3. holds' \in [PIDs -> SUBSET Ports]
      <3>1. \A q \in PIDs : HeldBy(q) \subseteq Ports
        BY DEF HeldBy
      <3>2. PICK ports : /\ ports \in {HeldBy(q) : q \in PIDs} \cup SUBSET (Ports \ (NativelyHeld \cup Published))
                         /\ holds' = [holds EXCEPT ![p] = ports]
        BY <2>1 DEF Starts
      <3>3. ports \subseteq Ports
        BY <3>1, <3>2
      <3> HIDE DEF WorldTypeOK
      <3>4. holds \in [PIDs -> SUBSET Ports]
        BY DEF WorldTypeOK
      <3> QED BY <3>2, <3>3, <3>4
    <2>4. kind' \in [PIDs -> {"plain", "infra"}]
      <3>1. PICK name \in {"plain", "infra"} : kind' = [kind EXCEPT ![p] = name]
        BY <2>1 DEF Starts
      <3> HIDE DEF WorldTypeOK
      <3>2. kind \in [PIDs -> {"plain", "infra"}]
        BY DEF WorldTypeOK
      <3> QED BY <3>1, <3>2
    <2>5. bound' \in [PIDs -> 0..MaxStart] /\ clock' \in 0..MaxStart
      BY <2>2
    <2>6. host' \in Hosts /\ up' \in SUBSET Containers /\ stopping' \in SUBSET Containers
      BY <2>2
    <2> QED BY <2>2, <2>3, <2>4, <2>5, <2>6
  <1>3. CASE \E p \in PIDs, port \in Ports : Binds(p, port) \/ Closes(p, port)
    BY <1>3 DEF Binds, Closes
  <1>4. CASE \E c \in Containers : ContainerStarts(c) \/ ContainerDies(c) \/ DaemonStops(c)
    BY <1>4 DEF ContainerStarts, ContainerDies, DaemonStops
  <1> QED BY <1>1, <1>2, <1>3, <1>4 DEF WorldNext

\* Start times only grow: what changes under a PID is an exit, or a process
\* that is younger than any before it.
LEMMA WorldAges ==
    ASSUME WorldTypeOK, WorldNext
    PROVE  /\ clock \in Nat /\ clock' \in Nat /\ clock <= clock'
           /\ \A p \in PIDs : \/ bound'[p] = bound[p]
                              \/ bound'[p] = 0
                              \/ bound'[p] \in (clock + 1)..clock'
  <1> USE Sorts DEF WorldTypeOK, Move
  <1>1. CASE \E p \in PIDs : Exits(p)
    BY <1>1 DEF Exits
  <1>2. CASE \E p \in PIDs : Starts(p)
    BY <1>2 DEF Starts
  <1>3. CASE \E p \in PIDs, port \in Ports : Binds(p, port) \/ Closes(p, port)
    BY <1>3 DEF Binds, Closes
  <1>4. CASE \E c \in Containers : ContainerStarts(c) \/ ContainerDies(c) \/ DaemonStops(c)
    BY <1>4 DEF ContainerStarts, ContainerDies, DaemonStops
  <1> QED BY <1>1, <1>2, <1>3, <1>4 DEF WorldNext

\* A process keeps its name for life.
LEMMA WorldNames ==
    ASSUME WorldTypeOK, WorldNext
    PROVE  \A p \in PIDs : bound'[p] # 0 /\ bound'[p] = bound[p] => kind'[p] = kind[p]
  <1> USE Sorts DEF WorldTypeOK, Move
  <1>1. CASE \E p \in PIDs : Exits(p)
    BY <1>1 DEF Exits
  <1>2. CASE \E p \in PIDs : Starts(p)
    BY <1>2 DEF Starts
  <1>3. CASE \E p \in PIDs, port \in Ports : Binds(p, port) \/ Closes(p, port)
    BY <1>3 DEF Binds, Closes
  <1>4. CASE \E c \in Containers : ContainerStarts(c) \/ ContainerDies(c) \/ DaemonStops(c)
    BY <1>4 DEF ContainerStarts, ContainerDies, DaemonStops
  <1> QED BY <1>1, <1>2, <1>3, <1>4 DEF WorldNext
=============================================================================
