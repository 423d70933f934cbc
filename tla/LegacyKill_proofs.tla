-------------------------- MODULE LegacyKill_proofs --------------------------
(***************************************************************************)
(* Proofs about LegacyKill for every number of ports, processes, containers *)
(* and slots, of attempts, of failing calls and of moves of the machine.    *)
(***************************************************************************)
EXTENDS LegacyKill, World_proofs

(***************************************************************************)
(* The inductive invariant.                                                  *)
(*                                                                          *)
(* Of the last enumeration: whatever was there at every read of it is in    *)
(* the listing, unless lsof gave up (ShowsRows); when Docker was needed it  *)
(* was asked, and what runs is listed with every port (ShowsContainers).    *)
(* Of the plan: nobody protected has an action, and who was signalled had    *)
(* one (Chosen).  Nothing is acted on but what is planned (Working), and     *)
(* Docker lists no port that is not published (Honest).                      *)
(***************************************************************************)
\* The rows an owner source can list.
SocketRow == Ports \X (PIDs \cup {Hidden})

Listings ==
    [rows : SUBSET SocketRow, name : [Ports \X PIDs -> Names], namesUnavailable : BOOLEAN,
     degraded : BOOLEAN, publishes : [Containers -> SUBSET Ports]]

Hit ==
    [pid : PIDs, start : 0..MaxStart, kind : {"plain", "infra"}, late : BOOLEAN]

ListType ==
    /\ list \in Listings
    /\ heldLast \subseteq Ports \X PIDs
    /\ upLast \subseteq Containers
    /\ hits \subseteq Hit

Staged ==
    /\ stage = "lsof" => HaveLsof
    /\ stage \in {"lsof", "ss"} => ~OnWindows
    /\ stage = "ss" /\ ~HaveLsof => FirstTool = "ss"
    /\ stage \in {"netstat", "tasklist"} => OnWindows
    /\ phase \in {"acting", "done"} => stage \in {"listed", "failed"}

Working ==
    /\ phase = "listing" => planned = {} /\ refused = {} /\ err = {}
    /\ \A k \in Keys : work[k] # "idle" => k \in ToAct /\ phase # "listing" /\ ~dryRun
    /\ phase \in {"verifying", "done"} => \A k \in Keys : work[k] \in {"idle", "done"}
    /\ phase \in {"acting", "verifying"} => ~dryRun

Chosen ==
    /\ \A r \in planned : r[2] \in PIDs => ~Protected(OnWindows, r[2])
    /\ \A h \in hits : h.pid \in ToAct /\ ~dryRun

Honest ==
    /\ \A c \in Containers : list.publishes[c] \subseteq Publishes[c]
    /\ ~DockerInstalled => \A c \in Containers : list.publishes[c] = {}
    /\ \A r \in planned : r[2] \in Containers => DockerInstalled /\ r[1] \in Publishes[r[2]]

ShowsRows ==
    /\ stage \notin {FirstTool, "failed"} /\ ~list.degraded => heldLast \subseteq list.rows
    /\ stage = "ss" /\ HaveLsof /\ list.degraded => list.rows = {}

ShowsContainers ==
    phase = "verifying" /\ stage = "listed" /\ NeedDocker =>
        \A c \in upLast : list.publishes[c] = Publishes[c]

LegacyInv ==
    /\ TypeOK /\ ListType /\ Staged /\ Working /\ Chosen
    /\ Honest /\ ShowsRows /\ ShowsContainers
    /\ KilledLeftThePort /\ FreedIsFree
-----------------------------------------------------------------------------
LEMMA Bounds == MaxConcurrent \in Nat /\ VerifyAttempts \in Nat \ {0} /\ MaxFaults \in Nat
  BY LegacyAssumption

LEMMA InitLegacy == Init => LegacyInv
  <1> SUFFICES ASSUME Init PROVE LegacyInv
    OBVIOUS
  <1> USE DEF Init
  <1>1. WorldTypeOK
    BY WorldInitTypes
  <1>2. FirstTool \in {"netstat", "lsof", "ss"}
    BY DEF FirstTool
  <1>3. TypeOK
    <2>1. list.rows \subseteq Row /\ list.name \in [Ports \X PIDs -> Names]
      BY DEF NoListing, Names
    <2>2. report.exit \in {-1, 0, 1} /\ report.killed \subseteq planned
      BY DEF NoReport
    <2>3. token \in [PIDs -> 0..MaxStart] /\ attempt \in 0..VerifyAttempts /\ faults \in 0..MaxFaults
      BY Sorts, Bounds
    <2>4. /\ planned \subseteq Ports \X Keys /\ refused \subseteq Ports \X (PIDs \cup {Hidden})
          /\ err \subseteq ToAct
      OBVIOUS
    <2>5. work \in [Keys -> {"idle", "begin", "wait", "done"}]
      OBVIOUS
    <2> QED BY <1>1, <1>2, <2>1, <2>2, <2>3, <2>4, <2>5 DEF TypeOK
  <1>4. ListType
    BY DEF ListType, Listings, NoListing, Names
  <1>5. Staged
    BY <1>1, HostTools DEF Staged, FirstTool, HaveLsof, HaveSS
  <1>6. Working /\ Chosen /\ ShowsContainers /\ KilledLeftThePort /\ FreedIsFree
    BY DEF Working, Chosen, ShowsContainers, KilledLeftThePort, FreedIsFree
  <1>7. Honest /\ ShowsRows
    BY Sorts DEF Honest, ShowsRows, NoListing
  <1> QED BY <1>3, <1>4, <1>5, <1>6, <1>7 DEF LegacyInv
-----------------------------------------------------------------------------
(* Listing *)
LEMMA VisibleFacts ==
    ASSUME WorldTypeOK
    PROVE  VisibleRows \subseteq Ports \X PIDs /\ VisibleRows \subseteq SocketRow /\ HiddenRows \subseteq SocketRow
  <1>1. VisibleRows \subseteq Ports \X PIDs /\ VisibleRows \subseteq SocketRow
    BY Sorts DEF VisibleRows, SocketRow
  <1>2. \A p \in PIDs : HeldBy(p) \subseteq Ports
    BY DEF WorldTypeOK, HeldBy
  <1>3. Published \subseteq Ports
    BY Sorts DEF WorldTypeOK, Published
  <1>4. Published \cup UNION {HeldBy(p) : p \in Invisible} \subseteq Ports
    BY <1>2, <1>3, WorldAssumption
  <1>5. HiddenRows \subseteq SocketRow
    BY <1>4 DEF HiddenRows, SocketRow
  <1> QED BY <1>1, <1>5

LEMMA NameFacts ==
    ASSUME WorldTypeOK, NEW rows
    PROVE  Named(rows) \in [Ports \X PIDs -> Names]
  BY DEF WorldTypeOK, Named, NamesNow, Names

StageNames == {"lsof", "ss", "netstat", "tasklist", "docker", "listed", "failed"}

\* What a step of an enumeration has to keep of the invariant.
ListInv ==
    /\ ListType /\ Staged /\ Honest /\ ShowsRows /\ ShowsContainers
    /\ stage \in StageNames /\ faults \in 0..MaxFaults

LEMMA FaultsStay ==
    ASSUME LegacyInv, Works \/ Fault \/ Breaks
    PROVE  faults' \in 0..MaxFaults
  BY Bounds DEF LegacyInv, TypeOK, Works, Fault, Breaks

\* The tool that is run first, and where its enumeration goes on.
LEMMA Tools ==
    ASSUME WorldTypeOK
    PROVE  /\ FirstTool = "netstat" <=> OnWindows
           /\ FirstTool = "lsof" <=> ~OnWindows /\ HaveLsof
           /\ FirstTool = "ss" <=> ~OnWindows /\ ~HaveLsof
           /\ FirstTool \in {"netstat", "lsof", "ss"}
           /\ OnWindows \in BOOLEAN /\ HaveLsof \in BOOLEAN /\ HaveSS \in BOOLEAN
           /\ OnWindows => ~HaveLsof /\ ~HaveSS
  BY HostTools DEF FirstTool, HaveLsof, HaveSS

LEMMA ListedStage == Listed \in {"docker", "listed"} /\ (phase = "verifying" /\ NeedDocker => Listed = "docker")
  BY DEF Listed

\* Where an enumeration goes after a tool that lists sockets.
LEMMA TruthFacts ==
    ASSUME LegacyInv, Truth
    PROVE  /\ heldLast' \subseteq VisibleRows
           /\ stage # FirstTool => heldLast' \subseteq heldLast
           /\ heldLast' \subseteq Ports \X PIDs
  BY VisibleFacts DEF LegacyInv, TypeOK, ListType, Truth

LEMMA ListFrame ==
    ASSUME LegacyInv, UNCHANGED listFrame
    PROVE  /\ UNCHANGED <<host, phase, planned, refused, err, hits>>
           /\ FirstTool' = FirstTool /\ HaveLsof' = HaveLsof /\ HaveSS' = HaveSS
           /\ OnWindows' = OnWindows /\ DockerInstalled' = DockerInstalled
           /\ NeedDocker' = NeedDocker
  BY DEF listFrame, world, FirstTool, HaveLsof, HaveSS, OnWindows, DockerInstalled,
         NeedDocker, Acted

LEMMA LsofInv ==
    ASSUME LegacyInv, Lsof
    PROVE  ListInv'
  <1>1. /\ WorldTypeOK /\ ListType /\ stage = "lsof" /\ UNCHANGED <<listFrame, upLast>> /\ Truth
        /\ HaveLsof /\ ~OnWindows /\ phase \notin {"acting", "done"} /\ Honest
    BY DEF Lsof, LegacyInv, TypeOK, Staged
  <1>2. FirstTool = "lsof" /\ HaveSS \in BOOLEAN
    BY <1>1, Tools
  <1>3. /\ stage' \in {"ss", "docker", "listed", "failed"}
        /\ stage' = "listed" => ~(phase = "verifying" /\ NeedDocker)
    BY ListedStage DEF Lsof
  <1>4. faults' \in 0..MaxFaults
    BY FaultsStay DEF Lsof
  <1>5. \/ list' = [NoListing EXCEPT !.rows = VisibleRows, !.name = Named(VisibleRows)]
        \/ list' = [NoListing EXCEPT !.degraded = TRUE]
        \/ list' = NoListing /\ stage' = "failed"
    BY DEF Lsof
  <1>6. /\ list' \in Listings
        /\ \A c \in Containers : list'.publishes[c] = {}
        /\ ~list'.degraded /\ stage' # "failed" => list'.rows = VisibleRows
        /\ list'.degraded => list'.rows = {}
    <2>1. /\ NoListing \in Listings /\ NoListing.rows = {} /\ ~NoListing.degraded
          /\ \A c \in Containers : NoListing.publishes[c] = {}
      BY DEF Listings, NoListing, Names
    <2>2. VisibleRows \in SUBSET SocketRow /\ Named(VisibleRows) \in [Ports \X PIDs -> Names]
      BY <1>1, VisibleFacts, NameFacts
    <2> QED BY <1>5, <2>1, <2>2 DEF Listings
  <1>7. heldLast' \subseteq VisibleRows /\ heldLast' \subseteq Ports \X PIDs
    BY <1>1, TruthFacts
  <1>8. ListType'
    BY <1>1, <1>6, <1>7 DEF ListType, listFrame
  <1>9. Staged'
    BY <1>1, <1>3, ListFrame DEF Staged
  <1>10. Honest'
    BY <1>1, <1>6, ListFrame DEF Honest
  <1>11. ShowsRows' /\ ShowsContainers'
    BY <1>1, <1>3, <1>6, <1>7, ListFrame DEF ShowsRows, ShowsContainers
  <1> QED BY <1>3, <1>4, <1>8, <1>9, <1>10, <1>11 DEF ListInv, StageNames

LEMMA SsInv ==
    ASSUME LegacyInv, Ss
    PROVE  ListInv'
  <1>1. /\ WorldTypeOK /\ ListType /\ stage = "ss" /\ UNCHANGED <<listFrame, upLast>> /\ Truth
        /\ ~OnWindows /\ phase \notin {"acting", "done"} /\ Honest /\ ShowsRows
        /\ ~HaveLsof => FirstTool = "ss"
    BY DEF Ss, LegacyInv, TypeOK, Staged
  <1>2. /\ stage' \in {"docker", "listed", "failed"}
        /\ stage' = "listed" => ~(phase = "verifying" /\ NeedDocker)
    BY ListedStage DEF Ss
  <1>3. faults' \in 0..MaxFaults
    BY FaultsStay DEF Ss
  <1>4. /\ heldLast' \subseteq VisibleRows /\ heldLast' \subseteq Ports \X PIDs
        /\ stage # FirstTool => heldLast' \subseteq heldLast
    BY <1>1, TruthFacts
  <1>5. HaveLsof => stage # FirstTool
    BY <1>1, Tools
  <1>6. /\ list' \in Listings
        /\ \A c \in Containers : list'.publishes[c] \in {list.publishes[c], {}}
        /\ ~list'.degraded /\ stage' # "failed" => heldLast' \subseteq list'.rows
    <2> DEFINE seen == VisibleRows \cup HiddenRows
               new == IF HaveLsof THEN {r \in seen : ~Shown(r[1])} ELSE seen
               names == [r \in Ports \X PIDs |->
                            IF r \in new THEN NamesNow[r[2]] ELSE Unmerged.name[r]]
    <2>1. new \subseteq SocketRow /\ seen \subseteq SocketRow /\ VisibleRows \subseteq seen
      BY <1>1, VisibleFacts
    <2>2. /\ Unmerged \in Listings
          /\ \A c \in Containers : Unmerged.publishes[c] \in {list.publishes[c], {}}
          /\ Unmerged.rows = IF HaveLsof THEN list.rows ELSE {}
          /\ HaveLsof => Unmerged = list
      BY <1>1 DEF Unmerged, NoListing, ListType, Listings, Names
    <2>3. names \in [Ports \X PIDs -> Names]
      <3>1. \A p \in PIDs : NamesNow[p] \in Names
        BY <1>1 DEF WorldTypeOK, NamesNow, Names
      <3> QED BY <2>2, <3>1 DEF Listings
    <2>4. CASE list' = [Unmerged EXCEPT !.rows = @ \cup new, !.name = names, !.degraded = FALSE]
      <3>1. /\ list' \in Listings /\ list'.publishes = Unmerged.publishes
            /\ list'.rows = Unmerged.rows \cup new
        BY <2>1, <2>2, <2>3, <2>4 DEF Listings
      <3>2. heldLast' \subseteq Unmerged.rows \cup new
        <4>1. CASE ~HaveLsof
          BY <1>4, <2>1, <4>1
        <4>2. CASE HaveLsof /\ list.degraded
          <5>1. list.rows = {}
            BY <1>1, <4>2 DEF ShowsRows
          <5>2. new = seen
            BY <5>1, <4>2 DEF Shown
          <5> QED BY <1>4, <2>1, <5>2
        <4>3. CASE HaveLsof /\ ~list.degraded
          BY <1>1, <1>4, <1>5, <2>2, <4>3 DEF ShowsRows
        <4> QED BY <4>1, <4>2, <4>3
      <3> QED BY <2>2, <3>1, <3>2
    <2>5. CASE list' = Unmerged /\ (stage' # "failed" => HaveLsof)
      BY <1>1, <1>4, <1>5, <2>2, <2>5 DEF ShowsRows
    <2>6. \/ list' = [Unmerged EXCEPT !.rows = @ \cup new, !.name = names, !.degraded = FALSE]
          \/ list' = Unmerged /\ (stage' # "failed" => HaveLsof)
      BY DEF Ss
    <2> QED BY <2>4, <2>5, <2>6
  <1>7. ListType'
    BY <1>1, <1>4, <1>6 DEF ListType, listFrame
  <1>8. Staged'
    BY <1>1, <1>2, ListFrame DEF Staged
  <1>9. Honest'
    BY <1>1, <1>6, ListFrame DEF Honest
  <1>10. ShowsRows' /\ ShowsContainers'
    BY <1>1, <1>2, <1>6, ListFrame DEF ShowsRows, ShowsContainers
  <1> QED BY <1>2, <1>3, <1>7, <1>8, <1>9, <1>10 DEF ListInv, StageNames

LEMMA NetstatInv ==
    ASSUME LegacyInv, Netstat
    PROVE  ListInv'
  <1>1. /\ WorldTypeOK /\ ListType /\ stage = "netstat" /\ UNCHANGED <<listFrame, upLast>> /\ Truth
        /\ OnWindows /\ phase \notin {"acting", "done"} /\ Honest
    BY DEF Netstat, LegacyInv, TypeOK, Staged
  <1>2. FirstTool = "netstat" /\ faults' \in 0..MaxFaults
    BY <1>1, Tools, FaultsStay DEF Netstat
  <1>3. /\ stage' \in {"tasklist", "docker", "listed", "failed"}
        /\ stage' = "listed" => ~(phase = "verifying" /\ NeedDocker)
    BY ListedStage DEF Netstat
  <1>4. heldLast' \subseteq VisibleRows /\ heldLast' \subseteq Ports \X PIDs
    BY <1>1, TruthFacts
  <1>5. /\ list' \in Listings
        /\ \A c \in Containers : list'.publishes[c] = {}
        /\ stage' # "failed" => VisibleRows \subseteq list'.rows
    <2>1. /\ NoListing \in Listings
          /\ \A c \in Containers : NoListing.publishes[c] = {}
      BY DEF Listings, NoListing, Names
    <2>2. CASE list' = NoListing /\ stage' = "failed"
      BY <2>1, <2>2
    <2>3. CASE list' = [NoListing EXCEPT !.rows = VisibleRows]
      <3>1. VisibleRows \subseteq SocketRow
        BY <1>1, VisibleFacts
      <3> QED BY <2>1, <2>3, <3>1 DEF Listings
    <2> QED BY <2>2, <2>3 DEF Netstat
  <1>6. ListType'
    BY <1>1, <1>4, <1>5 DEF ListType, listFrame
  <1>7. Staged'
    BY <1>1, <1>3, ListFrame DEF Staged
  <1>8. Honest'
    BY <1>1, <1>5, ListFrame DEF Honest
  <1>9. ShowsRows' /\ ShowsContainers'
    BY <1>1, <1>3, <1>4, <1>5, ListFrame DEF ShowsRows, ShowsContainers
  <1> QED BY <1>2, <1>3, <1>6, <1>7, <1>8, <1>9 DEF ListInv, StageNames

LEMMA TasklistInv ==
    ASSUME LegacyInv, Tasklist
    PROVE  ListInv'
  <1>1. /\ WorldTypeOK /\ ListType /\ stage = "tasklist" /\ UNCHANGED <<listFrame, heldLast, upLast>>
        /\ OnWindows /\ phase \notin {"acting", "done"} /\ Honest /\ ShowsRows
    BY DEF Tasklist, LegacyInv, TypeOK, Staged
  <1>2. FirstTool = "netstat" /\ faults' \in 0..MaxFaults
    BY <1>1, Tools, FaultsStay DEF Tasklist
  <1>3. /\ stage' \in {"docker", "listed"}
        /\ stage' = "listed" => ~(phase = "verifying" /\ NeedDocker)
    BY ListedStage DEF Tasklist
  <1>4. /\ list' \in Listings /\ list'.publishes = list.publishes
        /\ list'.rows = list.rows /\ list'.degraded = list.degraded
    <2>1. Named(list.rows) \in [Ports \X PIDs -> Names]
      BY <1>1, NameFacts
    <2>2. \/ list' = [list EXCEPT !.name = Named(list.rows)]
          \/ list' = [list EXCEPT !.namesUnavailable = TRUE]
      BY DEF Tasklist
    <2> QED BY <1>1, <2>1, <2>2 DEF ListType, Listings
  <1>5. ListType'
    BY <1>1, <1>4 DEF ListType, listFrame
  <1>6. Staged'
    BY <1>1, <1>3, ListFrame DEF Staged
  <1>7. Honest'
    BY <1>1, <1>4, ListFrame DEF Honest
  <1>8. ShowsRows' /\ ShowsContainers'
    BY <1>1, <1>2, <1>3, <1>4, ListFrame DEF ShowsRows, ShowsContainers
  <1> QED BY <1>2, <1>3, <1>5, <1>6, <1>7, <1>8 DEF ListInv, StageNames

LEMMA DockerInv ==
    ASSUME LegacyInv, Docker
    PROVE  ListInv'
  <1>1. /\ WorldTypeOK /\ ListType /\ stage = "docker" /\ UNCHANGED <<listFrame, listed, heldLast>>
        /\ phase \notin {"acting", "done"} /\ Honest /\ ShowsRows /\ upLast' = up
    BY DEF Docker, LegacyInv, TypeOK, Staged
  <1>2. FirstTool \in {"netstat", "lsof", "ss"}
    BY <1>1, Tools
  <1>3. stage' \in {"listed", "failed"}
    BY DEF Docker
  <1>4. faults' \in 0..MaxFaults
    BY FaultsStay, <1>1 DEF Docker, LegacyInv, TypeOK
  <1>5. /\ list' \in Listings /\ list'.rows = list.rows /\ list'.degraded = list.degraded
        /\ \/ list' = list
           \/ DockerInstalled /\ \A c \in Containers :
                  list'.publishes[c] = IF c \in up THEN Publishes[c] ELSE {}
    <2>1. [c \in Containers |-> IF c \in up THEN Publishes[c] ELSE {}] \in [Containers -> SUBSET Ports]
      BY Sorts
    <2> QED BY <1>1, <2>1 DEF Docker, ListType, Listings
  <1>6. up \subseteq Containers
    BY <1>1 DEF WorldTypeOK
  <1>7. ListType'
    BY <1>1, <1>5, <1>6 DEF ListType, listFrame
  <1>8. Staged'
    BY <1>1, <1>3, ListFrame DEF Staged
  <1>9. Honest'
    BY <1>1, <1>5, ListFrame DEF Honest
  <1>10. ShowsRows'
    BY <1>1, <1>2, <1>3, <1>5, ListFrame DEF ShowsRows
  <1>11. ShowsContainers'
    <2>1. SUFFICES ASSUME phase = "verifying", NeedDocker, stage' = "listed", NEW c \in up
                   PROVE  list'.publishes[c] = Publishes[c]
      BY <1>1, ListFrame DEF ShowsContainers
    <2>2. DockerInstalled
      BY <1>1, <2>1 DEF NeedDocker, Acted, Honest
    <2>3. \A d \in Containers : list'.publishes[d] = IF d \in up THEN Publishes[d] ELSE {}
      BY <1>1, <2>1, <2>2 DEF Docker, ListType, Listings
    <2> QED BY <1>6, <2>1, <2>3
  <1> QED BY <1>3, <1>4, <1>7, <1>8, <1>9, <1>10, <1>11 DEF ListInv, StageNames

LEMMA ListsInv ==
    ASSUME LegacyInv, Lists
    PROVE  LegacyInv'
  <1>1. ListInv'
    BY LsofInv, SsInv, NetstatInv, TasklistInv, DockerInv DEF Lists
  <1>2. UNCHANGED listFrame /\ phase # "done"
    BY DEF Lists, Lsof, Ss, Netstat, Tasklist, Docker, LegacyInv, Staged
  <1>3. TypeOK'
    <2>1. list'.rows \subseteq Row /\ list'.name \in [Ports \X PIDs -> Names]
      BY <1>1 DEF ListInv, ListType, Listings, SocketRow, Row, Owner
    <2> QED
      BY <1>1, <1>2, <2>1 DEF ListInv, LegacyInv, TypeOK, StageNames, listFrame, world,
         WorldTypeOK, ToAct
  <1>4. Working' /\ Chosen'
    BY <1>2, ListFrame DEF LegacyInv, Working, Chosen, ToAct, listFrame
  <1>5. KilledLeftThePort' /\ FreedIsFree'
    BY <1>2, ListFrame DEF KilledLeftThePort, FreedIsFree
  <1> QED BY <1>1, <1>3, <1>4, <1>5 DEF ListInv, LegacyInv
-----------------------------------------------------------------------------
(* Planning *)
LEMMA EnumerationFailsInv ==
    ASSUME LegacyInv, EnumerationFails
    PROVE  LegacyInv'
  <1>1. /\ UNCHANGED <<world, dryRun, stage, list, ident, token, planned, refused,
                       work, err, attempt, ctx, faults, history>>
        /\ phase = "listing" /\ phase' = "done" /\ stage = "failed"
        /\ report'.killed = {} /\ report'.exit = 1
    BY DEF EnumerationFails, NoReport
  <1>2. TypeOK' /\ ListType'
    BY <1>1 DEF LegacyInv, TypeOK, ListType, world, history, WorldTypeOK, ToAct
  <1>3. Staged' /\ Honest' /\ ShowsRows' /\ ShowsContainers'
    BY <1>1 DEF LegacyInv, Staged, Honest, ShowsRows, ShowsContainers, world, history, FirstTool,
       OnWindows, HaveLsof, DockerInstalled
  <1>4. Working' /\ Chosen'
    BY <1>1 DEF LegacyInv, Working, Chosen, ToAct, history
  <1>5. KilledLeftThePort' /\ FreedIsFree'
    BY <1>1 DEF KilledLeftThePort, FreedIsFree
  <1> QED BY <1>2, <1>3, <1>4, <1>5 DEF LegacyInv

LEMMA CaptureIdentityInv ==
    ASSUME LegacyInv, NEW p \in PIDs, CaptureIdentity(p)
    PROVE  LegacyInv'
  <1>1. /\ UNCHANGED <<world, phase, dryRun, stage, list, planned, refused, work,
                       err, attempt, ctx, report, history>>
        /\ phase = "listing"
    BY DEF CaptureIdentity
  <1>2. /\ ident' \in [PIDs -> {"unasked", "ok", "gone", "denied", "none"}]
        /\ token' \in [PIDs -> 0..MaxStart]
    BY DEF CaptureIdentity, LegacyInv, TypeOK, WorldTypeOK
  <1>3. faults' \in 0..MaxFaults
    BY FaultsStay DEF CaptureIdentity, LegacyInv, TypeOK
  <1>4. TypeOK' /\ ListType'
    BY <1>1, <1>2, <1>3 DEF LegacyInv, TypeOK, ListType, world, history, WorldTypeOK, ToAct
  <1>5. Staged' /\ Honest' /\ ShowsRows' /\ ShowsContainers'
    BY <1>1 DEF LegacyInv, Staged, Honest, ShowsRows, ShowsContainers, world, history, FirstTool,
       OnWindows, HaveLsof, DockerInstalled
  <1>6. Working' /\ Chosen'
    BY <1>1 DEF LegacyInv, Working, Chosen, ToAct, history, world, OnWindows
  <1>7. KilledLeftThePort' /\ FreedIsFree'
    BY <1>1 DEF KilledLeftThePort, FreedIsFree
  <1> QED BY <1>4, <1>5, <1>6, <1>7 DEF LegacyInv

LEMMA PlanKillInv ==
    ASSUME LegacyInv, PlanKill
    PROVE  LegacyInv'
  <1>1. /\ UNCHANGED <<world, dryRun, stage, list, ident, token, work, err, attempt,
                       ctx, faults, history>>
        /\ phase = "listing" /\ stage = "listed" /\ phase' \in {"acting", "done"}
        /\ planned' = ContainerRows \cup {r \in Candidates : ident[r[2]] # "denied"}
        /\ refused' = list.rows \ (planned' \cup LeftAlone)
        /\ phase' = "done" => dryRun
        /\ phase' = "acting" => ~dryRun
        /\ report'.exit \in {-1, 0, 1}
        /\ report'.killed = {}
    <2>1. report.exit \in {-1, 0, 1} /\ report.killed = {}
      BY DEF PlanKill, LegacyInv, TypeOK, Working
    <2> QED BY <2>1 DEF PlanKill, Conclude, LegacyInv, TypeOK
  <1>2. /\ planned = {} /\ refused = {} /\ err = {} /\ hits = {}
        /\ \A k \in Keys : work[k] = "idle"
    BY <1>1 DEF LegacyInv, Working, Chosen, ToAct
  <1>3. /\ planned' \subseteq Ports \X Keys /\ refused' \subseteq Ports \X (PIDs \cup {Hidden})
        /\ \A r \in planned' : r[2] \in Containers => r[1] \in list.publishes[r[2]]
        /\ \A r \in planned' : r[2] \in PIDs => r \in Candidates /\ ident[r[2]] # "denied"
    <2>1. ContainerRows \subseteq Ports \X Containers /\ Candidates \subseteq Ports \X PIDs
      BY DEF ContainerRows, Candidates
    <2>2. list.rows \subseteq Ports \X (PIDs \cup {Hidden})
      BY DEF LegacyInv, ListType, Listings, SocketRow
    <2>3. PIDs \subseteq Keys /\ Containers \subseteq Keys
      BY DEF Keys
    <2>4. \A r \in planned' : r[2] \in Containers => r[1] \in list.publishes[r[2]]
      BY <1>1, <2>1, Sorts DEF ContainerRows
    <2>5. \A r \in planned' : r[2] \in PIDs => r \in Candidates /\ ident[r[2]] # "denied"
      BY <1>1, <2>1, Sorts
    <2> QED BY <1>1, <2>1, <2>2, <2>3, <2>4, <2>5
  <1>4. TypeOK' /\ ListType'
    BY <1>1, <1>2, <1>3 DEF LegacyInv, TypeOK, ListType, world, history, WorldTypeOK, ToAct
  <1>5. Staged' /\ ShowsRows' /\ ShowsContainers'
    BY <1>1 DEF LegacyInv, Staged, ShowsRows, ShowsContainers, world, history, FirstTool,
       OnWindows, HaveLsof
  <1>6. Honest'
    BY <1>1, <1>3 DEF LegacyInv, Honest, world, DockerInstalled
  <1>7. Working'
    BY <1>1, <1>2 DEF Working
  <1>8. Chosen'
    <2>1. \A r \in planned' : r[2] \in PIDs => ~Protected(OnWindows, r[2])
      BY <1>3 DEF Candidates
    <2>2. hits' = {} /\ OnWindows' = OnWindows
      BY <1>1, <1>2 DEF history, world, OnWindows
    <2> QED BY <2>1, <2>2 DEF Chosen, Protected
  <1>9. KilledLeftThePort' /\ FreedIsFree'
    BY <1>1 DEF KilledLeftThePort, FreedIsFree
  <1> QED BY <1>4, <1>5, <1>6, <1>7, <1>8, <1>9 DEF LegacyInv
-----------------------------------------------------------------------------
(* Acting *)

\* An action that has begun is one of the plan, and verify waits for it.
LEMMA Begun ==
    ASSUME LegacyInv, NEW k \in Keys, work[k] \in {"begin", "wait"}
    PROVE  phase = "acting" /\ k \in ToAct /\ ~dryRun
  BY DEF LegacyInv, TypeOK, Working

\* What one goroutine may change while the actions run.
LEMMA OneGoroutine ==
    ASSUME LegacyInv, phase = "acting", NEW k \in Keys, k \in ToAct, ~dryRun, WorldTypeOK',
           NEW step \in {"begin", "wait", "done"}, goto(k, step),
           err' \in {err, err \cup {k}},
           faults' \in 0..MaxFaults,
           \/ hits' = hits
           \/ \E h \in Hit : h.pid = k /\ hits' = hits \cup {h},
           UNCHANGED <<host, phase, dryRun, stage, list, ident, token, planned, refused,
                       attempt, ctx, report, listed, heldLast, upLast>>
    PROVE  LegacyInv'
  <1>1. /\ work' \in [Keys -> {"idle", "begin", "wait", "done"}]
        /\ \A l \in Keys : l # k => work'[l] = work[l]
    BY DEF goto, LegacyInv, TypeOK
  <1>2. ToAct' = ToAct /\ OnWindows' = OnWindows
    BY DEF ToAct, OnWindows
  <1>3. TypeOK'
    BY <1>1, <1>2 DEF LegacyInv, TypeOK
  <1>4. ListType'
    BY DEF LegacyInv, ListType
  <1>5. Staged' /\ Honest' /\ ShowsRows' /\ ShowsContainers'
    BY DEF LegacyInv, Staged, Honest, ShowsRows, ShowsContainers, FirstTool,
       OnWindows, HaveLsof, DockerInstalled
  <1>6. Working'
    BY <1>1, <1>2 DEF LegacyInv, Working
  <1>7. Chosen'
    BY <1>2 DEF LegacyInv, Chosen
  <1>8. KilledLeftThePort' /\ FreedIsFree'
    BY DEF KilledLeftThePort, FreedIsFree
  <1> QED BY <1>3, <1>4, <1>5, <1>6, <1>7, <1>8 DEF LegacyInv

LEMMA DispatchInv ==
    ASSUME LegacyInv, NEW k \in Keys, Dispatch(k)
    PROVE  LegacyInv'
  <1>1. /\ UNCHANGED <<world, phase, dryRun, stage, list, ident, token, planned,
                       refused, err, attempt, ctx, report, faults, history>>
        /\ phase = "acting" /\ k \in ToAct /\ goto(k, "begin")
    BY DEF Dispatch, Waiting
  <1>2. WorldTypeOK' /\ faults' \in 0..MaxFaults /\ ~dryRun
    BY <1>1 DEF LegacyInv, TypeOK, Working, world, WorldTypeOK
  <1> QED BY <1>1, <1>2, OneGoroutine DEF world, history

LEMMA KillNativeInv ==
    ASSUME LegacyInv, NEW p \in PIDs, KillNative(p)
    PROVE  LegacyInv'
  <1>1. /\ UNCHANGED <<world, phase, dryRun, stage, list, ident, token, planned,
                       refused, attempt, ctx, report, listed, heldLast, upLast>>
        /\ work[p] = "begin" /\ goto(p, "done")
        /\ err' \in {err, err \cup {p}}
        /\ \/ hits' = hits
           \/ hits' = hits \cup {[pid |-> p, start |-> bound[p], kind |-> kind[p],
                                late |-> ctx = "dead"]}
    BY DEF KillNative, Ends
  <1>2. /\ p \in Keys
        /\ [pid |-> p, start |-> bound[p], kind |-> kind[p], late |-> ctx = "dead"] \in Hit
    BY Sorts DEF LegacyInv, TypeOK, WorldTypeOK, Hit
  <1>3. phase = "acting" /\ p \in ToAct /\ ~dryRun
    BY <1>1, <1>2, Begun
  <1>4. WorldTypeOK'
    BY <1>1 DEF LegacyInv, TypeOK, world, WorldTypeOK
  <1>5. faults' \in 0..MaxFaults
    BY FaultsStay DEF KillNative, LegacyInv, TypeOK
  <1> QED BY <1>1, <1>2, <1>3, <1>4, <1>5, OneGoroutine DEF world

LEMMA StopInv ==
    ASSUME LegacyInv, NEW c \in Containers, StopBegins(c) \/ StopEnds(c)
    PROVE  LegacyInv'
  <1>1. /\ UNCHANGED <<host, bound, clock, holds, kind, up, moves, phase, dryRun, stage,
                       list, ident, token, planned, refused, attempt, ctx, report, history>>
        /\ work[c] \in {"begin", "wait"}
        /\ goto(c, "wait") \/ goto(c, "done")
        /\ err' \in {err, err \cup {c}}
        /\ stopping' \in {stopping, stopping \cup {c}, stopping \ {c}}
    BY DEF StopBegins, StopEnds, Ends
  <1>2. c \in Keys
    BY Sorts
  <1>3. phase = "acting" /\ c \in ToAct /\ ~dryRun
    BY <1>1, <1>2, Begun
  <1>4. WorldTypeOK'
    BY <1>1 DEF LegacyInv, TypeOK, WorldTypeOK
  <1>5. faults' \in 0..MaxFaults
    BY FaultsStay DEF StopBegins, StopEnds, LegacyInv, TypeOK
  <1> QED BY <1>1, <1>2, <1>3, <1>4, <1>5, OneGoroutine DEF history

\* What ends the command or begins a verification keeps of the invariant
\* whatever is not about the report.
LEMMA ConcludeInv ==
    ASSUME LegacyInv, phase \in {"acting", "verifying"}, stage \in {"listed", "failed"},
           \A k \in Keys : work[k] \in {"idle", "done"},
           NEW killed, NEW failed, killed \subseteq planned, Conclude(killed, failed),
           UNCHANGED <<world, dryRun, stage, list, ident, token, planned, refused,
                       work, err, attempt, ctx, faults, history>>,
           KilledLeftThePort', FreedIsFree'
    PROVE  LegacyInv'
  <1>1. /\ phase' = "done" /\ report'.exit \in {0, 1} /\ report'.killed = killed
        /\ ~dryRun
    BY DEF Conclude, LegacyInv, Working
  <1>2. TypeOK' /\ ListType'
    BY <1>1 DEF LegacyInv, TypeOK, ListType, world, history, WorldTypeOK, ToAct
  <1>3. Staged' /\ Honest' /\ ShowsRows' /\ ShowsContainers'
    BY <1>1 DEF LegacyInv, Staged, Honest, ShowsRows, ShowsContainers, world, history, FirstTool,
       OnWindows, HaveLsof, DockerInstalled
  <1>4. Working'
    BY <1>1 DEF LegacyInv, Working, ToAct
  <1>5. Chosen'
    BY DEF LegacyInv, Chosen, ToAct, history, world, OnWindows
  <1> QED BY <1>2, <1>3, <1>4, <1>5 DEF LegacyInv

LEMMA ActionsDoneInv ==
    ASSUME LegacyInv, ActionsDone
    PROVE  LegacyInv'
  <1>1. /\ phase = "acting" /\ stage \in {"listed", "failed"} /\ ~dryRun
        /\ \A k \in Keys : work[k] \in {"idle", "done"}
        /\ UNCHANGED <<world, dryRun, list, ident, token, planned, refused, work,
                       err, ctx, faults, history>>
    <2>1. phase = "acting" /\ \A k \in ToAct : work[k] = "done"
      BY DEF ActionsDone
    <2>2. \A k \in Keys : work[k] \in {"idle", "done"}
      BY <2>1 DEF LegacyInv, Working
    <2> QED BY <2>1, <2>2 DEF ActionsDone, LegacyInv, Staged, Working
  <1>2. CASE ActedPorts = {}
    <2>1. Conclude({}, refused \cup planned) /\ UNCHANGED <<stage, attempt>>
      BY <1>2 DEF ActionsDone
    <2>2. ActedPorts' = {}
      BY <1>1, <1>2 DEF ActedPorts, Acted
    <2>3. KilledLeftThePort' /\ FreedIsFree'
      BY <2>1, <2>2 DEF Conclude, KilledLeftThePort, FreedIsFree
    <2> QED BY <1>1, <2>1, <2>3, ConcludeInv
  <1>3. CASE ActedPorts # {}
    <2>1. phase' = "verifying" /\ stage' = FirstTool /\ attempt' = 1 /\ UNCHANGED report
      BY <1>3 DEF ActionsDone
    <2>2. WorldTypeOK
      BY DEF LegacyInv, TypeOK
    <2>3. FirstTool' = FirstTool /\ FirstTool \in {"netstat", "lsof", "ss"}
      BY <1>1, <2>2, Tools DEF world, FirstTool, OnWindows, HaveLsof
    <2>4. TypeOK' /\ ListType'
      BY <1>1, <2>1, <2>3, Bounds DEF LegacyInv, TypeOK, ListType, world, history, WorldTypeOK, ToAct
    <2>5. Staged'
      BY <1>1, <2>1, <2>2, <2>3, Tools DEF Staged, world, FirstTool, OnWindows, HaveLsof
    <2>6. ShowsRows'
      <3>1. stage' = FirstTool'
        BY <2>1, <2>3
      <3>2. ~(stage' = "ss" /\ HaveLsof')
        BY <1>1, <2>1, <2>2, Tools DEF world, HaveLsof
      <3> QED BY <3>1, <3>2 DEF ShowsRows
    <2>7. Honest' /\ ShowsContainers'
      BY <1>1, <2>1, <2>3 DEF LegacyInv, Honest, ShowsContainers, world, DockerInstalled
    <2>8. Working' /\ Chosen'
      BY <1>1, <2>1 DEF LegacyInv, Working, Chosen, ToAct, history, world, OnWindows
    <2>9. KilledLeftThePort' /\ FreedIsFree'
      BY <2>1 DEF KilledLeftThePort, FreedIsFree
    <2> QED BY <2>4, <2>5, <2>6, <2>7, <2>8, <2>9 DEF LegacyInv
  <1> QED BY <1>2, <1>3
-----------------------------------------------------------------------------
(* Verifying *)
LEMMA VerifyAgainInv ==
    ASSUME LegacyInv, VerifyAgain
    PROVE  LegacyInv'
  <1>1. /\ UNCHANGED <<world, phase, dryRun, list, ident, token, planned, refused,
                       work, err, ctx, report, faults, history>>
        /\ phase = "verifying" /\ stage' = FirstTool
        /\ attempt < VerifyAttempts /\ attempt' = attempt + 1
    BY DEF VerifyAgain
  <1>2. WorldTypeOK
    BY DEF LegacyInv, TypeOK
  <1>3. FirstTool' = FirstTool /\ FirstTool \in {"netstat", "lsof", "ss"}
    BY <1>1, <1>2, Tools DEF world, FirstTool, OnWindows, HaveLsof
  <1>4. attempt' \in 0..VerifyAttempts
    BY <1>1, Bounds DEF LegacyInv, TypeOK
  <1>5. TypeOK' /\ ListType'
    BY <1>1, <1>3, <1>4 DEF LegacyInv, TypeOK, ListType, world, history, WorldTypeOK, ToAct
  <1>6. Staged'
    BY <1>1, <1>2, <1>3, Tools DEF Staged, world, FirstTool, OnWindows, HaveLsof
  <1>7. ShowsRows'
    <2>1. stage' = FirstTool'
      BY <1>1, <1>3
    <2>2. ~(stage' = "ss" /\ HaveLsof')
      BY <1>1, <1>2, Tools DEF world, HaveLsof
    <2> QED BY <2>1, <2>2 DEF ShowsRows
  <1>8. Honest' /\ ShowsContainers'
    BY <1>1, <1>3 DEF LegacyInv, Honest, ShowsContainers, world, DockerInstalled
  <1>9. Working' /\ Chosen'
    BY <1>1 DEF LegacyInv, Working, Chosen, ToAct, history, world, OnWindows
  <1>10. KilledLeftThePort' /\ FreedIsFree'
    BY <1>1 DEF KilledLeftThePort, FreedIsFree
  <1> QED BY <1>5, <1>6, <1>7, <1>8, <1>9, <1>10 DEF LegacyInv

\* The heart of it: a row is killed because the listing does not show it, and
\* the listing shows whatever was there while it was made.
LEMMA FinishRowsInv ==
    ASSUME LegacyInv, FinishRows
    PROVE  LegacyInv'
  <1>1. /\ UNCHANGED <<world, dryRun, stage, list, ident, token, planned, refused,
                       work, err, attempt, ctx, faults, history>>
        /\ phase = "verifying" /\ stage \in {"listed", "failed"}
        /\ \A k \in Keys : work[k] \in {"idle", "done"}
    BY DEF FinishRows, LegacyInv, Working
  <1>2. /\ Acted' = Acted /\ ActedPorts' = ActedPorts /\ NeedDocker' = NeedDocker
        /\ Trusted' = Trusted /\ Acted \subseteq planned
    BY <1>1 DEF Acted, ActedPorts, NeedDocker, Trusted
  <1>3. CASE stage = "failed"
    <2>1. Conclude({}, refused \cup planned)
      BY <1>3 DEF FinishRows
    <2>2. KilledLeftThePort'
      BY <2>1 DEF Conclude, KilledLeftThePort
    <2>3. FreedIsFree'
      BY <1>2, <2>1 DEF Conclude, FreedIsFree, ActedPorts
    <2> QED BY <1>1, <2>1, <2>2, <2>3, ConcludeInv
  <1>4. CASE stage = "listed"
    <2> DEFINE killed == Acted \ ownersOnPorts
               failed == refused \cup (planned \ killed) \cup ownersOnPorts
    <2>1. Conclude(killed, failed)
      BY <1>4 DEF FinishRows
    <2>2. Trusted => heldLast \subseteq list.rows
      <3>1. FirstTool # "listed"
        BY Tools DEF LegacyInv, TypeOK
      <3> QED BY <1>4, <3>1 DEF LegacyInv, ShowsRows, Trusted
    <2>3. NeedDocker => \A c \in upLast : c \in Containers /\ list.publishes[c] = Publishes[c]
      BY <1>1, <1>4 DEF LegacyInv, ShowsContainers, ListType
    <2>4. killed \subseteq planned
      BY <1>2
    <2>5. ASSUME NEW r \in killed
          PROVE  /\ r[2] \in PIDs /\ Trusted => r \notin heldLast
                 /\ r[2] \in Containers => r[2] \notin upLast
      <3>1. r \in Acted /\ r \notin ownersOnPorts /\ r[1] \in ActedPorts
        BY DEF ActedPorts
      <3>2. Trusted => r \notin heldLast
        BY <2>2, <3>1 DEF ownersOnPorts
      <3>3. ASSUME r[2] \in Containers, r[2] \in upLast PROVE FALSE
        <4>1. NeedDocker
          BY <3>1, <3>3 DEF NeedDocker
        <4>2. r[1] \in Publishes[r[2]]
          BY <1>2, <3>1, <3>3 DEF LegacyInv, Honest
        <4>3. r[1] \in list.publishes[r[2]]
          BY <2>3, <3>3, <4>1, <4>2
        <4>4. r \in Ports \X Keys
          BY <1>2, <3>1 DEF LegacyInv, TypeOK
        <4>5. r \in Ports \X Containers
          BY <3>3, <4>4
        <4>6. r \in ContainerRows
          BY <4>3, <4>5 DEF ContainerRows
        <4> QED BY <3>1, <4>6 DEF ownersOnPorts
      <3> QED BY <3>2, <3>3
    <2>6. KilledLeftThePort'
      <3>1. report'.killed = killed
        BY <2>1 DEF Conclude
      <3>2. UNCHANGED <<heldLast, upLast>>
        BY <1>1 DEF history
      <3> QED BY <1>2, <2>5, <3>1, <3>2 DEF KilledLeftThePort
    <2>7. FreedIsFree'
      <3>1. SUFFICES ASSUME report'.exit = 0, NEW port \in ActedPorts
                     PROVE  /\ Trusted => \A p \in PIDs : <<port, p>> \notin heldLast
                            /\ NeedDocker => \A c \in upLast : port \notin Publishes[c]
        BY <1>1, <1>2 DEF FreedIsFree, history
      <3>2. failed = {}
        BY <2>1, <3>1 DEF Conclude
      <3>3. ownersOnPorts = {}
        BY <3>2
      <3>4. Trusted => \A p \in PIDs : <<port, p>> \notin heldLast
        BY <2>2, <3>3 DEF ownersOnPorts
      <3>5. ASSUME NeedDocker, NEW c \in upLast, port \in Publishes[c] PROVE FALSE
        <4>1. c \in Containers /\ port \in list.publishes[c]
          BY <2>3, <3>5
        <4>2. port \in Ports
          BY <4>1 DEF LegacyInv, ListType, Listings
        <4>3. <<port, c>> \in ContainerRows
          BY <4>1, <4>2 DEF ContainerRows
        <4> QED BY <3>3, <4>3 DEF ownersOnPorts
      <3> QED BY <3>4, <3>5
    <2> QED BY <1>1, <2>1, <2>4, <2>6, <2>7, ConcludeInv
  <1> QED BY <1>1, <1>3, <1>4
-----------------------------------------------------------------------------
(* Whatever else may happen, and the theorems *)
LEMMA CancelInv ==
    ASSUME LegacyInv, Cancel
    PROVE  LegacyInv'
  <1>1. /\ UNCHANGED <<world, phase, dryRun, stage, list, ident, token, planned,
                       refused, work, err, attempt, report, faults, history>>
        /\ ctx' \in {"alive", "dead"} /\ phase # "done"
    BY DEF Cancel
  <1>2. TypeOK' /\ ListType'
    BY <1>1 DEF LegacyInv, TypeOK, ListType, world, history, WorldTypeOK, ToAct
  <1>3. Staged' /\ Honest' /\ ShowsRows' /\ ShowsContainers'
    BY <1>1 DEF LegacyInv, Staged, Honest, ShowsRows, ShowsContainers, world, history, FirstTool,
       OnWindows, HaveLsof, DockerInstalled, NeedDocker, Acted
  <1>4. Working' /\ Chosen'
    BY <1>1 DEF LegacyInv, Working, Chosen, ToAct, history, world, OnWindows
  <1>5. KilledLeftThePort' /\ FreedIsFree'
    BY <1>1 DEF KilledLeftThePort, FreedIsFree
  <1> QED BY <1>2, <1>3, <1>4, <1>5 DEF LegacyInv

LEMMA WorldMovesInv ==
    ASSUME LegacyInv, WorldMoves
    PROVE  LegacyInv'
  <1>1. UNCHANGED <<run, history>> /\ phase # "done" /\ WorldNext
    BY DEF WorldMoves
  <1>2. WorldTypeOK' /\ host' = host
    BY <1>1, WorldTypes DEF LegacyInv, TypeOK
  <1>3. TypeOK' /\ ListType'
    BY <1>1, <1>2 DEF LegacyInv, TypeOK, ListType, run, history, ToAct
  <1>4. Staged' /\ Honest' /\ ShowsRows' /\ ShowsContainers'
    BY <1>1, <1>2 DEF LegacyInv, Staged, Honest, ShowsRows, ShowsContainers, run, history, FirstTool,
       OnWindows, HaveLsof, DockerInstalled, NeedDocker, Acted
  <1>5. Working' /\ Chosen'
    BY <1>1, <1>2 DEF LegacyInv, Working, Chosen, ToAct, run, history, OnWindows
  <1>6. KilledLeftThePort' /\ FreedIsFree'
    BY <1>1 DEF KilledLeftThePort, FreedIsFree, run
  <1> QED BY <1>3, <1>4, <1>5, <1>6 DEF LegacyInv

LEMMA StutterInv ==
    ASSUME LegacyInv, UNCHANGED vars
    PROVE  LegacyInv'
  <1>1. TypeOK' /\ ListType'
    BY DEF vars, LegacyInv, TypeOK, ListType, run, history, world, WorldTypeOK, ToAct
  <1>2. Staged' /\ Honest' /\ ShowsRows' /\ ShowsContainers'
    BY DEF vars, LegacyInv, Staged, Honest, ShowsRows, ShowsContainers, run, world, history,
       FirstTool, OnWindows, HaveLsof, DockerInstalled, NeedDocker, Acted
  <1>3. Working' /\ Chosen'
    BY DEF vars, LegacyInv, Working, Chosen, ToAct, run, history, world, OnWindows
  <1>4. KilledLeftThePort' /\ FreedIsFree'
    BY DEF vars, LegacyInv, KilledLeftThePort, FreedIsFree, run, history, world, Trusted,
       NeedDocker, Acted, ActedPorts
  <1> QED BY <1>1, <1>2, <1>3, <1>4 DEF LegacyInv

LEMMA LegacyStep ==
    ASSUME LegacyInv, [Next]_vars
    PROVE  LegacyInv'
  <1>1. CASE Command
    BY <1>1, ListsInv, EnumerationFailsInv, CaptureIdentityInv, PlanKillInv, DispatchInv,
       ActionsDoneInv, VerifyAgainInv, FinishRowsInv DEF Command
  <1>2. CASE \E k \in Keys : ActOn(k)
    <2>1. PICK k \in Keys : ActOn(k)
      BY <1>2
    <2>2. CASE k \in PIDs /\ KillNative(k)
      BY <2>2, KillNativeInv
    <2>3. CASE StopBegins(k) \/ StopEnds(k)
      <3>1. k \in Containers
        BY <2>3 DEF StopBegins, StopEnds
      <3> QED BY <2>3, <3>1, StopInv
    <2> QED BY <2>1, <2>2, <2>3 DEF ActOn
  <1>3. CASE Cancel
    BY <1>3, CancelInv
  <1>4. CASE WorldMoves
    BY <1>4, WorldMovesInv
  <1>5. CASE Done \/ UNCHANGED vars
    BY <1>5, StutterInv DEF Done
  <1> QED BY <1>1, <1>2, <1>3, <1>4, <1>5 DEF Next, Program

LEMMA LegacyAlways == Spec => []LegacyInv
  <1>1. Init => LegacyInv
    BY InitLegacy
  <1>2. LegacyInv /\ [Next]_vars => LegacyInv'
    BY LegacyStep
  <1> QED BY <1>1, <1>2, PTL DEF Spec

\* The variables of the legacy command keep their types; verify makes at most
\* VerifyAttempts attempts (kill.go:354) and only planned rows are killed.
THEOREM LegacyTypeCorrect == Spec => []TypeOK
  <1>1. LegacyInv => TypeOK
    BY DEF LegacyInv
  <1> QED BY <1>1, LegacyAlways, PTL

\* A row is reported killed or stopped only if its owner was off the port, or
\* its container down, at some instant of the last enumeration, which began
\* after every action (kill.go:410-411): whatever the machine does meanwhile.
THEOREM KilledRowsLeft == Spec => []KilledLeftThePort
  <1>1. LegacyInv => KilledLeftThePort
    BY DEF LegacyInv
  <1> QED BY <1>1, LegacyAlways, PTL

\* Exit code 0 means that every port that was acted on was left by everybody
\* this user can see, at some instant of the last enumeration
\* (kill.go:411-413, 468-485).
THEOREM FreedPortsWereFree == Spec => []FreedIsFree
  <1>1. LegacyInv => FreedIsFree
    BY DEF LegacyInv
  <1> QED BY <1>1, LegacyAlways, PTL

-----------------------------------------------------------------------------
(* Who is spared.  Rows carry a name each, read when their tool was run, and  *)
(* a decision about a row is one about the process it named.  So a listing    *)
(* must say of each row whose name it is: that of the process which held the  *)
(* port at that instant, if it still has the PID (RowsWereTrue, Nameless).    *)
(* Of the plan it is enough that a process that had its PID to itself is      *)
(* wholly in it or wholly out of it (PlanIsSparing).                          *)

\* Start times are given out in order.
Aged ==
    /\ \A p \in PIDs : bound[p] <= clock
    /\ \A e \in listed : e[3] \in 1..clock

RowsWereTrue ==
    phase = "listing" => \A r \in list.rows \cap (Ports \X PIDs) : \E x \in 1..clock :
        /\ <<r[1], r[2], x>> \in listed
        /\ x = bound[r[2]] /\ stage # "tasklist" /\ ~list.namesUnavailable =>
               list.name[r] = kind[r[2]]

Nameless ==
    phase = "listing" =>
        /\ stage = "tasklist" => ~list.namesUnavailable
        /\ stage = "tasklist" \/ list.namesUnavailable =>
               OnWindows /\ \A r \in Ports \X PIDs : list.name[r] = ""

\* Nobody but its present process had PID p while the ports were listed.
Alone(p) ==
    /\ \E e \in listed : e[2] = p
    /\ \A e \in listed : e[2] = p => e[3] = bound[p]

PlanIsSparing ==
    phase # "listing" => \A p \in PIDs : p \in ToAct =>
        /\ \E e \in listed : e[2] = p
        /\ Alone(p) => kind[p] # "infra" /\ \A r \in refused : r[2] # p

HitsWereSparing ==
    \A h \in hits : HadItsPID(h) => h.kind # "infra" /\ \A r \in refused : r[2] # h.pid

SparingInv == Aged /\ RowsWereTrue /\ Nameless /\ PlanIsSparing /\ HitsWereSparing

LEMMA NobodyHitWhileListing ==
    ASSUME LegacyInv, phase = "listing"
    PROVE  hits = {} /\ planned = {} /\ refused = {}
  BY DEF LegacyInv, Working, Chosen, ToAct

LEMMA InitSparing == Init => SparingInv
  <1> SUFFICES ASSUME Init PROVE SparingInv
    OBVIOUS
  <1>1. Aged
    BY Sorts, WorldAssumption DEF Init, WorldInit, Aged
  <1>2. RowsWereTrue /\ Nameless /\ PlanIsSparing /\ HitsWereSparing
    BY DEF Init, NoListing, FirstTool, RowsWereTrue, Nameless, PlanIsSparing, HitsWereSparing
  <1> QED BY <1>1, <1>2 DEF SparingInv

\* What was seen of the sockets at this instant.
LEMMA SeenNow ==
    ASSUME LegacyInv, Aged, Truth, UNCHANGED world
    PROVE  /\ Aged'
           /\ listed \subseteq listed'
           /\ phase # "listing" => listed' = listed
           /\ phase = "listing" => \A r \in VisibleRows :
                  /\ <<r[1], r[2], bound[r[2]]>> \in listed'
                  /\ bound[r[2]] \in 1..clock
                  /\ NamesNow[r[2]] = kind[r[2]]
  <1>1. /\ bound \in [PIDs -> 0..MaxStart] /\ clock \in Nat /\ MaxStart \in Nat
        /\ \A p \in PIDs : bound[p] <= clock
    BY Sorts DEF LegacyInv, TypeOK, WorldTypeOK, Aged
  <1>2. \A p \in PIDs, port \in Ports : port \in HeldBy(p) => bound[p] \in 1..clock
    BY <1>1 DEF HeldBy
  <1>3. listed \subseteq listed' /\ (phase # "listing" => listed' = listed)
    BY DEF Truth
  <1>4. \A e \in listed' : e[3] \in 1..clock
    <2>1. SUFFICES ASSUME NEW e \in listed', e \notin listed PROVE e[3] \in 1..clock
      BY DEF Aged
    <2>2. PICK r \in Ports \X PIDs : r[1] \in HeldBy(r[2]) /\ e = <<r[1], r[2], bound[r[2]]>>
      BY <2>1 DEF Truth
    <2> QED BY <1>2, <2>2
  <1>5. Aged'
    BY <1>1, <1>4 DEF Aged, world
  <1>6. ASSUME phase = "listing", NEW r \in VisibleRows
        PROVE  /\ <<r[1], r[2], bound[r[2]]>> \in listed'
               /\ bound[r[2]] \in 1..clock
               /\ NamesNow[r[2]] = kind[r[2]]
    <2>1. r \in Ports \X PIDs /\ r[1] \in HeldBy(r[2])
      BY Sorts, WorldAssumption, <1>6 DEF VisibleRows
    <2>2. bound[r[2]] \in 1..clock
      BY <1>2, <2>1
    <2>3. <<r[1], r[2], bound[r[2]]>> \in listed'
      BY <1>6, <2>1 DEF Truth
    <2>4. NamesNow[r[2]] = kind[r[2]]
      <3>1. r[2] \in PIDs /\ bound[r[2]] # 0
        BY <1>1, <2>1, <2>2
      <3> QED BY <3>1 DEF NamesNow
    <2> QED BY <2>2, <2>3, <2>4
  <1> QED BY <1>3, <1>5, <1>6

\* An enumeration leaves the plan and the signals alone.
LEMMA ListsSpare ==
    ASSUME LegacyInv, SparingInv, UNCHANGED listFrame, listed \subseteq listed',
           phase # "listing" => listed' = listed
    PROVE  PlanIsSparing' /\ HitsWereSparing'
  <1>1. /\ UNCHANGED <<world, phase, planned, refused, hits>> /\ ToAct' = ToAct
    BY DEF listFrame, ToAct
  <1>2. CASE phase = "listing"
    <2>1. hits' = {} /\ phase' = "listing"
      BY <1>1, <1>2, NobodyHitWhileListing
    <2> QED BY <2>1 DEF PlanIsSparing, HitsWereSparing
  <1>3. CASE phase # "listing"
    <2>1. UNCHANGED <<listed, bound, kind, refused, hits, phase>>
      BY <1>1, <1>3 DEF world
    <2>2. PlanIsSparing'
      BY <1>1, <2>1 DEF SparingInv, PlanIsSparing, Alone
    <2>3. HitsWereSparing'
      BY <2>1 DEF SparingInv, HitsWereSparing, HadItsPID
    <2> QED BY <2>2, <2>3
  <1> QED BY <1>2, <1>3

\* The rows of a listing and their names, after a tool that lists sockets.
LEMMA LsofSpares ==
    ASSUME LegacyInv, SparingInv, Lsof
    PROVE  SparingInv'
  <1>1. UNCHANGED listFrame /\ UNCHANGED world /\ Truth /\ stage' # "tasklist" /\ UNCHANGED phase
    BY ListedStage DEF Lsof, listFrame
  <1>2. /\ Aged' /\ listed \subseteq listed' /\ (phase # "listing" => listed' = listed)
        /\ phase = "listing" => \A r \in VisibleRows :
               /\ <<r[1], r[2], bound[r[2]]>> \in listed'
               /\ bound[r[2]] \in 1..clock
               /\ NamesNow[r[2]] = kind[r[2]]
    BY <1>1, SeenNow DEF SparingInv
  <1>3. PlanIsSparing' /\ HitsWereSparing'
    BY <1>1, <1>2, ListsSpare
  <1>4. /\ ~list'.namesUnavailable
        /\ \/ list'.rows = {}
           \/ list'.rows = VisibleRows /\ list'.name = Named(VisibleRows)
    <2>1. CASE list' = [NoListing EXCEPT !.rows = VisibleRows, !.name = Named(VisibleRows)]
      BY <2>1 DEF NoListing
    <2>2. CASE list' = [NoListing EXCEPT !.degraded = TRUE]
      BY <2>2 DEF NoListing
    <2>3. CASE list' = NoListing
      BY <2>3 DEF NoListing
    <2> QED BY <2>1, <2>2, <2>3 DEF Lsof
  <1>5. RowsWereTrue'
    <2>1. SUFFICES ASSUME phase = "listing", NEW r \in VisibleRows \cap (Ports \X PIDs),
                          list'.name = Named(VisibleRows)
                   PROVE  \E x \in 1..clock :
                              /\ <<r[1], r[2], x>> \in listed'
                              /\ list'.name[r] = kind[r[2]]
      BY <1>1, <1>4 DEF RowsWereTrue, world
    <2>2. list'.name[r] = kind[r[2]]
      BY <1>2, <2>1 DEF Named
    <2> QED BY <1>2, <2>1, <2>2
  <1>6. Nameless'
    BY <1>1, <1>4 DEF Nameless
  <1> QED BY <1>2, <1>3, <1>5, <1>6 DEF SparingInv

LEMMA SsSpares ==
    ASSUME LegacyInv, SparingInv, Ss
    PROVE  SparingInv'
  <1> DEFINE seen == VisibleRows \cup HiddenRows
             new == IF HaveLsof THEN {r \in seen : ~Shown(r[1])} ELSE seen
             names == [r \in Ports \X PIDs |->
                          IF r \in new THEN NamesNow[r[2]] ELSE Unmerged.name[r]]
  <1>1. /\ UNCHANGED listFrame /\ UNCHANGED world /\ Truth /\ UNCHANGED phase
        /\ stage = "ss" /\ stage' # "tasklist"
    BY ListedStage DEF Ss, listFrame
  <1>2. /\ Aged' /\ listed \subseteq listed' /\ (phase # "listing" => listed' = listed)
        /\ phase = "listing" => \A r \in VisibleRows :
               /\ <<r[1], r[2], bound[r[2]]>> \in listed'
               /\ bound[r[2]] \in 1..clock
               /\ NamesNow[r[2]] = kind[r[2]]
    BY <1>1, SeenNow DEF SparingInv
  <1>3. PlanIsSparing' /\ HitsWereSparing'
    BY <1>1, <1>2, ListsSpare
  <1>4. /\ Unmerged = list \/ (Unmerged.rows = {} /\ ~Unmerged.namesUnavailable
                               /\ \A r \in Ports \X PIDs : Unmerged.name[r] = "")
        /\ Unmerged \in Listings
    BY DEF Unmerged, NoListing, LegacyInv, ListType, Listings, Names
  <1>5. /\ list'.namesUnavailable = Unmerged.namesUnavailable
        /\ \/ list'.rows = Unmerged.rows /\ list'.name = Unmerged.name
           \/ list'.rows = Unmerged.rows \cup new /\ list'.name = names
    <2>1. CASE list' = [Unmerged EXCEPT !.rows = @ \cup new, !.name = names, !.degraded = FALSE]
      BY <1>4, <2>1 DEF Listings
    <2>2. CASE list' = Unmerged
      BY <2>2
    <2>3. \/ list' = [Unmerged EXCEPT !.rows = @ \cup new, !.name = names, !.degraded = FALSE]
          \/ list' = Unmerged
      BY DEF Ss
    <2> QED BY <2>1, <2>2, <2>3
  <1>6. \A r \in new \cap (Ports \X PIDs) : r \in VisibleRows
    BY Sorts DEF HiddenRows
  <1>7. ASSUME phase = "listing", NEW r \in Unmerged.rows \cap (Ports \X PIDs)
        PROVE  \E x \in 1..clock :
                   /\ <<r[1], r[2], x>> \in listed'
                   /\ x = bound[r[2]] /\ ~list.namesUnavailable => Unmerged.name[r] = kind[r[2]]
    <2>1. Unmerged = list
      BY <1>4, <1>7
    <2> QED BY <1>1, <1>2, <1>7, <2>1 DEF SparingInv, RowsWereTrue
  <1>8. RowsWereTrue'
    <2>1. SUFFICES ASSUME phase = "listing", NEW r \in list'.rows \cap (Ports \X PIDs)
                   PROVE  \E x \in 1..clock :
                              /\ <<r[1], r[2], x>> \in listed'
                              /\ x = bound[r[2]] /\ ~list'.namesUnavailable =>
                                     list'.name[r] = kind[r[2]]
      BY <1>1 DEF RowsWereTrue, world
    <2>2. CASE r \in new /\ list'.name = names
      <3>1. r \in VisibleRows
        BY <1>6, <2>1, <2>2
      <3>2. list'.name[r] = kind[r[2]]
        BY <1>2, <2>1, <2>2, <3>1
      <3> QED BY <1>2, <2>1, <3>1, <3>2
    <2>3. CASE ~(r \in new /\ list'.name = names)
      <3>1. r \in Unmerged.rows /\ list'.name[r] = Unmerged.name[r] /\ Unmerged = list
        BY <1>4, <1>5, <2>1, <2>3
      <3> QED BY <1>5, <1>7, <2>1, <3>1
    <2> QED BY <2>2, <2>3
  <1>9. Nameless'
    <2>1. ~OnWindows
      BY <1>1 DEF LegacyInv, Staged
    <2>2. phase = "listing" => ~list'.namesUnavailable
      BY <1>4, <1>5, <2>1 DEF SparingInv, Nameless
    <2> QED BY <1>1, <2>2 DEF Nameless
  <1> QED BY <1>2, <1>3, <1>8, <1>9 DEF SparingInv

LEMMA NetstatSpares ==
    ASSUME LegacyInv, SparingInv, Netstat
    PROVE  SparingInv'
  <1>1. /\ UNCHANGED listFrame /\ UNCHANGED world /\ Truth /\ UNCHANGED phase /\ OnWindows
    BY DEF Netstat, listFrame, LegacyInv, Staged
  <1>2. /\ Aged' /\ listed \subseteq listed' /\ (phase # "listing" => listed' = listed)
        /\ phase = "listing" => \A r \in VisibleRows :
               /\ <<r[1], r[2], bound[r[2]]>> \in listed'
               /\ bound[r[2]] \in 1..clock
    BY <1>1, SeenNow DEF SparingInv
  <1>3. PlanIsSparing' /\ HitsWereSparing'
    BY <1>1, <1>2, ListsSpare
  <1>4. /\ ~list'.namesUnavailable /\ \A r \in Ports \X PIDs : list'.name[r] = ""
        /\ list'.rows = {} \/ (list'.rows = VisibleRows /\ stage' = "tasklist")
    <2>1. CASE list' = [NoListing EXCEPT !.rows = VisibleRows]
               /\ stage' = IF VisibleRows = {} THEN Listed ELSE "tasklist"
      BY <2>1 DEF NoListing
    <2>2. CASE list' = NoListing
      BY <2>2 DEF NoListing
    <2> QED BY <2>1, <2>2 DEF Netstat
  <1>5. RowsWereTrue'
    <2>1. SUFFICES ASSUME phase = "listing", stage' = "tasklist", NEW r \in VisibleRows
                   PROVE  \E x \in 1..clock : <<r[1], r[2], x>> \in listed'
      BY <1>1, <1>4 DEF RowsWereTrue, world
    <2> QED BY <1>2, <2>1
  <1>6. Nameless'
    BY <1>1, <1>4 DEF Nameless, world, OnWindows
  <1> QED BY <1>2, <1>3, <1>5, <1>6 DEF SparingInv

\* tasklist names whoever has the PID now, and its rows are as netstat left them.
LEMMA TasklistSpares ==
    ASSUME LegacyInv, SparingInv, Tasklist
    PROVE  SparingInv'
  <1>1. /\ UNCHANGED listFrame /\ UNCHANGED world /\ UNCHANGED <<phase, listed>>
        /\ stage = "tasklist" /\ stage' # "tasklist" /\ OnWindows
        /\ list'.rows = list.rows
    <2>1. stage' # "tasklist"
      BY ListedStage DEF Tasklist
    <2>2. list'.rows = list.rows
      BY DEF Tasklist, LegacyInv, ListType, Listings
    <2> QED BY <2>1, <2>2 DEF Tasklist, listFrame, LegacyInv, Staged
  <1>2. Aged' /\ PlanIsSparing' /\ HitsWereSparing'
    <2>1. Aged'
      BY <1>1 DEF SparingInv, Aged, world
    <2> QED BY <1>1, <2>1, ListsSpare
  <1>3. \/ list'.name = Named(list.rows) /\ list'.namesUnavailable = list.namesUnavailable
        \/ list'.name = list.name /\ list'.namesUnavailable
    BY DEF Tasklist, LegacyInv, ListType, Listings
  <1>4. RowsWereTrue'
    <2>1. SUFFICES ASSUME phase = "listing", NEW r \in list.rows \cap (Ports \X PIDs)
                   PROVE  \E x \in 1..clock :
                              /\ <<r[1], r[2], x>> \in listed
                              /\ x = bound[r[2]] /\ ~list'.namesUnavailable =>
                                     list'.name[r] = kind[r[2]]
      BY <1>1 DEF RowsWereTrue, world
    <2>2. PICK x \in 1..clock : <<r[1], r[2], x>> \in listed
      BY <2>1 DEF SparingInv, RowsWereTrue
    <2>3. ASSUME x = bound[r[2]], ~list'.namesUnavailable PROVE list'.name[r] = kind[r[2]]
      <3>1. bound[r[2]] # 0
        BY <2>2, <2>3 DEF LegacyInv, TypeOK, WorldTypeOK
      <3>2. list'.name[r] = NamesNow[r[2]]
        BY <1>3, <2>1, <2>3 DEF Named
      <3> QED BY <2>1, <3>1, <3>2 DEF NamesNow
    <2> QED BY <2>2, <2>3
  <1>5. Nameless'
    <2>1. SUFFICES ASSUME phase = "listing", list'.namesUnavailable
                   PROVE  \A r \in Ports \X PIDs : list'.name[r] = ""
      BY <1>1 DEF Nameless, world, OnWindows
    <2> QED BY <1>1, <1>3, <2>1 DEF SparingInv, Nameless
  <1> QED BY <1>2, <1>4, <1>5 DEF SparingInv

LEMMA DockerSpares ==
    ASSUME LegacyInv, SparingInv, Docker
    PROVE  SparingInv'
  <1>1. /\ UNCHANGED listFrame /\ UNCHANGED world /\ UNCHANGED <<phase, listed>>
        /\ stage = "docker" /\ stage' # "tasklist"
    BY DEF Docker, listFrame
  <1>2. Aged' /\ PlanIsSparing' /\ HitsWereSparing'
    <2>1. Aged'
      BY <1>1 DEF SparingInv, Aged, world
    <2> QED BY <1>1, <2>1, ListsSpare
  <1>3. /\ list'.rows = list.rows /\ list'.name = list.name
        /\ list'.namesUnavailable = list.namesUnavailable
    BY DEF Docker, LegacyInv, ListType, Listings
  <1>4. RowsWereTrue' /\ Nameless'
    BY <1>1, <1>3 DEF SparingInv, RowsWereTrue, Nameless, world, OnWindows
  <1> QED BY <1>2, <1>4 DEF SparingInv

\* Steps that leave the processes, the listing and the plan as they are.
LEMMA NothingDecided ==
    ASSUME LegacyInv, SparingInv, UNCHANGED <<host, bound, clock, kind, planned, refused, listed>>,
           \/ phase' = phase /\ UNCHANGED <<stage, list>>
           \/ phase # "listing" /\ phase' # "listing"
           \/ phase = "listing" /\ phase' = "done",
           hits' = hits
    PROVE  SparingInv'
  <1>1. Aged' /\ HitsWereSparing'
    BY DEF SparingInv, Aged, HitsWereSparing, HadItsPID
  <1>2. RowsWereTrue' /\ Nameless'
    BY DEF SparingInv, RowsWereTrue, Nameless, OnWindows
  <1>3. PlanIsSparing'
    <2>1. CASE phase = "listing"
      BY <2>1, NobodyHitWhileListing DEF PlanIsSparing, ToAct
    <2>2. CASE phase # "listing"
      BY <2>2 DEF SparingInv, PlanIsSparing, Alone, ToAct
    <2> QED BY <2>1, <2>2
  <1> QED BY <1>1, <1>2, <1>3 DEF SparingInv

\* The heart of it: every row of a process that had its PID to itself carries
\* its own name, so all of them are candidates or none is.
LEMMA PlanKillSpares ==
    ASSUME LegacyInv, SparingInv, PlanKill
    PROVE  SparingInv'
  <1>1. /\ UNCHANGED <<world, listed, hits>> /\ phase = "listing" /\ stage = "listed"
        /\ phase' # "listing"
        /\ planned' = ContainerRows \cup {r \in Candidates : ident[r[2]] # "denied"}
        /\ refused' = list.rows \ (planned' \cup LeftAlone)
    BY DEF PlanKill, Conclude, history
  <1>2. hits = {}
    BY <1>1, NobodyHitWhileListing
  <1>3. Aged' /\ RowsWereTrue' /\ Nameless' /\ HitsWereSparing'
    BY <1>1, <1>2 DEF SparingInv, Aged, RowsWereTrue, Nameless, HitsWereSparing, world
  <1>4. ASSUME NEW p \in PIDs, p \in ToAct'
        PROVE  /\ \E e \in listed : e[2] = p
               /\ Alone(p) => kind[p] # "infra" /\ \A r \in refused' : r[2] # p
    <2>1. PICK r0 \in Candidates : r0[2] = p /\ ident[p] # "denied"
      <3>1. PICK r0 \in planned' : r0[2] = p
        BY <1>4 DEF ToAct
      <3> QED BY <1>1, <1>4, <3>1, Sorts DEF ContainerRows
    <2>2. \A r \in list.rows \cap (Ports \X PIDs) : \E x \in 1..clock :
              /\ <<r[1], r[2], x>> \in listed
              /\ x = bound[r[2]] /\ ~list.namesUnavailable => list.name[r] = kind[r[2]]
      BY <1>1 DEF SparingInv, RowsWereTrue
    <2>3. \E e \in listed : e[2] = p
      <3>1. r0 \in list.rows \cap (Ports \X PIDs)
        BY DEF Candidates
      <3>2. PICK x \in 1..clock : <<r0[1], r0[2], x>> \in listed
        BY <2>2, <3>1
      <3> QED BY <2>1, <3>2
    <2>4. ~list.namesUnavailable
      <3>1. list.namesUnavailable => list.name[r0] = ""
        BY <1>1 DEF SparingInv, Nameless, Candidates
      <3> QED BY <3>1 DEF Candidates
    <2>5. ASSUME Alone(p), NEW r \in list.rows \cap (Ports \X PIDs), r[2] = p
          PROVE  list.name[r] = kind[p]
      <3>1. PICK x \in 1..clock :
                /\ <<r[1], r[2], x>> \in listed
                /\ x = bound[r[2]] => list.name[r] = kind[r[2]]
        BY <2>2, <2>4, <2>5
      <3>2. x = bound[p]
        BY <2>5, <3>1 DEF Alone
      <3> QED BY <2>5, <3>1, <3>2
    <2>6. ASSUME Alone(p) PROVE kind[p] # "infra"
      BY <2>1, <2>5, <2>6 DEF Candidates
    <2>7. ASSUME Alone(p), NEW r \in refused', r[2] = p PROVE FALSE
      <3>1. r \in list.rows \cap (Ports \X PIDs) /\ r \notin planned'
        BY <1>1, <2>7 DEF LegacyInv, ListType, Listings, SocketRow
      <3>2. r \in Candidates
        BY <2>1, <2>4, <2>5, <2>6, <2>7, <3>1 DEF Candidates
      <3> QED BY <1>1, <2>1, <2>7, <3>1, <3>2
    <2> QED BY <2>3, <2>6, <2>7
  <1>5. PlanIsSparing'
    BY <1>1, <1>4 DEF PlanIsSparing, Alone, world
  <1> QED BY <1>3, <1>5 DEF SparingInv

\* Who is signalled is planned for, and was alone if it is the one that was
\* listed.
LEMMA KillNativeSpares ==
    ASSUME LegacyInv, SparingInv, NEW p \in PIDs, KillNative(p)
    PROVE  SparingInv'
  <1>1. /\ UNCHANGED <<world, phase, stage, list, planned, refused, listed>>
        /\ work[p] = "begin"
        /\ \/ hits' = hits
           \/ hits' = hits \cup {[pid |-> p, start |-> bound[p], kind |-> kind[p],
                                late |-> ctx = "dead"]}
    BY DEF KillNative
  <1>2. phase = "acting" /\ p \in ToAct
    BY <1>1, Begun, Sorts
  <1>3. CASE hits' = hits
    BY <1>1, <1>3, NothingDecided DEF world
  <1>4. CASE hits' = hits \cup {[pid |-> p, start |-> bound[p], kind |-> kind[p],
                               late |-> ctx = "dead"]}
    <2>1. Aged' /\ RowsWereTrue' /\ Nameless'
      BY <1>1, <1>2 DEF SparingInv, Aged, RowsWereTrue, Nameless, world
    <2>2. PlanIsSparing'
      BY <1>1, <1>2 DEF SparingInv, PlanIsSparing, Alone, ToAct, world
    <2>3. HitsWereSparing'
      <3>1. SUFFICES ASSUME NEW h \in hits', HadItsPID(h)
                     PROVE  h.kind # "infra" /\ \A r \in refused : r[2] # h.pid
        BY <1>1 DEF HitsWereSparing, HadItsPID
      <3>2. CASE h \in hits
        BY <3>1, <3>2 DEF SparingInv, HitsWereSparing
      <3>3. CASE h.pid = p /\ h.start = bound[p] /\ h.kind = kind[p]
        <4>1. Alone(p)
          BY <1>2, <3>1, <3>3 DEF SparingInv, PlanIsSparing, Alone, HadItsPID
        <4> QED BY <1>2, <3>3, <4>1 DEF SparingInv, PlanIsSparing
      <3> QED BY <1>4, <3>2, <3>3
    <2> QED BY <2>1, <2>2, <2>3 DEF SparingInv
  <1> QED BY <1>1, <1>3, <1>4

\* A process that takes a PID is younger than all that was listed, and one that
\* keeps its PID keeps its name.
LEMMA WorldSpares ==
    ASSUME LegacyInv, SparingInv, WorldNext, UNCHANGED <<run, history>>
    PROVE  SparingInv'
  <1>1. /\ WorldTypeOK /\ clock \in Nat /\ clock' \in Nat /\ clock <= clock' /\ host' = host
        /\ \A p \in PIDs : bound'[p] = bound[p] \/ bound'[p] = 0 \/ bound'[p] \in (clock + 1)..clock'
        /\ \A p \in PIDs : bound'[p] # 0 /\ bound'[p] = bound[p] => kind'[p] = kind[p]
    BY WorldAges, WorldTypes, WorldNames DEF LegacyInv, TypeOK
  <1>2. /\ UNCHANGED <<phase, stage, list, planned, refused, listed, hits>>
        /\ ToAct' = ToAct
    BY DEF run, history, ToAct
  <1>3. Aged'
    <2>1. \A p \in PIDs : bound[p] \in Nat /\ bound[p] <= clock
      BY <1>1, Sorts DEF WorldTypeOK, SparingInv, Aged
    <2>2. \A p \in PIDs : bound'[p] <= clock'
      BY <1>1, <2>1
    <2>3. \A e \in listed' : e[3] \in 1..clock'
      BY <1>1, <1>2 DEF SparingInv, Aged
    <2> QED BY <2>2, <2>3 DEF Aged
  <1>4. \A p \in PIDs, x \in 1..clock : x = bound'[p] => x = bound[p] /\ kind'[p] = kind[p]
    BY <1>1
  <1>5. RowsWereTrue'
    <2>1. SUFFICES ASSUME phase = "listing", NEW r \in list.rows \cap (Ports \X PIDs)
                   PROVE  \E x \in 1..clock' :
                              /\ <<r[1], r[2], x>> \in listed
                              /\ x = bound'[r[2]] /\ stage # "tasklist" /\ ~list.namesUnavailable =>
                                     list.name[r] = kind'[r[2]]
      BY <1>2 DEF RowsWereTrue
    <2>2. PICK x \in 1..clock :
              /\ <<r[1], r[2], x>> \in listed
              /\ x = bound[r[2]] /\ stage # "tasklist" /\ ~list.namesUnavailable =>
                     list.name[r] = kind[r[2]]
      BY <2>1 DEF SparingInv, RowsWereTrue
    <2>3. x \in 1..clock' /\ r[2] \in PIDs
      BY <1>1, <2>1
    <2> QED BY <1>4, <2>2, <2>3
  <1>6. Nameless'
    BY <1>1, <1>2 DEF SparingInv, Nameless, OnWindows
  <1>7. PlanIsSparing'
    <2>1. SUFFICES ASSUME phase # "listing", NEW p \in PIDs, p \in ToAct
                   PROVE  /\ \E e \in listed : e[2] = p
                          /\ Alone(p)' => kind'[p] # "infra" /\ \A r \in refused : r[2] # p
      BY <1>2 DEF PlanIsSparing
    <2>2. PICK e \in listed : e[2] = p
      BY <2>1 DEF SparingInv, PlanIsSparing
    <2>3. ASSUME Alone(p)' PROVE Alone(p) /\ kind'[p] = kind[p]
      <3>1. e[3] = bound'[p] /\ e[3] \in 1..clock
        BY <1>2, <2>2, <2>3 DEF Alone, SparingInv, Aged
      <3> QED BY <1>2, <1>4, <2>3, <3>1 DEF Alone
    <2> QED BY <2>1, <2>2, <2>3 DEF SparingInv, PlanIsSparing
  <1>8. HitsWereSparing'
    BY <1>2 DEF SparingInv, HitsWereSparing, HadItsPID
  <1> QED BY <1>3, <1>5, <1>6, <1>7, <1>8 DEF SparingInv

LEMMA SparingStep ==
    ASSUME LegacyInv, SparingInv, [Next]_vars
    PROVE  SparingInv'
  <1>1. CASE Lists
    BY <1>1, LsofSpares, SsSpares, NetstatSpares, TasklistSpares, DockerSpares DEF Lists
  <1>2. CASE EnumerationFails
    BY <1>2, NothingDecided DEF EnumerationFails, world, history
  <1>3. ASSUME NEW p \in PIDs, CaptureIdentity(p) PROVE SparingInv'
    BY <1>3, NothingDecided DEF CaptureIdentity, world, history
  <1>4. ASSUME NEW k \in Keys, Dispatch(k) PROVE SparingInv'
    BY <1>4, NothingDecided DEF Dispatch, world, history
  <1>5. CASE ActionsDone
    BY <1>5, NothingDecided DEF ActionsDone, Conclude, world, history
  <1>6. CASE VerifyAgain
    BY <1>6, NothingDecided DEF VerifyAgain, world, history
  <1>7. CASE FinishRows
    BY <1>7, NothingDecided DEF FinishRows, Conclude, world, history
  <1>8. CASE \E k \in Keys : ActOn(k)
    <2>1. PICK k \in Keys : ActOn(k)
      BY <1>8
    <2>2. CASE k \in PIDs /\ KillNative(k)
      BY <2>2, KillNativeSpares
    <2>3. CASE StopBegins(k) \/ StopEnds(k)
      BY <2>3, NothingDecided DEF StopBegins, StopEnds, history
    <2> QED BY <2>1, <2>2, <2>3 DEF ActOn
  <1>9. CASE Cancel
    BY <1>9, NothingDecided DEF Cancel, world, history
  <1>10. CASE WorldMoves
    BY <1>10, WorldSpares DEF WorldMoves
  <1>11. CASE Done \/ UNCHANGED vars
    BY <1>11, NothingDecided DEF Done, vars, run, world, history
  <1> QED BY <1>1, <1>2, <1>3, <1>4, <1>5, <1>6, <1>7, <1>8, <1>9, <1>10, <1>11, PlanKillSpares
          DEF Next, Program, Command

\* Nobody protected is signalled, nobody by a dry run, and no process that had
\* its PID to itself while the ports were listed is killed on account of one
\* port when it is refused on another or is one of Docker's own: rows are
\* decided one by one, but they agree (kill.go:100-112, 157-213, 281-284).
THEOREM RefusedAreSpared == Spec => []RefusedIsSpared
  <1>1. Init => SparingInv
    BY InitSparing
  <1>2. LegacyInv /\ SparingInv /\ [Next]_vars => SparingInv'
    BY SparingStep
  <1>3. LegacyInv /\ SparingInv => RefusedIsSpared
    <2>1. ASSUME LegacyInv, NEW h \in hits
          PROVE  ~Protected(OnWindows, h.pid) /\ ~dryRun
      <3>1. h.pid \in ToAct /\ h.pid \in PIDs /\ ~dryRun
        BY <2>1 DEF LegacyInv, Chosen, ListType, Hit
      <3> QED BY <2>1, <3>1 DEF LegacyInv, Chosen, ToAct
    <2> QED BY <2>1 DEF SparingInv, HitsWereSparing, RefusedIsSpared
  <1> QED BY <1>1, <1>2, <1>3, LegacyAlways, PTL DEF Spec

-----------------------------------------------------------------------------
(* What is claimed after a late kill.  Once a kill goes out under a dead      *)
(* context there is no way back: the first tool of the verification fails.    *)
Late == \E h \in hits : h.late

LateInv ==
    Late => /\ ctx = "dead" /\ phase \in {"acting", "verifying", "done"} /\ planned # {}
            /\ phase = "verifying" => stage \in {FirstTool, "failed"}
            /\ phase = "done" => report.killed = {} /\ report.exit = 1

\* A tool that is run first under a dead context fails.
LEMMA NoToolWorks ==
    ASSUME LegacyInv, ctx = "dead", phase = "verifying", stage \in {FirstTool, "failed"}, Lists
    PROVE  stage' = "failed"
  <1>1. /\ WorldTypeOK /\ ~Works /\ stage \in {"netstat", "lsof", "ss", "failed"}
        /\ stage = "ss" => ~HaveLsof
    BY Tools DEF LegacyInv, TypeOK, Works
  <1> QED BY <1>1 DEF Lists, Lsof, Ss, Netstat, Tasklist, Docker

LEMMA LateStep ==
    ASSUME LegacyInv, LateInv, [Next]_vars
    PROVE  LateInv'
  <1>0. WorldTypeOK /\ FirstTool \in {"netstat", "lsof", "ss"} /\ hits \subseteq Hit
    BY Tools DEF LegacyInv, TypeOK, ListType
  <1>1. CASE Lists
    <2>1. UNCHANGED <<phase, ctx, planned, report, hits>> /\ FirstTool' = FirstTool
      BY <1>1, ListFrame DEF Lists, Lsof, Ss, Netstat, Tasklist, Docker, listFrame
    <2>2. Late /\ phase = "verifying" => stage' = "failed"
      BY <1>1, NoToolWorks DEF LateInv
    <2> QED BY <2>1, <2>2 DEF LateInv, Late
  <1>2. CASE EnumerationFails \/ PlanKill \/ \E p \in PIDs : CaptureIdentity(p)
    <2>1. hits' = hits /\ phase = "listing"
      BY <1>2 DEF EnumerationFails, PlanKill, CaptureIdentity, history
    <2>2. hits = {}
      BY <2>1, NobodyHitWhileListing
    <2> QED BY <2>1, <2>2 DEF LateInv, Late
  <1>3. CASE \E k \in Keys : Dispatch(k)
    BY <1>3 DEF Dispatch, LateInv, Late, history
  <1>4. CASE ActionsDone
    <2>1. /\ UNCHANGED <<ctx, planned, hits>> /\ FirstTool' = FirstTool
          /\ \/ Conclude({}, refused \cup planned)
             \/ phase' = "verifying" /\ stage' = FirstTool
      BY <1>4 DEF ActionsDone, history, world, FirstTool, OnWindows, HaveLsof
    <2> QED BY <2>1 DEF Conclude, LateInv, Late
  <1>5. CASE VerifyAgain
    <2>1. phase = "verifying" /\ stage = "listed" /\ hits' = hits
      BY <1>5 DEF VerifyAgain, history
    <2> QED BY <1>0, <2>1 DEF LateInv, Late
  <1>6. CASE FinishRows
    <2>1. /\ UNCHANGED <<ctx, planned, hits>> /\ phase = "verifying" /\ phase' = "done"
          /\ stage = "listed" \/ (stage = "failed" /\ Conclude({}, refused \cup planned))
      BY <1>6 DEF FinishRows, Conclude, history
    <2>2. Late => stage = "failed"
      BY <1>0, <2>1 DEF LateInv
    <2> QED BY <2>1, <2>2 DEF Conclude, LateInv, Late
  <1>7. CASE \E k \in Keys : ActOn(k)
    <2>1. PICK k \in Keys : ActOn(k)
      BY <1>7
    <2>2. CASE k \in PIDs /\ KillNative(k)
      <3>1. /\ UNCHANGED <<phase, ctx, planned>> /\ phase = "acting" /\ planned # {}
        BY <2>2, Begun DEF KillNative, ToAct
      <3>2. \/ hits' = hits
            \/ \E h : h.late = (ctx = "dead") /\ hits' = hits \cup {h}
        <4>1. [pid |-> k, start |-> bound[k], kind |-> kind[k], late |-> ctx = "dead"].late
                  = (ctx = "dead")
          OBVIOUS
        <4> QED BY <2>2, <4>1 DEF KillNative
      <3>3. Late' => Late \/ ctx = "dead"
        BY <3>2 DEF Late
      <3> QED BY <3>1, <3>3 DEF LateInv
    <2>3. CASE StopBegins(k) \/ StopEnds(k)
      <3>1. UNCHANGED <<phase, stage, ctx, planned, report, hits, host>>
        BY <2>3 DEF StopBegins, StopEnds, history
      <3> QED BY <3>1 DEF LateInv, Late, FirstTool, OnWindows, HaveLsof
    <2> QED BY <2>1, <2>2, <2>3 DEF ActOn
  <1>8. CASE Cancel
    <2>1. UNCHANGED <<phase, stage, planned, report, hits, host>> /\ ctx' = "dead"
      BY <1>8 DEF Cancel, history, world
    <2> QED BY <2>1 DEF LateInv, Late, FirstTool, OnWindows, HaveLsof
  <1>9. CASE WorldMoves
    <2>1. UNCHANGED <<phase, stage, ctx, planned, report, hits>> /\ host' = host
      BY <1>0, <1>9, WorldTypes DEF WorldMoves, run, history
    <2> QED BY <2>1 DEF LateInv, Late, FirstTool, OnWindows, HaveLsof
  <1>10. CASE Done \/ UNCHANGED vars
    <2>1. UNCHANGED <<phase, stage, ctx, planned, report, hits, host>>
      BY <1>10 DEF Done, vars, run, history, world
    <2> QED BY <2>1 DEF LateInv, Late, FirstTool, OnWindows, HaveLsof
  <1> QED BY <1>1, <1>2, <1>3, <1>4, <1>5, <1>6, <1>7, <1>8, <1>9, <1>10
          DEF Next, Program, Command

\* However many kills go out after Ctrl-C, the report says of none of them that
\* it freed a port, and the exit code is 1: verify runs on the same context
\* (kill.go:287-292, 355-357, 447-448).
THEOREM LateKillsAreUnclaimed == Spec => []LateKillsUnclaimed
  <1>1. Init => LateInv
    BY DEF Init, LateInv, Late
  <1>2. LegacyInv /\ LateInv /\ [Next]_vars => LateInv'
    BY LateStep
  <1>3. LateInv => LateKillsUnclaimed
    BY DEF LateInv, Late, LateKillsUnclaimed
  <1> QED BY <1>1, <1>2, <1>3, LegacyAlways, PTL DEF Spec

-----------------------------------------------------------------------------
(* Progress: the part of Terminates that does not depend on fairness.        *)
LEMMA ToolsLeftAre ==
    ASSUME TypeOK
    PROVE  ToolsLeft \in 0..5
  BY DEF TypeOK, ToolsLeft

LEMMA ToolsLeftNext ==
    ASSUME TypeOK'
    PROVE  ToolsLeft' \in 0..5
  BY DEF TypeOK, ToolsLeft

\* The command goes on, and every action is where it was.
LEMMA CommandGoesOn ==
    ASSUME LegacyInv, LegacyInv', UNCHANGED <<work, ident>>, <<phase, phase'>> \in
               {<<"listing", "acting">>, <<"listing", "done">>, <<"acting", "done">>,
                <<"verifying", "done">>}
    PROVE  CommandLeft' < CommandLeft /\ ActionsLeft' = ActionsLeft
  <1>1. ToolsLeft \in Nat /\ attempt \in 0..VerifyAttempts /\ VerifyAttempts \in Nat \ {0}
    BY ToolsLeftAre, Bounds DEF LegacyInv, TypeOK
  <1>2. CommandLeft' < CommandLeft
    BY <1>1 DEF CommandLeft
  <1>3. ActionsLeft' = ActionsLeft
    BY DEF ActionsLeft, ActionLeft
  <1> QED BY <1>2, <1>3

\* Some action goes on, and the command is where it was.
LEMMA ActionGoesOn ==
    ASSUME LegacyInv, LegacyInv', NEW k \in Keys, UNCHANGED <<phase, stage, attempt>>,
           ActionLeft(k)' < ActionLeft(k),
           \A l \in Keys \ {k} : work'[l] = work[l] /\ (l \in PIDs => ident'[l] = ident[l])
    PROVE  /\ CommandLeft' = CommandLeft
           /\ \E l \in Keys : /\ ActionsLeft'[l] < ActionsLeft[l]
                              /\ \A m \in Keys \ {l} : ActionsLeft'[m] = ActionsLeft[m]
  <1>1. CommandLeft' = CommandLeft
    BY DEF CommandLeft, ToolsLeft
  <1>2. ActionsLeft'[k] < ActionsLeft[k]
    BY DEF ActionsLeft
  <1>3. ASSUME NEW l \in Keys \ {k} PROVE ActionsLeft'[l] = ActionsLeft[l]
    <2>1. ActionLeft(l)' = ActionLeft(l)
      BY <1>3 DEF ActionLeft
    <2> QED BY <1>3, <2>1 DEF ActionsLeft
  <1> QED BY <1>1, <1>2, <1>3

\* The next tool of an enumeration.
LEMMA ListsAdvance ==
    ASSUME LegacyInv, LegacyInv', Lists
    PROVE  CommandLeft' < CommandLeft /\ ActionsLeft' = ActionsLeft
  <1>1. UNCHANGED <<phase, work, ident, attempt>> /\ Listed \in {"docker", "listed"}
    BY ListedStage DEF Lists, Lsof, Ss, Netstat, Tasklist, Docker, listFrame
  <1>2. /\ stage \in {"lsof", "ss", "netstat", "tasklist", "docker"}
        /\ ToolsLeft' < ToolsLeft
    <2>1. CASE Lsof
      <3>1. stage = "lsof" /\ stage' \in {"ss", "docker", "listed", "failed"}
        BY <1>1, <2>1 DEF Lsof
      <3> QED BY <3>1 DEF ToolsLeft
    <2>2. CASE Ss
      <3>1. stage = "ss" /\ stage' \in {"docker", "listed", "failed"}
        BY <1>1, <2>2 DEF Ss
      <3> QED BY <3>1 DEF ToolsLeft
    <2>3. CASE Netstat
      <3>1. stage = "netstat" /\ stage' \in {"tasklist", "docker", "listed", "failed"}
        BY <1>1, <2>3 DEF Netstat
      <3> QED BY <3>1 DEF ToolsLeft
    <2>4. CASE Tasklist
      <3>1. stage = "tasklist" /\ stage' \in {"docker", "listed"}
        BY <1>1, <2>4 DEF Tasklist
      <3> QED BY <3>1 DEF ToolsLeft
    <2>5. CASE Docker
      <3>1. stage = "docker" /\ stage' \in {"listed", "failed"}
        BY <2>5 DEF Docker
      <3> QED BY <3>1 DEF ToolsLeft
    <2> QED BY <2>1, <2>2, <2>3, <2>4, <2>5 DEF Lists
  <1>3. phase \in {"listing", "verifying"}
    BY <1>2 DEF LegacyInv, Staged, TypeOK
  <1>4. /\ ToolsLeft \in Nat /\ ToolsLeft' \in Nat
        /\ attempt \in Nat /\ VerifyAttempts \in Nat
    BY ToolsLeftAre, ToolsLeftNext, Bounds DEF LegacyInv, TypeOK
  <1>5. CommandLeft' < CommandLeft
    BY <1>1, <1>2, <1>3, <1>4 DEF CommandLeft
  <1>6. ActionsLeft' = ActionsLeft
    BY <1>1 DEF ActionsLeft, ActionLeft
  <1> QED BY <1>5, <1>6

\* A verification begins, or begins again, with one attempt less.
LEMMA VerifyAdvances ==
    ASSUME LegacyInv, LegacyInv', UNCHANGED <<work, ident>>, phase' = "verifying",
           \/ phase = "acting" /\ attempt' = 1
           \/ phase = "verifying" /\ attempt' = attempt + 1 /\ attempt < VerifyAttempts
    PROVE  CommandLeft' < CommandLeft /\ ActionsLeft' = ActionsLeft
  <1>1. /\ ToolsLeft \in 0..5 /\ ToolsLeft' \in 0..5
        /\ attempt \in Nat /\ VerifyAttempts \in Nat
    BY ToolsLeftAre, ToolsLeftNext, Bounds DEF LegacyInv, TypeOK
  <1>2. CommandLeft' = 8 * (VerifyAttempts - attempt') + 1 + ToolsLeft'
    BY DEF CommandLeft
  <1>3. CASE phase = "acting"
    <2>1. CommandLeft = 8 * VerifyAttempts
      BY <1>3 DEF CommandLeft
    <2> QED BY <1>1, <1>2, <1>3, <2>1 DEF ActionsLeft, ActionLeft
  <1>4. CASE phase = "verifying"
    <2>1. CommandLeft = 8 * (VerifyAttempts - attempt) + 1 + ToolsLeft
      BY <1>4 DEF CommandLeft
    <2> QED BY <1>1, <1>2, <1>4, <2>1 DEF ActionsLeft, ActionLeft
  <1> QED BY <1>3, <1>4

\* No step of the legacy command leaves as much to do as there was, whatever the
\* machine does and however the tools fail: no exception, because verify is
\* counted (kill.go:354).  So if it runs at all it ends, after a number of steps
\* known from the start.
THEOREM LegacyAlwaysAdvances == Spec => Advances
  <1> DEFINE Less == CommandLeft' < CommandLeft /\ ActionsLeft' = ActionsLeft
             OneLess == /\ CommandLeft' = CommandLeft
                        /\ \E k \in Keys : /\ ActionsLeft'[k] < ActionsLeft[k]
                                           /\ \A l \in Keys \ {k} : ActionsLeft'[l] = ActionsLeft[l]
             Still == CommandLeft' = CommandLeft /\ ActionsLeft' = ActionsLeft
  <1>1. LegacyInv /\ LegacyInv' /\ [Next]_vars =>
           [Less \/ OneLess \/ ((WorldMoves \/ Cancel) /\ Still)]_vars
    <2> SUFFICES ASSUME LegacyInv, LegacyInv', Next
                 PROVE  \/ Less \/ OneLess \/ ((WorldMoves \/ Cancel) /\ Still)
                        \/ UNCHANGED vars
      OBVIOUS
    <2>0. /\ work \in [Keys -> {"idle", "begin", "wait", "done"}] /\ PIDs \subseteq Keys
          /\ ident \in [PIDs -> {"unasked", "ok", "gone", "denied", "none"}]
      BY DEF LegacyInv, TypeOK, Keys
    <2>1. CASE Lists
      BY <2>1, ListsAdvance
    <2>2. CASE EnumerationFails \/ PlanKill \/ FinishRows
      <3>1. UNCHANGED <<work, ident>> /\ <<phase, phase'>> \in
               {<<"listing", "acting">>, <<"listing", "done">>, <<"verifying", "done">>}
        BY <2>2 DEF EnumerationFails, PlanKill, FinishRows, Conclude
      <3> QED BY <3>1, CommandGoesOn
    <2>3. CASE ActionsDone
      <3>1. /\ UNCHANGED <<work, ident>> /\ phase = "acting"
            /\ phase' = "done" \/ (phase' = "verifying" /\ attempt' = 1)
        BY <2>3 DEF ActionsDone, Conclude
      <3> QED BY <3>1, CommandGoesOn, VerifyAdvances
    <2>4. CASE VerifyAgain
      <3>1. /\ UNCHANGED <<work, ident>> /\ phase = "verifying" /\ phase' = "verifying"
            /\ attempt' = attempt + 1 /\ attempt < VerifyAttempts
        BY <2>4 DEF VerifyAgain
      <3> QED BY <3>1, VerifyAdvances
    <2>5. ASSUME NEW p \in PIDs, CaptureIdentity(p) PROVE OneLess
      <3>1. /\ UNCHANGED <<phase, stage, attempt, work>> /\ ident[p] = "unasked" /\ ident'[p] # "unasked"
            /\ \A q \in PIDs \ {p} : ident'[q] = ident[q]
        BY <2>0, <2>5 DEF CaptureIdentity, Unbound
      <3>2. ActionLeft(p)' < ActionLeft(p)
        BY <2>0, <3>1 DEF ActionLeft
      <3> QED BY <2>0, <3>1, <3>2, ActionGoesOn
    <2>6. ASSUME NEW k \in Keys, Dispatch(k) \/ ActOn(k) PROVE OneLess
      <3>1. /\ UNCHANGED <<phase, stage, attempt, ident>>
            /\ \A l \in Keys \ {k} : work'[l] = work[l]
            /\ <<work[k], work'[k]>> \in {<<"idle", "begin">>, <<"begin", "done">>,
                                         <<"begin", "wait">>, <<"wait", "done">>}
        <4>1. CASE Dispatch(k)
          BY <2>0, <4>1 DEF Dispatch, Waiting, goto
        <4>2. CASE KillNative(k)
          BY <2>0, <4>2 DEF KillNative, Ends, goto
        <4>3. CASE StopBegins(k)
          BY <2>0, <4>3 DEF StopBegins, Ends, goto
        <4>4. CASE StopEnds(k)
          BY <2>0, <4>4 DEF StopEnds, Ends, goto
        <4> QED BY <2>6, <4>1, <4>2, <4>3, <4>4 DEF ActOn
      <3>2. ActionLeft(k)' < ActionLeft(k)
        BY <3>1 DEF ActionLeft
      <3> QED BY <3>1, <3>2, ActionGoesOn
    <2>7. CASE WorldMoves \/ Cancel
      <3>1. UNCHANGED <<phase, stage, attempt, work, ident>>
        BY <2>7 DEF WorldMoves, run, Cancel
      <3>2. Still
        BY <3>1 DEF CommandLeft, ToolsLeft, ActionsLeft, ActionLeft
      <3> QED BY <2>7, <3>2
    <2>8. CASE Done
      BY <2>8 DEF Done
    <2> QED BY <2>1, <2>2, <2>3, <2>4, <2>5, <2>6, <2>7, <2>8 DEF Next, Program, Command
  <1> QED BY <1>1, LegacyAlways, PTL DEF Spec, Advances
=============================================================================
