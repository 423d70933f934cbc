---------------------------- MODULE Observation ----------------------------
(***************************************************************************)
(* One snapshot of the machine (observe.go) and what endpoint() makes of it *)
(* for a port.  Pure operators: a snapshot is a record whose sources were   *)
(* read one after another, so nothing here assumes they agree.              *)
(*                                                                          *)
(* Names are kept only as far as decisions depend on them: "infra" is a     *)
(* name isDockerInfra accepts, "plain" any other, "" an unknown one.        *)
(***************************************************************************)
EXTENDS Integers, FiniteSets

CONSTANTS
    PIDs,         \* PIDs of native processes, all greater than 0
    Containers,   \* full container IDs
    Ports,        \* the requested ports
    MaxStart      \* start times are 1..MaxStart

ASSUME ObservationAssumption ==
    /\ PIDs \subseteq Nat \ {0}
    /\ MaxStart \in Nat

Hidden == 0       \* the PID of an owner that is not visible
Names == {"plain", "infra", ""}
Idents == {"ok", "gone", "denied", "none"}

Snapshot ==
    [ windows          : BOOLEAN,                \* goos
      tableOK          : BOOLEAN,                \* the socket table was read
      tableHas         : SUBSET Ports,           \* ports occupied in it
      rows             : SUBSET (Ports \X (PIDs \cup {Hidden})), \* owners
      name             : [PIDs -> Names],        \* name in the owner rows
      ownerErr         : BOOLEAN,                \* no owner source answered
      namesUnavailable : BOOLEAN,                \* tasklist failed (Windows)
      dockerAvail      : BOOLEAN,                \* docker is on PATH
      dockerErr        : BOOLEAN,                \* docker could not be asked
      publishes        : [Containers -> SUBSET Ports],
      dockerIDs        : SUBSET Containers,      \* every container listed
      ident            : [PIDs -> Idents],       \* identity lookup per owner
      start            : [PIDs -> 0..MaxStart] ] \* start time it returned

\* The snapshot collect() starts from.
Blank(windows) ==
    [ windows |-> windows, tableOK |-> FALSE, tableHas |-> {}, rows |-> {},
      name |-> [p \in PIDs |-> ""], ownerErr |-> FALSE,
      namesUnavailable |-> FALSE, dockerAvail |-> FALSE, dockerErr |-> FALSE,
      publishes |-> [c \in Containers |-> {}], dockerIDs |-> {},
      ident |-> [p \in PIDs |-> "none"], start |-> [p \in PIDs |-> 0] ]

\* The snapshots the collectors can leave behind.
WellFormed(s) ==
    /\ ~s.tableOK => s.tableHas = {}
    /\ s.ownerErr => s.rows = {}
    /\ s.dockerErr => s.dockerAvail
    /\ ~s.dockerAvail \/ s.dockerErr => s.dockerIDs = {}
    /\ \A c \in Containers : s.publishes[c] # {} => c \in s.dockerIDs
    /\ s.namesUnavailable => s.windows /\ \A p \in PIDs : s.name[p] = ""
    /\ s.windows => /\ s.tableOK <=> ~s.ownerErr     \* one netstat is both
                    /\ s.tableHas = {r[1] : r \in s.rows}
    /\ \A p \in PIDs : s.ident[p] = "ok" <=> s.start[p] # 0

-----------------------------------------------------------------------------
(* snapshot.endpoint(port) *)

TableOccupied(s, port) == s.tableOK /\ port \in s.tableHas

Publishers(s, port) == {c \in Containers : port \in s.publishes[c]}

HiddenRow(s, port) == <<port, Hidden>> \in s.rows

\* Owners that exited since the owner source ran are dropped.
Owners(s, port) == {p \in PIDs : <<port, p>> \in s.rows /\ s.ident[p] # "gone"}

Explained(s, port) == Publishers(s, port) # {}

\* Mutant of HiddenOwner: only rows without a PID count.
HiddenOwner_RowsOnly(s, port) == ~Explained(s, port) /\ HiddenRow(s, port)

\* Some occupying socket has no visible owner at all.
HiddenOwner(s, port) ==
    /\ ~Explained(s, port)
    /\ HiddenRow(s, port) \/ (TableOccupied(s, port) /\ Owners(s, port) = {})

Infra(s, p) == s.name[p] = "infra"

DeniedActionable(s, port) ==
    \E p \in Owners(s, port) :
        s.ident[p] = "denied" /\ ~(Explained(s, port) /\ Infra(s, p))

Unattributed(s, port) == HiddenOwner(s, port) \/ DeniedActionable(s, port)

Occupied(s, port) ==
    \/ TableOccupied(s, port)
    \/ Owners(s, port) # {}
    \/ Publishers(s, port) # {}
    \/ HiddenRow(s, port)

Visibilities == {"complete", "permission_limited", "none_visible",
                 "provider_unavailable"}

\* Mutant of Visibility: an unread table is not missed.
Visibility_NoTable(s, port) ==
    IF s.ownerErr \/ s.dockerErr THEN "provider_unavailable"
    ELSE IF Unattributed(s, port) THEN "permission_limited"
    ELSE "complete"

\* Mutant of Visibility: a Docker that does not answer is not missed.
Visibility_NoDocker(s, port) ==
    IF s.ownerErr THEN "provider_unavailable"
    ELSE IF Unattributed(s, port) THEN "permission_limited"
    ELSE IF ~s.tableOK THEN "none_visible"
    ELSE "complete"

\* The first reason that applies wins.
Visibility(s, port) ==
    IF s.ownerErr \/ s.dockerErr \/ (s.namesUnavailable /\ Owners(s, port) # {})
    THEN "provider_unavailable"
    ELSE IF Unattributed(s, port) THEN "permission_limited"
    ELSE IF ~s.tableOK /\ Owners(s, port) = {} /\ Publishers(s, port) = {}
    THEN "none_visible"
    ELSE "complete"
=============================================================================
