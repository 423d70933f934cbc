------------------------------ MODULE Collect ------------------------------
(***************************************************************************)
(* collect(): the sources are asked one after another and the machine moves *)
(* in between (observe.go:140-157).  Each operator below says what snapshot *)
(* one source may leave behind, given the world at the instant it is read.  *)
(*                                                                          *)
(* On Unix the stages are table, owners, docker, idents.  On Windows the    *)
(* first stage (netstat) yields the table and the owners, and the second    *)
(* (tasklist) only adds the names.                                          *)
(***************************************************************************)
EXTENDS World

NextStage(stage) ==
    CASE stage = "table" -> "owners"
      [] stage = "owners" -> "docker"
      [] stage = "docker" -> "idents"
      [] stage = "idents" -> "collected"

\* Owner rows: a process of this user by its PID, any other socket not at
\* all (lsof) or as an owner that is not visible (ss, netstat).
VisibleRows ==
    {r \in Ports \X (PIDs \ Invisible) : r[1] \in HeldBy(r[2])}

HiddenRows ==
    {<<port, Hidden>> : port \in Published \cup UNION {HeldBy(p) : p \in Invisible}}

RowsNow == {VisibleRows \cup H : H \in {{}, HiddenRows}}

\* netstat -ano leaves out no socket, whoever holds it.
NetstatRows == {R \in RowsNow : NativelyHeld \subseteq {r[1] : r \in R}}

\* A published port is in the table only if Docker runs a proxy for it.
TablesNow == {NativelyHeld \cup T : T \in {{}, Published}}

\* collectTable, or the netstat half of collectWindows.
ReadTable(s) ==
    IF OnWindows
    THEN {[s EXCEPT !.tableOK = TRUE, !.tableHas = {r[1] : r \in R}, !.rows = R]
             : R \in NetstatRows}
    ELSE {[s EXCEPT !.tableOK = TRUE, !.tableHas = T] : T \in TablesNow}

TableFails(s) ==
    IF OnWindows THEN [s EXCEPT !.ownerErr = TRUE] ELSE s

NamesNow == [p \in PIDs |-> IF bound[p] = 0 THEN "" ELSE kind[p]]

Rowed(s) == {p \in PIDs : \E port \in Ports : <<port, p>> \in s.rows}

\* collectOwnersUnix, or the tasklist half of collectWindows.
ReadOwners(s) ==
    IF OnWindows
    THEN {[s EXCEPT !.name = [p \in PIDs |-> IF p \in Rowed(s) THEN NamesNow[p] ELSE ""]]}
    ELSE {[s EXCEPT !.rows = R,
                    !.name = [p \in PIDs |-> IF R \cap (Ports \X {p}) # {}
                                             THEN NamesNow[p] ELSE ""]]
             : R \in RowsNow}

OwnersFail(s) ==
    IF OnWindows
    THEN [s EXCEPT !.namesUnavailable = ~s.ownerErr /\ Rowed(s) # {}]
    ELSE [s EXCEPT !.ownerErr = TRUE]

\* collectDocker: docker ps lists the running containers.
ReadDocker(s) ==
    IF DockerInstalled
    THEN {[s EXCEPT !.dockerAvail = TRUE,
                    !.dockerIDs = up,
                    !.publishes = [c \in Containers |-> IF c \in up THEN Publishes[c] ELSE {}]]}
    ELSE {s}

DockerFails(s) ==
    IF DockerInstalled THEN [s EXCEPT !.dockerAvail = TRUE, !.dockerErr = TRUE] ELSE s

\* collectIdentities: only PIDs that own a row are looked up.
ReadIdents(s) ==
    {[s EXCEPT
        !.ident = [p \in PIDs |-> IF p \notin Rowed(s) THEN "none"
                                  ELSE IF bound[p] = 0 THEN "gone" ELSE "ok"],
        !.start = [p \in PIDs |-> IF p \in Rowed(s) THEN bound[p] ELSE 0]]}

Unidentified(s, p, r) == [s EXCEPT !.ident[p] = r, !.start[p] = 0]

\* One lookup fails: not permitted, or for any other reason.
IdentsFail(s) ==
    {Unidentified(t, p, r) : t \in ReadIdents(s), p \in Rowed(s), r \in {"denied", "none"}}

\* What asking the source of a stage can leave behind when it answers.
ReadStage(stage, s) ==
    CASE stage = "table" -> ReadTable(s)
      [] stage = "owners" -> ReadOwners(s)
      [] stage = "docker" -> ReadDocker(s)
      [] stage = "idents" -> ReadIdents(s)

\* lsof exits 1 with a message and no output: no rows, and no error either
\* (listeners.go:142-143, observe.go:315-318).
DegradedStage(stage, s) == IF stage = "owners" /\ ~OnWindows THEN {s} ELSE {}

\* What it leaves behind when it fails.
FailStage(stage, s) ==
    CASE stage = "table" -> {TableFails(s)}
      [] stage = "owners" -> {OwnersFail(s)}
      [] stage = "docker" -> {DockerFails(s)}
      [] stage = "idents" -> IdentsFail(s)
=============================================================================
