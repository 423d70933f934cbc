------------------------------ MODULE PlanFile ------------------------------
(***************************************************************************)
(* The plan file between plan -o FILE and apply FILE: writePlanFile and     *)
(* readPlan (workflow.go:351-389, 432-456) and the checks decodePlan makes  *)
(* of a plan's integrity (plan.go:408-431), a step for every system call.   *)
(*                                                                          *)
(* Any number of plan commands write the same FILE while apply commands     *)
(* read it.  Every command may die at any step.  Meanwhile somebody else    *)
(* may remove FILE, put a link or a directory there, write into it, or pull *)
(* the plug.  A plan is two blocks long: enough for a short write, for a    *)
(* read that falls between two writes, and for a mixture of two plans,      *)
(* which the plan_id (a checksum of the whole document) gives away.         *)
(* File permissions are left out.                                           *)
(***************************************************************************)
EXTENDS Integers

CONSTANTS
    Planners,     \* the plan commands; each writes the plan named after it,
                  \* into a temporary file (an inode) named after it as well
    Appliers,     \* the apply commands
    Old,          \* the plan file there may be at the start
    Linked,       \* the file a planted link points to; it holds no plan
    MaxMoves,     \* bound: what others do to the file
    MaxFaults     \* bound: how many system calls fail for no visible reason

ASSUME PlanFileAssumption ==
    /\ Planners \cap Appliers = {}
    /\ Old \notin Planners /\ Linked \notin Planners /\ Old # Linked
    /\ {"none", "link", "dir", "junk", "refused"} \cap (Planners \cup {Old, Linked}) = {}
    /\ MaxMoves \in Nat /\ MaxFaults \in Nat

Plans == Planners \cup {Old}
Inodes == Planners \cup {Old, Linked}
Blocks == Plans \cup {"none", "junk"}

VARIABLES
    windows,      \* the commands run on Windows
    path,         \* what FILE is: an inode, a link to Linked, a directory, nothing
    head, tail,   \* head[i], tail[i]: the two blocks of inode i
    temps,        \* planners whose temporary name is in the directory
    pc,           \* pc[p]: the next system call of command p
    fd,           \* fd[r]: the inode applier r has open
    first,        \* first[r]: the block it has read
    got,          \* got[r]: the plan it accepted, "refused", or "none"
    offered,      \* offered[r]: plans that r, which has FILE open, can have seen
                  \* there (used by properties only)
    moves, faults

file == <<path, head, tail, temps>>
reader == <<fd, first, got>>
fileVars == <<windows, file, pc, reader, offered, moves, faults>>

WriterSteps == {"lstat", "create", "write", "writeRest", "close", "rename", "remove"}
ReaderSteps == {"open", "read", "readRest"}
Ended == {"ok", "failed", "done", "dead"}

\* FileTypeOK: the variables keep their types; a command that is reading has
\* an inode open, and no block but a plan's own is ever taken for that plan
\* (workflow.go:432-456, plan.go:427-430).
FileTypeOK ==
    /\ windows \in BOOLEAN
    /\ path \in Inodes \cup {"none", "link", "dir"}
    /\ head \in [Inodes -> Blocks] /\ tail \in [Inodes -> Blocks]
    /\ temps \subseteq Planners
    /\ pc \in [Planners \cup Appliers -> WriterSteps \cup ReaderSteps \cup Ended]
    /\ \A w \in Planners : pc[w] \in WriterSteps \cup {"ok", "failed", "dead"}
    /\ \A r \in Appliers : pc[r] \in ReaderSteps \cup {"done", "dead"}
    /\ fd \in [Appliers -> Inodes \cup {"none"}]
    /\ \A r \in Appliers : pc[r] \in {"read", "readRest"} => fd[r] # "none"
    /\ first \in [Appliers -> Blocks]
    /\ got \in [Appliers -> Plans \cup {"none", "refused"}]
    /\ offered \in [Appliers -> SUBSET Plans]
    /\ moves \in 0..MaxMoves /\ faults \in 0..MaxFaults

FileInit ==
    /\ windows \in BOOLEAN
    /\ path \in {Old, "none", "link", "dir"}
    /\ head = [i \in Inodes |-> IF i = Old THEN Old ELSE "junk"]
    /\ tail = [i \in Inodes |-> IF i = Old THEN Old ELSE "junk"]
    /\ temps = {}
    /\ pc = [p \in Planners \cup Appliers |-> IF p \in Planners THEN "lstat" ELSE "open"]
    /\ fd = [r \in Appliers |-> "none"]
    /\ first = [r \in Appliers |-> "none"]
    /\ got = [r \in Appliers |-> "none"]
    /\ offered = [r \in Appliers |-> {}]
    /\ moves = 0 /\ faults = 0
-----------------------------------------------------------------------------
goto(p, l) == pc' = [pc EXCEPT ![p] = l]

Fault == faults < MaxFaults /\ faults' = faults + 1

\* Inode i holds one plan and all of it.
Whole(i) == head[i] \in Plans /\ tail[i] = head[i]

\* What FILE holds.
Held ==
    IF path \notin Inodes THEN path
    ELSE IF Whole(path) THEN head[path] ELSE "torn"

Reading == {r \in Appliers : pc[r] \in {"read", "readRest"}}

\* FILE now holds the plans ps: those who read it may have seen them.
Offer(ps) ==
    offered' = [r \in Appliers |-> IF r \in Reading THEN offered[r] \cup ps ELSE offered[r]]

Keep == UNCHANGED <<windows, reader, offered, moves>>
-----------------------------------------------------------------------------
(* writePlanFile *)

Lstat(w) ==
    /\ pc[w] = "lstat"
    /\ goto(w, IF path \in {"link", "dir"} THEN "failed" ELSE "create")
    /\ Keep /\ UNCHANGED <<file, faults>>

\* os.CreateTemp: a name nobody else uses, created exclusively.  Chmod of the
\* new file may fail; on Windows that does not matter.
CreateTemp(w) ==
    /\ pc[w] = "create"
    /\ \/ /\ temps' = temps \cup {w}
          /\ head' = [head EXCEPT ![w] = "none"]
          /\ tail' = [tail EXCEPT ![w] = "none"]
          /\ \/ goto(w, "write") /\ UNCHANGED faults
             \/ ~windows /\ Fault /\ goto(w, "remove")
          /\ UNCHANGED path
       \/ Fault /\ goto(w, "failed") /\ UNCHANGED file
    /\ Keep

\* Mutant of Write: a short write is taken for a whole one.
Write_Short(w) ==
    /\ pc[w] = "write"
    /\ head' = [head EXCEPT ![w] = w]
    /\ goto(w, "writeRest") \/ goto(w, "close")
    /\ Keep /\ UNCHANGED <<path, tail, temps, faults>>

Write(w) ==
    /\ pc[w] = "write"
    /\ head' = [head EXCEPT ![w] = w]
    /\ goto(w, "writeRest")
    /\ Keep /\ UNCHANGED <<path, tail, temps, faults>>

WriteRest(w) ==
    /\ pc[w] = "writeRest"
    /\ tail' = [tail EXCEPT ![w] = w]
    /\ goto(w, "close")
    /\ Keep /\ UNCHANGED <<path, head, temps, faults>>

Close(w) ==
    /\ pc[w] = "close"
    /\ goto(w, "rename")
    /\ Keep /\ UNCHANGED <<file, faults>>

\* Mutant of WriteFails: the error of Close is returned as it is.
WriteFails_Leaves(w) ==
    /\ pc[w] \in {"write", "writeRest", "close"}
    /\ Fault
    /\ goto(w, IF pc[w] = "close" THEN "failed" ELSE "remove")
    /\ Keep /\ UNCHANGED file

\* Write or Close returns an error.
WriteFails(w) ==
    /\ pc[w] \in {"write", "writeRest", "close"}
    /\ Fault
    /\ goto(w, "remove")
    /\ Keep /\ UNCHANGED file

\* A directory cannot be replaced, nor on Windows a file somebody has open.
Replaceable == path # "dir" /\ ~(windows /\ \E r \in Appliers : fd[r] = path)

\* A link is replaced, not followed.  The new FILE is complete.
Rename(w) ==
    /\ pc[w] = "rename"
    /\ Replaceable
    /\ path' = w
    /\ temps' = temps \ {w}
    /\ Offer({w})
    /\ goto(w, "ok")
    /\ UNCHANGED <<windows, head, tail, reader, moves, faults>>

RenameFails(w) ==
    /\ pc[w] = "rename"
    /\ Fault \/ (~Replaceable /\ UNCHANGED faults)
    /\ goto(w, "remove")
    /\ Keep /\ UNCHANGED file

Remove(w) ==
    /\ pc[w] = "remove"
    /\ temps' = temps \ {w}
    /\ goto(w, "failed")
    /\ Keep /\ UNCHANGED <<path, head, tail, faults>>

WriterStep(w) ==
    \/ Lstat(w) \/ CreateTemp(w) \/ Write(w) \/ WriteRest(w)
    \/ Close(w) \/ WriteFails(w) \/ Rename(w) \/ RenameFails(w) \/ Remove(w)
-----------------------------------------------------------------------------
(* readPlan and decodePlan *)

\* The appliers rs read no more.
Closed(rs) ==
    /\ fd' = [r \in Appliers |-> IF r \in rs THEN "none" ELSE fd[r]]
    /\ first' = [r \in Appliers |-> IF r \in rs THEN "none" ELSE first[r]]
    /\ offered' = [r \in Appliers |-> IF r \in rs THEN {} ELSE offered[r]]

Refuses(r) ==
    /\ goto(r, "done")
    /\ got' = [got EXCEPT ![r] = "refused"]
    /\ Closed({r})

\* os.Open follows a link.  A directory opens but cannot be read.
OpenPlan(r) ==
    /\ pc[r] = "open"
    /\ IF path \in {"none", "dir"}
       THEN Refuses(r)
       ELSE /\ fd' = [fd EXCEPT ![r] = IF path = "link" THEN Linked ELSE path]
            /\ offered' = [offered EXCEPT ![r] = {Held} \cap Plans]
            /\ goto(r, "read")
            /\ UNCHANGED <<first, got>>
    /\ UNCHANGED <<windows, file, moves, faults>>

Read(r) ==
    /\ pc[r] = "read"
    /\ first' = [first EXCEPT ![r] = head[fd[r]]]
    /\ goto(r, "readRest")
    /\ UNCHANGED <<windows, file, fd, got, offered, moves, faults>>

\* The plan in two blocks: a document cut short does not parse, and one that is
\* put together from others does not have their plan_id.
Decode(b, rest) == IF b \in Plans /\ rest = b THEN b ELSE "refused"

ReadRest(r) ==
    /\ pc[r] = "readRest"
    /\ got' = [got EXCEPT ![r] = Decode(first[r], tail[fd[r]])]
    /\ Closed({r})
    /\ goto(r, "done")
    /\ UNCHANGED <<windows, file, moves, faults>>

ReadFails(r) ==
    /\ pc[r] \in ReaderSteps
    /\ Fault
    /\ Refuses(r)
    /\ UNCHANGED <<windows, file, moves>>

ReaderStep(r) == OpenPlan(r) \/ Read(r) \/ ReadRest(r) \/ ReadFails(r)
-----------------------------------------------------------------------------
(* Everybody else *)

\* The command is killed: its files are closed and nothing is cleaned up.
Dies(p) ==
    /\ pc[p] \notin Ended
    /\ goto(p, "dead")
    /\ Closed({p} \cap Appliers)
    /\ UNCHANGED <<windows, file, got, moves, faults>>

Move == moves < MaxMoves /\ moves' = moves + 1

\* FILE is removed, or replaced by a link or by a directory.
Swapped ==
    /\ Move
    /\ \E x \in {"none", "link", "dir"} : path' = x
    /\ UNCHANGED <<windows, head, tail, temps, pc, reader, offered, faults>>

\* Somebody writes a block of FILE in place: rubbish, or of an earlier plan.
Scribbled ==
    /\ Move
    /\ path \in Inodes
    /\ \E b \in {"junk", Old} :
          /\ \/ head' = [head EXCEPT ![path] = b] /\ UNCHANGED tail
             \/ tail' = [tail EXCEPT ![path] = b] /\ UNCHANGED head
          /\ Offer({b} \cap Plans)
    /\ UNCHANGED <<windows, path, temps, pc, reader, faults>>

\* Every command in the middle of something ends, and of what was never synced
\* to the disk the end may be lost, published or not.
PowerFails ==
    /\ Move
    /\ \E lost \in SUBSET {w \in Planners : pc[w] \notin {"lstat", "create"}} :
          tail' = [i \in Inodes |-> IF i \in lost THEN "none" ELSE tail[i]]
    /\ pc' = [p \in Planners \cup Appliers |->
                IF pc[p] \in Ended \cup {"lstat", "open"} THEN pc[p] ELSE "dead"]
    /\ Closed(Appliers)
    /\ UNCHANGED <<windows, path, head, temps, got, faults>>

Others == Swapped \/ Scribbled \/ PowerFails

FileNext ==
    \/ \E w \in Planners : WriterStep(w)
    \/ \E r \in Appliers : ReaderStep(r)
    \/ \E p \in Planners \cup Appliers : Dies(p)
    \/ Others

FileSpec == FileInit /\ [][FileNext]_fileVars
-----------------------------------------------------------------------------
(* Properties *)

Promised == INSTANCE AtomicPlan WITH
    Planners <- Planners, Appliers <- Appliers, Old <- Old,
    held <- Held,
    outcome <- [w \in Planners |-> IF pc[w] \in {"ok", "failed"} THEN pc[w] ELSE "none"],
    reading <- Reading, offered <- offered, got <- got, moves <- moves

\* AtomicReplace: the seven system calls of writePlanFile replace FILE in one
\* step or leave it alone, wherever they fail or die, and apply only ever
\* accepts a whole plan that FILE held while it was read (workflow.go:351-355,
\* plan.go:406-431).
AtomicReplace == Promised!Promise

\* NothingElseWritten: FILE is all that plan writes.  A link planted there, before
\* or after the check for one, never makes it write to the file that the link
\* leads to, and its temporary file stays behind only if the command died
\* (workflow.go:351-389).
NothingElseWritten ==
    /\ head[Linked] = "junk" /\ tail[Linked] = "junk"
    /\ \A w \in temps : pc[w] \notin {"ok", "failed", "lstat", "create"}
=============================================================================
