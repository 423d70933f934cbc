------------------------------ MODULE Machine ------------------------------
(***************************************************************************)
(* The process table killport looks at and sends signals into.  It belongs  *)
(* to the operating system: nothing here is code of the repository, only    *)
(* what that code relies on.                                                *)
(*                                                                          *)
(* A process is one incarnation of a PID and is named by its start time.    *)
(* Start times are taken from a clock that never repeats, so two            *)
(* incarnations of one PID always differ: this is the assumption behind     *)
(* every StartTime comparison in procid_*.go.  A process dies in two steps. *)
(* After Exit it is a zombie on Unix, or a terminated process object that   *)
(* somebody still has a handle to on Windows: its PID cannot be given to    *)
(* anyone else.  After Reap the PID is free.                                *)
(***************************************************************************)
EXTENDS Integers

CONSTANTS
    PIDs,         \* the PIDs the operating system hands out
    MaxStart,     \* bound: how many processes are ever started
    OtherUsers    \* TRUE: some processes belong to a user we may not signal

ASSUME MachineAssumption ==
    /\ PIDs \subseteq Int
    /\ MaxStart \in Nat
    /\ OtherUsers \in BOOLEAN

VARIABLES
    bound,        \* bound[p]: the incarnation p refers to, 0 when p is free
    running,      \* running[p]: FALSE once that incarnation has exited
    clock,        \* start time of the youngest process
    foreign       \* incarnations that belong to another user

machine == <<bound, running, clock, foreign>>

Starts == 1..MaxStart

MachineTypeOK ==
    /\ bound \in [PIDs -> 0..MaxStart]
    /\ running \in [PIDs -> BOOLEAN]
    /\ clock \in 0..MaxStart
    /\ foreign \in SUBSET Starts

MachineInit ==
    /\ bound = [p \in PIDs |-> 0]
    /\ running = [p \in PIDs |-> FALSE]
    /\ clock = 0
    /\ foreign = {}

Spawn(p) ==
    /\ bound[p] = 0
    /\ clock < MaxStart
    /\ clock' = clock + 1
    /\ bound' = [bound EXCEPT ![p] = clock + 1]
    /\ running' = [running EXCEPT ![p] = TRUE]
    /\ \/ foreign' = foreign
       \/ OtherUsers /\ foreign' = foreign \cup {clock + 1}

Exit(p) ==
    /\ running[p]
    /\ running' = [running EXCEPT ![p] = FALSE]
    /\ UNCHANGED <<bound, clock, foreign>>

Reap(p) ==
    /\ bound[p] # 0
    /\ ~running[p]
    /\ bound' = [bound EXCEPT ![p] = 0]
    /\ UNCHANGED <<running, clock, foreign>>

\* The incarnation s of PID p still exists (it may be a zombie).
Exists(p, s) == p \in PIDs /\ bound[p] = s /\ s # 0

\* The incarnation s of PID p exists and has not exited.
Alive(p, s) == Exists(p, s) /\ running[p]
=============================================================================
