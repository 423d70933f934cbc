----------------------------- MODULE AtomicPlan -----------------------------
(***************************************************************************)
(* What plan -o FILE and apply FILE promise about the file between them     *)
(* (workflow.go:351-355, plan.go:408-410): a plan that is written replaces  *)
(* what was there in one step, a plan that fails to be written replaces     *)
(* nothing, and apply either refuses or gets one whole plan that the file   *)
(* held while it was being read.                                            *)
(*                                                                          *)
(* Only Meddle, which counts as a move of somebody else, does anything else *)
(* to the file: a user, an editor, a planted link, a power failure.         *)
(***************************************************************************)
EXTENDS Integers

CONSTANTS
    Planners,     \* the plan commands; each writes the plan named after it
    Appliers,     \* the apply commands
    Old           \* the plan that is there at the start

VARIABLES
    held,         \* the plan the file holds, or what else is there
    outcome,      \* outcome[w]: what planner w reports of the file
    reading,      \* appliers that have the file open
    offered,      \* offered[r]: plans applier r may end up with
    got,          \* got[r]: the plan r accepted, "refused", or "none"
    moves         \* what others did so far

promise == <<held, outcome, reading, offered, got, moves>>

Plans == Planners \cup {Old}

PromiseInit ==
    /\ held \in {Old, "none", "link", "dir"}
    /\ outcome = [w \in Planners |-> "none"]
    /\ reading = {}
    /\ offered = [r \in Appliers |-> {}]
    /\ got = [r \in Appliers |-> "none"]
    /\ moves = 0

\* Every applier that has the file open may now end up with plan w.
Replace(w) ==
    /\ outcome[w] = "none"
    /\ held # "dir"
    /\ held' = w
    /\ outcome' = [outcome EXCEPT ![w] = "ok"]
    /\ offered' = [r \in Appliers |->
                     IF r \in reading THEN offered[r] \cup {w} ELSE offered[r]]
    /\ UNCHANGED <<reading, got, moves>>

GiveUp(w) ==
    /\ outcome[w] = "none"
    /\ outcome' = [outcome EXCEPT ![w] = "failed"]
    /\ UNCHANGED <<held, reading, offered, got, moves>>

StartReading(r) ==
    /\ r \notin reading /\ got[r] = "none"
    /\ reading' = reading \cup {r}
    /\ offered' = [offered EXCEPT ![r] = {held} \cap Plans]
    /\ UNCHANGED <<held, outcome, got, moves>>

Stops(r) ==
    /\ reading' = reading \ {r}
    /\ offered' = [offered EXCEPT ![r] = {}]

Accept(r) ==
    /\ r \in reading
    /\ \E p \in offered[r] : got' = [got EXCEPT ![r] = p]
    /\ Stops(r)
    /\ UNCHANGED <<held, outcome, moves>>

Refuse(r) ==
    /\ got[r] = "none"
    /\ got' = [got EXCEPT ![r] = "refused"]
    /\ Stops(r)
    /\ UNCHANGED <<held, outcome, moves>>

ReaderDies(r) ==
    /\ Stops(r)
    /\ UNCHANGED <<held, outcome, got, moves>>

Meddle ==
    /\ moves' = moves + 1
    /\ reading' \subseteq reading
    /\ \A r \in reading' : offered[r] \subseteq offered'[r]
    /\ UNCHANGED <<outcome, got>>

PromiseNext ==
    \/ \E w \in Planners : Replace(w) \/ GiveUp(w)
    \/ \E r \in Appliers : StartReading(r) \/ Accept(r) \/ Refuse(r) \/ ReaderDies(r)
    \/ Meddle

Promise == PromiseInit /\ [][PromiseNext]_promise
=============================================================================
