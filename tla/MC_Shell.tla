------------------------------ MODULE MC_Shell ------------------------------
(***************************************************************************)
(* A small instance of Shell: any two of two plan commands and an apply     *)
(* command on the same FILE, or a command that leaves FILE alone.           *)
(***************************************************************************)
EXTENDS Shell, TLC

CONSTANTS w1, w2, r1, o1, o2, o3, o4

TwoPlanners == {w1, w2}
OneApplier == {r1}
OneOfEach == o1 :> "kill" @@ o2 :> "dry-run" @@ o3 :> "check" @@ o4 :> "inspect"

\* Two commands on FILE, or any command alone.
PairsAndSingles == {c \in SUBSET {w1, w2, r1} : Cardinality(c) \in {1, 2}}
                       \cup {{o} : o \in DOMAIN OneOfEach}

\* Bound: how much goes wrong in one behaviour, of whatever kind; an interrupted
\* command counts once.
Troubles ==
    moves + faults + mishaps
        + Cardinality({p \in Commands : over[p] = "killed" \/ sigs[p] > 0})

\* Two such things when a command is alone, one when there are two commands.
FewTroubles == Troubles + Cardinality({p \in Commands : over[p] # "absent"}) <= 3

EitherPlanner == Permutations(TwoPlanners)
=============================================================================
