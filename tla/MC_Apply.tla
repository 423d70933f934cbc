------------------------------ MODULE MC_Apply ------------------------------
(***************************************************************************)
(* Small instances of Apply: see the README for what each one is for.       *)
(***************************************************************************)
EXTENDS Apply

CONSTANTS k1, k2

None == {}
OnePID == {2}
TwoPIDs == {2, 3}
TwoContainers == {k1, k2}
OneContainer == {k1}
OnePort == {80}

\* Every container publishes port 80, and all have the same name.
PublishesEighty == [c \in Containers |-> {80}]
SameName == [c \in Containers |-> "web"]

Linux == [windows |-> FALSE, docker |-> FALSE, lsof |-> TRUE, ss |-> TRUE, identity |-> TRUE]
Windows == [Linux EXCEPT !.windows = TRUE, !.lsof = FALSE, !.ss = FALSE]

OneHost == {Linux}
BothHosts == {Linux, Windows}
DockerHosts == {[h EXCEPT !.docker = TRUE] : h \in BothHosts}
=============================================================================
