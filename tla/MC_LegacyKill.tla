--------------------------- MODULE MC_LegacyKill ---------------------------
(***************************************************************************)
(* Small instances of LegacyKill: see the README for what each one is for.  *)
(* PID 4 is the System process of Windows, and an ordinary one elsewhere.   *)
(***************************************************************************)
EXTENDS LegacyKill

CONSTANT k1

None == {}
OnePID == {2}
WithSystem == {2, 4}
OneContainer == {k1}
OnePort == {80}
TwoPorts == {80, 81}
PublishesEighty == [c \in Containers |-> {80}]

Unix == [windows |-> FALSE, docker |-> TRUE, lsof |-> TRUE, ss |-> TRUE, identity |-> TRUE]
Windows == [Unix EXCEPT !.windows = TRUE, !.lsof = FALSE, !.ss = FALSE]
OnlyLsof == [Unix EXCEPT !.ss = FALSE, !.docker = FALSE]
OnlySs == [Unix EXCEPT !.lsof = FALSE]
NoIdentity == [OnlyLsof EXCEPT !.identity = FALSE]

EveryHost == {Unix, Windows, OnlyLsof, OnlySs, NoIdentity}
LsofHost == {OnlyLsof}
=============================================================================
