---------------------------- MODULE MC_Documents ----------------------------
(***************************************************************************)
(* A small instance of Documents: one requested port, one PID that may be   *)
(* reused and one container, in every snapshot the collectors can produce.  *)
(***************************************************************************)
EXTENDS Documents

CONSTANT k1

OnePID == {2}
OneContainer == {k1}
OnePort == {80}
SameName == [c \in Containers |-> "web"]
=============================================================================
