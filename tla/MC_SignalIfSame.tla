--------------------------- MODULE MC_SignalIfSame ---------------------------
(***************************************************************************)
(* Small instances of SignalIfSame.  One PID is reused up to three times.   *)
(* OutOfRange is the PID that a 32-bit cut would turn into PID 1.           *)
(***************************************************************************)
EXTENDS SignalIfSame

CONSTANTS c1, c2

MCMaxPID == 2
OutOfRange == 1 + 2 * (MCMaxPID + 1)
MCOnePID == {1}
MCAnyRequest == {0, 1, OutOfRange}
MCInRange == {1}
MCEveryHost == {"linux", "noOpen", "noSend", "fdLimit", "darwin", "windows"}
MCBrokenSend == {"linux", "noSend"}
=============================================================================
