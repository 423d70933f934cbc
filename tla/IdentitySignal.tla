--------------------------- MODULE IdentitySignal ---------------------------
(***************************************************************************)
(* What the System interface (system.go:37-48) promises of                  *)
(* ProcessIdentity followed by SignalIfSame: one atomic step either sends   *)
(* the signal to exactly the incarnation whose token was captured, or sends *)
(* nothing.  Callers of SignalIfSame (killNative, signalProcess) are        *)
(* written against this contract.                                           *)
(*                                                                          *)
(* Where the platform cannot bind a signal to a process, or refuses to for  *)
(* this one, the promise is the weaker one of system.go:65: the signal may  *)
(* reach a process that took the PID over in a short window.                *)
(***************************************************************************)
EXTENDS Machine

CONSTANTS
    Calls,        \* callers, each captures a token once and signals once
    Requested     \* PIDs a caller may ask for, some out of range

VARIABLES
    req,          \* req[c]: the PID c asks for
    want,         \* want[c]: the start time c captured, 0 before that
    hit,          \* hit[c]: the incarnation c's signal reached, 0 for none
    result,       \* result[c]: what SignalIfSame returned, "none" before that
    binds         \* the platform can bind a signal to a process

caller == <<req, want, hit, result, binds>>
contract == <<machine, caller>>

Refusals == {"notFound", "changed"}
Failures == {"permission", "error", "invalid"}

ContractInit ==
    /\ MachineInit
    /\ req \in [Calls -> Requested]
    /\ want = [c \in Calls |-> 0]
    /\ hit = [c \in Calls |-> 0]
    /\ result = [c \in Calls |-> "none"]
    /\ binds \in BOOLEAN

ContractEnv(p) == (Spawn(p) \/ Exit(p) \/ Reap(p)) /\ UNCHANGED caller

TakeToken(c) ==
    /\ result[c] = "none"
    /\ want[c] = 0
    /\ Exists(req[c], bound[req[c]])
    /\ want' = [want EXCEPT ![c] = bound[req[c]]]
    /\ UNCHANGED <<machine, req, hit, result, binds>>

\* The signal reaches the wanted incarnation.
Deliver(c) ==
    /\ result[c] = "none"
    /\ Exists(req[c], want[c])
    /\ hit' = [hit EXCEPT ![c] = want[c]]
    /\ result' = [result EXCEPT ![c] = "ok"]
    /\ UNCHANGED <<machine, req, want, binds>>

\* Not bound, or bound to a process of another user: compare, then kill(2).
DeliverByPID(c) ==
    /\ result[c] = "none"
    /\ want[c] # 0
    /\ ~binds \/ want[c] \in foreign
    /\ req[c] \in PIDs /\ bound[req[c]] \notin foreign \cup {0}
    /\ hit' = [hit EXCEPT ![c] = bound[req[c]]]
    /\ result' = [result EXCEPT ![c] = "ok"]
    /\ UNCHANGED <<machine, req, want, binds>>

\* "gone" and "somebody else" are only said of a process that is gone.
Refuse(c) ==
    /\ result[c] = "none"
    /\ want[c] # 0 => ~Alive(req[c], want[c])
    /\ \E r \in Refusals : result' = [result EXCEPT ![c] = r]
    /\ UNCHANGED <<machine, req, want, hit, binds>>

Fail(c) ==
    /\ result[c] = "none"
    /\ \E r \in Failures : result' = [result EXCEPT ![c] = r]
    /\ UNCHANGED <<machine, req, want, hit, binds>>

ContractStep(c) ==
    TakeToken(c) \/ Deliver(c) \/ DeliverByPID(c) \/ Refuse(c) \/ Fail(c)

ContractNext ==
    \/ \E p \in PIDs : ContractEnv(p)
    \/ \E c \in Calls : ContractStep(c)

Contract == ContractInit /\ [][ContractNext]_contract
=============================================================================
