---------------------------- MODULE SignalIfSame ----------------------------
(***************************************************************************)
(* platformProcessIdentity and platformSignalIfSame of procid_linux.go,     *)
(* procid_darwin.go and procid_windows.go, one system call per step, run by *)
(* concurrent callers against a process table that changes between any two  *)
(* steps.                                                                   *)
(*                                                                          *)
(* Each caller first captures a token (the plan or the legacy scan), holds  *)
(* it for any length of time, and then signals.  The host is fixed for the  *)
(* life of the program:                                                     *)
(*   "linux"    pidfd_open and pidfd_send_signal work                       *)
(*   "noOpen"   Linux where pidfd_open is missing or filtered               *)
(*   "noSend"   Linux where only pidfd_send_signal is missing or filtered   *)
(*   "fdLimit"  Linux where pidfd_open sometimes fails (EMFILE)             *)
(*   "darwin"   macOS, "windows" Windows                                    *)
(***************************************************************************)
EXTENDS Machine

CONSTANTS
    Calls,        \* goroutines that call ProcessIdentity then SignalIfSame
    Requested,    \* the PIDs they may ask for, some out of range
    MaxPID,       \* maxPID: the largest PID the platforms can hand out
    Hosts         \* the hosts the program may find itself on

ASSUME SignalAssumption ==
    /\ Requested \subseteq Int
    /\ MaxPID \in Nat
    /\ PIDs \subseteq 1..MaxPID
    /\ Hosts \subseteq {"linux", "noOpen", "noSend", "fdLimit", "darwin", "windows"}

VARIABLES
    req, want, hit, result,  \* as in IdentitySignal
    host,         \* the host this program runs on
    pc,           \* pc[c]: the next step of caller c
    strength,     \* strength[c]: procIdentity.Strength of the token
    ref,          \* ref[c]: incarnation c's pidfd or handle points at, or 0
    via,          \* via[c]: how the signal was sent
    during        \* during[c]: incarnations of the PID that existed at some
                  \* instant since c called SignalIfSame (used by properties only)

vars == <<machine, req, want, hit, result, host, pc, strength, ref, via, during>>

Results == {"none", "ok", "notFound", "changed", "permission", "error",
            "invalid"}

\* TypeOK: the variables keep their types; a pidfd or handle that is in use
\* points at some process (procid_linux.go:118-127).
TypeOK ==
    /\ MachineTypeOK
    /\ req \in [Calls -> Requested]
    /\ want \in [Calls -> 0..MaxStart]
    /\ hit \in [Calls -> 0..MaxStart]
    /\ result \in [Calls -> Results]
    /\ host \in Hosts
    /\ pc \in [Calls -> {"capture", "held", "open", "read", "send", "compare",
                         "kill", "done"}]
    /\ strength \in [Calls -> {"none", "pidfd", "handle", "start_time"}]
    /\ ref \in [Calls -> 0..MaxStart]
    /\ via \in [Calls -> {"none", "pidfd", "handle", "kill"}]
    /\ during \in [Calls -> SUBSET Starts]

Init ==
    /\ MachineInit
    /\ req \in [Calls -> Requested]
    /\ want = [c \in Calls |-> 0]
    /\ hit = [c \in Calls |-> 0]
    /\ result = [c \in Calls |-> "none"]
    /\ host \in Hosts
    /\ pc = [c \in Calls |-> "capture"]
    /\ strength = [c \in Calls |-> "none"]
    /\ ref = [c \in Calls |-> 0]
    /\ via = [c \in Calls |-> "none"]
    /\ during = [c \in Calls |-> {}]
-----------------------------------------------------------------------------
\* The build: the files procid_linux.go, procid_darwin.go, procid_windows.go.
Platform == IF host \in {"darwin", "windows"} THEN host ELSE "linux"

\* Mutant of ValidPID: only the sign is looked at.
ValidPID_NoUpperBound(pid) == pid > 0

ValidPID(pid) == pid > 0 /\ pid <= MaxPID

\* A Windows PID argument is cut to 32 bits, that is modulo 2 * (maxPID + 1).
Narrow(pid) == pid % (2 * (MaxPID + 1))

\* The process a platform call on pid reaches: Unix looks it up as it is.
Target(pid) == IF Platform = "windows" THEN Narrow(pid) ELSE pid

Occupant(pid) == IF Target(pid) \in PIDs THEN bound[Target(pid)] ELSE 0

\* platformProcessIdentity probes pidfd_open only, once, and on itself.  Under
\* "fdLimit" the probe worked; had it failed, the token would claim less.
TokenStrength ==
    CASE Platform = "linux" -> IF host = "noOpen" THEN "start_time" ELSE "pidfd"
      [] Platform = "darwin" -> "start_time"
      [] Platform = "windows" -> "handle"

\* OpenProcess asks for the right to terminate, so Windows denies it here.
Denied(pid) == Platform = "windows" /\ Occupant(pid) \in foreign

\* The start time of pid can be read: a zombie's can, on Unix only.
Readable(pid) ==
    /\ Occupant(pid) # 0
    /\ Platform = "windows" => running[Target(pid)] /\ ~Denied(pid)

goto(c, l) == pc' = [pc EXCEPT ![c] = l]

\* Return r from the call; the deferred Close drops the pidfd or handle.
Return(c, r) ==
    /\ goto(c, "done")
    /\ result' = [result EXCEPT ![c] = r]
    /\ ref' = [ref EXCEPT ![c] = 0]

Quiet == UNCHANGED <<machine, req, host, want, strength, during, hit, via>>

Finish(c, r) == Return(c, r) /\ Quiet

Jump(c, l) == goto(c, l) /\ Quiet /\ UNCHANGED <<result, ref>>

Send(c, s, how) ==
    /\ hit' = [hit EXCEPT ![c] = s]
    /\ via' = [via EXCEPT ![c] = how]
    /\ Return(c, "ok")
    /\ UNCHANGED <<machine, req, host, want, strength, during>>
-----------------------------------------------------------------------------
(* ProcessIdentity *)

CaptureRejects(c) ==
    /\ pc[c] = "capture"
    /\ \/ ~ValidPID(req[c]) /\ Finish(c, "invalid")
       \/ ValidPID(req[c]) /\ Denied(req[c]) /\ Finish(c, "permission")
       \/ /\ ValidPID(req[c]) /\ ~Denied(req[c]) /\ ~Readable(req[c])
          /\ Finish(c, "notFound")
       \/ ValidPID(req[c]) /\ Readable(req[c]) /\ Finish(c, "error")

Capture(c) ==
    /\ pc[c] = "capture"
    /\ ValidPID(req[c])
    /\ Readable(req[c])
    /\ want' = [want EXCEPT ![c] = Occupant(req[c])]
    /\ strength' = [strength EXCEPT ![c] = TokenStrength]
    /\ goto(c, "held")
    /\ UNCHANGED <<machine, req, host, hit, result, ref, via, during>>

\* SignalIfSame is called, now or much later.
Begin(c) ==
    /\ pc[c] = "held"
    /\ during' = [during EXCEPT ![c] =
                     IF Occupant(req[c]) = 0 THEN {} ELSE {Occupant(req[c])}]
    /\ IF ValidPID(req[c])
       THEN /\ goto(c, IF Platform = "darwin" THEN "compare" ELSE "open")
            /\ UNCHANGED <<result, ref>>
       ELSE Return(c, "invalid")
    /\ UNCHANGED <<machine, req, host, want, strength, hit, via>>
-----------------------------------------------------------------------------
(* The bound paths: a pidfd (Linux) or a process handle (Windows). *)

\* pidfd_open, or OpenProcess with the rights to query and to terminate.
Open(c) ==
    /\ pc[c] = "open"
    /\ Occupant(req[c]) # 0
    /\ Platform = "linux" => host # "noOpen"
    /\ ~Denied(req[c])
    /\ ref' = [ref EXCEPT ![c] = Occupant(req[c])]
    /\ goto(c, "read")
    /\ Quiet /\ UNCHANGED result

\* Mutant of OpenFails: the error is dropped and the pidfd -1 is used.
OpenFails_Unchecked(c) ==
    /\ pc[c] = "open"
    /\ host \in {"noOpen", "fdLimit"}
    /\ ref' = [ref EXCEPT ![c] = -1]
    /\ goto(c, "read")
    /\ Quiet /\ UNCHANGED result

\* Mutant of OpenFails: without a pidfd the PID is signalled straight away.
OpenFails_Kills(c) ==
    /\ pc[c] = "open"
    /\ host \in {"noOpen", "fdLimit"}
    /\ Jump(c, "kill")

OpenFails(c) ==
    /\ pc[c] = "open"
    /\ \/ /\ Platform = "linux" /\ host \in {"noOpen", "fdLimit"}
          /\ Jump(c, "compare")
       \/ /\ Occupant(req[c]) = 0
          /\ Platform = "linux" => host # "noOpen"
          /\ Finish(c, "notFound")
       \/ Denied(req[c]) /\ Finish(c, "permission")
       \/ Platform = "windows" /\ Finish(c, "error")

\* Linux reads the start time by PID again, Windows reads it from the handle.
ReadThroughRef(c) ==
    IF Platform = "linux" THEN Occupant(req[c])
    ELSE IF Alive(Target(req[c]), ref[c]) THEN ref[c] ELSE 0

\* Mutant of Read: any live process will do.
Read_Uncompared(c) ==
    /\ pc[c] = "read"
    /\ IF ReadThroughRef(c) = 0 THEN Finish(c, "notFound") ELSE Jump(c, "send")

Read(c) ==
    /\ pc[c] = "read"
    /\ LET cur == ReadThroughRef(c)
       IN \/ cur = 0 /\ Finish(c, "notFound")
          \/ cur # 0 /\ cur # want[c] /\ Finish(c, "changed")
          \/ cur # 0 /\ cur = want[c] /\ Jump(c, "send")
          \/ Finish(c, "error")

\* Mutant of SendThroughPidfd: every error of the call reads as ESRCH.
SendThroughPidfd_AllGone(c) ==
    /\ pc[c] = "send" /\ Platform = "linux"
    /\ IF Exists(Target(req[c]), ref[c]) /\ ref[c] \notin foreign
       THEN Send(c, ref[c], "pidfd")
       ELSE Finish(c, "notFound")

\* Mutant of SendThroughPidfd: EPERM is retried.
SendThroughPidfd_Retries(c) ==
    /\ pc[c] = "send" /\ Platform = "linux"
    /\ IF ref[c] \in foreign THEN Jump(c, "send")
       ELSE IF Exists(Target(req[c]), ref[c]) THEN Send(c, ref[c], "pidfd")
       ELSE Finish(c, "notFound")

\* pidfd_send_signal; EPERM and ENOSYS fall back to compare and kill.
SendThroughPidfd(c) ==
    /\ pc[c] = "send" /\ Platform = "linux"
    /\ IF host = "noSend" THEN Jump(c, "compare")
       ELSE IF ~Exists(Target(req[c]), ref[c]) THEN Finish(c, "notFound")
       ELSE IF ref[c] \in foreign THEN Jump(c, "compare")
       ELSE Send(c, ref[c], "pidfd")

\* TerminateProcess; on ACCESS_DENIED the handle tells whether it is gone.
SendThroughHandle(c) ==
    /\ pc[c] = "send" /\ Platform = "windows"
    /\ \/ /\ Alive(Target(req[c]), ref[c])
          /\ \/ Send(c, ref[c], "handle")
             \/ Finish(c, "permission")
             \/ Finish(c, "error")
       \/ /\ ~Alive(Target(req[c]), ref[c])
          /\ Finish(c, "notFound") \/ Finish(c, "permission")
-----------------------------------------------------------------------------
(* compareThenKill, and all of platformSignalIfSame on macOS. *)

Compare(c) ==
    /\ pc[c] = "compare"
    /\ LET cur == Occupant(req[c])
       IN \/ cur = 0 /\ Finish(c, "notFound")
          \/ cur # 0 /\ cur # want[c] /\ Finish(c, "changed")
          \/ cur # 0 /\ cur = want[c] /\ Jump(c, "kill")
          \/ Finish(c, "error")

\* kill(2) goes to whatever process has the PID now.
Kill(c) ==
    /\ pc[c] = "kill"
    /\ LET cur == Occupant(req[c])
       IN \/ cur = 0 /\ Finish(c, "notFound")
          \/ cur # 0 /\ cur \in foreign /\ Finish(c, "permission")
          \/ cur # 0 /\ cur \notin foreign /\ Send(c, cur, "kill")
-----------------------------------------------------------------------------
(* The rest of the machine. *)

others == <<req, want, hit, result, host, pc, strength, ref, via>>

InCall(c) == pc[c] \in {"open", "read", "send", "compare", "kill"}

ProcessStarts(p) ==
    /\ Spawn(p)
    /\ during' = [c \in Calls |->
                    IF InCall(c) /\ Target(req[c]) = p
                    THEN during[c] \cup {clock'} ELSE during[c]]
    /\ UNCHANGED others

ProcessExits(p) == Exit(p) /\ UNCHANGED <<others, during>>

\* An open handle keeps the PID of a dead process on Windows, a pidfd does not.
Pinned(p) == Platform = "windows" /\ \E c \in Calls : Target(req[c]) = p /\ ref[c] = bound[p]

ProcessReaped(p) == ~Pinned(p) /\ Reap(p) /\ UNCHANGED <<others, during>>

Env(p) == ProcessStarts(p) \/ ProcessExits(p) \/ ProcessReaped(p)

Step(c) ==
    \/ CaptureRejects(c) \/ Capture(c) \/ Begin(c)
    \/ Open(c) \/ OpenFails(c) \/ Read(c)
    \/ SendThroughPidfd(c) \/ SendThroughHandle(c)
    \/ Compare(c) \/ Kill(c)

Terminated == \A c \in Calls : pc[c] = "done"

Next ==
    \/ \E c \in Calls : Step(c)
    \/ \E p \in PIDs : Env(p)
    \/ Terminated /\ UNCHANGED vars

Spec == Init /\ [][Next]_vars

\* A goroutine inside a system call gets on with it; nothing is assumed of
\* the environment.
FairSpec == Spec /\ \A c \in Calls : WF_vars(Step(c))
-----------------------------------------------------------------------------
(* Properties *)

\* AtomicPathExact: a signal sent through a pidfd or a process handle reaches
\* the incarnation whose token was captured and no other, however the PID is
\* reused around the call (procid_linux.go:107-112, procid_windows.go:18-20).
AtomicPathExact ==
    \A c \in Calls : via[c] \in {"pidfd", "handle"} => hit[c] = want[c]

\* StaleTokenSilent: a signal is only ever sent when the captured incarnation
\* still existed at some instant of the SignalIfSame call.  A plan whose
\* process was gone before the call never signals anybody, even on the weak
\* path, because the compare is never skipped (procid_linux.go:92-95).
StaleTokenSilent ==
    \A c \in Calls : hit[c] # 0 => want[c] \in during[c]

\* RefusalIsFinal: "not found" and "identity changed" are only said of an
\* incarnation that is not running and will never run again, so a caller may
\* treat the resource as gone (system.go:42-46, apply.go:274-299).
RefusalIsFinal ==
    \A c \in Calls :
        result[c] \in {"notFound", "changed"} /\ want[c] # 0
            => ~Alive(Target(req[c]), want[c])

\* InRangeOnly: a PID that does not fit the platform's PID type reaches no
\* process, in particular not the one it would be truncated to
\* (procid.go:11-14, 44-46).
InRangeOnly ==
    \A c \in Calls : want[c] # 0 \/ hit[c] # 0 => req[c] \in 1..MaxPID

\* StrengthHonest: a signal sent with a token whose strength is "pidfd" or
\* "handle" never reaches another process (system.go:63-65: "pidfd" and
\* "handle" are atomic).
StrengthHonest ==
    \A c \in Calls :
        strength[c] \in {"pidfd", "handle"} /\ hit[c] # 0 => hit[c] = want[c]

\* Returns: every call returns, whatever the machine does meanwhile.
Returns == \A c \in Calls : <>(pc[c] = "done")

\* A pidfd or a handle is there, and signals go through it.
Binds == host \in {"linux", "windows"}

\* The contract of the System interface, over the same process table.
Iface == INSTANCE IdentitySignal WITH
    PIDs <- PIDs, MaxStart <- MaxStart, OtherUsers <- OtherUsers,
    Calls <- Calls, Requested <- Requested,
    bound <- bound, running <- running, clock <- clock, foreign <- foreign,
    req <- req, want <- want, hit <- hit, result <- result, binds <- Binds

\* MeetsContract: the calls of ProcessIdentity and SignalIfSame, six system
\* calls apart, implement the one-step contract of the System interface: a
\* bound signal is exact, an unbound one reaches whoever has the PID, and
\* nothing is refused that is still alive (system.go:37-48, 63-66).
MeetsContract == Iface!Contract
=============================================================================
