------------------------- MODULE SignalIfSame_proofs -------------------------
(***************************************************************************)
(* Proofs about SignalIfSame for every set of callers, every set of PIDs,   *)
(* every host, and any number of process starts.                            *)
(***************************************************************************)
EXTENDS SignalIfSame, TLAPS

(***************************************************************************)
(* The inductive invariant.  The properties are not inductive alone: that   *)
(* the pidfd points at the wanted incarnation follows from the order of     *)
(* open and read only because start times grow.  The incarnation found at   *)
(* open is not older than the token, and the one found by the later read is *)
(* not older than the one opened; if the read returns the token, all three  *)
(* are the same.                                                            *)
(***************************************************************************)
Ordered(c) ==
    /\ want[c] <= clock
    /\ ref[c] <= clock
    /\ Occupant(req[c]) # 0 =>
          want[c] <= Occupant(req[c]) /\ ref[c] <= Occupant(req[c])

Pending(c) == pc[c] # "done" => hit[c] = 0 /\ via[c] = "none" /\ result[c] = "none"

Token(c) ==
    /\ pc[c] = "capture" => want[c] = 0
    /\ pc[c] \notin {"capture", "done"} => want[c] # 0
    /\ want[c] # 0 \/ hit[c] # 0 => req[c] \in 1..MaxPID

Holding(c) ==
    /\ pc[c] \in {"read", "send"} => want[c] <= ref[c]
    /\ pc[c] = "send" => ref[c] = want[c]

Compared(c) == pc[c] \in {"send", "kill"} => want[c] \in during[c]

Seen(c) == InCall(c) /\ Occupant(req[c]) # 0 => Occupant(req[c]) \in during[c]

Outcome(c) ==
    /\ via[c] \in {"pidfd", "handle"} => hit[c] = want[c]
    /\ hit[c] # 0 => want[c] \in during[c]
    /\ result[c] \in {"notFound", "changed"} /\ want[c] # 0
           => ~Alive(Target(req[c]), want[c])

CallInv(c) ==
    /\ Ordered(c) /\ Pending(c) /\ Token(c) /\ Holding(c)
    /\ Compared(c) /\ Seen(c) /\ Outcome(c)

IInv ==
    /\ TypeOK
    /\ \A p \in PIDs : bound[p] <= clock
    /\ \A c \in Calls : CallInv(c)

-----------------------------------------------------------------------------
(* The start time found under any PID is one of the process table's. *)
LEMMA OccupantType ==
    ASSUME TypeOK, NEW pid
    PROVE  /\ Occupant(pid) \in 0..MaxStart
           /\ Occupant(pid) # 0 => Occupant(pid) \in Starts
           /\ (\A p \in PIDs : bound[p] <= clock) => Occupant(pid) <= clock
  <1> DEFINE t == Target(pid)
  <1>0. Occupant(pid) = IF t \in PIDs THEN bound[t] ELSE 0
    BY DEF Occupant
  <1> HIDE DEF t
  <1>1. CASE t \in PIDs
    BY <1>0, <1>1, MachineAssumption DEF TypeOK, MachineTypeOK, Starts
  <1>2. CASE t \notin PIDs
    BY <1>0, <1>2, MachineAssumption DEF TypeOK, MachineTypeOK
  <1> QED BY <1>1, <1>2

(* The initial state satisfies the inductive invariant. *)
LEMMA InitInv == Init => IInv
  <1> SUFFICES ASSUME Init PROVE IInv
    OBVIOUS
  <1>1. TypeOK
    BY MachineAssumption, SignalAssumption
       DEF Init, MachineInit, TypeOK, MachineTypeOK, Results, Starts
  <1>2. ASSUME NEW p \in PIDs PROVE bound[p] <= clock
    BY DEF Init, MachineInit
  <1>3. ASSUME NEW c \in Calls PROVE CallInv(c)
    BY MachineAssumption, SignalAssumption
       DEF Init, MachineInit, CallInv, Ordered, Pending, Token, Holding,
           Compared, Seen, Outcome, InCall, Occupant, Alive, Exists
  <1> QED BY <1>1, <1>2, <1>3 DEF IInv

-----------------------------------------------------------------------------
(* Every step of a caller either returns, jumps, sends, or is one of        *)
(* Capture, Begin and Open.  The first three have a lemma each, which says  *)
(* when such a step keeps the invariant.                                    *)

(* What a caller does leaves the invariant of the other callers alone. *)
LEMMA Frame ==
    ASSUME NEW d \in Calls, CallInv(d), UNCHANGED <<bound, running, clock, req, host>>,
           want'[d] = want[d], hit'[d] = hit[d], result'[d] = result[d],
           pc'[d] = pc[d], ref'[d] = ref[d], via'[d] = via[d],
           during'[d] = during[d]
    PROVE  CallInv(d)'
  BY DEF CallInv, Ordered, Pending, Token, Holding, Compared, Seen, Outcome,
         InCall, Occupant, Alive, Exists, Target, Narrow, Platform

(* Returning keeps the invariant if a refusal is only given when the wanted *)
(* incarnation is not alive. *)
LEMMA FinishInv ==
    ASSUME IInv, NEW c \in Calls, pc[c] # "done",
           NEW r \in Results \ {"none"}, Finish(c, r),
           r \in {"notFound", "changed"} /\ want[c] # 0
               => ~Alive(Target(req[c]), want[c])
    PROVE  IInv'
  <1> USE DEF IInv, Finish, Return, Quiet, goto
  <1>1. TypeOK'
    BY MachineAssumption DEF TypeOK, MachineTypeOK, machine
  <1>2. (\A p \in PIDs : bound[p] <= clock)'
    BY DEF machine
  <1>3. CallInv(c)'
    BY MachineAssumption, SignalAssumption
       DEF TypeOK, MachineTypeOK, machine, CallInv, Ordered, Pending, Token,
           Holding, Compared, Seen, Outcome, InCall, Occupant, Alive, Exists,
           Target, Narrow, Platform
  <1>4. ASSUME NEW d \in Calls, d # c PROVE CallInv(d)'
    BY <1>4, Frame DEF TypeOK, machine
  <1> QED BY <1>1, <1>2, <1>3, <1>4

(* Going on to another system call keeps the invariant if what that call   *)
(* relies on was established. *)
LEMMA JumpInv ==
    ASSUME IInv, NEW c \in Calls, NEW l \in {"send", "compare", "kill"},
           pc[c] \in {"open", "read", "send", "compare"}, Jump(c, l),
           l = "send" => ref[c] = want[c],
           l \in {"send", "kill"} => want[c] \in during[c]
    PROVE  IInv'
  <1> USE DEF IInv, Jump, Quiet, goto
  <1>1. TypeOK'
    BY DEF TypeOK, MachineTypeOK, machine
  <1>2. (\A p \in PIDs : bound[p] <= clock)'
    BY DEF machine
  <1>3. CallInv(c)'
    BY MachineAssumption, SignalAssumption
       DEF TypeOK, MachineTypeOK, machine, CallInv, Ordered, Pending, Token,
           Holding, Compared, Seen, Outcome, InCall, Occupant, Alive, Exists,
           Target, Narrow, Platform
  <1>4. ASSUME NEW d \in Calls, d # c PROVE CallInv(d)'
    BY <1>4, Frame DEF TypeOK, machine
  <1> QED BY <1>1, <1>2, <1>3, <1>4

(* Sending keeps the invariant if the token was seen during this call and a *)
(* bound path reaches exactly the wanted incarnation. *)
LEMMA SendInv ==
    ASSUME IInv, NEW c \in Calls, pc[c] \in {"send", "kill"},
           NEW s \in Starts, NEW how \in {"pidfd", "handle", "kill"},
           Send(c, s, how), how # "kill" => s = want[c],
           want[c] \in during[c]
    PROVE  IInv'
  <1> USE DEF IInv, Send, Return, goto
  <1>1. TypeOK'
    BY MachineAssumption DEF TypeOK, MachineTypeOK, machine, Results, Starts
  <1>2. (\A p \in PIDs : bound[p] <= clock)'
    BY DEF machine
  <1>3. CallInv(c)'
    BY MachineAssumption, SignalAssumption
       DEF TypeOK, MachineTypeOK, machine, CallInv, Ordered, Pending, Token,
           Holding, Compared, Seen, Outcome, InCall, Occupant, Alive, Exists,
           Target, Narrow, Platform
  <1>4. ASSUME NEW d \in Calls, d # c PROVE CallInv(d)'
    BY <1>4, Frame DEF TypeOK, machine
  <1> QED BY <1>1, <1>2, <1>3, <1>4
-----------------------------------------------------------------------------
(* What the invariant says of the incarnation a caller finds. *)
LEMMA OccupantFacts ==
    ASSUME IInv, NEW c \in Calls
    PROVE  /\ Occupant(req[c]) \in 0..MaxStart
           /\ Occupant(req[c]) # 0 => Occupant(req[c]) \in Starts
           /\ Occupant(req[c]) <= clock
           /\ \A s : Alive(Target(req[c]), s) => s = Occupant(req[c]) /\ s # 0
           /\ \A s : Exists(Target(req[c]), s) <=> s = Occupant(req[c]) /\ s # 0
  <1> DEFINE t == Target(req[c])
  <1>1. Occupant(req[c]) = IF t \in PIDs THEN bound[t] ELSE 0
    BY DEF Occupant
  <1>2. \A s : /\ Alive(t, s) => t \in PIDs /\ bound[t] = s /\ s # 0
               /\ Exists(t, s) <=> t \in PIDs /\ bound[t] = s /\ s # 0
    BY DEF Alive, Exists
  <1> HIDE DEF t
  <1>3. \A s : /\ Alive(t, s) => s = Occupant(req[c]) /\ s # 0
               /\ Exists(t, s) <=> s = Occupant(req[c]) /\ s # 0
    BY <1>1, <1>2
  <1> QED BY <1>3, OccupantType DEF IInv, t

\* Capturing a token keeps the invariant: it names a process that exists.
LEMMA CaptureInv == ASSUME IInv, NEW c \in Calls, Capture(c) PROVE IInv'
  <1>r. req[c] \in Int /\ MaxPID \in Int
    <2>1. req[c] \in Requested
      BY DEF IInv, TypeOK
    <2>2. \A r \in Requested : r \in Int
      BY SignalAssumption
    <2>3. MaxPID \in Int
      BY SignalAssumption
    <2> QED BY <2>1, <2>2, <2>3
  <1> USE DEF IInv, Capture, goto
  <1>0. /\ Occupant(req[c]) \in Starts
        /\ Occupant(req[c]) <= clock
        /\ req[c] \in 1..MaxPID
    <2>1. Occupant(req[c]) # 0
      BY DEF Readable
    <2> QED BY <1>r, <2>1, OccupantFacts DEF ValidPID
  <1>s. TokenStrength \in {"start_time", "pidfd", "handle"}
    BY DEF TokenStrength, Platform
  <1>1. TypeOK'
    BY <1>0, <1>s, MachineAssumption DEF TypeOK, MachineTypeOK, machine, Starts
  <1>2. (\A p \in PIDs : bound[p] <= clock)'
    BY DEF machine
  <1>3. CallInv(c)'
    BY <1>0, MachineAssumption, SignalAssumption
       DEF TypeOK, MachineTypeOK, machine, CallInv, Ordered, Pending, Token,
           Holding, Compared, Seen, Outcome, InCall, Occupant, Alive, Exists,
           Target, Narrow, Platform, Starts
  <1>4. ASSUME NEW d \in Calls, d # c PROVE CallInv(d)'
    BY <1>4, Frame DEF TypeOK, machine
  <1> QED BY <1>1, <1>2, <1>3, <1>4

\* Calling SignalIfSame keeps the invariant: the PID was checked when the
\* token was captured, and what it refers to now is recorded.
LEMMA BeginInv == ASSUME IInv, NEW c \in Calls, Begin(c) PROVE IInv'
  <1> USE DEF IInv, Begin, Return, goto
  <1>0. Occupant(req[c]) # 0 => Occupant(req[c]) \in Starts
    BY OccupantFacts
  <1>1. TypeOK'
    BY <1>0, MachineAssumption DEF TypeOK, MachineTypeOK, machine, Results
  <1>2. (\A p \in PIDs : bound[p] <= clock)'
    BY DEF machine
  <1>3. CallInv(c)'
    BY <1>0, MachineAssumption, SignalAssumption
       DEF TypeOK, MachineTypeOK, machine, CallInv, Ordered, Pending, Token,
           Holding, Compared, Seen, Outcome, InCall, Occupant, Alive, Exists,
           Target, Narrow, Platform
  <1>4. ASSUME NEW d \in Calls, d # c PROVE CallInv(d)'
    BY <1>4, Frame DEF TypeOK, machine
  <1> QED BY <1>1, <1>2, <1>3, <1>4

\* A pidfd or handle points at the process that has the PID now.
LEMMA OpenInv == ASSUME IInv, NEW c \in Calls, Open(c) PROVE IInv'
  <1> USE DEF IInv, Open, Quiet, goto
  <1>0. /\ Occupant(req[c]) \in Starts
        /\ Occupant(req[c]) <= clock
    BY OccupantFacts
  <1>1. TypeOK'
    BY <1>0, MachineAssumption DEF TypeOK, MachineTypeOK, machine, Starts
  <1>2. (\A p \in PIDs : bound[p] <= clock)'
    BY DEF machine
  <1>3. CallInv(c)'
    BY <1>0, MachineAssumption, SignalAssumption
       DEF TypeOK, MachineTypeOK, machine, CallInv, Ordered, Pending, Token,
           Holding, Compared, Seen, Outcome, InCall, Occupant, Alive, Exists,
           Target, Narrow, Platform, Starts
  <1>4. ASSUME NEW d \in Calls, d # c PROVE CallInv(d)'
    BY <1>4, Frame DEF TypeOK, machine
  <1> QED BY <1>1, <1>2, <1>3, <1>4
-----------------------------------------------------------------------------
(* The steps of a caller. *)

\* ProcessIdentity failing keeps the invariant: there is no token.
LEMMA CaptureRejectsInv == ASSUME IInv, NEW c \in Calls, CaptureRejects(c) PROVE IInv'
  <1>1. /\ pc[c] = "capture"
        /\ \E r \in Results \ {"none"} : Finish(c, r)
    BY DEF CaptureRejects, Results
  <1>2. PICK r \in Results \ {"none"} : Finish(c, r)
    BY <1>1
  <1>3. want[c] = 0
    BY <1>1 DEF IInv, CallInv, Token
  <1> QED BY <1>1, <1>2, <1>3, FinishInv

\* A failed open only refuses when the PID is free.
LEMMA OpenFailsInv == ASSUME IInv, NEW c \in Calls, OpenFails(c) PROVE IInv'
  <1>0. pc[c] = "open"
    BY DEF OpenFails
  <1>1. CASE Jump(c, "compare")
    BY <1>0, <1>1, JumpInv
  <1>2. CASE Occupant(req[c]) = 0 /\ Finish(c, "notFound")
    BY <1>0, <1>2, FinishInv, OccupantFacts DEF Results
  <1>3. CASE Finish(c, "permission") \/ Finish(c, "error")
    BY <1>0, <1>3, FinishInv DEF Results
  <1> QED BY <1>1, <1>2, <1>3 DEF OpenFails

\* Comparing start times keeps the invariant: a match was seen in this call.
LEMMA CompareInv == ASSUME IInv, NEW c \in Calls, Compare(c) PROVE IInv'
  <1> DEFINE cur == Occupant(req[c])
  <1>0. /\ pc[c] = "compare"
        /\ \/ cur # want[c] /\ \E r \in {"notFound", "changed"} : Finish(c, r)
           \/ want[c] = 0 /\ Finish(c, "notFound")
           \/ cur # 0 /\ cur = want[c] /\ Jump(c, "kill")
           \/ Finish(c, "error")
    BY DEF Compare
  <1>1. CASE cur # want[c] /\ \E r \in {"notFound", "changed"} : Finish(c, r)
    BY <1>0, <1>1, FinishInv, OccupantFacts DEF Results
  <1>2. CASE want[c] = 0 /\ Finish(c, "notFound")
    BY <1>0, <1>2, FinishInv DEF Results
  <1>3. CASE cur # 0 /\ cur = want[c] /\ Jump(c, "kill")
    <2>1. want[c] \in during[c]
      BY <1>0, <1>3 DEF IInv, CallInv, Seen, InCall
    <2> QED BY <1>0, <1>3, <2>1, JumpInv
  <1>4. CASE Finish(c, "error")
    BY <1>0, <1>4, FinishInv DEF Results
  <1> QED BY <1>0, <1>1, <1>2, <1>3, <1>4

\* kill(2) after a comparison keeps the invariant: the token was seen alive.
LEMMA KillInv == ASSUME IInv, NEW c \in Calls, Kill(c) PROVE IInv'
  <1> DEFINE cur == Occupant(req[c])
  <1>0. /\ pc[c] = "kill"
        /\ \/ cur = 0 /\ Finish(c, "notFound")
           \/ Finish(c, "permission")
           \/ cur # 0 /\ Send(c, cur, "kill")
    BY DEF Kill
  <1>1. CASE cur = 0 /\ Finish(c, "notFound")
    BY <1>0, <1>1, FinishInv, OccupantFacts DEF Results
  <1>2. CASE Finish(c, "permission")
    BY <1>0, <1>2, FinishInv DEF Results
  <1>3. CASE cur # 0 /\ Send(c, cur, "kill")
    <2>1. want[c] \in during[c]
      BY <1>0 DEF IInv, CallInv, Compared
    <2> QED BY <1>0, <1>3, <2>1, SendInv, OccupantFacts
  <1> QED BY <1>0, <1>1, <1>2, <1>3

(* The heart of the argument: the read that follows the open only succeeds *)
(* when the pidfd or handle points at the wanted incarnation. *)
LEMMA ReadInv == ASSUME IInv, NEW c \in Calls, Read(c) PROVE IInv'
  <1> DEFINE occ == Occupant(req[c])
             cur == ReadThroughRef(c)
  <1>0. pc[c] = "read"
    BY DEF Read
  <1>1. /\ want[c] \in Nat /\ ref[c] \in Nat /\ want[c] # 0
        /\ want[c] <= ref[c]
        /\ occ # 0 => want[c] <= occ /\ ref[c] <= occ
        /\ occ # 0 => occ \in during[c]
        /\ occ \in Nat
    BY <1>0, OccupantFacts, MachineAssumption
       DEF IInv, TypeOK, CallInv, Token, Holding, Ordered, Seen, InCall
  <1>2. \/ cur = occ
        \/ cur = ref[c] /\ occ = ref[c]
        \/ cur = 0 /\ ~Alive(Target(req[c]), ref[c])
    BY OccupantFacts DEF ReadThroughRef
  <1>3. CASE cur = 0 /\ Finish(c, "notFound")
    <2>1. ~Alive(Target(req[c]), want[c])
      <3>1. SUFFICES ASSUME Alive(Target(req[c]), want[c]) PROVE FALSE
        OBVIOUS
      <3>2. want[c] = occ
        BY <3>1, OccupantFacts
      <3>3. ref[c] = want[c]
        BY <3>2, <1>1
      <3> QED BY <3>1, <3>2, <3>3, <1>1, <1>2, <1>3
    <2> QED BY <1>0, <1>3, <2>1, FinishInv DEF Results
  <1>4. CASE cur # 0 /\ cur # want[c] /\ Finish(c, "changed")
    <2>1. ~Alive(Target(req[c]), want[c])
      BY <1>1, <1>2, <1>4, OccupantFacts
    <2> QED BY <1>0, <1>4, <2>1, FinishInv DEF Results
  <1>5. CASE cur # 0 /\ cur = want[c] /\ Jump(c, "send")
    <2>1. ref[c] = want[c] /\ want[c] \in during[c]
      BY <1>1, <1>2, <1>5
    <2> QED BY <1>0, <1>5, <2>1, JumpInv
  <1>6. CASE Finish(c, "error")
    BY <1>0, <1>6, FinishInv DEF Results
  <1> QED BY <1>3, <1>4, <1>5, <1>6 DEF Read

\* pidfd_send_signal reaches what the pidfd points at, or nobody.
LEMMA SendThroughPidfdInv ==
    ASSUME IInv, NEW c \in Calls, SendThroughPidfd(c) PROVE IInv'
  <1>0. /\ pc[c] = "send" /\ ref[c] = want[c] /\ want[c] # 0
        /\ want[c] \in during[c] /\ want[c] \in Starts
        /\ \/ Jump(c, "compare")
           \/ ~Exists(Target(req[c]), ref[c]) /\ Finish(c, "notFound")
           \/ Send(c, ref[c], "pidfd")
    BY MachineAssumption
       DEF SendThroughPidfd, IInv, TypeOK, CallInv, Holding, Token, Compared, Starts
  <1>1. CASE Jump(c, "compare")
    BY <1>0, <1>1, JumpInv
  <1>2. CASE ~Exists(Target(req[c]), ref[c]) /\ Finish(c, "notFound")
    BY <1>0, <1>2, FinishInv DEF Results, Alive
  <1>3. CASE Send(c, ref[c], "pidfd")
    BY <1>0, <1>3, SendInv
  <1> QED BY <1>0, <1>1, <1>2, <1>3

\* TerminateProcess reaches what the handle points at, or nobody.
LEMMA SendThroughHandleInv ==
    ASSUME IInv, NEW c \in Calls, SendThroughHandle(c) PROVE IInv'
  <1>0. /\ pc[c] = "send" /\ ref[c] = want[c] /\ want[c] # 0
        /\ want[c] \in during[c] /\ want[c] \in Starts
        /\ \/ ~Alive(Target(req[c]), ref[c]) /\ Finish(c, "notFound")
           \/ Finish(c, "permission") \/ Finish(c, "error")
           \/ Send(c, ref[c], "handle")
    BY MachineAssumption
       DEF SendThroughHandle, IInv, TypeOK, CallInv, Holding, Token, Compared, Starts
  <1>1. CASE Finish(c, "permission") \/ Finish(c, "error")
    BY <1>0, <1>1, FinishInv DEF Results
  <1>2. CASE ~Alive(Target(req[c]), ref[c]) /\ Finish(c, "notFound")
    BY <1>0, <1>2, FinishInv DEF Results
  <1>3. CASE Send(c, ref[c], "handle")
    BY <1>0, <1>3, SendInv
  <1> QED BY <1>0, <1>1, <1>2, <1>3

\* Every step of a caller keeps the invariant.
LEMMA StepInv == ASSUME IInv, NEW c \in Calls, Step(c) PROVE IInv'
  BY CaptureRejectsInv, CaptureInv, BeginInv, OpenInv, OpenFailsInv, ReadInv,
     SendThroughPidfdInv, SendThroughHandleInv, CompareInv, KillInv DEF Step
-----------------------------------------------------------------------------
(* The steps of the machine. *)

\* A new process keeps the invariant: its start time is fresh.
LEMMA StartsInv == ASSUME IInv, NEW p \in PIDs, ProcessStarts(p) PROVE IInv'
  <1> USE DEF IInv, ProcessStarts, Spawn, others
  <1>0. clock + 1 \in Starts /\ clock \in Nat
    BY MachineAssumption DEF TypeOK, MachineTypeOK, Starts
  <1>1. TypeOK'
    <2>1. foreign' \in SUBSET Starts
      BY <1>0 DEF TypeOK, MachineTypeOK
    <2>2. during' \in [Calls -> SUBSET Starts]
      BY <1>0 DEF TypeOK, MachineTypeOK
    <2> QED BY <1>0, <2>1, <2>2, MachineAssumption DEF TypeOK, MachineTypeOK, Starts
  <1>2. (\A q \in PIDs : bound[q] <= clock)'
    BY <1>0, MachineAssumption DEF TypeOK, MachineTypeOK
  <1>3. ASSUME NEW c \in Calls PROVE CallInv(c)'
    BY <1>0, MachineAssumption, SignalAssumption
       DEF TypeOK, MachineTypeOK, CallInv, Ordered, Pending, Token, Holding,
           Compared, Seen, Outcome, InCall, Occupant, Alive, Exists, Target, Narrow, Platform
  <1> QED BY <1>1, <1>2, <1>3

\* An exit keeps the invariant: nothing refused comes to life.
LEMMA ExitsInv == ASSUME IInv, NEW p \in PIDs, ProcessExits(p) PROVE IInv'
  <1> USE DEF IInv, ProcessExits, Exit, others
  <1>1. TypeOK'
    BY DEF TypeOK, MachineTypeOK
  <1>2. (\A q \in PIDs : bound[q] <= clock)'
    OBVIOUS
  <1>3. ASSUME NEW c \in Calls PROVE CallInv(c)'
    BY DEF TypeOK, MachineTypeOK, CallInv, Ordered, Pending, Token, Holding,
           Compared, Seen, Outcome, InCall, Occupant, Alive, Exists, Target, Narrow, Platform
  <1> QED BY <1>1, <1>2, <1>3

\* A reaped PID keeps the invariant: no handle pointed at it.
LEMMA ReapedInv == ASSUME IInv, NEW p \in PIDs, ProcessReaped(p) PROVE IInv'
  <1> USE DEF IInv, ProcessReaped, Reap, others
  <1>1. TypeOK'
    BY MachineAssumption DEF TypeOK, MachineTypeOK
  <1>2. (\A q \in PIDs : bound[q] <= clock)'
    BY MachineAssumption DEF TypeOK, MachineTypeOK
  <1>3. ASSUME NEW c \in Calls PROVE CallInv(c)'
    BY MachineAssumption
       DEF TypeOK, MachineTypeOK, CallInv, Ordered, Pending, Token, Holding,
           Compared, Seen, Outcome, InCall, Occupant, Alive, Exists, Target, Narrow, Platform
  <1> QED BY <1>1, <1>2, <1>3

\* The invariant is inductive.
LEMMA Inductive == IInv /\ [Next]_vars => IInv'
  <1> SUFFICES ASSUME IInv, [Next]_vars PROVE IInv'
    OBVIOUS
  <1>1. CASE \E c \in Calls : Step(c)
    BY <1>1, StepInv
  <1>2. CASE \E p \in PIDs : Env(p)
    BY <1>2, StartsInv, ExitsInv, ReapedInv DEF Env
  <1>3. CASE UNCHANGED vars
    BY <1>3 DEF vars, machine, IInv, TypeOK, MachineTypeOK, CallInv, Ordered,
       Pending, Token, Holding, Compared, Seen, Outcome, InCall, Occupant,
       Alive, Exists, Target, Narrow, Platform
  <1> QED BY <1>1, <1>2, <1>3 DEF Next
-----------------------------------------------------------------------------
(* The inductive invariant holds in every behaviour. *)
THEOREM Invariant == Spec => []IInv
  BY InitInv, Inductive, PTL DEF Spec

(* Type correctness of every variable, in every reachable state. *)
THEOREM TypeCorrect == Spec => []TypeOK
  BY Invariant, PTL DEF IInv

(* A signal sent through a pidfd or a process handle reaches exactly the     *)
(* incarnation whose token was captured (procid_linux.go:107-112).           *)
THEOREM AtomicPathIsExact == Spec => []AtomicPathExact
  <1>1. IInv => AtomicPathExact
    BY DEF IInv, CallInv, Outcome, AtomicPathExact
  <1> QED BY <1>1, Invariant, PTL

(* On every path, the weak one included, a signal is only sent if the wanted *)
(* incarnation existed at some instant of the call (procid_linux.go:92-95).  *)
THEOREM StaleTokenIsSilent == Spec => []StaleTokenSilent
  <1>1. IInv => StaleTokenSilent
    BY DEF IInv, CallInv, Outcome, StaleTokenSilent
  <1> QED BY <1>1, Invariant, PTL

(* "Not found" and "identity changed" are final: the wanted incarnation is   *)
(* not alive and never will be again (system.go:51-55).                      *)
THEOREM RefusalsAreFinal == Spec => []RefusalIsFinal
  <1>1. IInv => RefusalIsFinal
    BY DEF IInv, CallInv, Outcome, RefusalIsFinal
  <1> QED BY <1>1, Invariant, PTL

(* A PID out of the platform's range reaches no process (procid.go:44-51).   *)
THEOREM OutOfRangeIsHarmless == Spec => []InRangeOnly
  <1>1. IInv => InRangeOnly
    BY DEF IInv, CallInv, Token, InRangeOnly
  <1> QED BY <1>1, Invariant, PTL
-----------------------------------------------------------------------------
(***************************************************************************)
(* SignalIfSame implements IdentitySignal.  The variables map to            *)
(* themselves, binds to what the host can do.  The steps that return are    *)
(* the contract's steps; all the others of a caller are stuttering steps.   *)
(***************************************************************************)

\* A PID that was worth a token is reached as it is, on Windows too.
LEMMA TargetIsRequest ==
    ASSUME IInv, NEW c \in Calls, want[c] # 0
    PROVE  Target(req[c]) = req[c]
  <1>1. req[c] \in 1..MaxPID /\ MaxPID \in Nat
    BY SignalAssumption DEF IInv, CallInv, Token
  <1>2. req[c] % (2 * (MaxPID + 1)) = req[c]
    BY <1>1
  <1> QED BY <1>2 DEF Target, Narrow

\* The initial states are initial states of the contract.
LEMMA InitImplements == Init => Iface!ContractInit
  BY DEF Init, MachineInit, Binds, Iface!ContractInit, Iface!MachineInit

\* Returning an error is a failure of the contract.
LEMMA FailImplements ==
    ASSUME IInv, NEW c \in Calls, pc[c] # "done",
           NEW r \in {"permission", "error", "invalid"}, Finish(c, r)
    PROVE  Iface!Fail(c)
  BY DEF Finish, Return, Quiet, Binds, machine, IInv, CallInv, Pending,
         Iface!Fail, Iface!Failures, Iface!machine

\* Returning a refusal of a process that is gone is the contract's refusal.
LEMMA RefuseImplements ==
    ASSUME IInv, NEW c \in Calls, pc[c] # "done",
           NEW r \in {"notFound", "changed"}, Finish(c, r),
           want[c] # 0 => ~Alive(Target(req[c]), want[c])
    PROVE  Iface!Refuse(c)
  <1>1. want[c] # 0 => ~Iface!Alive(req[c], want[c])
    BY TargetIsRequest DEF Alive, Exists, Iface!Alive, Iface!Exists
  <1> QED
    BY <1>1 DEF Finish, Return, Quiet, Binds, machine, IInv, CallInv, Pending,
         Iface!Refuse, Iface!Refusals, Iface!machine

\* Going on to another system call is not visible.
LEMMA JumpImplements ==
    ASSUME NEW c \in Calls, NEW l, Jump(c, l)
    PROVE  UNCHANGED Iface!contract
  BY DEF Jump, Quiet, Binds, machine, Iface!contract, Iface!caller, Iface!machine

\* A signal to the process that was captured is the contract's delivery.
LEMMA SendImplements ==
    ASSUME IInv, NEW c \in Calls, pc[c] # "done", want[c] # 0, NEW how,
           Send(c, want[c], how), Exists(Target(req[c]), want[c])
    PROVE  Iface!Deliver(c)
  <1>1. Iface!Exists(req[c], want[c])
    BY TargetIsRequest DEF Exists, Iface!Exists
  <1> QED
    BY <1>1 DEF Send, Return, Binds, machine, IInv, CallInv, Pending,
         Iface!Deliver, Iface!machine

\* A signal by PID is exact, or one of the cases the contract leaves open.
LEMMA KillImplements ==
    ASSUME IInv, NEW c \in Calls, Kill(c),
           ~Binds \/ want[c] \in foreign
    PROVE  Iface!Deliver(c) \/ Iface!DeliverByPID(c) \/ Iface!Refuse(c) \/ Iface!Fail(c)
  <1> DEFINE cur == Occupant(req[c])
  <1>0. pc[c] = "kill" /\ want[c] # 0
    BY DEF Kill, IInv, CallInv, Token
  <1>1. CASE cur = 0 /\ Finish(c, "notFound")
    BY <1>0, <1>1, RefuseImplements, OccupantFacts
  <1>2. CASE Finish(c, "permission")
    BY <1>0, <1>2, FailImplements
  <1>3. CASE cur # 0 /\ cur \notin foreign /\ Send(c, cur, "kill")
    <2>1. req[c] \in PIDs /\ bound[req[c]] = cur
      BY <1>0, <1>3, TargetIsRequest DEF Occupant
    <2> QED
      BY <1>0, <1>3, <2>1
         DEF Send, Return, Binds, machine, IInv, CallInv, Pending,
             Iface!DeliverByPID, Iface!machine
  <1> QED BY <1>1, <1>2, <1>3 DEF Kill

\* A bound host compares and kills by PID only what it may not signal bound.
Route(c) == pc[c] \in {"compare", "kill"} => ~Binds \/ want[c] \in foreign

Routes == \A c \in Calls : Route(c)

LEMMA InitRoutes == Init => Routes
  BY DEF Init, Routes, Route

LEMMA StepRoutes == ASSUME IInv, Routes, NEW c \in Calls, Step(c) PROVE Routes'
  <1> SUFFICES ASSUME NEW d \in Calls PROVE Route(d)'
    BY DEF Routes
  <1>1. UNCHANGED <<host, foreign>>
    BY DEF Step, CaptureRejects, Capture, Begin, Open, OpenFails, Read,
           SendThroughPidfd, SendThroughHandle, Compare, Kill, Finish, Jump,
           Send, Quiet, machine
  <1>2. CASE d # c
    <2>1. pc'[d] = pc[d] /\ want'[d] = want[d]
      BY <1>2 DEF Step, CaptureRejects, Capture, Begin, Open, OpenFails, Read,
           SendThroughPidfd, SendThroughHandle, Compare, Kill, Finish, Jump,
           Send, Quiet, Return, goto, IInv, TypeOK
    <2> QED BY <1>1, <2>1 DEF Routes, Route, Binds
  <1>3. CASE d = c
    <2> USE <1>1, <1>3 DEF Routes, Route, Binds, Finish, Jump, Send, Quiet,
                           Return, goto, IInv, TypeOK
    <2>1. CASE CaptureRejects(c)
      BY <2>1 DEF CaptureRejects
    <2>2. CASE Capture(c) \/ Open(c)
      BY <2>2 DEF Capture, Open
    <2>3. CASE Begin(c)
      BY <2>3 DEF Begin, Platform
    <2>4. CASE OpenFails(c)
      BY <2>4 DEF OpenFails
    <2>5. CASE Read(c)
      BY <2>5 DEF Read
    <2>6. CASE SendThroughPidfd(c)
      BY <2>6 DEF SendThroughPidfd, CallInv, Holding
    <2>7. CASE SendThroughHandle(c)
      BY <2>7 DEF SendThroughHandle
    <2>8. CASE Compare(c)
      BY <2>8 DEF Compare
    <2>9. CASE Kill(c)
      BY <2>9 DEF Kill
    <2> QED BY <2>1, <2>2, <2>3, <2>4, <2>5, <2>6, <2>7, <2>8, <2>9 DEF Step
  <1> QED BY <1>2, <1>3

LEMMA InductiveRoutes == IInv /\ Routes /\ [Next]_vars => Routes'
  <1> SUFFICES ASSUME IInv, Routes, [Next]_vars PROVE Routes'
    OBVIOUS
  <1>1. CASE \E c \in Calls : Step(c)
    BY <1>1, StepRoutes
  <1>2. CASE \E p \in PIDs : Env(p)
    BY <1>2 DEF Env, ProcessStarts, ProcessExits, ProcessReaped, Spawn, Exit,
                Reap, others, Routes, Route, Binds
  <1>3. CASE UNCHANGED vars
    BY <1>3 DEF vars, machine, Routes, Route, Binds
  <1> QED BY <1>1, <1>2, <1>3 DEF Next

\* Every step of a caller is a step of the contract, or is not visible.
LEMMA StepImplements ==
    ASSUME IInv, Routes, NEW c \in Calls, Step(c)
    PROVE  Iface!ContractStep(c) \/ UNCHANGED Iface!contract
  <1> USE DEF Iface!ContractStep
  <1> DEFINE occ == Occupant(req[c])
  <1>1. CASE CaptureRejects(c)
    <2>1. pc[c] = "capture" /\ want[c] = 0
      BY <1>1 DEF CaptureRejects, IInv, CallInv, Token
    <2>2. \E r \in {"permission", "error", "invalid"} \cup {"notFound"} : Finish(c, r)
      BY <1>1 DEF CaptureRejects
    <2> QED BY <2>1, <2>2, FailImplements, RefuseImplements
  <1>2. CASE Capture(c)
    <2>1. /\ pc[c] = "capture" /\ want[c] = 0 /\ result[c] = "none"
          /\ occ # 0 /\ req[c] \in 1..MaxPID
      <3>1. req[c] \in Requested
        BY DEF IInv, TypeOK
      <3>r. \A r \in Requested : r \in Int
        BY SignalAssumption
      <3>m. MaxPID \in Int
        BY SignalAssumption
      <3>2. req[c] \in Int /\ MaxPID \in Int
        BY <3>1, <3>r, <3>m
      <3>3. req[c] \in 1..MaxPID
        BY <1>2, <3>2 DEF Capture, ValidPID
      <3> QED
        BY <1>2, <3>3 DEF Capture, IInv, CallInv, Token, Pending, Readable
    <2>2. Target(req[c]) = req[c]
      <3>1. req[c] % (2 * (MaxPID + 1)) = req[c]
        BY <2>1, SignalAssumption
      <3> QED BY <3>1 DEF Target, Narrow
    <2>3. req[c] \in PIDs /\ bound[req[c]] = occ
      BY <2>1, <2>2 DEF Occupant
    <2>4. Iface!TakeToken(c)
      BY <1>2, <2>1, <2>3
         DEF Capture, Binds, machine, Iface!TakeToken, Iface!Exists, Iface!machine
    <2> QED BY <2>4
  <1>3. CASE Begin(c)
    <2>1. pc[c] = "held" /\ (~ValidPID(req[c]) => FALSE)
      BY <1>3, SignalAssumption DEF Begin, IInv, TypeOK, CallInv, Token, ValidPID
    <2> QED
      BY <1>3, <2>1 DEF Begin, Binds, machine, Iface!contract, Iface!caller, Iface!machine
  <1>4. CASE Open(c)
    BY <1>4 DEF Open, Quiet, Binds, machine, Iface!contract, Iface!caller, Iface!machine
  <1>5. CASE OpenFails(c)
    <2>1. pc[c] = "open"
      BY <1>5 DEF OpenFails
    <2>2. \/ Jump(c, "compare")
          \/ occ = 0 /\ Finish(c, "notFound")
          \/ \E r \in {"permission", "error", "invalid"} : Finish(c, r)
      BY <1>5 DEF OpenFails
    <2> QED BY <2>1, <2>2, JumpImplements, FailImplements, RefuseImplements, OccupantFacts
  <1>6. CASE Read(c)
    <2>1. pc[c] = "read"
      BY <1>6 DEF Read
    <2>2. \/ Jump(c, "send")
          \/ Finish(c, "error")
          \/ \E r \in {"notFound", "changed"} : Finish(c, r) /\ ReadThroughRef(c) # want[c]
      BY <1>6, <2>1 DEF Read, IInv, CallInv, Token
    <2>3. ReadThroughRef(c) # want[c] => ~Alive(Target(req[c]), want[c])
      <3>1. /\ want[c] \in Nat /\ ref[c] \in Nat /\ want[c] <= ref[c]
            /\ occ # 0 => ref[c] <= occ
        BY <2>1, MachineAssumption DEF IInv, TypeOK, CallInv, Holding, Ordered
      <3>2. SUFFICES ASSUME Alive(Target(req[c]), want[c]) PROVE ReadThroughRef(c) = want[c]
        OBVIOUS
      <3>3. want[c] = occ /\ occ # 0
        BY <3>2, OccupantFacts
      <3>4. ref[c] = occ
        BY <3>1, <3>3
      <3> QED BY <3>2, <3>3, <3>4 DEF ReadThroughRef
    <2> QED BY <2>1, <2>2, <2>3, JumpImplements, FailImplements, RefuseImplements
  <1>7. CASE SendThroughPidfd(c)
    <2>1. /\ pc[c] = "send" /\ ref[c] = want[c] /\ want[c] # 0
          /\ \/ Jump(c, "compare")
             \/ ~Exists(Target(req[c]), want[c]) /\ Finish(c, "notFound")
             \/ Exists(Target(req[c]), want[c]) /\ Send(c, want[c], "pidfd")
      BY <1>7 DEF SendThroughPidfd, IInv, CallInv, Holding, Token
    <2> QED
      BY <2>1, JumpImplements, RefuseImplements, SendImplements DEF Alive
  <1>8. CASE SendThroughHandle(c)
    <2>1. /\ pc[c] = "send" /\ ref[c] = want[c] /\ want[c] # 0
          /\ \/ ~Alive(Target(req[c]), want[c]) /\ Finish(c, "notFound")
             \/ \E r \in {"permission", "error", "invalid"} : Finish(c, r)
             \/ Alive(Target(req[c]), want[c]) /\ Send(c, want[c], "handle")
      BY <1>8 DEF SendThroughHandle, IInv, CallInv, Holding, Token
    <2> QED
      BY <2>1, FailImplements, RefuseImplements, SendImplements DEF Alive
  <1>9. CASE Compare(c)
    <2>1. pc[c] = "compare"
      BY <1>9 DEF Compare
    <2>2. \/ Jump(c, "kill")
          \/ Finish(c, "error")
          \/ \E r \in {"notFound", "changed"} : Finish(c, r) /\ occ # want[c]
      BY <1>9, <2>1 DEF Compare, IInv, CallInv, Token
    <2> QED
      BY <2>1, <2>2, JumpImplements, FailImplements, RefuseImplements, OccupantFacts
  <1>10. CASE Kill(c)
    <2>1. ~Binds \/ want[c] \in foreign
      BY <1>10 DEF Kill, Routes, Route
    <2> QED BY <1>10, <2>1, KillImplements
  <1> QED BY <1>1, <1>2, <1>3, <1>4, <1>5, <1>6, <1>7, <1>8, <1>9, <1>10 DEF Step

\* What the machine does is what the contract's machine does.
LEMMA EnvImplements ==
    ASSUME NEW p \in PIDs, Env(p)
    PROVE  Iface!ContractEnv(p)
  BY DEF Env, ProcessStarts, ProcessExits, ProcessReaped, Spawn, Exit, Reap,
         others, Binds, Iface!ContractEnv, Iface!Spawn, Iface!Exit, Iface!Reap,
         Iface!caller

(* The call of six system calls implements the contract of one step, for any *)
(* number of callers, PIDs and process starts and on every host               *)
(* (system.go:37-48).                                                         *)
THEOREM CallImplementsContract == Spec => MeetsContract
  <1>1. IInv /\ Routes /\ [Next]_vars => [Iface!ContractNext]_(Iface!contract)
    <2> SUFFICES ASSUME IInv, Routes, [Next]_vars
                 PROVE  Iface!ContractNext \/ UNCHANGED Iface!contract
      OBVIOUS
    <2>1. CASE \E c \in Calls : Step(c)
      BY <2>1, StepImplements DEF Iface!ContractNext
    <2>2. CASE \E p \in PIDs : Env(p)
      BY <2>2, EnvImplements DEF Iface!ContractNext
    <2>3. CASE UNCHANGED vars
      BY <2>3 DEF vars, Binds, machine, Iface!contract, Iface!caller, Iface!machine
    <2> QED BY <2>1, <2>2, <2>3 DEF Next
  <1>2. Spec => []Routes
    BY InitRoutes, InductiveRoutes, Invariant, PTL DEF Spec
  <1> QED
    BY <1>1, <1>2, InitImplements, Invariant, PTL
       DEF Spec, MeetsContract, Iface!Contract
=============================================================================
