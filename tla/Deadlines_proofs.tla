-------------------------- MODULE Deadlines_proofs --------------------------
(***************************************************************************)
(* Proofs about Deadlines: for every grid of seconds, every request, every  *)
(* number of resources and slots and every choice of the timeouts.          *)
(*                                                                          *)
(* That apply ends in time follows from where the clock may be while each   *)
(* step runs (Timely): a step with the context of apply ends a ToolDelay    *)
(* after it at the latest, and one with a context of its own only begins    *)
(* when that of apply is done already.                                      *)
(*                                                                          *)
(* That the waves fit is a count of slots.  While resource i waits, all the *)
(* slots are taken by resources before it, so one of them is in an earlier  *)
(* wave, and as long as no action is overdue it ends before the turn of i   *)
(* (InWaves).  The limit of apply has room for all the turns and for the    *)
(* grace period, hence the context is not done before (Waited).             *)
(***************************************************************************)
EXTENDS Deadlines, FiniteSetTheorems, TLAPS

Running == {"collecting", "stopping", "asking"}

Begun == phase \notin {"kept", "expired"}

Idle ==
    /\ ~Begun => next = 1
    /\ phase # "acting" => Busy = {}
    /\ phase \in {"looking", "sleeping", "done"} => next \notin Resources

Late == cut + 2 * ToolDelay + Brief

Timely ==
    /\ phase = "acting" => now <= Late
    /\ \A i \in Busy : /\ now <= Ends(due[i], own[i])
                       /\ own[i] => job[i] = "asking" /\ now >= cut /\ due[i] <= Late
    /\ phase = "looking" => /\ now <= Ends(lookDue, lookOwn)
                            /\ lookOwn => now >= cut /\ lookDue <= Late + ToolDelay + Brief
    /\ phase = "sleeping" => now <= cut + ToolDelay
    /\ phase = "done" => now <= Late + ToolDelay + Brief

\* The wave of resource i, and the time before it when all goes well.
WaveOf(i) == (i - 1) \div Slots
Turn(i) == WaveOf(i) * Wave
AllTurns == Waves(request[3]) * Wave

Overdue == longest > Wave \/ \E i \in Busy : now - since[i] > Wave

InWaves ==
    Begun /\ ~Overdue =>
        /\ \A i \in Busy : since[i] <= started + Turn(i)
        /\ next \in Resources => now <= started + Turn(next)
        /\ phase = "acting" => now <= started + AllTurns

Cutoff == phase # "kept" => cut <= started + Limit

Waited ==
    phase \in {"looking", "sleeping"} /\ Uncapped /\ ~Interrupted /\ ~Overdue => waitEnd <= cut

ClockInv ==
    /\ ClockTypeOK /\ PlanIsUsable /\ Idle /\ Timely
    /\ InWaves /\ Cutoff /\ WavesFit /\ Waited /\ GraceIsWaited
-----------------------------------------------------------------------------

(* Arithmetic *)
LEMMA Consts ==
    /\ Second \in Nat \ {0} /\ Slots \in Nat \ {0} /\ Wave \in Nat \ {0} /\ Cap \in Nat \ {0}
    /\ Poll \in Nat \ {0} /\ MaxTTL \in Nat \ {0}
    /\ MaxGrace \in Nat /\ Margin \in Nat /\ Brief \in Nat /\ ToolDelay \in Nat
    /\ LookTime \in Nat /\ MaxIdle \in Nat
  BY DeadlinesAssumption

LEMMA Divided ==
    ASSUME NEW n \in Nat, NEW k \in Nat, k # 0
    PROVE  /\ n \div k \in Nat /\ k * (n \div k) \in Nat
           /\ k * (n \div k) <= n /\ n < k * (n \div k) + k
  OBVIOUS

LEMMA DividedMonotone ==
    ASSUME NEW m \in Nat, NEW n \in Nat, NEW k \in Nat, k # 0
    PROVE  /\ m <= n => m \div k <= n \div k
           /\ m + k <= n => (m \div k) + 1 <= n \div k
           /\ (m + k) \div k = (m \div k) + 1
  OBVIOUS

LEMMA Multiple ==
    ASSUME NEW n \in Nat, NEW k \in Nat, k # 0, n % k = 0
    PROVE  n = k * (n \div k)
  OBVIOUS

LEMMA Product ==
    ASSUME NEW a \in Nat, NEW b \in Nat, NEW w \in Nat
    PROVE  /\ a * w \in Nat
           /\ a <= b => a * w <= b * w
           /\ (a + 1) * w = a * w + w
  OBVIOUS

\* Truncate goes to the second before, and keeps the order; so does adding
\* whole seconds.
LEMMA Seconds ==
    ASSUME NEW t \in Nat
    PROVE  /\ Truncate(t) \in Nat /\ Truncate(t) <= t /\ t < Truncate(t) + Second
           /\ \A u \in Nat : t <= u => Truncate(t) <= Truncate(u)
           /\ Truncate(t + MaxTTL) <= Truncate(t) + MaxTTL
  <1> DEFINE q == t \div Second
  <1>1. q \in Nat /\ Second * q \in Nat /\ Second * q <= t /\ t < Second * q + Second
    BY Consts, Divided
  <1>2. ASSUME NEW u \in Nat, t <= u PROVE Truncate(t) <= Truncate(u)
    <2>1. t \div Second <= u \div Second
      BY <1>2, Consts, DividedMonotone
    <2>2. t \div Second \in Nat /\ u \div Second \in Nat
      BY Consts, Divided
    <2>3. (t \div Second) * Second <= (u \div Second) * Second
      BY <2>1, <2>2, Consts, Product
    <2> QED BY <2>2, <2>3, Consts DEF Truncate
  <1>3. Truncate(t + MaxTTL) <= Truncate(t) + MaxTTL
    <2> DEFINE m == MaxTTL \div Second
               r == (t + MaxTTL) \div Second
    <2>1. MaxTTL = Second * m /\ m \in Nat
      BY WholeSeconds, Consts, Multiple, Divided
    <2>2. r \in Nat /\ Second * r <= t + MaxTTL
      BY Consts, Divided
    <2> HIDE DEF q, m, r
    <2>3. Second * r < Second * (q + m + 1)
      BY <1>1, <2>1, <2>2, Consts
    <2>4. r <= q + m
      BY <1>1, <2>1, <2>2, <2>3, Consts
    <2>5. Second * r <= Second * (q + m)
      BY <1>1, <2>1, <2>2, <2>4, Consts
    <2> QED BY <1>1, <2>1, <2>2, <2>5, Consts DEF Truncate, q, r
  <1> QED BY <1>1, <1>2, <1>3 DEF Truncate

\* A grace period is rounded up, and MaxGrace is not.
LEMMA Graces ==
    ASSUME NEW d \in 0..MaxGrace
    PROVE  GraceSeconds(d) \in d..MaxGrace /\ GraceSeconds(d) \in Nat
  <1> DEFINE q == (d + Second - 1) \div Second
             m == MaxGrace \div Second
  <1>1. d \in Nat /\ d + Second - 1 \in Nat
    BY Consts
  <1>2. q \in Nat /\ Second * q <= d + Second - 1 /\ d + Second - 1 < Second * q + Second
    BY <1>1, Consts, Divided
  <1>3. MaxGrace = Second * m /\ m \in Nat
    BY WholeSeconds, Consts, Multiple, Divided
  <1> HIDE DEF q, m
  <1>4. Second * q < Second * (m + 1)
    BY <1>1, <1>2, <1>3, Consts
  <1>5. q <= m
    BY <1>2, <1>3, <1>4, Consts
  <1>6. Second * q <= MaxGrace
    BY <1>2, <1>3, <1>5, Consts
  <1>7. d <= Second * q /\ Second * q \in Nat
    BY <1>1, <1>2, Consts
  <1> QED BY <1>6, <1>7, Consts DEF GraceSeconds, q

\* The turns of two resources, one before the other or a whole wave before it;
\* and the last wave.
LEMMA Turns ==
    ASSUME NEW i \in Nat \ {0}
    PROVE  /\ Turn(i) \in Nat /\ (i = 1 => Turn(i) = 0)
           /\ \A j \in Nat \ {0} : /\ i <= j => Turn(i) <= Turn(j)
                                   /\ i + Slots <= j => Turn(i) + Wave <= Turn(j)
           /\ \A n \in Nat : i <= n => Turn(i) + Wave <= Waves(n) * Wave
  <1>1. WaveOf(i) \in Nat /\ (i = 1 => WaveOf(i) = 0)
    BY Consts, Divided DEF WaveOf
  <1>2. Turn(i) \in Nat /\ (i = 1 => Turn(i) = 0)
    BY <1>1, Consts, Product DEF Turn
  <1>3. ASSUME NEW j \in Nat, WaveOf(i) + 1 <= j PROVE Turn(i) + Wave <= j * Wave
    <2>1. (WaveOf(i) + 1) * Wave <= j * Wave
      BY <1>1, <1>3, Consts, Product
    <2> QED BY <1>1, <2>1, Consts, Product DEF Turn
  <1>4. ASSUME NEW j \in Nat \ {0}
        PROVE  /\ i <= j => Turn(i) <= Turn(j)
               /\ i + Slots <= j => Turn(i) + Wave <= Turn(j)
    <2>1. /\ i <= j => WaveOf(i) <= WaveOf(j)
          /\ i + Slots <= j => WaveOf(i) + 1 <= WaveOf(j)
          /\ WaveOf(j) \in Nat
      BY Consts, Divided, DividedMonotone DEF WaveOf
    <2>2. i <= j => Turn(i) <= Turn(j)
      BY <1>1, <2>1, Consts, Product DEF Turn
    <2>3. i + Slots <= j => Turn(i) + Wave <= Turn(j)
      BY <1>3, <2>1 DEF Turn
    <2> QED BY <2>2, <2>3
  <1>5. ASSUME NEW n \in Nat, i <= n PROVE Turn(i) + Wave <= Waves(n) * Wave
    <2>1. (n - 1) \div Slots \in Nat /\ i - 1 <= n - 1
      BY <1>5, Consts, Divided
    <2>2. WaveOf(i) <= (n - 1) \div Slots
      BY <1>5, <2>1, Consts, DividedMonotone DEF WaveOf
    <2>3. n - 1 \in Nat /\ (n - 1) + Slots = n + Slots - 1
      BY <1>5, Consts
    <2>4. ((n - 1) + Slots) \div Slots = ((n - 1) \div Slots) + 1
      BY <2>3, Consts, DividedMonotone
    <2>5. Waves(n) = ((n - 1) \div Slots) + 1
      BY <1>5, <2>3, <2>4 DEF Waves
    <2> QED BY <1>1, <1>3, <2>1, <2>2, <2>5
  <1> QED BY <1>2, <1>4, <1>5

LEMMA AllWaves ==
    ASSUME NEW n \in Nat
    PROVE  Waves(n) \in Nat /\ Waves(n) * Wave \in Nat
  <1>1. n + Slots - 1 \in Nat
    BY Consts
  <1>2. Waves(n) \in Nat
    BY <1>1, Consts, Divided DEF Waves
  <1> QED BY <1>2, Consts, Product

\* What is asked for.
LEMMA Asked ==
    ASSUME request \in Requests
    PROVE  /\ request[1] \in 1..MaxTTL /\ request[2] \in 0..MaxGrace /\ request[3] \in Nat
           /\ PlanGrace \in Nat /\ AllTurns \in Nat /\ Limit \in Nat
           /\ Uncapped => Limit = PlanGrace + AllTurns
           /\ GraceSeconds(grace) \in grace..MaxGrace
  <1>1. request[1] \in 1..MaxTTL /\ request[2] \in 0..MaxGrace /\ request[3] \in Nat
    BY DeadlinesAssumption
  <1>2. PlanGrace \in Nat /\ GraceSeconds(grace) \in grace..MaxGrace
    BY <1>1, Graces DEF PlanGrace, grace
  <1>3. AllTurns \in Nat
    BY <1>1, AllWaves DEF AllTurns
  <1> QED BY <1>1, <1>2, <1>3, Consts DEF Limit, Least, Uncapped, AllTurns

LEMMA Slotted ==
    ASSUME ClockTypeOK
    PROVE  /\ Busy \subseteq Resources /\ Resources \subseteq Nat \ {0}
           /\ IsFiniteSet(Busy) /\ Cardinality(Busy) \in Nat /\ Cardinality(Busy) <= Slots
           /\ \A i \in Busy : i < next
  <1>1. Busy \subseteq Resources /\ request[3] \in Nat
    BY Asked DEF Busy, ClockTypeOK
  <1>2. IsFiniteSet(Resources) /\ Resources \subseteq Nat \ {0}
    <2>1. IsFiniteSet(1..request[3])
      BY <1>1, FS_Interval
    <2> QED BY <2>1 DEF Resources
  <1>3. IsFiniteSet(Busy) /\ Cardinality(Busy) \in Nat
    BY <1>1, <1>2, FS_Subset, FS_CardinalityType
  <1> QED BY <1>1, <1>2, <1>3 DEF ClockTypeOK, Busy, Resources

\* When no slot is free, somebody holds one who is a whole wave before the
\* next resource.
LEMMA WaveBefore ==
    ASSUME ClockTypeOK, next \in Resources, ~SlotFree
    PROVE  \E j \in Busy : j + Slots <= next
  <1>1. /\ IsFiniteSet(Busy) /\ Cardinality(Busy) \in Nat /\ Cardinality(Busy) = Slots
        /\ Busy \subseteq Nat \ {0} /\ next \in Nat \ {0} /\ \A i \in Busy : i < next
    BY Slotted, Consts DEF SlotFree
  <1>2. SUFFICES ASSUME \A j \in Busy : j + Slots > next PROVE FALSE
    BY <1>1, Consts
  <1> DEFINE window == (next - Slots + 1)..(next - 1)
  <1>3. Busy \subseteq window
    BY <1>1, <1>2, Consts
  <1>4. IsFiniteSet(window) /\ Cardinality(window) = Slots - 1
    <2> DEFINE a == next - Slots + 1
               b == next - 1
    <2>1. a \in Int /\ b \in Int /\ b - a + 1 = Slots - 1 /\ (a > b => Slots - 1 = 0)
      BY <1>1, Consts
    <2> HIDE DEF a, b
    <2>2. IsFiniteSet(a..b) /\ Cardinality(a..b) = Slots - 1
      BY <2>1, FS_Interval
    <2> QED BY <2>2 DEF a, b
  <1> HIDE DEF window
  <1>5. Cardinality(Busy) <= Cardinality(window)
    BY <1>3, <1>4, FS_Subset
  <1> QED BY <1>1, <1>4, <1>5, Consts
-----------------------------------------------------------------------------
(* The invariant at the start *)

\* Whatever plan accepts, apply validates.
LEMMA AlwaysValid ==
    ASSUME request \in Requests, created \in Nat
    PROVE  /\ Validates
           /\ Expires \in Nat /\ Expires <= created + ttl /\ created + ttl < Expires + Second
  <1>1. request[1] \in 1..MaxTTL /\ GraceSeconds(grace) \in grace..MaxGrace
    BY Asked
  <1>2. ttl \in Nat /\ ttl <= MaxTTL /\ created + ttl \in Nat /\ created + MaxTTL \in Nat
    BY <1>1, Consts DEF ttl
  <1>3. Truncate(created) <= Truncate(created + ttl)
    BY <1>2, Seconds
  <1>4. Truncate(created + ttl) <= Truncate(created + MaxTTL)
    BY <1>2, Seconds, Consts
  <1>5. /\ Truncate(created) \in Nat /\ Truncate(created + MaxTTL) <= Truncate(created) + MaxTTL
        /\ Truncate(created + ttl) \in Nat /\ Truncate(created + ttl) <= created + ttl
        /\ created + ttl < Truncate(created + ttl) + Second
        /\ Truncate(created + MaxTTL) \in Nat
    BY <1>2, Seconds
  <1> QED BY <1>1, <1>2, <1>3, <1>4, <1>5, Consts DEF Validates, Expires

LEMMA InitClock == ClockInit => ClockInv
  <1> SUFFICES ASSUME ClockInit PROVE ClockInv
    OBVIOUS
  <1> USE DEF ClockInit
  <1>1. now \in Nat /\ created \in Nat /\ request \in Requests /\ request[3] \in Nat
    BY Consts, Asked
  <1>2. Busy = {} /\ {i \in Resources : job[i] \in {"collecting", "stopping", "asking"}} = {}
    BY DEF Busy
  <1>3. ClockTypeOK
    <2>1. Cardinality({}) <= Slots
      BY FS_EmptySet, Consts
    <2>2. \A i \in Resources : job[i] = "queued" <=> i >= next
      BY DEF Resources
    <2>3. next \in 1..(request[3] + 1)
      BY <1>1
    <2>4. job \in [Resources -> Jobs]
      BY DEF Jobs
    <2> QED BY <1>1, <1>2, <2>1, <2>2, <2>3, <2>4 DEF ClockTypeOK, Phases
  <1>4. PlanIsUsable
    BY <1>1, AlwaysValid DEF PlanIsUsable
  <1>5. Idle /\ Timely /\ InWaves /\ Cutoff
    BY <1>2 DEF Idle, Timely, InWaves, Cutoff, Begun
  <1>6. WavesFit /\ Waited /\ GraceIsWaited
    BY DEF WavesFit, Waited, GraceIsWaited
  <1> QED BY <1>3, <1>4, <1>5, <1>6 DEF ClockInv
-----------------------------------------------------------------------------
(* Apply begins *)

LEMMA StartApplyInv == ASSUME ClockInv, StartApply PROVE ClockInv'
  <1>1. /\ phase = "kept" /\ started' = now /\ cut' = now + Limit
        /\ phase' = IF Expired THEN "expired" ELSE "acting"
        /\ UNCHANGED <<now, request, created, next, job, since, due, own, longest, waits, waitEnd,
                       lookDue, lookOwn, free>>
    BY DEF StartApply, jobs, looks
  <1>2. ClockTypeOK /\ PlanIsUsable /\ Idle /\ now \in Nat /\ request \in Requests /\ created \in Nat
    BY DEF ClockInv, ClockTypeOK
  <1>3. Limit \in Nat /\ AllTurns \in Nat /\ ttl \in Nat /\ Turn(1) = 0
    BY <1>2, Asked, Turns DEF ttl
  <1>4. next = 1 /\ Busy = {}
    BY <1>1, <1>2 DEF Idle, Begun
  <1>5. ClockTypeOK'
    BY <1>1, <1>2, <1>3 DEF ClockTypeOK, Phases, Resources
  <1>6. Busy' = {}
    BY <1>1, <1>4 DEF Busy, Resources
  <1>7. PlanIsUsable'
    <2>1. Validates' /\ ttl' = ttl
      BY <1>1, <1>2 DEF PlanIsUsable, Validates, Expires, ttl, grace
    <2>2. Expires <= created + ttl /\ created + ttl < Expires + Second /\ Expires \in Nat
      BY <1>2, AlwaysValid
    <2>3. ~Expired => now <= created + ttl
      BY <1>2, <1>3, <2>2, Consts DEF Expired
    <2>4. Expired => now > created + ttl - Second
      BY <1>2, <1>3, <2>2, Consts DEF Expired
    <2> QED BY <1>1, <2>1, <2>3, <2>4 DEF PlanIsUsable
  <1>8. Idle' /\ Cutoff'
    BY <1>1, <1>2, <1>3, <1>4, <1>6 DEF Idle, Begun, Cutoff, Limit, PlanGrace, grace
  <1>9. Timely'
    BY <1>1, <1>2, <1>3, <1>6, Consts DEF Timely, Late
  <1>10. InWaves'
    BY <1>1, <1>2, <1>3, <1>4, <1>6 DEF InWaves, Turn, WaveOf, AllTurns
  <1>11. WavesFit' /\ Waited' /\ GraceIsWaited'
    <2>1. \A i \in Resources : job[i] = "queued"
      BY <1>2, <1>4, Slotted DEF ClockTypeOK
    <2> QED BY <1>1, <2>1 DEF WavesFit, Waited, GraceIsWaited, Resources
  <1> QED BY <1>5, <1>7, <1>8, <1>9, <1>10, <1>11 DEF ClockInv
-----------------------------------------------------------------------------
(* What the actions leave alone *)
actFrame == <<now, request, created, phase, started, cut, waits, waitEnd, lookDue, lookOwn, free>>

LEMMA Kept ==
    ASSUME ClockInv, UNCHANGED <<request, created, phase, started, cut>>
    PROVE  /\ Limit' = Limit /\ AllTurns' = AllTurns /\ Resources' = Resources
           /\ (Uncapped <=> Uncapped') /\ (Interrupted <=> Interrupted') /\ PlanIsUsable'
           /\ Late' = Late /\ Begun' = Begun
           /\ \A i : Turn(i)' = Turn(i)
  <1>1. /\ Limit' = Limit /\ AllTurns' = AllTurns /\ Resources' = Resources
        /\ (Uncapped <=> Uncapped') /\ PlanGrace' = PlanGrace
        /\ Late' = Late /\ Begun' = Begun
    BY DEF Limit, AllTurns, Resources, Uncapped, PlanGrace, grace, Late, Begun
  <1>2. Interrupted <=> Interrupted'
    BY <1>1 DEF Interrupted
  <1>3. PlanIsUsable'
    BY DEF ClockInv, PlanIsUsable, Validates, Expires, ttl, grace
  <1> QED BY <1>1, <1>2, <1>3 DEF Turn, WaveOf

\* A goroutine ends.
LEMMA FinishInv ==
    ASSUME ClockInv, NEW i \in Busy, Finish(i), UNCHANGED <<next, actFrame>>
    PROVE  ClockInv'
  <1>1. /\ ClockTypeOK /\ phase = "acting" /\ i \in Resources /\ now \in Nat /\ longest \in Nat
        /\ since[i] \in Nat /\ UNCHANGED <<now, request, created, phase, started, cut, waits, waitEnd,
                                           lookDue, lookOwn, free, next>>
    BY Slotted DEF ClockInv, Idle, actFrame, ClockTypeOK, Begun
  <1>2. /\ job' \in [Resources -> Jobs] /\ since' \in [Resources -> Nat]
        /\ due' \in [Resources -> Nat] /\ own' \in [Resources -> BOOLEAN]
        /\ job'[i] = "done"
        /\ \A j \in Resources : j # i => /\ job'[j] = job[j] /\ since'[j] = since[j]
                                         /\ due'[j] = due[j] /\ own'[j] = own[j]
    BY <1>1 DEF Finish, ClockTypeOK, Jobs
  <1>3. /\ longest' \in Nat /\ longest <= longest' /\ now - since[i] <= longest'
    BY <1>1 DEF Finish
  <1>4. /\ Limit' = Limit /\ AllTurns' = AllTurns /\ Resources' = Resources
        /\ (Uncapped <=> Uncapped') /\ (Interrupted <=> Interrupted') /\ PlanIsUsable'
        /\ Late' = Late /\ Begun' = Begun
        /\ \A j : Turn(j)' = Turn(j)
    BY <1>1, Kept
  <1>5. Busy' = Busy \ {i}
    BY <1>1, <1>2, <1>4 DEF Busy
  <1>6. ClockTypeOK'
    <2>1. Cardinality(Busy') <= Slots
      <3>1. IsFiniteSet(Busy) /\ Cardinality(Busy) \in Nat /\ Cardinality(Busy) <= Slots
        BY <1>1, Slotted
      <3>2. IsFiniteSet(Busy') /\ Cardinality(Busy') <= Cardinality(Busy)
        BY <1>5, <3>1, FS_Subset
      <3>3. Cardinality(Busy') \in Nat
        BY <3>2, FS_CardinalityType
      <3> QED BY <3>1, <3>2, <3>3, Consts
    <2>2. \A j \in Resources : job'[j] = "queued" <=> j >= next
      BY <1>1, <1>2 DEF ClockTypeOK, Busy
    <2> QED BY <1>1, <1>2, <1>3, <1>4, <2>1, <2>2 DEF ClockTypeOK, Busy
  <1>7. Idle' /\ Cutoff'
    BY <1>1, <1>4 DEF ClockInv, Idle, Cutoff
  <1>8. \A j \in Busy' : /\ j \in Busy /\ j \in Resources /\ job'[j] = job[j] /\ since'[j] = since[j]
                         /\ due'[j] = due[j] /\ own'[j] = own[j]
    BY <1>2, <1>5 DEF Busy
  <1>9. Timely'
    BY <1>1, <1>4, <1>8 DEF ClockInv, Timely, Ends
  <1>10. Overdue => Overdue'
    <2>1. CASE longest > Wave
      BY <1>1, <1>3, <2>1, Consts DEF Overdue
    <2>2. CASE now - since[i] > Wave
      BY <1>1, <1>3, <2>2, Consts DEF Overdue
    <2>3. CASE \E j \in Busy \ {i} : now - since[j] > Wave
      BY <1>1, <1>5, <1>8, <2>3 DEF Overdue
    <2> QED BY <2>1, <2>2, <2>3 DEF Overdue
  <1>11. InWaves'
    BY <1>1, <1>4, <1>8, <1>10 DEF ClockInv, InWaves
  <1>12. WavesFit' /\ Waited' /\ GraceIsWaited'
    <2>1. (\E j \in Resources : job'[j] = "skipped") => \E j \in Resources : job[j] = "skipped"
      BY <1>1, <1>2
    <2>2. WavesFit'
      BY <1>1, <1>4, <1>10, <2>1 DEF ClockInv, WavesFit, Overdue
    <2> QED BY <1>1, <2>2 DEF Waited, GraceIsWaited
  <1> QED BY <1>4, <1>6, <1>7, <1>9, <1>11, <1>12 DEF ClockInv

\* A goroutine goes on to its next step.
LEMMA BeginInv ==
    ASSUME ClockInv, NEW i \in Busy, NEW s \in {"stopping", "asking"}, NEW d \in Nat,
           NEW alone \in BOOLEAN, Begin(i, s, d, alone),
           UNCHANGED <<next, since, longest, actFrame>>,
           job[i] # "asking",
           alone => CtxDone /\ s = "asking" /\ d = Brief,
           ~alone => ~CtxDone
    PROVE  ClockInv'
  <1>1. /\ ClockTypeOK /\ phase = "acting" /\ i \in Resources /\ now \in Nat /\ cut \in Nat
        /\ UNCHANGED <<now, request, created, phase, started, cut, waits, waitEnd,
                       lookDue, lookOwn, free, next, since, longest>>
    BY Slotted DEF ClockInv, Idle, actFrame, ClockTypeOK, Begun
  <1>2. now + d + ToolDelay \in Nat
    BY <1>1, Consts
  <1>3. /\ job' \in [Resources -> Jobs] /\ due' \in [Resources -> Nat] /\ own' \in [Resources -> BOOLEAN]
        /\ job'[i] = s /\ due'[i] = now + d + ToolDelay /\ own'[i] = alone
        /\ \A j \in Resources : j # i => job'[j] = job[j] /\ due'[j] = due[j] /\ own'[j] = own[j]
    BY <1>1, <1>2 DEF Begin, ClockTypeOK, Jobs
  <1>4. /\ Limit' = Limit /\ AllTurns' = AllTurns /\ Resources' = Resources
        /\ (Uncapped <=> Uncapped') /\ (Interrupted <=> Interrupted') /\ PlanIsUsable'
        /\ Late' = Late /\ Begun' = Begun
        /\ \A j : Turn(j)' = Turn(j)
    BY <1>1, Kept
  <1>5. Busy' = Busy
    BY <1>1, <1>3, <1>4 DEF Busy
  <1>6. ClockTypeOK'
    <2>1. \A j \in Resources : job'[j] = "queued" <=> j >= next
      BY <1>1, <1>3 DEF ClockTypeOK, Busy
    <2> QED BY <1>1, <1>3, <1>4, <1>5, <2>1 DEF ClockTypeOK, Busy
  <1>7. Idle' /\ Cutoff'
    BY <1>1, <1>4 DEF ClockInv, Idle, Cutoff
  <1>8. Timely'
    <2>1. now <= cut + ToolDelay
      <3>1. ~own[i] /\ now <= Ends(due[i], own[i]) /\ due[i] \in Nat
        BY <1>1 DEF ClockInv, Timely, ClockTypeOK
      <3> QED BY <1>1, <3>1, Consts DEF Ends, Least
    <2>2. /\ now <= Ends(due'[i], own'[i])
          /\ own'[i] => job'[i] = "asking" /\ now >= cut /\ due'[i] <= Late
      BY <1>1, <1>2, <1>3, <2>1, Consts DEF Ends, Least, Late, CtxDone
    <2>3. \A j \in Busy : /\ now <= Ends(due'[j], own'[j])
                          /\ own'[j] => job'[j] = "asking" /\ now >= cut /\ due'[j] <= Late
      <3>1. ASSUME NEW j \in Busy, j # i
            PROVE  /\ now <= Ends(due'[j], own'[j])
                   /\ own'[j] => job'[j] = "asking" /\ now >= cut /\ due'[j] <= Late
        BY <1>3, <3>1 DEF ClockInv, Timely, Busy
      <3> QED BY <2>2, <3>1
    <2>4. now <= Late
      BY <1>1 DEF ClockInv, Timely
    <2> QED BY <1>1, <1>4, <1>5, <2>3, <2>4 DEF Timely, Ends
  <1>9. Overdue' = Overdue
    BY <1>1, <1>5 DEF Overdue
  <1>10. InWaves'
    BY <1>1, <1>4, <1>5, <1>9 DEF ClockInv, InWaves
  <1>11. WavesFit' /\ Waited' /\ GraceIsWaited'
    <2>1. (\E j \in Resources : job'[j] = "skipped") => \E j \in Resources : job[j] = "skipped"
      BY <1>1, <1>3
    <2>2. WavesFit'
      BY <1>1, <1>4, <1>5, <2>1 DEF ClockInv, WavesFit
    <2> QED BY <1>1, <2>2 DEF Waited, GraceIsWaited
  <1> QED BY <1>4, <1>6, <1>7, <1>8, <1>10, <1>11 DEF ClockInv

LEMMA GoroutineInv ==
    ASSUME ClockInv, NEW i \in Resources, CollectEnds(i) \/ StopEnds(i) \/ AskEnds(i)
    PROVE  ClockInv'
  <1>1. i \in Busy /\ UNCHANGED <<next, actFrame>>
    BY DEF CollectEnds, StopEnds, AskEnds, Busy, Acting, actFrame, looks
  <1>2. CASE Finish(i)
    BY <1>1, <1>2, FinishInv
  <1>3. CASE job[i] = "collecting" /\ ~CtxDone /\ Begin(i, "stopping", PlanGrace + Margin, FALSE)
             /\ UNCHANGED <<since, longest>>
    <2>1. PlanGrace + Margin \in Nat
      BY Asked, Consts DEF ClockInv, ClockTypeOK
    <2> QED BY <1>1, <1>3, <2>1, BeginInv
  <1>4. CASE job[i] = "stopping" /\ UNCHANGED <<since, longest>>
             /\ Begin(i, "asking", IF CtxDone THEN BriefTime ELSE LookTime, CtxDone)
    <2>1. CASE CtxDone
      <3>1. Begin(i, "asking", Brief, TRUE)
        BY <1>4, <2>1 DEF BriefTime, Begin
      <3> QED BY <1>1, <1>4, <2>1, <3>1, BeginInv, Consts
    <2>2. CASE ~CtxDone
      <3>1. Begin(i, "asking", LookTime, FALSE)
        <4>1. CtxDone = FALSE
          BY <2>2 DEF CtxDone
        <4> QED BY <1>4, <4>1
      <3> QED BY <1>1, <1>4, <2>2, <3>1, BeginInv, Consts
    <2> QED BY <2>1, <2>2
  <1> QED BY <1>2, <1>3, <1>4 DEF CollectEnds, StopEnds, AskEnds

\* A resource is dispatched or left out.
LEMMA DispatchInv == ASSUME ClockInv, Dispatch PROVE ClockInv'
  <1>1. /\ ClockTypeOK /\ phase = "acting" /\ next \in Resources /\ SlotFree /\ next' = next + 1
        /\ now \in Nat /\ cut \in Nat /\ started \in Nat /\ longest \in Nat
        /\ UNCHANGED <<now, request, created, phase, started, cut, waits, waitEnd,
                       lookDue, lookOwn, free, longest>>
    BY DEF Dispatch, Acting, looks, ClockInv, ClockTypeOK
  <1>2. /\ Limit' = Limit /\ AllTurns' = AllTurns /\ Resources' = Resources
        /\ (Uncapped <=> Uncapped') /\ (Interrupted <=> Interrupted') /\ PlanIsUsable'
        /\ Late' = Late /\ Begun' = Begun
        /\ \A j : Turn(j)' = Turn(j)
    BY <1>1, Kept
  <1>3. /\ Turn(next) \in Nat /\ Turn(next + 1) \in Nat /\ Turn(next) <= Turn(next + 1)
        /\ Turn(next) + Wave <= AllTurns /\ AllTurns \in Nat
        /\ next \in 1..request[3] /\ request[3] \in Nat
    <2>1. next \in 1..request[3] /\ request[3] \in Nat /\ AllTurns \in Nat
      BY <1>1, Asked DEF Resources, ClockTypeOK
    <2>2. next \in Nat \ {0} /\ next + 1 \in Nat \ {0} /\ next <= next + 1 /\ next <= request[3]
      BY <2>1
    <2> QED BY <2>1, <2>2, Turns DEF AllTurns
  <1>4. next \notin Busy
    BY <1>1, Slotted
  <1>5. CASE CtxDone
    <2>1. /\ job' = [job EXCEPT ![next] = "skipped"] /\ UNCHANGED <<since, due, own>>
      BY <1>5 DEF Dispatch
    <2>2. /\ job' \in [Resources -> Jobs] /\ job'[next] = "skipped"
          /\ \A j \in Resources : j # next => job'[j] = job[j]
      BY <1>1, <2>1 DEF ClockTypeOK, Jobs
    <2>3. Busy' = Busy
      BY <1>1, <1>2, <1>4, <2>2 DEF Busy
    <2>4. ClockTypeOK'
      <3>1. \A j \in Resources : job'[j] = "queued" <=> j >= next + 1
        BY <1>1, <1>3, <2>2 DEF ClockTypeOK, Resources
      <3> QED BY <1>1, <1>2, <1>3, <2>1, <2>2, <2>3, <3>1 DEF ClockTypeOK, Busy
    <2>5. Idle' /\ Cutoff'
      BY <1>1, <1>2, <2>3 DEF ClockInv, Idle, Cutoff, Begun
    <2>6. Timely'
      <3>1. \A j \in Busy : job'[j] = job[j]
        BY <1>4, <2>2 DEF Busy
      <3> QED BY <1>1, <1>2, <2>1, <2>3, <3>1 DEF ClockInv, Timely, Ends
    <2>7. Overdue' = Overdue
      BY <1>1, <2>1, <2>3 DEF Overdue
    <2>8. InWaves'
      BY <1>1, <1>2, <1>3, <2>1, <2>3, <2>7 DEF ClockInv, InWaves
    <2>9. Uncapped /\ ~Interrupted => Overdue
      <3>1. SUFFICES ASSUME Uncapped, ~Interrupted, ~Overdue PROVE FALSE
        OBVIOUS
      <3>2. now <= started + Turn(next)
        BY <1>1, <3>1 DEF ClockInv, InWaves, Begun
      <3>3. Limit = PlanGrace + AllTurns /\ PlanGrace \in Nat
        BY <1>1, <3>1, Asked DEF ClockTypeOK
      <3>4. cut >= started + PlanGrace + AllTurns
        BY <1>1, <1>3, <3>1, <3>3 DEF Interrupted
      <3> QED BY <1>1, <1>3, <1>5, <3>2, <3>3, <3>4, Consts DEF CtxDone
    <2>10. WavesFit' /\ Waited' /\ GraceIsWaited'
      <3>1. WavesFit'
        BY <1>2, <2>7, <2>9 DEF WavesFit, Overdue
      <3> QED BY <1>1, <3>1 DEF Waited, GraceIsWaited
    <2> QED BY <1>2, <2>4, <2>5, <2>6, <2>8, <2>10 DEF ClockInv
  <1>6. CASE ~CtxDone
    <2>1. since' = [since EXCEPT ![next] = now] /\ Begin(next, "collecting", LookTime, FALSE)
      BY <1>6 DEF Dispatch
    <2>2. now + LookTime + ToolDelay \in Nat
      BY <1>1, Consts
    <2>3. /\ job' \in [Resources -> Jobs] /\ since' \in [Resources -> Nat]
          /\ due' \in [Resources -> Nat] /\ own' \in [Resources -> BOOLEAN]
          /\ job'[next] = "collecting" /\ since'[next] = now
          /\ due'[next] = now + LookTime + ToolDelay /\ own'[next] = FALSE
          /\ \A j \in Resources : j # next => /\ job'[j] = job[j] /\ since'[j] = since[j]
                                              /\ due'[j] = due[j] /\ own'[j] = own[j]
      BY <1>1, <2>1, <2>2 DEF Begin, ClockTypeOK, Jobs
    <2>4. Busy' = Busy \cup {next}
      BY <1>1, <1>2, <2>3 DEF Busy
    <2>5. ClockTypeOK'
      <3>1. Cardinality(Busy') <= Slots
        <4>1. IsFiniteSet(Busy) /\ Cardinality(Busy) \in Nat /\ Cardinality(Busy) < Slots
          BY <1>1, Slotted DEF SlotFree
        <4>2. Cardinality(Busy') = Cardinality(Busy) + 1
          BY <1>4, <2>4, <4>1, FS_AddElement
        <4> QED BY <4>1, <4>2, Consts
      <3>2. \A j \in Resources : job'[j] = "queued" <=> j >= next + 1
        BY <1>1, <1>3, <2>3 DEF ClockTypeOK, Resources
      <3> QED BY <1>1, <1>2, <1>3, <2>3, <3>1, <3>2 DEF ClockTypeOK, Busy
    <2>6. Idle' /\ Cutoff'
      BY <1>1, <1>2 DEF ClockInv, Idle, Cutoff, Begun
    <2>7. \A j \in Busy : /\ j \in Resources /\ j # next /\ j \in Busy'
                          /\ job'[j] = job[j] /\ since'[j] = since[j]
                          /\ due'[j] = due[j] /\ own'[j] = own[j]
      BY <1>4, <2>3, <2>4 DEF Busy
    <2>8. Timely'
      <3>1. now <= Ends(due'[next], own'[next])
        BY <1>1, <1>6, <2>3, Consts DEF Ends, Least, CtxDone
      <3>2. \A j \in Busy' : /\ now <= Ends(due'[j], own'[j])
                             /\ own'[j] => job'[j] = "asking" /\ now >= cut /\ due'[j] <= Late
        BY <2>3, <2>4, <2>7, <3>1 DEF ClockInv, Timely
      <3> QED BY <1>1, <1>2, <3>2 DEF ClockInv, Timely, Ends
    <2>9. Overdue => Overdue'
      BY <1>1, <2>7 DEF Overdue
    <2>10. InWaves'
      <3>1. SUFFICES ASSUME ~Overdue'
                     PROVE  /\ \A j \in Busy' : since'[j] <= started + Turn(j)
                            /\ now <= started + Turn(next + 1) /\ now <= started + AllTurns
        BY <1>1, <1>2 DEF InWaves
      <3>2. /\ \A j \in Busy : since[j] <= started + Turn(j)
            /\ now <= started + Turn(next)
        BY <1>1, <2>9, <3>1 DEF ClockInv, InWaves, Begun
      <3>3. \A j \in Busy' : since'[j] <= started + Turn(j)
        BY <2>3, <2>4, <2>7, <3>2
      <3> QED BY <1>1, <1>3, <3>2, <3>3, Consts
    <2>11. WavesFit' /\ Waited' /\ GraceIsWaited'
      <3>1. (\E j \in Resources : job'[j] = "skipped") => \E j \in Resources : job[j] = "skipped"
        BY <1>1, <2>3
      <3>2. WavesFit'
        BY <1>1, <1>2, <2>9, <3>1 DEF ClockInv, WavesFit, Overdue
      <3> QED BY <1>1, <3>2 DEF Waited, GraceIsWaited
    <2> QED BY <1>2, <2>5, <2>6, <2>8, <2>10, <2>11 DEF ClockInv
  <1> QED BY <1>5, <1>6
-----------------------------------------------------------------------------
(* The outcome *)

\* While nobody acts, only the clock and the looks change.
LEMMA AtRest ==
    ASSUME ClockInv, UNCHANGED <<request, created, started, next, jobs, longest>>, Busy = {},
           Begun, phase' \in {"looking", "sleeping", "done"}, next \notin Resources
    PROVE  /\ Busy' = {} /\ Idle' /\ InWaves' /\ PlanIsUsable' /\ Resources' = Resources
           /\ Limit' = Limit /\ (Uncapped <=> Uncapped') /\ PlanGrace' = PlanGrace
           /\ (Overdue <=> longest > Wave) /\ (Overdue' <=> longest > Wave)
           /\ cut' = cut => Cutoff' /\ WavesFit' /\ (Interrupted <=> Interrupted') /\ Late' = Late
  <1>1. UNCHANGED <<request, created, started, next, job, since, due, own, longest>>
    BY DEF jobs
  <1>2. /\ Resources' = Resources /\ Limit' = Limit /\ (Uncapped <=> Uncapped')
        /\ PlanGrace' = PlanGrace
    BY <1>1 DEF Limit, Resources, Uncapped, PlanGrace, grace
  <1>3. Busy' = {}
    BY <1>1, <1>2 DEF Busy
  <1>4. (Overdue <=> longest > Wave) /\ (Overdue' <=> longest > Wave)
    BY <1>1, <1>3 DEF Overdue
  <1>5. Idle' /\ InWaves'
    BY <1>1, <1>2, <1>3 DEF Idle, InWaves, Begun
  <1>6. PlanIsUsable'
    <2>1. Validates' /\ ttl' = ttl
      BY <1>1 DEF ClockInv, PlanIsUsable, Validates, Expires, ttl, grace
    <2> QED BY <1>1, <2>1 DEF ClockInv, PlanIsUsable, Begun
  <1>7. ASSUME cut' = cut
        PROVE  Cutoff' /\ WavesFit' /\ (Interrupted <=> Interrupted') /\ Late' = Late
    <2>1. (Interrupted <=> Interrupted') /\ Late' = Late
      BY <1>1, <1>2, <1>7 DEF Interrupted, Late
    <2>2. Cutoff'
      BY <1>1, <1>2, <1>7 DEF ClockInv, Cutoff, Begun
    <2>3. WavesFit'
      BY <1>1, <1>2, <1>3, <2>1 DEF ClockInv, WavesFit, Begun
    <2> QED BY <2>1, <2>2, <2>3
  <1> QED BY <1>2, <1>3, <1>4, <1>5, <1>6, <1>7

\* An observation begins before it has to end.
LEMMA LookIsTimely ==
    ASSUME ClockInv, StartLook, now <= Late, Busy' = {}, UNCHANGED <<now, cut>>
    PROVE  Timely' /\ lookOwn' \in BOOLEAN /\ lookDue' \in Nat
  <1>1. phase' = "looking" /\ now \in Nat /\ cut \in Nat /\ Late' = Late
    BY DEF StartLook, ClockInv, ClockTypeOK, Late
  <1>2. CASE CtxDone
    <2>1. CtxDone = TRUE /\ now >= cut
      BY <1>2 DEF CtxDone
    <2>2. lookDue' = now + Brief + ToolDelay /\ lookOwn' = TRUE
      BY <2>1 DEF StartLook, BriefTime
    <2>3. now <= Ends(lookDue, lookOwn)' /\ lookDue' <= Late + ToolDelay + Brief
      BY <1>1, <2>2, Consts DEF Ends, Late
    <2>4. lookDue' \in Nat
      BY <1>1, <2>2, Consts
    <2> QED BY <1>1, <2>1, <2>2, <2>3, <2>4 DEF Timely
  <1>3. CASE ~CtxDone
    <2>1. CtxDone = FALSE /\ now < cut
      BY <1>1, <1>3 DEF CtxDone
    <2>2. lookDue' = now + LookTime + ToolDelay /\ lookOwn' = FALSE
      BY <2>1 DEF StartLook
    <2>3. now <= Ends(lookDue, lookOwn)'
      BY <1>1, <2>1, <2>2, Consts DEF Ends, Least
    <2>4. lookDue' \in Nat
      BY <1>1, <2>2, Consts
    <2> QED BY <1>1, <2>2, <2>3, <2>4 DEF Timely
  <1> QED BY <1>2, <1>3

LEMMA AllActedInv == ASSUME ClockInv, AllActed PROVE ClockInv'
  <1>1. /\ phase = "acting" /\ next \notin Resources /\ Busy = {} /\ waits' \in BOOLEAN
        /\ waitEnd' = now + PlanGrace /\ StartLook /\ phase' = "looking"
        /\ UNCHANGED <<now, request, created, started, cut, next, jobs, longest, free>>
    BY DEF AllActed, StartLook
  <1>2. /\ ClockTypeOK /\ now \in Nat /\ cut \in Nat /\ started \in Nat
        /\ PlanGrace \in Nat /\ AllTurns \in Nat
        /\ Uncapped => Limit = PlanGrace + AllTurns
    BY Asked DEF ClockInv, ClockTypeOK
  <1>3. /\ Busy' = {} /\ Idle' /\ InWaves' /\ PlanIsUsable' /\ Resources' = Resources
        /\ Limit' = Limit /\ (Uncapped <=> Uncapped')
        /\ (Overdue <=> longest > Wave) /\ (Overdue' <=> longest > Wave)
        /\ Cutoff' /\ WavesFit' /\ (Interrupted <=> Interrupted')
    BY <1>1, AtRest DEF Begun
  <1>4. Timely' /\ lookOwn' \in BOOLEAN /\ lookDue' \in Nat
    BY <1>1, <1>3, LookIsTimely DEF ClockInv, Timely
  <1>5. ClockTypeOK'
    BY <1>1, <1>2, <1>3, <1>4 DEF ClockTypeOK, Phases, jobs
  <1>6. Waited'
    <2>1. SUFFICES ASSUME Uncapped, ~Interrupted, ~Overdue PROVE waitEnd' <= cut
      BY <1>1, <1>3 DEF Waited
    <2>2. now <= started + AllTurns
      BY <1>1, <2>1 DEF ClockInv, InWaves, Begun
    <2>3. cut >= started + PlanGrace + AllTurns
      BY <1>2, <2>1 DEF Interrupted
    <2> QED BY <1>1, <1>2, <2>2, <2>3
  <1>7. GraceIsWaited'
    BY <1>1 DEF GraceIsWaited
  <1> QED BY <1>3, <1>4, <1>5, <1>6, <1>7 DEF ClockInv

LEMMA LookEndsInv == ASSUME ClockInv, LookEnds PROVE ClockInv'
  <1>1. /\ phase = "looking" /\ free' \in BOOLEAN /\ Busy = {} /\ next \notin Resources
        /\ phase' \in {"done", "sleeping"}
        /\ UNCHANGED <<now, request, created, started, cut, next, jobs, longest, waits,
                       waitEnd, lookOwn>>
    BY DEF LookEnds, ClockInv, Idle
  <1>2. /\ ClockTypeOK /\ now \in Nat /\ cut \in Nat /\ longest \in Nat /\ waitEnd \in Nat
        /\ lookDue \in Nat
    BY DEF ClockInv, ClockTypeOK
  <1>3. /\ Busy' = {} /\ Idle' /\ InWaves' /\ PlanIsUsable' /\ Resources' = Resources
        /\ (Uncapped <=> Uncapped')
        /\ (Overdue <=> longest > Wave) /\ (Overdue' <=> longest > Wave)
        /\ Cutoff' /\ WavesFit' /\ (Interrupted <=> Interrupted') /\ Late' = Late
    BY <1>1, AtRest DEF Begun
  <1>4. /\ now <= Ends(lookDue, lookOwn)
        /\ lookOwn => now >= cut /\ lookDue <= Late + ToolDelay + Brief
    BY <1>1 DEF ClockInv, Timely
  <1>5. lookDue' \in Nat
    <2>1. now + Poll \in Nat
      BY <1>2, Consts
    <2> QED BY <1>2, <2>1 DEF LookEnds
  <1>6. Timely'
    <2>1. CASE lookOwn
      <3>1. phase' = "done"
        BY <2>1 DEF LookEnds
      <3>2. now <= Late + ToolDelay + Brief
        BY <1>2, <1>4, <2>1, Consts DEF Ends, Late
      <3> QED BY <1>1, <1>3, <3>1, <3>2 DEF Timely
    <2>2. CASE ~lookOwn
      <3>1. now <= cut + ToolDelay /\ now <= Late + ToolDelay + Brief
        BY <1>2, <1>4, <2>2, Consts DEF Ends, Least, Late
      <3> QED BY <1>1, <1>3, <3>1 DEF Timely
    <2> QED BY <2>1, <2>2
  <1>7. ClockTypeOK'
    BY <1>1, <1>2, <1>3, <1>5 DEF ClockTypeOK, Phases, jobs
  <1>8. Waited'
    BY <1>1, <1>3 DEF ClockInv, Waited
  <1>9. GraceIsWaited'
    <2>1. SUFFICES ASSUME phase' = "done", Uncapped, ~Interrupted, longest <= Wave, waits, ~free'
                   PROVE  now >= waitEnd
      BY <1>1, <1>3 DEF GraceIsWaited
    <2>2. lookOwn \/ now >= waitEnd
      BY <2>1 DEF LookEnds
    <2>3. waitEnd <= cut
      <3>1. ~Overdue
        BY <1>2, <1>3, <2>1, Consts
      <3> QED BY <1>1, <2>1, <3>1 DEF ClockInv, Waited
    <2> QED BY <1>2, <1>4, <2>2, <2>3
  <1> QED BY <1>3, <1>6, <1>7, <1>8, <1>9 DEF ClockInv

LEMMA WakeUpInv == ASSUME ClockInv, WakeUp PROVE ClockInv'
  <1>1. /\ phase = "sleeping" /\ Busy = {} /\ next \notin Resources /\ StartLook /\ phase' = "looking"
        /\ UNCHANGED <<now, request, created, started, cut, next, jobs, longest, waits,
                       waitEnd, free>>
    BY DEF WakeUp, StartLook, ClockInv, Idle
  <1>2. ClockTypeOK /\ now \in Nat /\ cut \in Nat
    BY DEF ClockInv, ClockTypeOK
  <1>3. /\ Busy' = {} /\ Idle' /\ InWaves' /\ PlanIsUsable' /\ Resources' = Resources
        /\ (Uncapped <=> Uncapped')
        /\ (Overdue <=> longest > Wave) /\ (Overdue' <=> longest > Wave)
        /\ Cutoff' /\ WavesFit' /\ (Interrupted <=> Interrupted')
    BY <1>1, AtRest DEF Begun
  <1>4. now <= Late
    BY <1>1, <1>2, Consts DEF ClockInv, Timely, Late
  <1>5. Timely' /\ lookOwn' \in BOOLEAN /\ lookDue' \in Nat
    BY <1>1, <1>3, <1>4, LookIsTimely
  <1>6. ClockTypeOK'
    BY <1>1, <1>2, <1>3, <1>5 DEF ClockTypeOK, Phases, jobs
  <1>7. Waited' /\ GraceIsWaited'
    BY <1>1, <1>3 DEF ClockInv, Waited, GraceIsWaited
  <1> QED BY <1>3, <1>5, <1>6, <1>7 DEF ClockInv
-----------------------------------------------------------------------------
(* Everything else *)

LEMMA InterruptInv == ASSUME ClockInv, Interrupt PROVE ClockInv'
  <1>1. /\ phase \in {"acting", "looking", "sleeping"} /\ now < cut /\ cut' = now
        /\ now \in Nat /\ cut \in Nat /\ started \in Nat
        /\ UNCHANGED <<now, request, created, phase, started, next, job, since, due, own, longest,
                       waits, waitEnd, lookDue, lookOwn, free>>
    BY DEF Interrupt, CtxDone, jobs, looks, ClockInv, ClockTypeOK
  <1>2. Resources' = Resources /\ Limit' = Limit /\ Limit \in Nat
    BY <1>1, Asked DEF ClockInv, ClockTypeOK, Resources, Limit, PlanGrace, grace
  <1>3. Busy' = Busy
    BY <1>1, <1>2 DEF Busy
  <1>4. ClockTypeOK'
    BY <1>1, <1>2, <1>3 DEF ClockInv, ClockTypeOK, Busy
  <1>5. PlanIsUsable' /\ Idle' /\ InWaves'
    <2>1. Validates' /\ ttl' = ttl
      BY <1>1 DEF ClockInv, PlanIsUsable, Validates, Expires, ttl, grace
    <2>2. PlanIsUsable'
      BY <1>1, <2>1 DEF ClockInv, PlanIsUsable
    <2>3. Idle'
      BY <1>1, <1>2, <1>3 DEF ClockInv, Idle, Begun
    <2>4. InWaves'
      BY <1>1, <1>2, <1>3 DEF ClockInv, InWaves, Begun, Overdue, Turn, WaveOf, AllTurns
    <2> QED BY <2>2, <2>3, <2>4
  <1>6. Timely'
    <2>1. \A i \in Busy : ~own[i] /\ now <= due[i]
      <3>1. ASSUME NEW i \in Busy PROVE ~own[i] /\ now <= due[i]
        <4>1. ~own[i] /\ now <= Ends(due[i], own[i])
          BY <1>1 DEF ClockInv, Timely
        <4>2. due[i] \in Nat
          BY Slotted DEF ClockInv, ClockTypeOK
        <4> QED BY <1>1, <4>1, <4>2, Consts DEF Ends, Least
      <3> QED BY <3>1
    <2>2. \A i \in Busy : now <= Ends(due[i], own[i])'
      <3>1. ASSUME NEW i \in Busy PROVE now <= Ends(due[i], own[i])'
        <4>1. due[i] \in Nat /\ due'[i] = due[i] /\ own'[i] = own[i]
          BY <1>1, Slotted DEF ClockInv, ClockTypeOK
        <4> QED BY <1>1, <2>1, <4>1, Consts DEF Ends, Least
      <3> QED BY <3>1
    <2>3. phase = "looking" => ~lookOwn /\ now <= Ends(lookDue, lookOwn)'
      <3>1. SUFFICES ASSUME phase = "looking" PROVE ~lookOwn /\ now <= Ends(lookDue, lookOwn)'
        OBVIOUS
      <3>2. ~lookOwn /\ now <= Ends(lookDue, lookOwn) /\ lookDue \in Nat
        BY <1>1, <3>1 DEF ClockInv, Timely, ClockTypeOK
      <3>3. lookDue' = lookDue /\ lookOwn' = lookOwn
        BY <1>1
      <3> QED BY <1>1, <3>2, <3>3, Consts DEF Ends, Least
    <2>4. now <= Late' /\ now <= cut' + ToolDelay
      BY <1>1, Consts DEF Late
    <2> QED BY <1>1, <1>3, <2>1, <2>2, <2>3, <2>4 DEF Timely
  <1>7. Cutoff' /\ Interrupted'
    <2>1. now < started + Limit
      BY <1>1, <1>2 DEF ClockInv, Cutoff
    <2> QED BY <1>1, <1>2, <2>1 DEF Cutoff, Interrupted
  <1>8. WavesFit' /\ Waited' /\ GraceIsWaited'
    BY <1>7 DEF WavesFit, Waited, GraceIsWaited
  <1> QED BY <1>4, <1>5, <1>6, <1>7, <1>8 DEF ClockInv

\* The clock does not pass the end of any step.
LEMMA TickInv == ASSUME ClockInv, Tick PROVE ClockInv'
  <1>1. /\ now' = now + 1 /\ now \in Nat /\ cut \in Nat /\ started \in Nat /\ longest \in Nat
        /\ ClockTypeOK
        /\ UNCHANGED <<request, created, phase, started, cut, next, job, since, due, own, longest,
                       waits, waitEnd, lookDue, lookOwn, free>>
    BY DEF Tick, jobs, looks, ClockInv, ClockTypeOK
  <1>2. /\ Limit' = Limit /\ AllTurns' = AllTurns /\ Resources' = Resources
        /\ (Uncapped <=> Uncapped') /\ (Interrupted <=> Interrupted') /\ PlanIsUsable'
        /\ Late' = Late /\ Begun' = Begun
        /\ \A j : Turn(j)' = Turn(j)
    BY <1>1, Kept
  <1>3. Busy' = Busy
    BY <1>1, <1>2 DEF Busy
  <1>4. now' \in Nat /\ ClockTypeOK'
    BY <1>1, <1>2, <1>3 DEF ClockTypeOK, Busy
  <1>5. Idle' /\ Cutoff' /\ Waited'
    <2>1. phase \in {"looking", "sleeping"} => (Overdue <=> Overdue')
      BY <1>1, <1>3 DEF ClockInv, Idle, Overdue
    <2> QED BY <1>1, <1>2, <1>3, <2>1 DEF ClockInv, Idle, Cutoff, Waited
  <1>6. Overdue => Overdue'
    <2>1. ASSUME NEW i \in Busy, now - since[i] > Wave PROVE now' - since'[i] > Wave
      <3>1. since[i] \in Nat
        BY <1>1, Slotted DEF ClockTypeOK
      <3> QED BY <1>1, <2>1, <3>1, Consts
    <2> QED BY <1>1, <1>3, <2>1 DEF Overdue
  <1>7. WavesFit'
    BY <1>1, <1>2, <1>6 DEF ClockInv, WavesFit, Overdue
  <1>8. GraceIsWaited'
    <2>1. phase # "done"
      BY DEF Tick
    <2> QED BY <1>1, <2>1 DEF GraceIsWaited
  <1>9. CASE phase \notin {"acting", "looking", "sleeping"}
    <2>1. phase = "kept" /\ Busy = {}
      BY <1>9 DEF Tick, ClockInv, Idle
    <2>2. Timely' /\ InWaves'
      BY <1>1, <1>2, <1>3, <2>1 DEF Timely, InWaves, Begun
    <2> QED BY <1>2, <1>4, <1>5, <1>7, <1>8, <2>2 DEF ClockInv
  <1>10. CASE phase \in {"looking", "sleeping"}
    <2>1. Busy = {} /\ next \notin Resources
      BY <1>10 DEF ClockInv, Idle
    <2>2. InWaves'
      BY <1>1, <1>2, <1>3, <1>10, <2>1 DEF InWaves
    <2>3. Timely'
      <3>1. CASE phase = "looking"
        <4>1. now < Ends(lookDue, lookOwn) /\ Ends(lookDue, lookOwn) \in Nat
          BY <1>1, <3>1, Consts DEF Tick, Ends, Least, ClockTypeOK
        <4>2. now' <= Ends(lookDue, lookOwn)'
          BY <1>1, <4>1, Consts DEF Ends, Least
        <4>3. lookOwn => now' >= cut /\ lookDue <= Late + ToolDelay + Brief
          BY <1>1, <3>1 DEF ClockInv, Timely
        <4> QED BY <1>1, <1>2, <1>3, <2>1, <3>1, <4>2, <4>3 DEF Timely
      <3>2. CASE phase = "sleeping"
        <4>1. now < cut
          BY <1>1, <3>2 DEF Tick, CtxDone
        <4> QED BY <1>1, <1>3, <2>1, <3>2, <4>1, Consts DEF Timely
      <3> QED BY <1>10, <3>1, <3>2
    <2> QED BY <1>2, <1>4, <1>5, <1>7, <1>8, <2>2, <2>3 DEF ClockInv
  <1>11. CASE phase = "acting"
    <2>1. /\ Busy # {} /\ ~(next \in Resources /\ SlotFree)
          /\ \A i \in Busy : now < Ends(due[i], own[i])
      BY <1>11 DEF Tick
    <2>2. \A i \in Busy : /\ now' <= Ends(due[i], own[i])'
                          /\ own[i] => job[i] = "asking" /\ now' >= cut /\ due[i] <= Late
                          /\ now' <= Late
      <3>1. ASSUME NEW i \in Busy
            PROVE  /\ now' <= Ends(due[i], own[i])'
                   /\ own[i] => job[i] = "asking" /\ now' >= cut /\ due[i] <= Late
                   /\ now' <= Late
        <4>1. due[i] \in Nat /\ due'[i] = due[i] /\ own'[i] = own[i]
          BY <1>1, Slotted DEF ClockTypeOK
        <4>2. now + 1 <= Ends(due[i], own[i])
          BY <1>1, <2>1, <4>1, Consts DEF Ends, Least
        <4>3. own[i] => job[i] = "asking" /\ now >= cut /\ due[i] <= Late
          BY DEF ClockInv, Timely
        <4>4. now + 1 <= Late
          BY <1>1, <4>1, <4>2, <4>3, Consts DEF Ends, Least, Late
        <4> QED BY <1>1, <4>1, <4>2, <4>3, <4>4 DEF Ends
      <3> QED BY <3>1
    <2>3. Timely'
      BY <1>1, <1>2, <1>3, <1>11, <2>1, <2>2 DEF Timely, Ends
    <2>4. InWaves'
      <3>1. SUFFICES ASSUME ~Overdue'
                     PROVE  /\ \A i \in Busy : since[i] <= started + Turn(i)
                            /\ next \in Resources => now + 1 <= started + Turn(next)
                            /\ now + 1 <= started + AllTurns
        BY <1>1, <1>2, <1>3 DEF InWaves
      <3>2. \A i \in Busy : since[i] <= started + Turn(i)
        BY <1>6, <1>11, <3>1 DEF ClockInv, InWaves, Begun
      <3>3. \A i \in Busy : now + 1 <= started + Turn(i) + Wave /\ Turn(i) \in Nat /\ i \in Nat \ {0}
        <4>1. ASSUME NEW i \in Busy
              PROVE  now + 1 <= started + Turn(i) + Wave /\ Turn(i) \in Nat /\ i \in Nat \ {0}
          <5>1. i \in Nat \ {0} /\ since[i] \in Nat
            BY <1>1, Slotted DEF ClockTypeOK
          <5>2. Turn(i) \in Nat
            BY <5>1, Turns
          <5>3. ~((now + 1) - since[i] > Wave)
            BY <1>1, <1>3, <3>1 DEF Overdue
          <5>4. since[i] <= started + Turn(i)
            BY <3>2
          <5>5. now + 1 <= since[i] + Wave
            BY <1>1, <5>1, <5>3, Consts
          <5> QED BY <1>1, <5>1, <5>2, <5>4, <5>5, Consts
        <4> QED BY <4>1
      <3>4. next \in Resources => now + 1 <= started + Turn(next)
        <4>1. SUFFICES ASSUME next \in Resources PROVE now + 1 <= started + Turn(next)
          OBVIOUS
        <4>2. PICK j \in Busy : j + Slots <= next
          BY <1>1, <2>1, <4>1, WaveBefore
        <4>3. next \in Nat \ {0}
          BY <1>1, <4>1, Slotted
        <4>4. Turn(j) + Wave <= Turn(next) /\ Turn(next) \in Nat
          BY <3>3, <4>2, <4>3, Turns
        <4> QED BY <1>1, <3>3, <4>4, Consts
      <3>5. now + 1 <= started + AllTurns
        <4>1. PICK j \in Busy : TRUE
          BY <2>1
        <4>2. j \in 1..request[3] /\ request[3] \in Nat /\ AllTurns \in Nat
          BY <1>1, Slotted, Asked DEF Resources, ClockTypeOK
        <4>3. Turn(j) + Wave <= AllTurns
          BY <3>3, <4>2, Turns DEF AllTurns
        <4> QED BY <1>1, <3>3, <4>2, <4>3, Consts
      <3> QED BY <3>2, <3>4, <3>5
    <2> QED BY <1>2, <1>4, <1>5, <1>7, <1>8, <2>3, <2>4 DEF ClockInv
  <1> QED BY <1>9, <1>10, <1>11

LEMMA ClockStutter == ASSUME ClockInv, UNCHANGED vars PROVE ClockInv'
  <1>1. UNCHANGED <<now, request, created, phase, started, cut, next, job, since, due, own, longest,
                    waits, waitEnd, lookDue, lookOwn, free>>
    BY DEF vars, jobs, looks
  <1>2. /\ Resources' = Resources /\ PlanIsUsable' /\ (Uncapped <=> Uncapped')
        /\ (Interrupted <=> Interrupted') /\ Limit' = Limit /\ AllTurns' = AllTurns
        /\ Late' = Late /\ Begun' = Begun /\ \A j : Turn(j)' = Turn(j)
    BY <1>1, Kept
  <1>3. Busy' = Busy
    BY <1>1, <1>2 DEF Busy
  <1>4. ClockTypeOK' /\ Overdue' = Overdue
    BY <1>1, <1>2, <1>3 DEF ClockInv, ClockTypeOK, Overdue, Busy
  <1>5. Idle' /\ Timely' /\ InWaves' /\ Cutoff'
    BY <1>1, <1>2, <1>3, <1>4 DEF ClockInv, Idle, Timely, Ends, InWaves, Cutoff
  <1>6. WavesFit' /\ Waited' /\ GraceIsWaited'
    BY <1>1, <1>2, <1>3, <1>4 DEF ClockInv, WavesFit, Waited, GraceIsWaited
  <1> QED BY <1>2, <1>4, <1>5, <1>6 DEF ClockInv

LEMMA ClockStep == ClockInv /\ [ClockNext]_vars => ClockInv'
  <1> SUFFICES ASSUME ClockInv, [ClockNext]_vars PROVE ClockInv'
    OBVIOUS
  <1>1. CASE StartApply
    BY <1>1, StartApplyInv
  <1>2. CASE Dispatch
    BY <1>2, DispatchInv
  <1>3. CASE AllActed
    BY <1>3, AllActedInv
  <1>4. CASE LookEnds
    BY <1>4, LookEndsInv
  <1>5. CASE WakeUp
    BY <1>5, WakeUpInv
  <1>6. CASE \E i \in Resources : CollectEnds(i) \/ StopEnds(i) \/ AskEnds(i)
    BY <1>6, GoroutineInv
  <1>7. CASE Interrupt
    BY <1>7, InterruptInv
  <1>8. CASE Tick
    BY <1>8, TickInv
  <1>9. CASE Ended \/ UNCHANGED vars
    BY <1>9, ClockStutter DEF Ended
  <1> QED BY <1>1, <1>2, <1>3, <1>4, <1>5, <1>6, <1>7, <1>8, <1>9 DEF ClockNext

LEMMA ClockAlways == ClockSpec => []ClockInv
  BY InitClock, ClockStep, PTL DEF ClockSpec
-----------------------------------------------------------------------------
\* The clock and the variables of apply keep their types; resources are
\* dispatched in their order and no more of them act at a time than there are
\* slots (apply.go:169-187), for every number of either.
THEOREM ClockKeepsItsTypes == ClockSpec => []ClockTypeOK
  <1>1. ClockInv => ClockTypeOK
    BY DEF ClockInv
  <1> QED BY <1>1, ClockAlways, PTL

\* Whatever ttl and grace period plan accepts and wherever in a second it runs,
\* apply finds the times of the plan valid, no grace period shorter than asked
\* for, does not act later than the ttl, and calls no plan expired that is more
\* than a second from it (plan.go:200-205, 451, 472-476, workflow.go:317-322,
\* 478-484).
THEOREM EveryPlanIsUsable == ClockSpec => []PlanIsUsable
  <1>1. ClockInv => PlanIsUsable
    BY DEF ClockInv
  <1> QED BY <1>1, ClockAlways, PTL

\* Apply is over by a fixed time after its limit or its cancellation, however
\* many resources there are and however long its tools take (apply.go:44-49,
\* 148-156, 397-413).
THEOREM ApplyEndsInTime == ClockSpec => []EndsInTime
  <1>1. ClockInv => EndsInTime
    <2> SUFFICES ASSUME ClockInv, phase \in {"acting", "looking", "sleeping", "done"}
                 PROVE  now <= cut + 3 * ToolDelay + 2 * Brief
      BY DEF EndsInTime
    <2>1. now \in Nat /\ cut \in Nat /\ lookDue \in Nat /\ Timely
      BY DEF ClockInv, ClockTypeOK
    <2>2. CASE phase = "looking"
      <3>1. /\ now <= Ends(lookDue, lookOwn)
            /\ lookOwn => lookDue <= Late + ToolDelay + Brief
        BY <2>1, <2>2 DEF Timely
      <3> QED BY <2>1, <3>1, Consts DEF Ends, Least, Late
    <2>3. CASE phase \in {"acting", "sleeping", "done"}
      BY <2>1, <2>3, Consts DEF Timely, Late
    <2> QED BY <2>2, <2>3
  <1> QED BY <1>1, ClockAlways, PTL

\* For every number of resources and slots and all lengths of a wave: apply
\* leaves a resource out only after an interrupt, after an action that took
\* longer than a wave, or when the waves do not fit under the cap
\* (apply.go:133-146, 171-180).
THEOREM TheWavesFit == ClockSpec => []WavesFit
  <1>1. ClockInv => WavesFit
    BY DEF ClockInv
  <1> QED BY <1>1, ClockAlways, PTL

\* With the same exceptions, a port that apply waited for is reported as still
\* occupied only after the whole grace period (apply.go:397-413).
THEOREM TheGraceIsWaited == ClockSpec => []GraceIsWaited
  <1>1. ClockInv => GraceIsWaited
    BY DEF ClockInv
  <1> QED BY <1>1, ClockAlways, PTL
=============================================================================
