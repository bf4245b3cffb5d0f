------------------------- MODULE OvenThreadsProofs -------------------------
(***************************************************************************)
(* Theorems about OvenThreads, for every staleness limit, whatever hangs,  *)
(* and however late any thread is.                                         *)
(***************************************************************************)
EXTENDS OvenThreads, TLAPS

(***************************************************************************)
(* The inductive invariant                                                 *)
(***************************************************************************)

\* Before boot is over nothing has tripped and no thread has moved.
BootInv == mode = "INIT" => /\ ~tripped
                            /\ pid = PidStart /\ out = OutStart /\ wd = WdStart

\* The Watchdog latches only after it has set its bit.
LatchInv == wd.at[1] = "latch" => tripped

\* A health pulse counts as stray only after a trip, and the decision for it is
\* older than the trip: the next one is against it.
HealthInv == pulses.health # 0 => tripped /\ wd.at[1] # "pulse"

\* Keepalive pulses since the last PID cycle: none while Output has not looked
\* at it yet, and afterwards one for each step of its age.
AgeInv ==
    /\ "pid" \in fresh.output => pulses.keepalive = 0
    /\ out.seen => pulses.keepalive <= SmallerOf(out.since, OutputPidLimit) + 1

ThreadsInv == /\ TypeOK /\ BootInv /\ LatchInv /\ LatchesAgree
              /\ HealthInv /\ OneStrayHealthPulse /\ AgeInv

(***************************************************************************)
(* Operators                                                               *)
(***************************************************************************)

LEMMA SmallerType ==
    ASSUME NEW a \in Nat, NEW b \in Nat
    PROVE  /\ SmallerOf(a, b) \in 0 .. b
           /\ SmallerOf(a, b) <= a
  BY DEF SmallerOf

\* After the i-th raise the Watchdog goes on with a raise, a decision or a sleep.
LEMMA RaiseFromType ==
    ASSUME NEW s \in [Counters -> Nat], NEW i \in 1 .. 4
    PROVE  /\ RaiseFrom(s, i) \in WdSteps
           /\ RaiseFrom(s, i)[1] \notin {"latch", "pulse"}
  <1> DEFINE due == {k \in i .. 3 : Stale(s, Raises[k])}
  <1>1. CASE due # {}
    <2>1. due \subseteq 1 .. 3
      OBVIOUS
    <2>2. \E k \in due : \A l \in due : k <= l
      <3> HIDE DEF due
      <3>1. CASE 1 \in due
        BY <2>1, <3>1
      <3>2. CASE 1 \notin due /\ 2 \in due
        BY <2>1, <3>2
      <3>3. CASE 1 \notin due /\ 2 \notin due
        <4>1. \A l \in due : l = 3
          BY <2>1, <3>3
        <4> QED
          BY <1>1, <4>1
      <3> QED
        BY <3>1, <3>2, <3>3
    <2>3. PICK k \in 1 .. 3 : RaiseFrom(s, i) = <<"raise", k>>
      <3> DEFINE first == CHOOSE k \in due : \A l \in due : k <= l
      <3>1. first \in due
        BY <2>2
      <3>2. RaiseFrom(s, i) = <<"raise", first>>
        BY <1>1 DEF RaiseFrom
      <3> QED
        BY <2>1, <3>1, <3>2
    <2> QED
      BY <2>3 DEF WdSteps
  <1>2. CASE due = {}
    BY <1>2 DEF RaiseFrom, WdSteps
  <1> QED
    BY <1>1, <1>2

(***************************************************************************)
(* The inductive step                                                      *)
(***************************************************************************)

\* What a reset leaves behind is of the right type.
LEMMA StartType ==
    /\ NothingFresh \in [DOMAIN Watched -> SUBSET Counters]
    /\ PidStart \in [at : {"wait", "reading_a", "reading_b"}, started : BOOLEAN,
                     aOk : BOOLEAN, active : BOOLEAN]
    /\ OutStart \in [running : BOOLEAN, state : {"RUN", "SAFE"},
                     since : 0 .. OutputPidLimit + 1, seen : BOOLEAN]
    /\ WdStart \in [at : WdSteps, stale : [Counters -> Nat]]
    /\ \A c \in Counters : WdStart.stale[c] <= StaleLimit[c] + 1
    /\ NoPulses \in [keepalive : 0 .. PulseCap, health : 0 .. PulseCap]
  <1>1. NothingFresh \in [DOMAIN Watched -> SUBSET Counters]
    BY DEF NothingFresh
  <1>2. PidStart \in [at : {"wait", "reading_a", "reading_b"}, started : BOOLEAN,
                      aOk : BOOLEAN, active : BOOLEAN]
    BY DEF PidStart
  <1>3. OutStart \in [running : BOOLEAN, state : {"RUN", "SAFE"},
                      since : 0 .. OutputPidLimit + 1, seen : BOOLEAN]
    BY LimitsAssumption DEF OutStart
  <1>4. <<"start", 1>> \in WdSteps
    BY DEF WdSteps
  <1>5. WdStart \in [at : WdSteps, stale : [Counters -> Nat]]
    BY <1>4 DEF WdStart
  <1>6. \A c \in Counters : WdStart.stale[c] <= StaleLimit[c] + 1
    BY LimitsAssumption DEF WdStart
  <1>7. NoPulses \in [keepalive : 0 .. PulseCap, health : 0 .. PulseCap]
    BY LimitsAssumption DEF NoPulses
  <1> QED
    BY <1>1, <1>2, <1>3, <1>5, <1>6, <1>7

LEMMA InvInit == Init => ThreadsInv
  <1> SUFFICES ASSUME Init PROVE ThreadsInv
    OBVIOUS
  <1>1. TypeOK
    BY StartType DEF Init, TypeOK
  <1> QED
    BY <1>1
    DEF Init, ThreadsInv, BootInv, LatchInv, LatchesAgree, HealthInv, OneStrayHealthPulse,
        AgeInv, PidStart, OutStart, WdStart, NoPulses, NothingFresh, Watched

LEMMA BootSteps ==
    ASSUME ThreadsInv, NEW faulted \in BOOLEAN, Boot(faulted)
    PROVE  ThreadsInv'
  BY DEF Boot, ThreadsInv, TypeOK, BootInv, LatchInv, LatchesAgree, HealthInv,
         OneStrayHealthPulse, AgeInv, OutStart, WdStart

LEMMA OperatorSteps ==
    ASSUME ThreadsInv, Arm \/ Disarm
    PROVE  ThreadsInv'
  BY DEF Arm, Disarm, Up, ThreadsInv, TypeOK, BootInv, LatchInv, LatchesAgree, HealthInv,
         OneStrayHealthPulse, AgeInv

LEMMA ResetStep ==
    ASSUME ThreadsInv, Reset
    PROVE  ThreadsInv'
  <1>1. TypeOK'
    BY StartType DEF Reset, TypeOK
  <1> QED
    BY <1>1
    DEF Reset, ThreadsInv, BootInv, LatchInv, LatchesAgree, HealthInv, OneStrayHealthPulse,
        AgeInv, OutStart, WdStart, NoPulses, NothingFresh, Watched

\* A hang or an overheated zone changes nothing the invariant speaks of.
LEMMA EnvironmentSteps ==
    ASSUME ThreadsInv, Overheat \/ \E a \in Activities : Hang(a)
    PROVE  ThreadsInv'
  <1>1. hung' \subseteq Activities
    BY DEF Overheat, Hang, ThreadsInv, TypeOK
  <1>2. hot' \in BOOLEAN
    BY DEF Overheat, Hang, ThreadsInv, TypeOK
  <1>3. UNCHANGED <<mode, tripped, fresh, sem, pid, out, wd, pulses>>
    BY DEF Overheat, Hang
  <1> QED
    BY <1>1, <1>2, <1>3
    DEF ThreadsInv, TypeOK, BootInv, LatchInv, LatchesAgree, HealthInv, OneStrayHealthPulse,
        AgeInv

\* A counter that advances is new to each of its readers.
LEMMA IncrementType ==
    ASSUME TypeOK, NEW c \in Counters, Increment(c)
    PROVE  /\ fresh' \in [DOMAIN Watched -> SUBSET Counters]
           /\ "pid" \in fresh'.output => "pid" \in fresh.output \/ c = "pid"
  BY DEF TypeOK, Increment, Watched, Counters

LEMMA TickStep ==
    ASSUME ThreadsInv, Tick
    PROVE  ThreadsInv'
  <1>1. TypeOK'
    BY IncrementType DEF Tick, ThreadsInv, TypeOK, Counters
  <1>2. AgeInv'
    BY IncrementType DEF Tick, ThreadsInv, AgeInv, Counters
  <1> QED
    BY <1>1, <1>2
    DEF Tick, Runs, Up, ThreadsInv, BootInv, LatchInv, LatchesAgree, HealthInv,
        OneStrayHealthPulse

LEMMA PidReleaseStep ==
    ASSUME ThreadsInv, NEW late \in BOOLEAN, PidRelease(late)
    PROVE  ThreadsInv'
  <1>1. TypeOK'
    BY DEF PidRelease, RaiseIf, Runs, Up, ThreadsInv, TypeOK
  <1>2. UNCHANGED <<fresh, hung, out, wd, pulses>> /\ (tripped => tripped') /\ Up /\ Up'
    BY DEF PidRelease, RaiseIf, Runs, Up, ThreadsInv, TypeOK
  <1>3. BootInv'
    BY <1>2 DEF BootInv, Up
  <1>4. LatchesAgree'
    BY DEF PidRelease, RaiseIf, Runs, Up, ThreadsInv, LatchesAgree
  <1>5. LatchInv' /\ HealthInv' /\ OneStrayHealthPulse' /\ AgeInv'
    BY <1>2 DEF ThreadsInv, LatchInv, HealthInv, OneStrayHealthPulse, AgeInv
  <1> QED
    BY <1>1, <1>3, <1>4, <1>5 DEF ThreadsInv

LEMMA PidReadAStep ==
    ASSUME ThreadsInv, NEW ok \in BOOLEAN, PidReadA(ok)
    PROVE  ThreadsInv'
  <1>1. TypeOK'
    BY DEF PidReadA, RaiseIf, Runs, Up, ThreadsInv, TypeOK
  <1>2. UNCHANGED <<fresh, hung, out, wd, pulses>> /\ (tripped => tripped') /\ Up /\ Up'
    BY DEF PidReadA, RaiseIf, Runs, Up, ThreadsInv, TypeOK
  <1>3. BootInv'
    BY <1>2 DEF BootInv, Up
  <1>4. LatchesAgree'
    BY DEF PidReadA, RaiseIf, Runs, Up, ThreadsInv, LatchesAgree
  <1>5. LatchInv' /\ HealthInv' /\ OneStrayHealthPulse' /\ AgeInv'
    BY <1>2 DEF ThreadsInv, LatchInv, HealthInv, OneStrayHealthPulse, AgeInv
  <1> QED
    BY <1>1, <1>3, <1>4, <1>5 DEF ThreadsInv

LEMMA PidReadBStep ==
    ASSUME ThreadsInv, NEW ok \in BOOLEAN, PidReadB(ok)
    PROVE  ThreadsInv'
  <1>1. TypeOK'
    <2>1. fresh' \in [DOMAIN Watched -> SUBSET Counters]
      BY IncrementType DEF PidReadB, ThreadsInv, Counters
    <2>2. tripped' \in BOOLEAN /\ mode' \in {"INIT", "DISARMED", "ARMED", "FAULTED"}
      BY DEF PidReadB, RaiseIf, OverLimit, ThreadsInv, TypeOK
    <2>3. pid' \in [at : {"wait", "reading_a", "reading_b"}, started : BOOLEAN,
                    aOk : BOOLEAN, active : BOOLEAN]
      <3> DEFINE act == pid.aOk /\ mode' = "ARMED" /\ ~tripped'
      <3>1. act \in BOOLEAN
        OBVIOUS
      <3>2. pid' = [pid EXCEPT !.at = "wait", !.aOk = FALSE, !.active = act]
        BY DEF PidReadB
      <3> HIDE DEF act
      <3> QED
        BY <3>1, <3>2 DEF ThreadsInv, TypeOK
    <2>4. pulses' \in [keepalive : 0 .. PulseCap, health : 0 .. PulseCap]
      BY LimitsAssumption DEF PidReadB, ThreadsInv, TypeOK
    <2> QED
      BY <2>1, <2>2, <2>3, <2>4 DEF PidReadB, ThreadsInv, TypeOK
  <1>2. AgeInv'
    BY LimitsAssumption DEF PidReadB, ThreadsInv, TypeOK, AgeInv, SmallerOf
  <1>3. pulses'.health = pulses.health
    BY DEF PidReadB, ThreadsInv, TypeOK
  <1>4. UNCHANGED <<out, wd>> /\ (tripped => tripped') /\ Up'
    BY DEF PidReadB, RaiseIf, OverLimit, Runs, Up, ThreadsInv, TypeOK
  <1>5. BootInv'
    BY <1>4 DEF BootInv, Up
  <1>6. LatchesAgree'
    BY DEF PidReadB, RaiseIf, Runs, Up, ThreadsInv, LatchesAgree
  <1>7. LatchInv' /\ HealthInv' /\ OneStrayHealthPulse'
    BY <1>3, <1>4 DEF ThreadsInv, LatchInv, HealthInv, OneStrayHealthPulse
  <1> QED
    BY <1>1, <1>2, <1>5, <1>6, <1>7 DEF ThreadsInv

LEMMA OutputStartStep ==
    ASSUME ThreadsInv, OutputStart
    PROVE  ThreadsInv'
  <1>1. TypeOK'
    BY DEF OutputStart, ThreadsInv, TypeOK, Watched
  <1> QED
    BY <1>1
    DEF OutputStart, Runs, Up, ThreadsInv, BootInv, LatchInv, LatchesAgree, HealthInv,
        OneStrayHealthPulse, AgeInv, TypeOK, Watched

\* Output's cycle: the age and the pulses grow together.
LEMMA OutputCycleStep ==
    ASSUME ThreadsInv, OutputCycle
    PROVE  ThreadsInv'
  <1> DEFINE advanced == "pid" \in fresh.output
             since == PidAge(advanced)
             stale == since > OutputPidLimit
             safe == tripped \/ stale \/ out.state = "SAFE"
             pulse == ~safe /\ mode = "ARMED"
  <1>1. since \in 0 .. OutputPidLimit + 1
    BY SmallerType, LimitsAssumption DEF ThreadsInv, TypeOK, PidAge, SmallerOf
  <1>2. /\ RaiseIf(stale)
        /\ out' = [out EXCEPT !.since = since, !.seen = @ \/ advanced,
                              !.state = IF safe THEN "SAFE" ELSE @]
        /\ pulses' = [pulses EXCEPT !.keepalive =
                        IF pulse THEN SmallerOf(@ + 1, PulseCap) ELSE @]
        /\ fresh' = [watchdog |-> fresh.watchdog \cup {"output"}, output |-> {}]
        /\ UNCHANGED <<hot, hung, sem, pid, wd>>
        /\ Up
    BY DEF OutputCycle, Runs
  <1>3. AgeInv'
    <2>1. "pid" \notin fresh'.output
      BY <1>2
    <2>2. ASSUME out'.seen PROVE pulses'.keepalive <= SmallerOf(since, OutputPidLimit) + 1
      <3>1. CASE advanced
        BY <1>2, <3>1, LimitsAssumption DEF PidAge, SmallerOf, ThreadsInv, TypeOK, AgeInv
      <3>2. CASE ~advanced
        <4>1. out.seen
          BY <1>2, <2>2, <3>2 DEF ThreadsInv, TypeOK
        <4> QED
          BY <1>2, <3>2, <4>1, LimitsAssumption
          DEF PidAge, SmallerOf, ThreadsInv, TypeOK, AgeInv
      <3> QED
        BY <3>1, <3>2
    <2>3. out'.since = since
      BY <1>2 DEF ThreadsInv, TypeOK
    <2> QED
      BY <2>1, <2>2, <2>3 DEF AgeInv
  <1> HIDE DEF since
  <1>4. TypeOK'
    <2>1. out' \in [running : BOOLEAN, state : {"RUN", "SAFE"},
                    since : 0 .. OutputPidLimit + 1, seen : BOOLEAN]
      BY <1>1, <1>2 DEF ThreadsInv, TypeOK
    <2>2. pulses' \in [keepalive : 0 .. PulseCap, health : 0 .. PulseCap]
      BY <1>2, LimitsAssumption DEF ThreadsInv, TypeOK, SmallerOf
    <2>3. fresh' \in [DOMAIN Watched -> SUBSET Counters]
      BY <1>2 DEF ThreadsInv, TypeOK, Watched, Counters
    <2> QED
      BY <1>2, <2>1, <2>2, <2>3 DEF RaiseIf, ThreadsInv, TypeOK
  <1>5. pulses'.health = pulses.health
    BY <1>2 DEF ThreadsInv, TypeOK
  <1>6. out'.state = "SAFE" => tripped \/ stale
    BY <1>2 DEF ThreadsInv, TypeOK, LatchesAgree
  <1> QED
    BY <1>2, <1>3, <1>4, <1>5, <1>6
    DEF RaiseIf, Up, ThreadsInv, BootInv, LatchInv, LatchesAgree, HealthInv,
        OneStrayHealthPulse, TypeOK

LEMMA WdBeginStep ==
    ASSUME ThreadsInv, WdBegin
    PROVE  ThreadsInv'
  <1>1. TypeOK'
    <2>1. wd.at = <<"start", wd.at[2]>> /\ wd.at[2] \in 1 .. 3
      BY DEF WdBegin, WdAt, ThreadsInv, TypeOK, WdSteps
    <2>2. wd'.at \in WdSteps /\ wd'.stale = wd.stale
      BY <2>1 DEF WdBegin, ThreadsInv, TypeOK, WdSteps
    <2>3. /\ fresh' \in [DOMAIN Watched -> SUBSET Counters]
          /\ wd' \in [at : WdSteps, stale : [Counters -> Nat]]
      BY <2>2 DEF WdBegin, ThreadsInv, TypeOK, Watched
    <2> QED
      BY <2>2, <2>3 DEF WdBegin, ThreadsInv, TypeOK
  <1> QED
    BY <1>1
    DEF WdBegin, WdAt, Runs, Up, ThreadsInv, BootInv, LatchInv, LatchesAgree, HealthInv,
        OneStrayHealthPulse, AgeInv, TypeOK, Watched

LEMMA WdReadStep ==
    ASSUME ThreadsInv, WdRead
    PROVE  ThreadsInv'
  <1> DEFINE i == wd.at[2]
             c == Reads[i]
             age == IF c \in fresh.watchdog THEN 0
                    ELSE SmallerOf(wd.stale[c] + 1, StaleLimit[c] + 1)
             stale == [wd.stale EXCEPT ![c] = age]
             at == IF i = 3 THEN RaiseFrom(stale, 1) ELSE <<"read", i + 1>>
  <1>1. i \in 1 .. 3 /\ c \in Counters
    BY DEF WdRead, WdAt, ThreadsInv, TypeOK, WdSteps, Reads, Counters
  <1>2. /\ wd' = [at |-> at, stale |-> stale]
        /\ fresh' = [fresh EXCEPT !.watchdog = @ \ {c}]
        /\ Up
    BY DEF WdRead, WdAt, Runs
  <1> HIDE DEF i, c
  <1>3. age \in 0 .. StaleLimit[c] + 1
    BY <1>1, LimitsAssumption DEF ThreadsInv, TypeOK, SmallerOf
  <1> HIDE DEF age
  <1>4. stale \in [Counters -> Nat] /\ \A d \in Counters : stale[d] <= StaleLimit[d] + 1
    BY <1>1, <1>3, LimitsAssumption DEF ThreadsInv, TypeOK
  <1> HIDE DEF stale
  <1>5. at \in WdSteps /\ at[1] \notin {"latch", "pulse"}
    <2>1. CASE i = 3
      BY <1>4, <2>1, RaiseFromType
    <2>2. CASE i # 3
      BY <1>1, <2>2 DEF WdSteps
    <2> QED
      BY <2>1, <2>2
  <1> HIDE DEF at
  <1>6. /\ fresh' \in [DOMAIN Watched -> SUBSET Counters]
        /\ fresh'.output = fresh.output
    BY <1>2 DEF ThreadsInv, TypeOK, Watched
  <1>7. wd'.at = at /\ wd' \in [at : WdSteps, stale : [Counters -> Nat]] /\ wd'.stale = stale
    BY <1>2, <1>4, <1>5
  <1>8. UNCHANGED <<mode, tripped, hot, hung, sem, pid, out, pulses>> /\ wd.at[1] = "read"
    BY DEF WdRead, WdAt
  <1>9. TypeOK'
    BY <1>4, <1>6, <1>7, <1>8 DEF ThreadsInv, TypeOK
  <1> QED
    BY <1>2, <1>5, <1>6, <1>7, <1>8, <1>9
    DEF Up, ThreadsInv, BootInv, LatchInv, LatchesAgree, HealthInv, OneStrayHealthPulse, AgeInv

LEMMA WdRaiseStep ==
    ASSUME ThreadsInv, WdRaise
    PROVE  ThreadsInv'
  <1>1. wd.at[2] \in 1 .. 3
    BY DEF WdRaise, WdAt, ThreadsInv, TypeOK, WdSteps
  <1>2. TypeOK'
    BY <1>1 DEF WdRaise, ThreadsInv, TypeOK, WdSteps
  <1> QED
    BY <1>1, <1>2
    DEF WdRaise, WdAt, Runs, Up, ThreadsInv, BootInv, LatchInv, LatchesAgree, HealthInv,
        OneStrayHealthPulse, AgeInv, TypeOK

LEMMA WdLatchStep ==
    ASSUME ThreadsInv, WdLatch
    PROVE  ThreadsInv'
  <1> DEFINE at == RaiseFrom(wd.stale, wd.at[2] + 1)
  <1>1. wd.at[2] + 1 \in 1 .. 4
    BY DEF WdLatch, WdAt, ThreadsInv, TypeOK, WdSteps
  <1>2. at \in WdSteps /\ at[1] \notin {"latch", "pulse"}
    BY <1>1, RaiseFromType DEF ThreadsInv, TypeOK
  <1>3. wd' = [wd EXCEPT !.at = at]
    BY DEF WdLatch
  <1> HIDE DEF at
  <1>4. TypeOK'
    BY <1>2, <1>3 DEF WdLatch, ThreadsInv, TypeOK
  <1> QED
    BY <1>2, <1>3, <1>4
    DEF WdLatch, WdAt, Runs, Up, ThreadsInv, BootInv, LatchInv, LatchesAgree, HealthInv,
        OneStrayHealthPulse, AgeInv, TypeOK

\* A trip between the decision and the pulse makes the one stray pulse; after
\* it the Watchdog decides against the next.
LEMMA WdDecideStep ==
    ASSUME ThreadsInv, WdDecide
    PROVE  ThreadsInv'
  <1>1. TypeOK'
    BY DEF WdDecide, ThreadsInv, TypeOK, WdSteps
  <1> QED
    BY <1>1
    DEF WdDecide, WdAt, Runs, Up, ThreadsInv, BootInv, LatchInv, LatchesAgree, HealthInv,
        OneStrayHealthPulse, AgeInv, TypeOK

LEMMA WdPulseStep ==
    ASSUME ThreadsInv, WdPulse
    PROVE  ThreadsInv'
  <1>1. pulses' \in [keepalive : 0 .. PulseCap, health : 0 .. PulseCap]
    BY LimitsAssumption DEF WdPulse, ThreadsInv, TypeOK, SmallerOf
  <1>2. TypeOK'
    BY <1>1 DEF WdPulse, ThreadsInv, TypeOK, WdSteps
  <1>3. /\ pulses'.keepalive = pulses.keepalive
        /\ pulses'.health # 0 => tripped
        /\ pulses'.health <= 1
    BY LimitsAssumption
    DEF WdPulse, WdAt, ThreadsInv, TypeOK, HealthInv, OneStrayHealthPulse, SmallerOf
  <1> QED
    BY <1>2, <1>3
    DEF WdPulse, WdAt, Runs, Up, ThreadsInv, BootInv, LatchInv, LatchesAgree, HealthInv,
        OneStrayHealthPulse, AgeInv, TypeOK

LEMMA InvNext == ThreadsInv /\ [Next]_threadVars => ThreadsInv'
  <1> SUFFICES ASSUME ThreadsInv, [Next]_threadVars PROVE ThreadsInv'
    OBVIOUS
  <1>1. CASE PidStep
    BY <1>1, PidReleaseStep, PidReadAStep, PidReadBStep DEF PidStep
  <1>2. CASE OutputStep
    BY <1>2, OutputStartStep, OutputCycleStep DEF OutputStep
  <1>3. CASE WdStep
    BY <1>3, WdBeginStep, WdReadStep, WdRaiseStep, WdLatchStep, WdDecideStep, WdPulseStep
    DEF WdStep
  <1>4. CASE Operator
    BY <1>4, OperatorSteps DEF Operator
  <1>5. CASE Environment
    BY <1>5, EnvironmentSteps, ResetStep DEF Environment
  <1>6. CASE UNCHANGED threadVars
    BY <1>6 DEF threadVars, ThreadsInv, TypeOK, BootInv, LatchInv, LatchesAgree, HealthInv,
                OneStrayHealthPulse, AgeInv
  <1> QED
    BY <1>1, <1>2, <1>3, <1>4, <1>5, <1>6, BootSteps, TickStep DEF Next

\* The inductive strengthening that the theorems below project from.
THEOREM ThreadsInvariant == Spec => []ThreadsInv
  BY InvInit, InvNext, PTL DEF Spec

(***************************************************************************)
(* Theorems                                                                *)
(***************************************************************************)

\* The types, for every limit: no age outgrows its saturation (PROVES TypeOK).
THEOREM ThreadTypes == Spec => []TypeOK
  <1>1. ThreadsInv => TypeOK
    BY DEF ThreadsInv
  <1> QED
    BY <1>1, ThreadsInvariant, PTL

\* The fault word, the state machine and Output's own latch never contradict
\* each other, however late the threads and wherever the Watchdog is preempted
\* (PROVES LatchesAgree).
THEOREM ThreadLatchesAgree == Spec => []LatchesAgree
  <1>1. ThreadsInv => LatchesAgree
    BY DEF ThreadsInv
  <1> QED
    BY <1>1, ThreadsInvariant, PTL

\* No thread can make the Watchdog pulse twice after a trip
\* (PROVES OneStrayHealthPulse).
THEOREM OneStrayPulse == Spec => []OneStrayHealthPulse
  <1>1. ThreadsInv => OneStrayHealthPulse
    BY DEF ThreadsInv
  <1> QED
    BY <1>1, ThreadsInvariant, PTL

\* For every limit: after a first PID cycle the heater is kept enabled for no
\* more than OutputPidLimit + 1 pulses without another (PROVES KeepaliveNeedsPid).
THEOREM KeepaliveBounded == Spec => []KeepaliveNeedsPid
  <1>1. ThreadsInv => KeepaliveNeedsPid
    BY LimitsAssumption DEF ThreadsInv, TypeOK, AgeInv, KeepaliveNeedsPid, SmallerOf
  <1> QED
    BY <1>1, ThreadsInvariant, PTL

LEMMA OvenInit == Init => Oven!Init
  BY DEF Init, Oven!Init

LEMMA OvenNext == ThreadsInv /\ [Next]_threadVars => [Oven!Next]_(Oven!ovenVars)
  <1> SUFFICES ASSUME ThreadsInv, [Next]_threadVars PROVE Oven!Next \/ UNCHANGED Oven!ovenVars
    OBVIOUS
  <1> USE DEF Oven!Next, Oven!ovenVars
  <1> DEFINE Mapped == Oven!Next \/ UNCHANGED Oven!ovenVars
  <1>1. ASSUME NEW fault \in BOOLEAN, RaiseIf(fault) PROVE Mapped
    BY <1>1 DEF RaiseIf, ThreadsInv, TypeOK, Oven!Trip, Oven!Latch
  <1>2. ASSUME NEW faulted \in BOOLEAN, Boot(faulted) PROVE Mapped
    <2>1. tripped = FALSE
      BY <1>2 DEF Boot, ThreadsInv, TypeOK, BootInv
    <2>2. CASE faulted = TRUE
      BY <1>2, <2>1, <2>2 DEF Boot, Oven!Trip
    <2>3. CASE faulted = FALSE
      BY <1>2, <2>1, <2>3 DEF Boot, Oven!BootOk
    <2> QED
      BY <2>2, <2>3
  <1>3. CASE PidStep
    <2>1. ASSUME NEW late \in BOOLEAN, PidRelease(late) PROVE Mapped
      BY <1>1, <2>1 DEF PidRelease
    <2>2. ASSUME NEW ok \in BOOLEAN, PidReadA(ok) PROVE Mapped
      <3>1. RaiseIf(~ok) /\ (~ok) \in BOOLEAN
        BY <2>2 DEF PidReadA
      <3> QED
        BY <1>1, <3>1
    <2>3. ASSUME NEW ok \in BOOLEAN, PidReadB(ok) PROVE Mapped
      <3>1. RaiseIf(~ok \/ OverLimit(ok)) /\ (~ok \/ OverLimit(ok)) \in BOOLEAN
        BY <2>3 DEF PidReadB
      <3> QED
        BY <1>1, <3>1
    <2> QED
      BY <1>3, <2>1, <2>2, <2>3 DEF PidStep
  <1>4. CASE OutputCycle
    <2> DEFINE stale == PidAge("pid" \in fresh.output) > OutputPidLimit
    <2>1. RaiseIf(stale)
      BY <1>4 DEF OutputCycle
    <2>2. stale \in BOOLEAN
      OBVIOUS
    <2> HIDE DEF stale
    <2> QED
      BY <1>1, <2>1, <2>2
  <1>5. CASE WdRaise
    BY <1>5 DEF WdRaise, ThreadsInv, TypeOK, Oven!Trip
  <1>6. CASE WdLatch
    BY <1>6 DEF WdLatch, WdAt, ThreadsInv, LatchInv, Oven!Latch
  <1>7. CASE Operator
    BY <1>7 DEF Operator, Arm, Disarm, Oven!Arm, Oven!Disarm
  <1>8. CASE Reset
    BY <1>8 DEF Reset, Oven!Reset
  <1>9. CASE \/ Tick \/ OutputStart \/ WdBegin \/ WdRead \/ WdDecide \/ WdPulse
             \/ Overheat \/ (\E a \in Activities : Hang(a)) \/ UNCHANGED threadVars
    BY <1>9 DEF Tick, OutputStart, WdBegin, WdRead, WdDecide, WdPulse, Overheat, Hang,
                threadVars
  <1> QED
    BY <1>2, <1>3, <1>4, <1>5, <1>6, <1>7, <1>8, <1>9
    DEF Next, OutputStep, WdStep, Environment

\* The threads, composed over the latch, keep its promise: a trip is irrevocable
\* until a reset, and nothing arms past one (PROVES ImplementsOvenState).
THEOREM ThreadsImplementOvenState == Spec => ImplementsOvenState
  BY ThreadsInvariant, OvenInit, OvenNext, PTL DEF Spec, ImplementsOvenState, Oven!Spec
=============================================================================
