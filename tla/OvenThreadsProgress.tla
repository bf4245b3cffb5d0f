------------------------ MODULE OvenThreadsProgress ------------------------
(***************************************************************************)
(* Why the three cutoffs of OvenThreads come, for every limit: a quantity  *)
(* that no step increases and each step of the thread concerned decreases, *)
(* until the heater is off or the oven has tripped.  It bounds how often   *)
(* that thread still has to run; that it does run is the fairness under    *)
(* which OutputCutsOff, WatchdogCutsOff and HotEndsOff are checked.        *)
(***************************************************************************)
EXTENDS OvenThreadsProofs

(***************************************************************************)
(* Output misses PID                                                       *)
(***************************************************************************)

\* Output has seen PID, and PID or what releases it has stopped.
Orphaned == /\ Up /\ out.seen /\ hung \cap {"pid", "timer"} # {}
            /\ "output" \notin hung /\ out.state = "RUN"

\* The cycles PID can still complete once its timer has stopped.
PidCyclesLeft == IF "pid" \in hung THEN 0
                 ELSE sem + (IF pid.at = "wait" THEN 0 ELSE 1)

\* The cycles Output can still make before it closes its latch.
OutCyclesLeft ==
    PidCyclesLeft * (OutputPidLimit + 2)
      + (IF "pid" \in fresh.output THEN OutputPidLimit + 2
         ELSE OutputPidLimit + 1 - out.since)

\* While Output is short of PID cycles the heater goes off, or Output has no more
\* cycles left than before, and fewer after each of its own.
OutputRunsOut ==
    Orphaned /\ ~HeaterOff'
      => /\ Orphaned' /\ OutCyclesLeft' <= OutCyclesLeft
         /\ OutputCycle => OutCyclesLeft' < OutCyclesLeft

\* A running Output has not found PID stale.
RunInv == out.state = "RUN" => out.since <= OutputPidLimit

LEMMA RunNext == ThreadsInv /\ RunInv /\ [Next]_threadVars => RunInv'
  <1> SUFFICES ASSUME ThreadsInv, RunInv, [Next]_threadVars PROVE RunInv'
    OBVIOUS
  <1>1. CASE OutputCycle
    <2> DEFINE since == PidAge("pid" \in fresh.output)
               safe == tripped \/ since > OutputPidLimit \/ out.state = "SAFE"
    <2>1. /\ out'.since = since
          /\ out'.state = IF safe THEN "SAFE" ELSE out.state
      BY <1>1 DEF OutputCycle, ThreadsInv, TypeOK
    <2>2. since \in Nat
      BY SmallerType, LimitsAssumption DEF ThreadsInv, TypeOK, PidAge, SmallerOf
    <2> HIDE DEF since
    <2> QED
      BY <2>1, <2>2, LimitsAssumption DEF RunInv
  <1>2. CASE Reset
    BY <1>2, LimitsAssumption DEF Reset, OutStart, RunInv
  <1>3. CASE OutputStart
    BY <1>3 DEF OutputStart, RunInv, ThreadsInv, TypeOK
  <1>4. CASE UNCHANGED out
    BY <1>4 DEF RunInv
  <1> QED
    BY <1>1, <1>2, <1>3, <1>4
    DEF Next, Boot, Tick, PidStep, PidRelease, PidReadA, PidReadB, OutputStep, WdStep, WdBegin,
        WdRead, WdRaise, WdLatch, WdDecide, WdPulse, Operator, Arm, Disarm, Environment,
        Overheat, Hang, threadVars

LEMMA OutCyclesRange ==
    ASSUME ThreadsInv, RunInv, Orphaned
    PROVE  /\ OutCyclesLeft \in 1 .. 3 * (OutputPidLimit + 2)
           /\ PidCyclesLeft \in 0 .. 2
           /\ out.since \in 0 .. OutputPidLimit
  <1>1. PidCyclesLeft \in 0 .. 2
    BY DEF ThreadsInv, TypeOK, PidCyclesLeft
  <1>2. out.since \in 0 .. OutputPidLimit
    BY LimitsAssumption DEF ThreadsInv, TypeOK, RunInv, Orphaned
  <1>3. CASE PidCyclesLeft = 0
    BY <1>2, <1>3, LimitsAssumption DEF OutCyclesLeft
  <1>4. CASE PidCyclesLeft = 1
    BY <1>2, <1>4, LimitsAssumption DEF OutCyclesLeft
  <1>5. CASE PidCyclesLeft = 2
    BY <1>2, <1>5, LimitsAssumption DEF OutCyclesLeft
  <1> QED
    BY <1>1, <1>2, <1>3, <1>4, <1>5

\* What Output's own next cycle makes of the count.
LEMMA OutputCycleRuns ==
    ASSUME ThreadsInv, RunInv, Orphaned, OutputCycle, ~HeaterOff'
    PROVE  /\ Orphaned'
           /\ OutCyclesLeft' < OutCyclesLeft /\ OutCyclesLeft' <= OutCyclesLeft
  <1> DEFINE since == PidAge("pid" \in fresh.output)
             safe == tripped \/ since > OutputPidLimit \/ out.state = "SAFE"
  <1>1. /\ out'.since = since
        /\ out'.state = IF safe THEN "SAFE" ELSE out.state
        /\ out'.seen
        /\ fresh'.output = {}
        /\ UNCHANGED <<hung, sem, pid>>
    BY DEF OutputCycle, Orphaned, ThreadsInv, TypeOK
  <1>2. out'.state = "RUN" /\ since <= OutputPidLimit /\ Up'
    <2>1. since \in Nat
      BY SmallerType, LimitsAssumption DEF ThreadsInv, TypeOK, PidAge, SmallerOf
    <2>2. ~safe /\ out'.state = "RUN" /\ Up'
      BY <1>1 DEF HeaterOff, Orphaned, Up
    <2> HIDE DEF since
    <2> QED
      BY <2>1, <2>2, LimitsAssumption
  <1>3. since = IF "pid" \in fresh.output THEN 0 ELSE out.since + 1
    BY <1>2, LimitsAssumption DEF PidAge, SmallerOf, Orphaned, ThreadsInv, TypeOK
  <1>4. PidCyclesLeft' = PidCyclesLeft
    BY <1>1 DEF PidCyclesLeft
  <1> HIDE DEF since
  <1> DEFINE rest == PidCyclesLeft * (OutputPidLimit + 2)
  <1>5. rest \in Nat /\ out.since \in Nat
    BY OutCyclesRange, LimitsAssumption
  <1>6. OutCyclesLeft' = rest + (OutputPidLimit + 1 - since)
    BY <1>1, <1>4, LimitsAssumption DEF OutCyclesLeft
  <1>7. OutCyclesLeft = rest + (IF "pid" \in fresh.output THEN OutputPidLimit + 2
                                ELSE OutputPidLimit + 1 - out.since)
    BY DEF OutCyclesLeft
  <1> HIDE DEF rest
  <1>8. OutCyclesLeft' < OutCyclesLeft /\ OutCyclesLeft' <= OutCyclesLeft
    BY <1>3, <1>5, <1>6, <1>7, LimitsAssumption
  <1> QED
    BY <1>1, <1>2, <1>8 DEF Orphaned

\* The end of a PID cycle uses up one of those left, and starts a new age.
LEMMA PidReadBRuns ==
    ASSUME ThreadsInv, RunInv, Orphaned, NEW ok \in BOOLEAN, PidReadB(ok)
    PROVE  Orphaned' /\ OutCyclesLeft' <= OutCyclesLeft
  <1>1. /\ pid.at = "reading_b" /\ "pid" \notin hung /\ pid'.at = "wait"
        /\ UNCHANGED <<hung, sem, out>> /\ Up'
        /\ "pid" \in fresh'.output
    BY DEF PidReadB, Runs, Up, RaiseIf, Increment, Watched, Counters, ThreadsInv, TypeOK
  <1>2. PidCyclesLeft' = PidCyclesLeft - 1 /\ PidCyclesLeft \in 1 .. 2
    BY <1>1 DEF PidCyclesLeft, ThreadsInv, TypeOK
  <1>3. OutCyclesLeft' = (PidCyclesLeft - 1) * (OutputPidLimit + 2) + (OutputPidLimit + 2)
    BY <1>1, <1>2 DEF OutCyclesLeft
  <1>4. out.since \in 0 .. OutputPidLimit
    BY OutCyclesRange
  <1>5. OutCyclesLeft' <= OutCyclesLeft
    <2>1. CASE PidCyclesLeft = 1
      BY <1>3, <1>4, <2>1, LimitsAssumption DEF OutCyclesLeft
    <2>2. CASE PidCyclesLeft = 2
      BY <1>3, <1>4, <2>2, LimitsAssumption DEF OutCyclesLeft
    <2> QED
      BY <1>2, <2>1, <2>2
  <1> QED
    BY <1>1, <1>5 DEF Orphaned

LEMMA TimesMonotone ==
    ASSUME NEW n \in Nat, NEW a \in 0 .. 2, NEW b \in 0 .. a
    PROVE  b * n \in Nat /\ a * n \in Nat /\ b * n <= a * n
  <1>1. a \in {0, 1, 2} /\ b \in {0, 1, 2} /\ b <= a
    OBVIOUS
  <1>2. 0 * n = 0 /\ 1 * n = n /\ 2 * n = n + n
    OBVIOUS
  <1>3. CASE a = 0
    BY <1>1, <1>2, <1>3
  <1>4. CASE a = 1
    BY <1>1, <1>2, <1>4
  <1>5. CASE a = 2
    BY <1>1, <1>2, <1>5
  <1> QED
    BY <1>1, <1>3, <1>4, <1>5

\* Steps that leave Output and what it reads alone, and no more cycles to PID.
LEMMA OthersRun ==
    ASSUME ThreadsInv, RunInv, Orphaned, Up', UNCHANGED out, "output" \notin hung',
           hung \subseteq hung', fresh'.output = fresh.output,
           PidCyclesLeft' \in 0 .. PidCyclesLeft
    PROVE  Orphaned' /\ OutCyclesLeft' <= OutCyclesLeft
  <1>1. PidCyclesLeft \in 0 .. 2 /\ out.since \in 0 .. OutputPidLimit
    BY OutCyclesRange
  <1>2. /\ PidCyclesLeft' * (OutputPidLimit + 2) <= PidCyclesLeft * (OutputPidLimit + 2)
        /\ PidCyclesLeft * (OutputPidLimit + 2) \in Nat
        /\ PidCyclesLeft' * (OutputPidLimit + 2) \in Nat
    <2>1. OutputPidLimit + 2 \in Nat
      BY LimitsAssumption
    <2> QED
      BY <1>1, <2>1, TimesMonotone, Zenon
  <1>4. OutCyclesLeft' <= OutCyclesLeft
    BY <1>1, <1>2, LimitsAssumption DEF OutCyclesLeft
  <1> QED
    BY <1>4 DEF Orphaned

LEMMA OutputRunsNext ==
    ThreadsInv /\ RunInv /\ [Next]_threadVars => OutputRunsOut
  <1> SUFFICES ASSUME ThreadsInv, RunInv, [Next]_threadVars, Orphaned, ~HeaterOff'
               PROVE  /\ Orphaned' /\ OutCyclesLeft' <= OutCyclesLeft
                      /\ OutputCycle => OutCyclesLeft' < OutCyclesLeft
    BY DEF OutputRunsOut
  <1>1. Up' /\ "output" \notin hung'
    BY DEF HeaterOff, Up
  <1>2. PidCyclesLeft \in Nat
    BY OutCyclesRange
  <1>3. CASE OutputCycle
    BY <1>3, OutputCycleRuns
  <1> DEFINE Rest == Orphaned' /\ OutCyclesLeft' <= OutCyclesLeft
  <1>4. ASSUME PidStep PROVE Rest
    <2>1. ASSUME NEW late \in BOOLEAN, PidRelease(late) PROVE Rest
      <3>1. PidCyclesLeft' = PidCyclesLeft
        BY <2>1 DEF PidRelease, PidCyclesLeft, ThreadsInv, TypeOK
      <3> QED
        BY <1>1, <1>2, <2>1, <3>1, OthersRun DEF PidRelease
    <2>2. ASSUME NEW ok \in BOOLEAN, PidReadA(ok) PROVE Rest
      <3>1. PidCyclesLeft' = PidCyclesLeft
        BY <2>2 DEF PidReadA, PidCyclesLeft, ThreadsInv, TypeOK
      <3> QED
        BY <1>1, <1>2, <2>2, <3>1, OthersRun DEF PidReadA
    <2>3. ASSUME NEW ok \in BOOLEAN, PidReadB(ok) PROVE Rest
      BY <2>3, PidReadBRuns
    <2> QED
      BY <1>4, <2>1, <2>2, <2>3 DEF PidStep
  <1>5. ASSUME Tick PROVE Rest
    <2>1. "pid" \in hung /\ "pid" \in hung'
      BY <1>5 DEF Tick, Runs, Orphaned
    <2>2. PidCyclesLeft' = 0 /\ PidCyclesLeft = 0
      BY <2>1 DEF PidCyclesLeft
    <2>3. fresh'.output = fresh.output
      BY <1>5 DEF Tick, Increment, Watched, Counters, ThreadsInv, TypeOK
    <2> QED
      <3>1. UNCHANGED out /\ hung \subseteq hung' /\ PidCyclesLeft' \in 0 .. PidCyclesLeft
        BY <1>5, <2>2 DEF Tick
      <3> QED
        BY <1>1, <2>3, <3>1, OthersRun
  <1>6. ASSUME OutputStart PROVE Rest
    <2>1. /\ fresh'.output = {} /\ UNCHANGED <<hung, sem, pid>>
          /\ out'.since = out.since /\ out'.seen = out.seen /\ out'.state = out.state
      BY <1>6 DEF OutputStart, ThreadsInv, TypeOK, Watched
    <2>2. PidCyclesLeft' = PidCyclesLeft
      BY <2>1 DEF PidCyclesLeft
    <2> DEFINE rest == PidCyclesLeft * (OutputPidLimit + 2)
    <2>3. rest \in Nat /\ out.since \in 0 .. OutputPidLimit
      BY OutCyclesRange, LimitsAssumption
    <2>4. OutCyclesLeft' = rest + (OutputPidLimit + 1 - out.since)
      BY <2>1, <2>2 DEF OutCyclesLeft
    <2>5. OutCyclesLeft = rest + (IF "pid" \in fresh.output THEN OutputPidLimit + 2
                                  ELSE OutputPidLimit + 1 - out.since)
      BY DEF OutCyclesLeft
    <2> HIDE DEF rest
    <2>6. OutCyclesLeft' <= OutCyclesLeft
      BY <2>3, <2>4, <2>5, LimitsAssumption
    <2> QED
      BY <1>1, <1>6, <2>1, <2>6 DEF Orphaned, OutputStart, OutputCycle
  <1>7. ASSUME WdStep \/ Operator \/ Overheat PROVE Rest
    <2>1. UNCHANGED <<hung, sem, pid, out>> /\ fresh'.output = fresh.output
      BY <1>7 DEF WdStep, WdBegin, WdRead, WdRaise, WdLatch, WdDecide, WdPulse, Operator, Arm,
                  Disarm, Overheat, ThreadsInv, TypeOK, Watched
    <2>2. PidCyclesLeft' = PidCyclesLeft
      BY <2>1 DEF PidCyclesLeft
    <2>3. UNCHANGED out /\ hung \subseteq hung' /\ PidCyclesLeft' \in 0 .. PidCyclesLeft
      BY <1>2, <2>1, <2>2
    <2>4. fresh'.output = fresh.output
      BY <2>1
    <2> QED
      BY <1>1, <2>3, <2>4, OthersRun
  <1>8. ASSUME NEW a \in Activities, Hang(a) PROVE Rest
    <2>1. hung \subseteq hung' /\ UNCHANGED <<sem, pid, out, fresh>>
      BY <1>8 DEF Hang
    <2>2. PidCyclesLeft' \in 0 .. PidCyclesLeft
      BY <1>2, <2>1 DEF PidCyclesLeft
    <2> QED
      BY <1>1, <2>1, <2>2, OthersRun
  <1>9. ASSUME UNCHANGED threadVars PROVE Rest
    <2>1. UNCHANGED <<hung, sem, pid, out, fresh>>
      BY <1>9 DEF threadVars
    <2>2. PidCyclesLeft' = PidCyclesLeft
      BY <2>1 DEF PidCyclesLeft
    <2>3. UNCHANGED out /\ hung \subseteq hung' /\ PidCyclesLeft' \in 0 .. PidCyclesLeft
      BY <1>2, <2>1, <2>2
    <2>4. fresh'.output = fresh.output
      BY <2>1
    <2> QED
      BY <1>1, <2>3, <2>4, OthersRun
  <1>10. ~Reset /\ ~(\E faulted \in BOOLEAN : Boot(faulted))
    BY DEF Reset, Boot, HeaterOff, Orphaned, Up
  <1>11. Rest
    BY <1>3, <1>4, <1>5, <1>6, <1>7, <1>8, <1>9, <1>10 DEF Next, OutputStep, Environment
  <1> QED
    BY <1>3, <1>11

(***************************************************************************)
(* The Watchdog misses a counter                                           *)
(***************************************************************************)

\* What advances counter c has stopped, the Watchdog has not, and nothing has tripped.
Starving(c) == Up /\ ~tripped /\ c \in hung /\ "watchdog" \notin hung

\* Where a cycle reads counter c: the inverse of Reads.
Place == [pid |-> 1, output |-> 2, timer |-> 3]

\* The readings that still have to find c unchanged before it is stale.
ReadingsLeft(c) == IF c \in fresh.watchdog THEN StaleLimit[c] + 2
                   ELSE StaleLimit[c] + 1 - wd.stale[c]

\* The steps from here to the next of them, through a decision and a pulse.
StepsToReading(c) ==
    CASE wd.at[1] = "read" -> IF wd.at[2] <= Place[c] THEN Place[c] + 1 - wd.at[2]
                              ELSE Place[c] + 6 - wd.at[2]
      [] wd.at[1] = "start" -> Place[c] + 4 - wd.at[2]
      [] wd.at[1] = "decide" -> Place[c] + 2
      [] OTHER -> Place[c] + 1

\* The steps the Watchdog can still make before it trips the oven.
WdStepsLeft(c) ==
    IF wd.at[1] = "raise" THEN 1
    ELSE IF ReadingsLeft(c) = 0 THEN 5 - wd.at[2]
    ELSE 6 * ReadingsLeft(c) + StepsToReading(c)

\* While counter c starves the oven trips, the Watchdog stops, or it has no more
\* steps left than before, and fewer after each of its own.
WatchdogRunsOut(c) ==
    Starving(c) /\ Up' /\ ~tripped' /\ "watchdog" \notin hung'
      => /\ Starving(c)' /\ WdStepsLeft(c)' <= WdStepsLeft(c)
         /\ WdStep => WdStepsLeft(c)' < WdStepsLeft(c)

\* A counter found stale is raised in the same cycle.
StaleInv == ~tripped =>
    \A c \in Counters : Stale(wd.stale, c) =>
        \/ wd.at[1] = "raise"
        \/ wd.at[1] = "read" /\ Place[c] < wd.at[2]

LEMMA RaiseFromFirst ==
    ASSUME NEW s \in [Counters -> Nat]
    PROVE  /\ (\E c \in Counters : Stale(s, c)) => RaiseFrom(s, 1)[1] = "raise"
           /\ (\A c \in Counters : ~Stale(s, c)) => RaiseFrom(s, 1) = <<"decide", 0>>
  <1> DEFINE due == {k \in 1 .. 3 : Stale(s, Raises[k])}
  <1>1. \A k \in 1 .. 3 : Raises[k] \in Counters
    BY DEF Raises, Counters
  <1>2. \A c \in Counters : \E k \in 1 .. 3 : Raises[k] = c
    BY DEF Raises, Counters
  <1>3. CASE \E c \in Counters : Stale(s, c)
    <2>1. due # {}
      BY <1>2, <1>3
    <2> QED
      BY <1>3, <2>1 DEF RaiseFrom
  <1>4. CASE \A c \in Counters : ~Stale(s, c)
    <2>1. due = {}
      BY <1>1, <1>4
    <2> QED
      BY <1>4, <2>1 DEF RaiseFrom
  <1> QED
    BY <1>3, <1>4

\* What one read does: the count of its counter, and where it leads.
LEMMA WdReadFacts ==
    ASSUME ThreadsInv, StaleInv, WdRead, ~tripped,
           NEW i, i = wd.at[2], NEW r, r = Reads[i]
    PROVE  /\ i \in 1 .. 3 /\ r \in Counters /\ Place[r] = i
           /\ wd.at = <<"read", i>>
           /\ fresh'.watchdog = fresh.watchdog \ {r}
           /\ wd'.stale \in [Counters -> Nat]
           /\ wd'.stale = [wd.stale EXCEPT ![r] =
                  IF r \in fresh.watchdog THEN 0 ELSE wd.stale[r] + 1]
           /\ i < 3 => wd'.at = <<"read", i + 1>>
           /\ i = 3 => \/ wd'.at[1] = "raise"
                       \/ wd'.at = <<"decide", 0>> /\ \A c \in Counters : ~Stale(wd'.stale, c)
  <1>1. i \in 1 .. 3 /\ r \in Counters /\ Place[r] = i /\ wd.at = <<"read", i>>
    BY DEF WdRead, WdAt, ThreadsInv, TypeOK, WdSteps, Reads, Counters, Place
  <1>2. wd.stale \in [Counters -> Nat] /\ StaleLimit \in [Counters -> Nat]
    BY LimitsAssumption DEF ThreadsInv, TypeOK
  <1>3. wd.stale[r] <= StaleLimit[r]
    BY <1>1, <1>2 DEF StaleInv, Stale
  <1>4. SmallerOf(wd.stale[r] + 1, StaleLimit[r] + 1) = wd.stale[r] + 1
    BY <1>1, <1>2, <1>3 DEF SmallerOf
  <1> DEFINE stale == [wd.stale EXCEPT ![r] = IF r \in fresh.watchdog THEN 0
                                              ELSE wd.stale[r] + 1]
  <1>5. /\ wd' = [at |-> IF i = 3 THEN RaiseFrom(stale, 1) ELSE <<"read", i + 1>>,
                  stale |-> stale]
        /\ fresh' = [fresh EXCEPT !.watchdog = @ \ {r}]
    BY <1>4 DEF WdRead
  <1>6. stale \in [Counters -> Nat]
    BY <1>1, <1>2
  <1>7. fresh'.watchdog = fresh.watchdog \ {r}
    BY <1>5 DEF ThreadsInv, TypeOK, Watched
  <1> HIDE DEF stale
  <1>8. i = 3 => \/ wd'.at[1] = "raise"
                 \/ wd'.at = <<"decide", 0>> /\ \A c \in Counters : ~Stale(wd'.stale, c)
    BY <1>5, <1>6, RaiseFromFirst
  <1>9. wd'.stale = stale /\ (i < 3 => wd'.at = <<"read", i + 1>>)
    BY <1>5
  <1>10. wd'.stale \in [Counters -> Nat]
    BY <1>6, <1>9
  <1>11. wd'.stale = [wd.stale EXCEPT ![r] =
                         IF r \in fresh.watchdog THEN 0 ELSE wd.stale[r] + 1]
    BY <1>9 DEF stale
  <1> QED
    BY <1>1, <1>7, <1>8, <1>9, <1>10, <1>11

LEMMA StaleNext == ThreadsInv /\ StaleInv /\ [Next]_threadVars => StaleInv'
  <1> SUFFICES ASSUME ThreadsInv, StaleInv, [Next]_threadVars, ~tripped' PROVE StaleInv'
    BY DEF StaleInv
  <1>1. CASE WdRead
    <2>1. ~tripped
      BY <1>1 DEF WdRead
    <2> DEFINE i == wd.at[2]
               r == Reads[i]
    <2>2. /\ i \in 1 .. 3 /\ r \in Counters /\ Place[r] = i
          /\ wd.at = <<"read", i>>
          /\ wd'.stale = [wd.stale EXCEPT ![r] =
                 IF r \in fresh.watchdog THEN 0 ELSE wd.stale[r] + 1]
          /\ i < 3 => wd'.at = <<"read", i + 1>>
          /\ i = 3 => \/ wd'.at[1] = "raise"
                      \/ \A c \in Counters : ~Stale(wd'.stale, c)
      BY <1>1, <2>1, WdReadFacts
    <2> HIDE DEF i, r
    <2>3. CASE i < 3
      <3> SUFFICES ASSUME NEW c \in Counters, Stale(wd'.stale, c)
                   PROVE  Place[c] < i + 1
        BY <2>2, <2>3 DEF StaleInv
      <3>1. CASE c = r
        BY <2>2, <3>1
      <3>2. CASE c # r
        <4>1. Stale(wd.stale, c)
          BY <2>2, <3>2 DEF Stale, ThreadsInv, TypeOK
        <4>2. Place[c] < i
          BY <2>1, <2>2, <4>1 DEF StaleInv
        <4> QED
          BY <2>2, <4>2 DEF Place, Counters
      <3> QED
        BY <3>1, <3>2
    <2>4. CASE i = 3
      BY <2>2, <2>4 DEF StaleInv
    <2> QED
      BY <2>2, <2>3, <2>4
  <1>2. CASE WdBegin \/ WdDecide \/ WdPulse
    <2>1. /\ ~tripped /\ wd.at[1] \notin {"read", "raise"} /\ wd'.stale = wd.stale
      BY <1>2 DEF WdBegin, WdDecide, WdPulse, WdAt, ThreadsInv, TypeOK
    <2> QED
      BY <2>1 DEF StaleInv
  <1>3. ~WdRaise /\ ~WdLatch
    BY DEF WdRaise, WdLatch, WdAt, ThreadsInv, LatchInv
  <1>4. ASSUME NEW faulted \in BOOLEAN, Boot(faulted) PROVE StaleInv'
    BY <1>4, LimitsAssumption DEF Boot, ThreadsInv, BootInv, WdStart, StaleInv, Stale
  <1>5. CASE Reset
    BY <1>5, LimitsAssumption DEF Reset, WdStart, StaleInv, Stale
  <1>6. ASSUME UNCHANGED wd, tripped => tripped' PROVE StaleInv'
    BY <1>6 DEF StaleInv
  <1>7. CASE PidStep
    BY <1>6, <1>7 DEF PidStep, PidRelease, PidReadA, PidReadB, RaiseIf
  <1>8. CASE OutputStep
    BY <1>6, <1>8 DEF OutputStep, OutputStart, OutputCycle, RaiseIf
  <1>9. CASE Tick \/ Operator \/ Overheat \/ (\E a \in Activities : Hang(a))
             \/ UNCHANGED threadVars
    BY <1>6, <1>9 DEF Tick, Operator, Arm, Disarm, Overheat, Hang, threadVars
  <1> QED
    BY <1>1, <1>2, <1>3, <1>4, <1>5, <1>7, <1>8, <1>9 DEF Next, WdStep, Environment

\* Where the Watchdog can be, and the bound on its steps, while c may starve.
WdRange(c) ==
    /\ ReadingsLeft(c) \in 0 .. StaleLimit[c] + 2
    /\ wd.at[1] # "latch"
    /\ ReadingsLeft(c) = 0 => \/ wd.at[1] = "raise"
                              \/ \E i \in 1 .. 3 : wd.at = <<"read", i>> /\ Place[c] < i
    /\ WdStepsLeft(c) \in 1 .. 6 * StaleLimit[c] + 18

LEMMA WdStepsRange ==
    ASSUME ThreadsInv, StaleInv, ~tripped, NEW c \in Counters
    PROVE  WdRange(c)
  <1>1. /\ wd.at \in WdSteps
        /\ wd.stale[c] \in 0 .. StaleLimit[c] + 1 /\ StaleLimit[c] \in Nat
    BY LimitsAssumption DEF ThreadsInv, TypeOK
  <1>2. ReadingsLeft(c) \in 0 .. StaleLimit[c] + 2
    BY <1>1 DEF ReadingsLeft
  <1>3. wd.at[1] # "latch"
    BY DEF ThreadsInv, LatchInv
  <1>4. ReadingsLeft(c) = 0 => \/ wd.at[1] = "raise"
                              \/ \E i \in 1 .. 3 : wd.at = <<"read", i>> /\ Place[c] < i
    <2>1. ReadingsLeft(c) = 0 => Stale(wd.stale, c)
      BY <1>1 DEF ReadingsLeft, Stale
    <2> QED
      BY <1>1, <2>1 DEF StaleInv, WdSteps
  <1>5. WdStepsLeft(c) \in 1 .. 6 * StaleLimit[c] + 18
    <2>1. Place[c] \in 1 .. 3
      BY DEF Place, Counters
    <2>2. StepsToReading(c) \in 1 .. 6
      BY <1>1, <2>1 DEF StepsToReading, WdSteps
    <2>3. CASE wd.at[1] = "raise"
      BY <1>1, <2>3 DEF WdStepsLeft
    <2>4. CASE wd.at[1] # "raise" /\ ReadingsLeft(c) = 0
      BY <1>1, <1>4, <2>4 DEF WdStepsLeft
    <2>5. CASE wd.at[1] # "raise" /\ ReadingsLeft(c) # 0
      BY <1>1, <1>2, <2>2, <2>5 DEF WdStepsLeft
    <2> QED
      BY <2>3, <2>4, <2>5
  <1> QED
    BY <1>2, <1>3, <1>4, <1>5 DEF WdRange

LEMMA WdStepsRangeNext ==
    ThreadsInv' /\ StaleInv' /\ ~tripped' => (\A c \in Counters : WdRange(c))'
  <1>1. ThreadsInv /\ StaleInv /\ ~tripped => \A c \in Counters : WdRange(c)
    BY WdStepsRange
  <1> QED
    BY <1>1, PTL

LEMMA WdReadRuns ==
    ASSUME ThreadsInv, StaleInv, StaleInv', ThreadsInv', WdRead, NEW c \in Counters, Starving(c)
    PROVE  WdStepsLeft(c)' < WdStepsLeft(c)
  <1>1. ~tripped /\ ~tripped'
    BY DEF Starving, WdRead
  <1> DEFINE i == wd.at[2]
             r == Reads[i]
  <1>2. /\ i \in 1 .. 3 /\ r \in Counters /\ Place[r] = i
        /\ wd.at = <<"read", i>>
        /\ fresh'.watchdog = fresh.watchdog \ {r}
        /\ wd'.stale \in [Counters -> Nat]
        /\ wd'.stale = [wd.stale EXCEPT ![r] =
               IF r \in fresh.watchdog THEN 0 ELSE wd.stale[r] + 1]
        /\ i < 3 => wd'.at = <<"read", i + 1>>
        /\ i = 3 => \/ wd'.at[1] = "raise"
                    \/ wd'.at = <<"decide", 0>> /\ \A d \in Counters : ~Stale(wd'.stale, d)
    BY <1>1, WdReadFacts
  <1> HIDE DEF i, r
  <1>3. /\ wd.stale \in [Counters -> Nat] /\ StaleLimit[c] \in Nat
        /\ Place[c] \in 1 .. 3 /\ (Place[c] = i => c = r)
    BY <1>2, LimitsAssumption DEF ThreadsInv, TypeOK, Place, Counters
  <1> DEFINE R == ReadingsLeft(c)
             S == ReadingsLeft(c)'
  <1>4. /\ R \in 0 .. StaleLimit[c] + 2 /\ S \in 0 .. StaleLimit[c] + 2
        /\ R = 0 => Place[c] < i
    BY <1>1, <1>2, WdStepsRange, WdStepsRangeNext DEF WdRange
  <1>5. S = IF c = r THEN R - 1 ELSE R
    BY <1>2, <1>3 DEF ReadingsLeft
  <1>6. WdStepsLeft(c) = IF R = 0 THEN 5 - i
                         ELSE 6 * R + (IF i <= Place[c] THEN Place[c] + 1 - i
                                       ELSE Place[c] + 6 - i)
    BY <1>2 DEF WdStepsLeft, StepsToReading
  <1>7. CASE i < 3
    <2>1. WdStepsLeft(c)' = IF S = 0 THEN 5 - (i + 1)
                            ELSE 6 * S + (IF i + 1 <= Place[c] THEN Place[c] + 1 - (i + 1)
                                          ELSE Place[c] + 6 - (i + 1))
      BY <1>2, <1>7 DEF WdStepsLeft, StepsToReading
    <2> HIDE DEF R, S
    <2> QED
      BY <1>2, <1>3, <1>4, <1>5, <1>6, <1>7, <2>1
  <1>8. CASE i = 3 /\ wd'.at[1] = "raise"
    <2>1. WdStepsLeft(c)' = 1
      BY <1>8 DEF WdStepsLeft
    <2> HIDE DEF R, S
    <2> QED
      BY <1>3, <1>4, <1>6, <1>8, <2>1
  <1>9. CASE i = 3 /\ wd'.at = <<"decide", 0>> /\ ~Stale(wd'.stale, c)
    <2>1. S # 0
      BY <1>1, <1>9, WdStepsRangeNext DEF WdRange
    <2>2. WdStepsLeft(c)' = 6 * S + (Place[c] + 2)
      BY <1>9, <2>1 DEF WdStepsLeft, StepsToReading
    <2> HIDE DEF R, S
    <2> QED
      BY <1>2, <1>3, <1>4, <1>5, <1>6, <1>9, <2>1, <2>2
  <1> QED
    BY <1>2, <1>7, <1>8, <1>9

\* The first readings.
LEMMA WdBeginRuns ==
    ASSUME ThreadsInv, StaleInv, WdBegin, NEW c \in Counters, Starving(c)
    PROVE  WdStepsLeft(c)' < WdStepsLeft(c)
  <1> DEFINE R == ReadingsLeft(c)
             S == ReadingsLeft(c)'
             i == wd.at[2]
  <1>1. /\ ~tripped /\ Place[c] \in 1 .. 3 /\ StaleLimit[c] \in Nat /\ wd.stale[c] \in Nat
        /\ wd.at[1] = "start" /\ i \in 1 .. 3
    BY LimitsAssumption
    DEF Starving, WdBegin, WdAt, Place, Counters, ThreadsInv, TypeOK, WdSteps
  <1>2. /\ wd'.stale = wd.stale /\ fresh'.watchdog \subseteq fresh.watchdog
        /\ wd'.at = IF i = 3 THEN <<"read", 1>> ELSE <<"start", i + 1>>
    BY DEF WdBegin, ThreadsInv, TypeOK, Watched
  <1>3. R \in 1 .. StaleLimit[c] + 2 /\ wd.stale[c] <= StaleLimit[c]
    <2>1. ~Stale(wd.stale, c)
      BY <1>1 DEF StaleInv
    <2>2. R \in 0 .. StaleLimit[c] + 2 /\ R # 0
      BY <1>1, WdStepsRange DEF WdRange
    <2> HIDE DEF R
    <2> QED
      BY <1>1, <2>1, <2>2 DEF Stale
  <1>4. S \in 1 .. R
    BY <1>1, <1>2, <1>3 DEF ReadingsLeft
  <1>5. WdStepsLeft(c) = 6 * R + (Place[c] + 4 - i)
    BY <1>1, <1>3 DEF WdStepsLeft, StepsToReading
  <1>6. WdStepsLeft(c)' = 6 * S + (Place[c] + 3 - i)
    <2>1. CASE i = 3
      <3>1. wd'.at = <<"read", 1>>
        BY <1>2, <2>1
      <3> QED
        BY <1>1, <1>4, <2>1, <3>1 DEF WdStepsLeft, StepsToReading
    <2>2. CASE i < 3
      <3>1. wd'.at = <<"start", i + 1>>
        BY <1>2, <2>2
      <3> QED
        BY <1>1, <1>4, <2>2, <3>1 DEF WdStepsLeft, StepsToReading
    <2> QED
      BY <1>1, <2>1, <2>2
  <1> HIDE DEF R, S, i
  <1> QED
    BY <1>1, <1>3, <1>4, <1>5, <1>6

\* The steps between two rounds of readings.
LEMMA WdOtherRuns ==
    ASSUME ThreadsInv, StaleInv, WdDecide \/ WdPulse,
           NEW c \in Counters, Starving(c)
    PROVE  WdStepsLeft(c)' < WdStepsLeft(c)
  <1> DEFINE R == ReadingsLeft(c)
             S == ReadingsLeft(c)'
  <1>1. ~tripped /\ Place[c] \in 1 .. 3 /\ StaleLimit[c] \in Nat /\ wd.stale[c] \in Nat
    BY LimitsAssumption DEF Starving, Place, Counters, ThreadsInv, TypeOK
  <1>2. /\ wd'.stale = wd.stale
        /\ fresh'.watchdog = fresh.watchdog
    BY DEF WdDecide, WdPulse, ThreadsInv, TypeOK, Watched
  <1>3. R \in 1 .. StaleLimit[c] + 2 /\ wd.stale[c] <= StaleLimit[c]
    <2>1. wd.at[1] \notin {"raise", "read"}
      BY DEF WdDecide, WdPulse, WdAt
    <2>2. ~Stale(wd.stale, c)
      BY <1>1, <2>1 DEF StaleInv
    <2>3. R \in 0 .. StaleLimit[c] + 2 /\ R # 0
      BY <1>1, <2>1, WdStepsRange DEF WdRange
    <2> HIDE DEF R
    <2> QED
      BY <1>1, <2>2, <2>3 DEF Stale
  <1>4. S \in 1 .. R
    BY <1>1, <1>2, <1>3 DEF ReadingsLeft
  <1>5. WdStepsLeft(c) = 6 * R + Place[c] + (IF wd.at[1] = "decide" THEN 2 ELSE 1)
    BY <1>1, <1>3 DEF WdStepsLeft, StepsToReading, WdDecide, WdPulse, WdAt
  <1>6. WdStepsLeft(c)' = 6 * S + Place[c] + (IF wd'.at[1] = "pulse" THEN 1 ELSE 0)
    BY <1>1, <1>3, <1>4
    DEF WdStepsLeft, StepsToReading, Starving, WdDecide, WdPulse, WdAt, ThreadsInv, TypeOK
  <1>7. wd'.at[1] = "pulse" => wd.at[1] = "decide"
    BY DEF WdDecide, WdPulse, WdAt, ThreadsInv, TypeOK
  <1> HIDE DEF R, S
  <1> QED
    BY <1>1, <1>3, <1>4, <1>5, <1>6, <1>7

LEMMA WatchdogRunsNext ==
    ASSUME ThreadsInv, ThreadsInv', StaleInv, StaleInv', [Next]_threadVars, NEW c \in Counters
    PROVE  WatchdogRunsOut(c)
  <1> SUFFICES ASSUME Starving(c), Up', ~tripped', "watchdog" \notin hung'
               PROVE  /\ Starving(c)' /\ WdStepsLeft(c)' <= WdStepsLeft(c)
                      /\ WdStep => WdStepsLeft(c)' < WdStepsLeft(c)
    BY DEF WatchdogRunsOut
  <1>1. ~tripped /\ WdStepsLeft(c) \in Int /\ WdStepsLeft(c)' \in Int
    <2>1. ~tripped /\ StaleLimit[c] \in Nat
      BY LimitsAssumption DEF Starving
    <2> QED
      BY <2>1, WdStepsRange, WdStepsRangeNext DEF WdRange
  <1>2. hung \subseteq hung'
    BY DEF Next, Boot, Tick, PidStep, PidRelease, PidReadA, PidReadB, OutputStep, OutputStart,
           OutputCycle, WdStep, WdBegin, WdRead, WdRaise, WdLatch, WdDecide, WdPulse, Operator,
           Arm, Disarm, Environment, Overheat, Hang, Reset, Up, threadVars
  <1>3. Starving(c)'
    BY <1>2 DEF Starving
  <1>4. CASE WdStep
    <2>1. ~WdRaise /\ ~WdLatch
      BY <1>1 DEF WdRaise, WdLatch, WdAt, ThreadsInv, LatchInv
    <2>2. WdStepsLeft(c)' < WdStepsLeft(c)
      BY <1>4, <2>1, WdReadRuns, WdBeginRuns, WdOtherRuns DEF WdStep
    <2> QED
      BY <1>1, <1>3, <2>2
  <1>5. CASE ~WdStep
    <2>1. UNCHANGED wd
      BY <1>5 DEF Next, Boot, Tick, PidStep, PidRelease, PidReadA, PidReadB, OutputStep,
           OutputStart, OutputCycle, Operator, Arm, Disarm, Environment, Overheat, Hang, Reset,
           Up, threadVars
    <2>2. c \in fresh'.watchdog <=> c \in fresh.watchdog
      <3>1. CASE Tick
        BY <3>1 DEF Tick, Runs, Starving, Increment, Watched, ThreadsInv, TypeOK
      <3>2. CASE PidStep
        <4>1. ASSUME NEW ok \in BOOLEAN, PidReadB(ok) PROVE c # "pid" /\ Increment("pid")
          BY <4>1 DEF PidReadB, Runs, Starving
        <4>2. (c # "pid" /\ Increment("pid")) \/ UNCHANGED fresh
          BY <3>2, <4>1 DEF PidStep, PidRelease, PidReadA
        <4> QED
          BY <4>2 DEF Increment, Watched, ThreadsInv, TypeOK
      <3>3. CASE OutputStep
        BY <3>3 DEF OutputStep, OutputStart, OutputCycle, Runs, Starving, Watched, ThreadsInv,
                    TypeOK
      <3>4. CASE UNCHANGED fresh
        BY <3>4
      <3> QED
        BY <1>5, <3>1, <3>2, <3>3, <3>4
        DEF Next, Boot, Operator, Arm, Disarm, Environment, Overheat, Hang, Reset, Up, Starving,
            threadVars
    <2>3. WdStepsLeft(c)' = WdStepsLeft(c)
      BY <2>1, <2>2 DEF WdStepsLeft, ReadingsLeft, StepsToReading
    <2> QED
      BY <1>1, <1>3, <1>5, <2>3
  <1> QED
    BY <1>4, <1>5

(***************************************************************************)
(* PID finds zone B hot                                                    *)
(***************************************************************************)

\* The steps of a PID cycle up to the one that checks the limit.
PidStepsLeft == CASE pid.at = "wait" -> 3 [] pid.at = "reading_a" -> 2 [] OTHER -> 1

\* With zone B hot, each step of PID brings it nearer to the check of the limit,
\* and no other step takes it further away.
PidRunsOut ==
    Up /\ hot /\ ~tripped /\ Up' /\ ~tripped'
      => /\ hot' /\ PidStepsLeft' <= PidStepsLeft
         /\ PidStep => PidStepsLeft' < PidStepsLeft

LEMMA PidRunsNext == ThreadsInv /\ [Next]_threadVars => PidRunsOut
  <1> SUFFICES ASSUME ThreadsInv, [Next]_threadVars, Up, hot, ~tripped, Up', ~tripped'
               PROVE  /\ hot' /\ PidStepsLeft' <= PidStepsLeft
                      /\ PidStep => PidStepsLeft' < PidStepsLeft
    BY DEF PidRunsOut
  <1>1. hot'
    BY DEF Next, Boot, Tick, PidStep, PidRelease, PidReadA, PidReadB, OutputStep, OutputStart,
           OutputCycle, WdStep, WdBegin, WdRead, WdRaise, WdLatch, WdDecide, WdPulse, Operator,
           Arm, Disarm, Environment, Overheat, Hang, Reset, Up, threadVars
  <1>2. CASE PidStep
    <2>1. ASSUME NEW late \in BOOLEAN, PidRelease(late) PROVE pid.at = "wait" /\ pid'.at = "reading_a"
      BY <2>1 DEF PidRelease, ThreadsInv, TypeOK
    <2>2. ASSUME NEW ok \in BOOLEAN, PidReadA(ok) PROVE pid.at = "reading_a" /\ pid'.at = "reading_b"
      BY <2>2 DEF PidReadA, ThreadsInv, TypeOK
    <2>3. ASSUME NEW ok \in BOOLEAN PROVE ~PidReadB(ok)
      BY DEF PidReadB, RaiseIf, OverLimit
    <2>4. PidStepsLeft' < PidStepsLeft /\ PidStepsLeft' <= PidStepsLeft
      BY <1>2, <2>1, <2>2, <2>3 DEF PidStep, PidStepsLeft
    <2> QED
      BY <1>1, <2>4
  <1>3. CASE ~PidStep
    <2>1. UNCHANGED pid
      BY <1>3 DEF Next, Boot, Tick, OutputStep, OutputStart, OutputCycle, WdStep, WdBegin,
           WdRead, WdRaise, WdLatch, WdDecide, WdPulse, Operator, Arm, Disarm, Environment,
           Overheat, Hang, Reset, Up, threadVars
    <2>2. PidStepsLeft' = PidStepsLeft /\ PidStepsLeft \in Int
      BY <2>1 DEF PidStepsLeft
    <2> QED
      BY <1>1, <1>3, <2>2
  <1> QED
    BY <1>2, <1>3

(***************************************************************************)
(* Theorems                                                                *)
(***************************************************************************)

\* The inductive invariant of the composed threads with the two facts above.
ProgressInv == ThreadsInv /\ RunInv /\ StaleInv

LEMMA ProgressInvariant == Spec => []ProgressInv
  <1>1. Init => RunInv /\ StaleInv
    BY LimitsAssumption DEF Init, OutStart, WdStart, RunInv, StaleInv, Stale
  <1>2. ThreadsInv /\ RunInv /\ StaleInv /\ [Next]_threadVars => RunInv' /\ StaleInv'
    BY RunNext, StaleNext
  <1> QED
    BY <1>1, <1>2, ThreadsInvariant, PTL DEF Spec, ProgressInv

\* For every limit: once PID or its timer has stopped, Output closes its latch
\* after at most 3 * (OutputPidLimit + 2) of its own cycles (two of PID's may still
\* have been under way), whatever the Watchdog, the operator and the rest do in
\* between (output_thread.c).  With Output's fairness that is OutputCutsOff.
THEOREM OutputStops ==
    Spec => /\ [](Orphaned => OutCyclesLeft \in 1 .. 3 * (OutputPidLimit + 2))
            /\ [][OutputRunsOut]_threadVars
  <1>1. ProgressInv => (Orphaned => OutCyclesLeft \in 1 .. 3 * (OutputPidLimit + 2))
    BY OutCyclesRange DEF ProgressInv
  <1>2. ProgressInv /\ [Next]_threadVars => OutputRunsOut
    BY OutputRunsNext DEF ProgressInv
  <1> QED
    BY <1>1, <1>2, ProgressInvariant, PTL DEF Spec

\* For every limit: once a thread or the timer has stopped, the Watchdog trips the
\* oven within 6 * StaleLimit[c] + 18 of its own steps, wherever in its cycle it
\* was and wherever it is preempted (watchdog_thread.c).  With the Watchdog's
\* fairness that is WatchdogCutsOff.
THEOREM WatchdogStops ==
    Spec => /\ [](\A c \in Counters :
                     Starving(c) => WdStepsLeft(c) \in 1 .. 6 * StaleLimit[c] + 18)
            /\ [][\A c \in Counters : WatchdogRunsOut(c)]_threadVars
  <1>1. ProgressInv => \A c \in Counters :
                         Starving(c) => WdStepsLeft(c) \in 1 .. 6 * StaleLimit[c] + 18
    BY WdStepsRange DEF ProgressInv, Starving, WdRange
  <1>2. ProgressInv /\ ProgressInv' /\ [Next]_threadVars
          => \A c \in Counters : WatchdogRunsOut(c)
    BY WatchdogRunsNext DEF ProgressInv
  <1> QED
    BY <1>1, <1>2, ProgressInvariant, PTL DEF Spec

\* An overheated zone B trips the oven by the third step of PID from wherever it
\* is, whether the reading of B fails or tells the truth (pid_thread.c).  With the
\* fairness of PID, its timer and Output that is the first way of HotEndsOff.
THEOREM PidStops == Spec => [][PidRunsOut]_threadVars
  <1>1. ProgressInv /\ [Next]_threadVars => PidRunsOut
    BY PidRunsNext DEF ProgressInv
  <1> QED
    BY <1>1, ProgressInvariant, PTL DEF Spec
=============================================================================
