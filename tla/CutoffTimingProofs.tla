------------------------- MODULE CutoffTimingProofs -------------------------
(***************************************************************************)
(* Proofs about CutoffTiming, for every rate, limit and jitter that        *)
(* satisfy the assumptions of that module.                                 *)
(*                                                                         *)
(* The argument: what a monitor counts bounds what it has not measured.    *)
(* While it keeps its own times, n stale cycles behind it put the last     *)
(* advance of a counter between (n - 1) of its shortest and (n + 1) of its *)
(* longest cycles away (Upper, Lower).                                     *)
(***************************************************************************)
EXTENDS CutoffTiming, TLAPS

-----------------------------------------------------------------------------
(* Types                                                                    *)

LEMMA SmallerOfFacts ==
    ASSUME NEW a \in Nat, NEW b \in Nat
    PROVE  /\ SmallerOf(a, b) \in Nat
           /\ SmallerOf(a, b) <= a /\ SmallerOf(a, b) <= b
           /\ SmallerOf(a, b) = a \/ SmallerOf(a, b) = b
BY DEF SmallerOf

LEMMA AdvanceTypes ==
    ASSUME TypeOK, NEW c \in Counters, Advance(c)
    PROVE  /\ since' \in [Counters -> 0 .. Horizon]
           /\ fresh' \in [DOMAIN Watched -> SUBSET Counters]
<1>1. since' \in [Counters -> 0 .. Horizon]
      BY WindowsAssumption DEF TypeOK, Advance, Counters
<1>2. fresh' \in [DOMAIN Watched -> SUBSET Counters]
      BY DEF TypeOK, Advance, Counters
<1>3. QED BY <1>1, <1>2

\* What an Output cycle does to its count of cycles since PID's last.
LEMMA OutputAge ==
    ASSUME TypeOK, OutputCycle
    PROVE  /\ "pid" \in fresh["output"] => age' = 0
           /\ "pid" \notin fresh["output"] /\ seen
                => age' = SmallerOf(age + 1, 2 * OutputPidLimit + 1)
           /\ "pid" \notin fresh["output"] /\ ~seen => age' = age
           /\ age' \in 0 .. 2 * OutputPidLimit + 1 /\ (age' > 0 => seen)
<1>1. age' = IF "pid" \in fresh["output"] THEN 0
             ELSE IF seen THEN SmallerOf(age + 1, 2 * OutputPidLimit + 1) ELSE age
      BY Zenon DEF OutputCycle, AgeAfter
<1>2. age \in 0 .. 2 * OutputPidLimit + 1 /\ (age > 0 => seen) BY DEF TypeOK
<1>3. CASE "pid" \in fresh["output"]
  <2>1. age' = 0 BY <1>1, <1>3
  <2>2. QED BY <1>3, <2>1, WindowsAssumption
<1>4. CASE "pid" \notin fresh["output"] /\ seen
  <2>1. age' = SmallerOf(age + 1, 2 * OutputPidLimit + 1) BY <1>1, <1>4
  <2>2. age' \in 0 .. 2 * OutputPidLimit + 1
        BY <2>1, <1>2, WindowsAssumption DEF SmallerOf
  <2>3. QED BY <1>4, <2>1, <2>2
<1>5. CASE "pid" \notin fresh["output"] /\ ~seen
  <2>1. age' = age BY <1>1, <1>5
  <2>2. QED BY <1>2, <1>5, <2>1
<1>6. QED BY <1>3, <1>4, <1>5

LEMMA TypeInit == Init => TypeOK
<1> SUFFICES ASSUME Init PROVE TypeOK OBVIOUS
<1>1. since \in [Counters -> 0 .. Horizon] /\ rest \in 0 .. Horizon
      BY WindowsAssumption DEF Init, Zero
<1>2. stale \in [Counters -> Nat] /\ \A c \in Counters : stale[c] <= StaleLimit[c] + 1
      BY WindowsAssumption DEF Init, Zero
<1>3. fresh \in [DOMAIN Watched -> SUBSET Counters] BY DEF Init, NothingFresh
<1>4. age = 0 /\ seen = FALSE BY DEF Init
<1>5. heat \in 0 .. Horizon BY WindowsAssumption DEF Init
<1>6. age \in 0 .. 2 * OutputPidLimit + 1 /\ ~(age > 0) BY <1>4, WindowsAssumption
<1>7. seen \in BOOLEAN BY <1>4
<1>8. QED BY <1>1, <1>2, <1>3, <1>5, <1>6, <1>7 DEF Init, TypeOK

LEMMA TypeStep == TypeOK /\ [Next]_cutoffVars => TypeOK'
<1> SUFFICES ASSUME TypeOK, [Next]_cutoffVars PROVE TypeOK' OBVIOUS
<1>1. CASE Time
  <2>1. since' \in [Counters -> 0 .. Horizon]
        BY <1>1, WindowsAssumption DEF TypeOK, Time, SmallerOf
  <2>2. rest' \in 0 .. Horizon /\ heat' \in 0 .. Horizon
        BY <1>1, WindowsAssumption DEF TypeOK, Time, SmallerOf
  <2>3. QED BY <1>1, <2>1, <2>2 DEF TypeOK, Time
<1>2. CASE TimerTick BY <1>2, AdvanceTypes DEF TypeOK, TimerTick, Counters
<1>3. CASE PidCycle
  <2>1. tripped' \in BOOLEAN BY <1>3 DEF TypeOK, PidCycle
  <2>2. QED BY <1>3, <2>1, AdvanceTypes DEF TypeOK, PidCycle, Counters
<1>4. CASE OutputCycle
  <2>1. age' \in 0 .. 2 * OutputPidLimit + 1 /\ (age' > 0 => seen)
        BY <1>4, OutputAge
  <2>2. since' \in [Counters -> 0 .. Horizon]
    <3>1. 0 \in 0 .. Horizon BY WindowsAssumption
    <3>2. QED BY <1>4, <3>1 DEF TypeOK, OutputCycle
  <2>3. fresh' \in [DOMAIN Watched -> SUBSET Counters]
        BY <1>4 DEF TypeOK, OutputCycle, Watched, Counters
  <2>4. begun' \subseteq DOMAIN Watched BY <1>4 DEF TypeOK, OutputCycle, Watched
  <2>5. seen' \in BOOLEAN /\ (seen => seen') BY <1>4 DEF TypeOK, OutputCycle
  <2>6. tripped' \in BOOLEAN /\ train' \in BOOLEAN
        BY <1>4 DEF TypeOK, OutputCycle
  <2>7. QED BY <1>4, <2>1, <2>2, <2>3, <2>4, <2>5, <2>6 DEF TypeOK, OutputCycle
<1>5. CASE WatchdogCycle
  <2>1. stale' \in [Counters -> Nat] /\ \A c \in Counters : stale'[c] <= StaleLimit[c] + 1
        BY <1>5, WindowsAssumption DEF TypeOK, WatchdogCycle, SmallerOf
  <2>2. fresh' \in [DOMAIN Watched -> SUBSET Counters]
        BY <1>5 DEF TypeOK, WatchdogCycle, Watched
  <2>3. begun' \subseteq DOMAIN Watched BY <1>5 DEF TypeOK, WatchdogCycle, Watched
  <2>4. tripped' \in BOOLEAN BY <1>5 DEF TypeOK, WatchdogCycle
  <2>5. rest' \in 0 .. Horizon BY <1>5, WindowsAssumption DEF WatchdogCycle
  <2>6. QED BY <1>5, <2>1, <2>2, <2>3, <2>4, <2>5 DEF TypeOK, WatchdogCycle
<1>6. CASE \E a \in Activities : FallBehind(a)
  <2>1. late' \subseteq Activities BY <1>6, WindowsAssumption DEF TypeOK, FallBehind
  <2>2. QED BY <1>6, <2>1 DEF TypeOK, FallBehind
<1>7. CASE Overheat
  <2>1. CASE Horizon = 0 BY <1>7, <2>1, RatesAssumption, LimitsAssumption
  <2>2. CASE Horizon > 0 BY <1>7, <2>2, WindowsAssumption DEF TypeOK, Overheat
  <2>3. QED BY <2>1, <2>2, WindowsAssumption
<1>8. CASE Reset
  <2>1. Init' BY <1>8 DEF Reset, Init, Zero, NothingFresh
  <2>2. QED BY <2>1, TypeInit, PTL
<1>9. CASE UNCHANGED cutoffVars BY <1>9 DEF TypeOK, cutoffVars
<1>10. QED BY <1>1, <1>2, <1>3, <1>4, <1>5, <1>6, <1>7, <1>8, <1>9 DEF Next

\* CutoffTiming!TypeOK holds of every behaviour.
THEOREM CutoffTypes == Spec => []TypeOK
BY TypeInit, TypeStep, PTL DEF Spec

-----------------------------------------------------------------------------
(* The Watchdog                                                             *)

\* A Watchdog that is on time has looked at every counter since its longest
\* cycle began, and has missed no more of them than it has counted.
WatchdogUpper ==
    OnTime("watchdog") =>
      /\ rest <= WdMax
      /\ \A c \in Counters :
           /\ c \in fresh["watchdog"] => since[c] <= rest
           /\ stale[c] <= StaleLimit[c] => since[c] <= rest + (stale[c] + 1) * WdMax

\* No fault, no starved counter.
WatchdogQuiet == ~tripped => \A c \in Counters : stale[c] <= StaleLimit[c]

LEMMA WatchdogQuietStep == TypeOK' /\ WatchdogQuiet /\ [Next]_cutoffVars => WatchdogQuiet'
<1> SUFFICES ASSUME TypeOK', WatchdogQuiet, [Next]_cutoffVars, ~tripped'
             PROVE  \A c \in Counters : stale'[c] <= StaleLimit[c]
    BY DEF WatchdogQuiet
<1>1. CASE WatchdogCycle
  <2>1. ~Starved(stale') BY <1>1 DEF WatchdogCycle
  <2>2. ASSUME NEW c \in Counters PROVE stale'[c] <= StaleLimit[c]
    <3>1. ~(stale'[c] > StaleLimit[c]) BY <2>1 DEF Starved
    <3>2. stale'[c] \in Nat /\ StaleLimit[c] \in Nat
          BY WindowsAssumption DEF TypeOK
    <3>3. QED BY <3>1, <3>2
  <2>3. QED BY <2>2
<1>2. CASE Reset BY <1>2, WindowsAssumption DEF Reset, Zero
<1>3. CASE UNCHANGED stale /\ (~tripped' => ~tripped)
      BY <1>3 DEF WatchdogQuiet
<1>4. CASE PidCycle \/ OutputCycle
      BY <1>4 DEF WatchdogQuiet, PidCycle, OutputCycle
<1>5. QED BY <1>1, <1>2, <1>3, <1>4
          DEF Next, cutoffVars, Time, TimerTick, Overheat, FallBehind

\* One more cycle of at most W.
LEMMA OneMore ==
    ASSUME NEW W \in Nat, NEW s \in Nat
    PROVE  /\ (s + 1) * W \in Nat /\ s * W \in Nat
           /\ ((s + 1) + 1) * W = (s + 1) * W + W
           /\ (s + 1) * W = s * W + W
           /\ (0 + 1) * W = W
BY Z3

\* (n + 1) cycles of at most W are at most (m + 1) of them when n is at most m.
LEMMA MoreCycles ==
    ASSUME NEW W \in Nat, NEW n \in Nat, NEW m \in Nat, n <= m
    PROVE  (n + 1) * W + W <= (m + 2) * W
<1>1. PICK r \in Nat : m = n + r
  <2>1. m - n \in Nat /\ m = n + (m - n) OBVIOUS
  <2>2. QED BY <2>1
<1>2. (m + 2) * W = (n + 1) * W + W + r * W BY <1>1, Z3
<1>3. r * W \in Nat /\ (n + 1) * W \in Nat BY OneMore
<1>4. QED BY <1>2, <1>3

\* An age that saturates stays within reach of a clock that does.
LEMMA TimePasses ==
    ASSUME NEW x \in 0 .. Horizon, NEW y \in 0 .. Horizon, NEW d \in Nat, x <= y + d
    PROVE  SmallerOf(x + 1, Horizon) <= SmallerOf(y + 1, Horizon) + d
BY WindowsAssumption DEF SmallerOf

LEMMA WatchdogUpperInit == Init => WatchdogUpper
<1> SUFFICES ASSUME Init PROVE WatchdogUpper OBVIOUS
<1>1. ASSUME NEW c \in Counters
      PROVE  since[c] = 0 /\ stale[c] = 0 /\ rest = 0 /\ WdMax \in Nat
      BY RatesAssumption DEF Init, Zero
<1>2. rest <= WdMax BY RatesAssumption DEF Init
<1>3. ASSUME NEW c \in Counters PROVE since[c] <= rest + (stale[c] + 1) * WdMax
      BY <1>1, OneMore
<1>4. QED BY <1>1, <1>2, <1>3 DEF WatchdogUpper

LEMMA WatchdogUpperStep ==
    TypeOK /\ TypeOK' /\ WatchdogUpper /\ [Next]_cutoffVars => WatchdogUpper'
<1> SUFFICES ASSUME TypeOK, TypeOK', WatchdogUpper, [Next]_cutoffVars, OnTime("watchdog")'
             PROVE  /\ rest' <= WdMax
                    /\ \A c \in Counters :
                         /\ c \in fresh'["watchdog"] => since'[c] <= rest'
                         /\ stale'[c] <= StaleLimit[c]
                              => since'[c] <= rest' + (stale'[c] + 1) * WdMax
    BY DEF WatchdogUpper
<1>w. WdMax \in Nat BY RatesAssumption
<1>n. ASSUME NEW c \in Counters
      PROVE  /\ since[c] \in 0 .. Horizon /\ stale[c] \in Nat /\ rest \in 0 .. Horizon
             /\ since[c] \in Nat /\ rest \in Nat
             /\ (stale[c] + 1) * WdMax \in Nat
      BY <1>w, OneMore, WindowsAssumption DEF TypeOK
<1>1. CASE Reset
  <2>1. Init' BY <1>1 DEF Reset, Init, Zero, NothingFresh
  <2>2. WatchdogUpper' BY <2>1, WatchdogUpperInit, PTL
  <2>3. QED BY <2>2 DEF WatchdogUpper
<1>o. CASE OnTime("watchdog")
  <2>u. /\ rest <= WdMax
        /\ \A c \in Counters :
             /\ c \in fresh["watchdog"] => since[c] <= rest
             /\ stale[c] <= StaleLimit[c] => since[c] <= rest + (stale[c] + 1) * WdMax
        BY <1>o DEF WatchdogUpper
  <2>1. CASE Time
    <3>1. rest' <= WdMax
      <4>1. rest < WdMax /\ rest' = SmallerOf(rest + 1, Horizon) BY <2>1, <1>o DEF Time
      <4>2. rest \in Nat BY DEF TypeOK
      <4>3. QED BY <4>1, <4>2, <1>w, WindowsAssumption DEF SmallerOf
    <3>2. ASSUME NEW c \in Counters, c \in fresh'["watchdog"] PROVE since'[c] <= rest'
      <4>1. since[c] <= rest + 0 BY <3>2, <2>1, <2>u, <1>n DEF Time
      <4>2. SmallerOf(since[c] + 1, Horizon) <= SmallerOf(rest + 1, Horizon) + 0
            BY <4>1, <1>n, TimePasses
      <4>3. since'[c] = SmallerOf(since[c] + 1, Horizon) /\ rest' = SmallerOf(rest + 1, Horizon)
            BY <2>1 DEF Time
      <4>4. SmallerOf(rest + 1, Horizon) \in Nat BY <1>n, WindowsAssumption DEF SmallerOf
      <4>5. QED BY <4>2, <4>3, <4>4
    <3>3. ASSUME NEW c \in Counters, stale'[c] <= StaleLimit[c]
          PROVE  since'[c] <= rest' + (stale'[c] + 1) * WdMax
      <4>1. stale' = stale BY <2>1 DEF Time
      <4>2. since[c] <= rest + (stale[c] + 1) * WdMax BY <3>3, <4>1, <2>u
      <4>3. since'[c] = SmallerOf(since[c] + 1, Horizon) /\ rest' = SmallerOf(rest + 1, Horizon)
            BY <2>1 DEF Time
      <4>4. QED BY <4>1, <4>2, <4>3, <1>n, TimePasses
    <3>4. QED BY <3>1, <3>2, <3>3
  <2>2. ASSUME NEW d \in Counters, Advance(d), UNCHANGED <<rest, stale>>
        PROVE  WatchdogUpper'
    <3>1. ASSUME NEW c \in Counters
          PROVE  /\ c \in fresh'["watchdog"] => c = d \/ c \in fresh["watchdog"]
                 /\ since'[c] = IF c = d THEN 0 ELSE since[c]
          BY <2>2 DEF Advance, TypeOK, Watched
    <3>2. QED BY <3>1, <2>2, <2>u, <1>n DEF WatchdogUpper
  <2>3. CASE TimerTick BY <2>2, <2>3 DEF TimerTick, Counters, WatchdogUpper
  <2>4. CASE PidCycle BY <2>2, <2>4 DEF PidCycle, Counters, WatchdogUpper
  <2>5. CASE OutputCycle
    <3>1. ASSUME NEW c \in Counters
          PROVE  /\ c \in fresh'["watchdog"] => c = "output" \/ c \in fresh["watchdog"]
                 /\ since'[c] = IF c = "output" THEN 0 ELSE since[c]
          BY <2>5 DEF OutputCycle, TypeOK
    <3>2. UNCHANGED <<rest, stale>> BY <2>5 DEF OutputCycle
    <3>3. QED BY <3>1, <3>2, <2>u, <1>n
  <2>6. CASE WatchdogCycle
    <3>1. rest' = 0 /\ fresh'["watchdog"] = {} /\ since' = since
          BY <2>6 DEF WatchdogCycle, TypeOK, Watched
    <3>2. ASSUME NEW c \in Counters, stale'[c] <= StaleLimit[c]
          PROVE  since[c] <= (stale'[c] + 1) * WdMax
      <4>1. CASE c \in fresh["watchdog"]
        <5>1. stale'[c] = 0 BY <4>1, <2>6 DEF WatchdogCycle
        <5>2. since[c] <= WdMax BY <4>1, <2>u, <1>n, <1>w
        <5>3. QED BY <5>1, <5>2, <1>w, OneMore
      <4>2. CASE c \notin fresh["watchdog"]
        <5>1. stale'[c] = SmallerOf(stale[c] + 1, StaleLimit[c] + 1)
              BY <4>2, <2>6 DEF WatchdogCycle
        <5>2. StaleLimit[c] \in Nat BY WindowsAssumption
        <5>3. stale'[c] = stale[c] + 1 /\ stale[c] <= StaleLimit[c]
              BY <5>1, <5>2, <3>2, <1>n DEF SmallerOf
        <5>4. since[c] <= rest + (stale[c] + 1) * WdMax BY <5>3, <2>u
        <5>5. (stale'[c] + 1) * WdMax = (stale[c] + 1) * WdMax + WdMax
              BY <5>3, <1>n, <1>w, OneMore
        <5>6. QED BY <5>4, <5>5, <1>n, <1>w, <2>u
      <4>3. QED BY <4>1, <4>2
    <3>3. ASSUME NEW c \in Counters
          PROVE  (stale'[c] + 1) * WdMax \in Nat
          BY <1>w, OneMore DEF TypeOK
    <3>4. QED BY <3>1, <3>2, <3>3, <1>w
  <2>7. CASE UNCHANGED <<rest, since, fresh, stale>> BY <2>7, <2>u
  <2>8. QED BY <2>1, <2>3, <2>4, <2>5, <2>6, <2>7, <1>1
            DEF Next, cutoffVars, FallBehind, Overheat
<1>2. CASE ~OnTime("watchdog") /\ ~Reset
  <2>1. late \subseteq late' BY <1>2 DEF Next, cutoffVars, Time, TimerTick, PidCycle,
          OutputCycle, WatchdogCycle, FallBehind, Overheat
  <2>2. QED BY <2>1, <1>2 DEF OnTime
<1>3. QED BY <1>1, <1>o, <1>2

\* CutoffTiming!WatchdogInTime: the Watchdog's own cutoff latency.
THEOREM CutoffWatchdog == Spec => []WatchdogInTime
<1>1. TypeOK /\ WatchdogUpper /\ WatchdogQuiet => WatchdogInTime
  <2> SUFFICES ASSUME TypeOK, WatchdogUpper, WatchdogQuiet,
                      OnTime("watchdog"), ~tripped, NEW c \in Counters
               PROVE  since[c] <= (StaleLimit[c] + 2) * WdMax
      BY DEF WatchdogInTime
  <2>1. stale[c] \in Nat /\ StaleLimit[c] \in Nat /\ stale[c] <= StaleLimit[c]
        BY WindowsAssumption DEF TypeOK, WatchdogQuiet
  <2>2. since[c] <= rest + (stale[c] + 1) * WdMax /\ rest <= WdMax
        BY <2>1 DEF WatchdogUpper
  <2>3. since[c] \in Nat /\ rest \in Nat /\ WdMax \in Nat
        BY RatesAssumption DEF TypeOK
  <2>4. (stale[c] + 1) * WdMax + WdMax <= (StaleLimit[c] + 2) * WdMax
        BY <2>1, <2>3, MoreCycles
  <2>5. (stale[c] + 1) * WdMax \in Nat BY <2>1, <2>3, OneMore
  <2>6. (StaleLimit[c] + 2) * WdMax \in Nat BY <2>1, <2>3, Z3
  <2>7. QED BY <2>2, <2>3, <2>4, <2>5, <2>6
<1>2. Init => WatchdogQuiet BY WindowsAssumption DEF Init, Zero, WatchdogQuiet
<1>3. QED BY <1>1, <1>2, TypeInit, TypeStep, WatchdogUpperInit, WatchdogUpperStep,
             WatchdogQuietStep, PTL DEF Spec

-----------------------------------------------------------------------------
(* Output                                                                   *)

\* The same for an Output thread that is on time and the PID counter.
OutputUpper ==
    OnTime("output") =>
      /\ since["output"] <= OutMax
      /\ "pid" \in fresh["output"] => since["pid"] <= since["output"]
      /\ seen /\ age <= OutputPidLimit
           => since["pid"] <= since["output"] + (age + 1) * OutMax

\* No train on old data.
OutputQuiet == train => age <= OutputPidLimit

\* The clocks as numbers, for the provers.
LEMMA Clocks ==
    ASSUME TypeOK
    PROVE  /\ \A c \in Counters : since[c] \in 0 .. Horizon /\ since[c] \in Nat
           /\ rest \in 0 .. Horizon /\ rest \in Nat /\ heat \in 0 .. Horizon /\ heat \in Nat
           /\ age \in Nat /\ Horizon \in Nat /\ OutMax \in Nat /\ WdMax \in Nat
           /\ "pid" \in Counters /\ "output" \in Counters /\ "timer" \in Counters
           /\ (age + 1) * OutMax \in Nat
<1>1. age \in Nat /\ OutMax \in Nat BY WindowsAssumption, RatesAssumption DEF TypeOK
<1>2. (age + 1) * OutMax \in Nat BY <1>1, OneMore
<1>3. \A c \in Counters : since[c] \in 0 .. Horizon /\ since[c] \in Nat
      BY WindowsAssumption DEF TypeOK
<1>4. rest \in 0 .. Horizon /\ rest \in Nat /\ heat \in 0 .. Horizon /\ heat \in Nat
      BY WindowsAssumption DEF TypeOK
<1>5. QED BY <1>1, <1>2, <1>3, <1>4, WindowsAssumption, RatesAssumption DEF Counters

\* What Time does to the clocks.
LEMMA TimeClocks ==
    ASSUME TypeOK, Time
    PROVE  /\ \A c \in Counters : since'[c] = SmallerOf(since[c] + 1, Horizon)
           /\ rest' = SmallerOf(rest + 1, Horizon)
           /\ heat' <= SmallerOf(heat + 1, Horizon)
<1>1. \A c \in Counters : since'[c] = SmallerOf(since[c] + 1, Horizon) BY DEF Time
<1>2. heat' <= SmallerOf(heat + 1, Horizon)
      BY WindowsAssumption DEF Time, TypeOK, SmallerOf
<1>3. QED BY <1>1, <1>2 DEF Time

LEMMA Lateness ==
    ASSUME [Next]_cutoffVars, ~Reset, NEW a \in Activities, OnTime(a)'
    PROVE  OnTime(a)
<1>1. late \subseteq late' BY DEF Next, cutoffVars, Time, TimerTick, PidCycle, OutputCycle,
        WatchdogCycle, FallBehind, Overheat
<1>2. QED BY <1>1 DEF OnTime

LEMMA ResetInit == Reset => Init'
BY DEF Reset, Init, Zero, NothingFresh

LEMMA OutputInit == Init => OutputUpper /\ OutputQuiet
BY RatesAssumption DEF Init, Zero, OutputUpper, OutputQuiet, NothingFresh, Counters, Watched

LEMMA OutputQuietStep == TypeOK /\ TypeOK' /\ OutputQuiet /\ [Next]_cutoffVars => OutputQuiet'
<1> SUFFICES ASSUME TypeOK, TypeOK', OutputQuiet, [Next]_cutoffVars PROVE OutputQuiet'
    OBVIOUS
<1>1. CASE Reset BY <1>1, ResetInit, OutputInit, PTL
<1>2. CASE OutputCycle
  <2>1. train' => ~TooOld(age') BY <1>2 DEF OutputCycle
  <2>2. age' \in Nat BY WindowsAssumption DEF TypeOK
  <2>3. QED BY <2>1, <2>2, WindowsAssumption DEF TooOld, OutputQuiet
<1>3. CASE UNCHANGED <<train, age>> BY <1>3 DEF OutputQuiet
<1>4. QED BY <1>1, <1>2, <1>3 DEF Next, cutoffVars, Time, TimerTick, PidCycle,
          WatchdogCycle, FallBehind, Overheat

LEMMA OutputUpperStep ==
    TypeOK /\ TypeOK' /\ OutputUpper /\ [Next]_cutoffVars => OutputUpper'
<1> SUFFICES ASSUME TypeOK, TypeOK', OutputUpper, [Next]_cutoffVars PROVE OutputUpper'
    OBVIOUS
<1>1. CASE Reset BY <1>1, ResetInit, OutputInit, PTL
<1>2. CASE ~Reset /\ OnTime("output")'
  <2>o. OnTime("output") BY <1>2, Lateness DEF Activities, Counters
  <2>u. /\ since["output"] <= OutMax
        /\ "pid" \in fresh["output"] => since["pid"] <= since["output"]
        /\ seen /\ age <= OutputPidLimit
             => since["pid"] <= since["output"] + (age + 1) * OutMax
        BY <2>o DEF OutputUpper
  <2>1. CASE Time
    <3>0. UNCHANGED <<fresh, seen, age>> BY <2>1 DEF Time
    <3>1. since["output"] < OutMax BY <2>1, <2>o DEF Time
    <3>2. since'["output"] <= OutMax
          BY <3>1, <2>1, TimeClocks, Clocks DEF SmallerOf
    <3>3. ASSUME NEW d \in Nat, since["pid"] <= since["output"] + d
          PROVE  since'["pid"] <= since'["output"] + d
          BY <3>3, <2>1, TimeClocks, TimePasses, Clocks
    <3>4. since["pid"] <= since["output"] => since'["pid"] <= since'["output"]
      <4>1. since["pid"] <= since["output"] => since["pid"] <= since["output"] + 0 BY Clocks
      <4>2. since'["output"] \in Nat BY Clocks, WindowsAssumption DEF TypeOK
      <4>3. QED BY <4>1, <4>2, <3>3
    <3>5. QED BY <3>0, <3>2, <3>3, <3>4, <2>u, Clocks DEF OutputUpper
  <2>2. ASSUME NEW d \in Counters, d # "output", Advance(d), UNCHANGED <<seen, age>>
        PROVE  OutputUpper'
    <3>1. /\ "pid" \in fresh'["output"] => d = "pid" \/ "pid" \in fresh["output"]
          /\ since'["output"] = since["output"]
          /\ since'["pid"] = IF d = "pid" THEN 0 ELSE since["pid"]
          BY <2>2 DEF Advance, TypeOK, Watched, Counters
    <3>2. QED BY <3>1, <2>2, <2>u, Clocks DEF OutputUpper
  <2>3. CASE TimerTick BY <2>2, <2>3 DEF TimerTick, Counters
  <2>4. CASE PidCycle BY <2>2, <2>4 DEF PidCycle, Counters
  <2>5. CASE OutputCycle
    <3>1. since'["output"] = 0 /\ since'["pid"] = since["pid"] /\ "pid" \notin fresh'["output"]
          BY <2>5 DEF OutputCycle, TypeOK, Counters
    <3>2. ASSUME seen', age' <= OutputPidLimit PROVE since["pid"] <= (age' + 1) * OutMax
      <4>1. CASE "pid" \in fresh["output"]
        <5>1. age' = 0 BY <4>1, <2>5, OutputAge
        <5>2. (age' + 1) * OutMax = OutMax BY <5>1, OneMore, Clocks
        <5>3. QED BY <4>1, <5>2, <2>u, Clocks
      <4>2. CASE "pid" \notin fresh["output"]
        <5>1. seen BY <4>2, <3>2, <2>5 DEF OutputCycle
        <5>2. age' = SmallerOf(age + 1, 2 * OutputPidLimit + 1) BY <4>2, <5>1, <2>5, OutputAge
        <5>3. age' = age + 1 /\ age <= OutputPidLimit
              BY <5>2, <3>2, WindowsAssumption, Clocks DEF SmallerOf
        <5>4. since["pid"] <= since["output"] + (age + 1) * OutMax BY <5>1, <5>3, <2>u
        <5>5. (age' + 1) * OutMax = (age + 1) * OutMax + OutMax BY <5>3, OneMore, Clocks
        <5>6. QED BY <5>4, <5>5, <2>u, Clocks
      <4>3. QED BY <4>1, <4>2
    <3>3. 0 <= OutMax /\ (age' + 1) * OutMax \in Nat
      <4> DEFINE n == age'
      <4>1. n \in Nat /\ OutMax \in Nat BY Clocks, WindowsAssumption DEF TypeOK
      <4> HIDE DEF n
      <4>2. (n + 1) * OutMax \in Nat BY <4>1, OneMore
      <4>3. 0 <= OutMax BY <4>1
      <4>4. QED BY <4>2, <4>3, Zenon DEF n
    <3>4. QED BY <3>1, <3>2, <3>3, Clocks DEF OutputUpper
  <2>6. CASE UNCHANGED <<since, seen, age>> /\ fresh'["output"] = fresh["output"]
        BY <2>6, <2>u DEF OutputUpper
  <2>7. WatchdogCycle => fresh'["output"] = fresh["output"]
        BY DEF WatchdogCycle, TypeOK, Watched
  <2>8. QED BY <2>1, <2>3, <2>4, <2>5, <2>6, <2>7, <1>2
            DEF Next, cutoffVars, FallBehind, Overheat, WatchdogCycle
<1>3. CASE ~OnTime("output")' BY <1>3 DEF OutputUpper
<1>4. QED BY <1>1, <1>2, <1>3

\* While a Watchdog on time has not tripped the oven, Output's last cycle found
\* every counter recent enough.
TrainCounters ==
    train /\ OnTime("output") /\ OnTime("watchdog") =>
      \A c \in Counters : since[c] <= since["output"] + (StaleLimit[c] + 2) * WdMax

LEMMA TrainCountersStep ==
    TypeOK /\ TrainCounters /\ WatchdogInTime /\ [Next]_cutoffVars => TrainCounters'
<1> SUFFICES ASSUME TypeOK, TrainCounters, WatchdogInTime, [Next]_cutoffVars,
                    train', OnTime("output")', OnTime("watchdog")', NEW c \in Counters
             PROVE  since'[c] <= since'["output"] + (StaleLimit[c] + 2) * WdMax
    BY DEF TrainCounters
<1> DEFINE K == (StaleLimit[c] + 2) * WdMax
<1>k. K \in Nat
  <2>1. StaleLimit[c] \in Nat /\ WdMax \in Nat BY Clocks, WindowsAssumption
  <2>2. QED BY <2>1, Z3
<1>1. ~Reset BY DEF Reset
<1>o. OnTime("output") /\ OnTime("watchdog") BY <1>1, Lateness DEF Activities, Counters
<1>2. CASE OutputCycle
  <2>1. since'["output"] = 0 /\ ~tripped /\ since'[c] = IF c = "output" THEN 0 ELSE since[c]
        BY <1>2 DEF OutputCycle, TypeOK, Counters
  <2>2. since[c] <= K BY <2>1, <1>o DEF WatchdogInTime
  <2> HIDE DEF K
  <2>3. since'[c] <= since'["output"] + K BY <2>1, <2>2, <1>k, Clocks
  <2>4. QED BY <2>3 DEF K
<1>3. CASE ~OutputCycle
  <2>u. since[c] <= since["output"] + K
    <3>1. train
          BY <1>1, <1>3 DEF Next, cutoffVars, Time, TimerTick, PidCycle, WatchdogCycle,
             FallBehind, Overheat
    <3>2. QED BY <3>1, <1>o DEF TrainCounters
  <2> HIDE DEF K
  <2>1. CASE Time
    <3>1. SmallerOf(since[c] + 1, Horizon) <= SmallerOf(since["output"] + 1, Horizon) + K
          BY <2>u, <1>k, Clocks, TimePasses
    <3>2. since'[c] <= since'["output"] + K BY <2>1, <3>1, TimeClocks, Clocks
    <3>3. QED BY <3>2 DEF K
  <2>2. CASE TimerTick \/ PidCycle
    <3>1. since'["output"] = since["output"] /\ since'[c] \in {0, since[c]}
          BY <2>2 DEF TimerTick, PidCycle, Advance, TypeOK, Counters
    <3>2. since'[c] <= since'["output"] + K BY <3>1, <2>u, <1>k, Clocks
    <3>3. QED BY <3>2 DEF K
  <2>3. CASE UNCHANGED since BY <2>3, <2>u DEF K
  <2>4. QED BY <2>1, <2>2, <2>3, <1>1, <1>3
            DEF Next, cutoffVars, WatchdogCycle, FallBehind, Overheat
<1>4. QED BY <1>2, <1>3

\* CutoffTiming!TrainEndsInTime: the train outlives neither PID nor, while the
\* Watchdog is on time, any of the counters, not even one that never advanced.
THEOREM CutoffTrain == Spec => []TrainEndsInTime
<1>1. TypeOK /\ OutputUpper /\ OutputQuiet /\ TrainCounters => TrainEndsInTime
  <2> SUFFICES ASSUME TypeOK, OutputUpper, OutputQuiet, TrainCounters, train, OnTime("output")
               PROVE  /\ seen => since["pid"] <= (OutputPidLimit + 2) * OutMax
                      /\ OnTime("watchdog")
                           => \A c \in Counters :
                                since[c] <= (StaleLimit[c] + 2) * WdMax + OutMax
      BY DEF TrainEndsInTime
  <2>1. age <= OutputPidLimit /\ since["output"] <= OutMax BY DEF OutputQuiet, OutputUpper
  <2>2. seen => since["pid"] <= since["output"] + (age + 1) * OutMax
        BY <2>1 DEF OutputUpper
  <2>3. (age + 1) * OutMax + OutMax <= (OutputPidLimit + 2) * OutMax
        BY <2>1, MoreCycles, Clocks, WindowsAssumption
  <2>4. (OutputPidLimit + 2) * OutMax \in Nat
    <3>1. OutputPidLimit \in Nat /\ OutMax \in Nat BY Clocks, WindowsAssumption
    <3>2. QED BY <3>1, Z3
  <2>5. ASSUME OnTime("watchdog"), NEW c \in Counters
        PROVE  since[c] <= (StaleLimit[c] + 2) * WdMax + OutMax
    <3>1. StaleLimit[c] \in Nat /\ WdMax \in Nat BY Clocks, WindowsAssumption
    <3>2. (StaleLimit[c] + 2) * WdMax \in Nat BY <3>1, Z3
    <3>3. since[c] <= since["output"] + (StaleLimit[c] + 2) * WdMax
          BY <2>5 DEF TrainCounters
    <3>4. QED BY <3>2, <3>3, <2>1, Clocks
  <2>6. QED BY <2>1, <2>2, <2>3, <2>4, <2>5, Clocks
<1>2. Init => TrainCounters BY DEF Init, TrainCounters
<1>3. QED BY <1>1, <1>2, OutputInit, TypeInit, TypeStep, OutputUpperStep, OutputQuietStep,
             TrainCountersStep, CutoffWatchdog, PTL DEF Spec

-----------------------------------------------------------------------------
(* An overheated zone B                                                     *)

\* PID and the timer while both are on time: a release is served before the next.
PidPace ==
    OnTime("pid") /\ OnTime("timer") =>
      /\ since["timer"] <= TimerPeriod
      /\ due => since["timer"] <= PidLate /\ since["pid"] <= since["timer"] + TimerPeriod
      /\ ~due => since["pid"] <= since["timer"]

\* PID has not looked since the limit was passed.
HeatUnseen == ~tripped => heat <= since["pid"] + 1

\* Output's last cycle still found it unseen, for as long as K says PID can go
\* without a cycle.
HeatWithin(K) == heat <= since["output"] + K + 1
HeatTrain ==
    train /\ OnTime("output") =>
      /\ OnTime("pid") /\ OnTime("timer") => HeatWithin(TimerPeriod + PidLate)
      /\ seen => HeatWithin((age + 1) * OutMax)
      /\ OnTime("watchdog") => HeatWithin((StaleLimit["pid"] + 2) * WdMax)

LEMMA PidPaceStep == TypeOK /\ PidPace /\ [Next]_cutoffVars => PidPace'
<1> SUFFICES ASSUME TypeOK, PidPace, [Next]_cutoffVars PROVE PidPace' OBVIOUS
<1>r. TimerPeriod \in Nat /\ PidLate \in Nat /\ PidLate < TimerPeriod
      BY RatesAssumption
<1>1. CASE Reset
  <2>1. since' = Zero /\ due' = FALSE BY <1>1 DEF Reset
  <2>2. QED BY <2>1, <1>r DEF PidPace, Zero, Counters
<1>2. CASE ~Reset /\ OnTime("pid")' /\ OnTime("timer")'
  <2>o. OnTime("pid") /\ OnTime("timer") BY <1>2, Lateness DEF Activities, Counters
  <2>u. /\ since["timer"] <= TimerPeriod
        /\ due => since["timer"] <= PidLate /\ since["pid"] <= since["timer"] + TimerPeriod
        /\ ~due => since["pid"] <= since["timer"]
        BY <2>o DEF PidPace
  <2>1. CASE Time
    <3>1. since["timer"] < TimerPeriod /\ (due => since["timer"] < PidLate) /\ UNCHANGED due
          BY <2>1, <2>o DEF Time
    <3>2. since'["timer"] <= TimerPeriod /\ (due => since'["timer"] <= PidLate)
          BY <3>1, <2>1, <1>r, TimeClocks, Clocks DEF SmallerOf
    <3>3. since'["timer"] \in Nat /\ since'["pid"] \in Nat
          BY <2>1, TimeClocks, Clocks DEF SmallerOf
    <3>4. ASSUME NEW d \in Nat, since["pid"] <= since["timer"] + d
          PROVE  since'["pid"] <= since'["timer"] + d
          BY <3>4, <2>1, TimeClocks, TimePasses, Clocks
    <3>5. due => since'["pid"] <= since'["timer"] + TimerPeriod BY <3>4, <2>u, <1>r
    <3>6. ~due => since'["pid"] <= since'["timer"]
      <4>1. ~due => since["pid"] <= since["timer"] + 0 BY <2>u, Clocks
      <4>2. QED BY <4>1, <3>4, <3>3
    <3>7. QED BY <3>1, <3>2, <3>5, <3>6 DEF PidPace
  <2>2. CASE TimerTick
    <3>1. ~due BY <2>2, <2>u, <1>r, Clocks DEF TimerTick
    <3>2. since'["timer"] = 0 /\ since'["pid"] = since["pid"] /\ due'
          BY <2>2 DEF TimerTick, Advance, TypeOK, Counters
    <3>3. since["pid"] <= 0 + TimerPeriod BY <3>1, <2>u, <1>r, Clocks
    <3>4. QED BY <3>2, <3>3, <1>r DEF PidPace
  <2>3. CASE PidCycle
    <3>1. since'["pid"] = 0 /\ since'["timer"] = since["timer"] /\ ~due'
          BY <2>3 DEF PidCycle, Advance, TypeOK, Counters
    <3>2. QED BY <3>1, <2>u, Clocks DEF PidPace
  <2>4. CASE OutputCycle
    <3>1. since'["pid"] = since["pid"] /\ since'["timer"] = since["timer"] /\ due' = due
          BY <2>4 DEF OutputCycle, TypeOK, Counters
    <3>2. QED BY <3>1, <2>u DEF PidPace
  <2>5. CASE UNCHANGED <<since, due>> BY <2>5, <2>u DEF PidPace
  <2>6. QED BY <2>1, <2>2, <2>3, <2>4, <2>5, <1>2
            DEF Next, cutoffVars, FallBehind, Overheat, WatchdogCycle
<1>3. CASE ~(OnTime("pid")' /\ OnTime("timer")') BY <1>3 DEF PidPace
<1>4. QED BY <1>1, <1>2, <1>3

LEMMA HeatUnseenStep == TypeOK /\ HeatUnseen /\ [Next]_cutoffVars => HeatUnseen'
<1> SUFFICES ASSUME TypeOK, HeatUnseen, [Next]_cutoffVars, ~tripped'
             PROVE  heat' <= since'["pid"] + 1
    BY DEF HeatUnseen
<1>1. CASE Reset BY <1>1 DEF Reset, Zero, Counters
<1>2. CASE ~Reset
  <2>u. ~tripped /\ heat <= since["pid"] + 1
    <3>1. ~tripped BY <1>2 DEF Next, cutoffVars, Time, TimerTick, PidCycle, OutputCycle,
            WatchdogCycle, FallBehind, Overheat
    <3>2. QED BY <3>1 DEF HeatUnseen
  <2>1. CASE Time
    <3>1. SmallerOf(heat + 1, Horizon) <= SmallerOf(since["pid"] + 1, Horizon) + 1
          BY <2>u, TimePasses, Clocks
    <3>2. SmallerOf(heat + 1, Horizon) \in Nat /\ SmallerOf(since["pid"] + 1, Horizon) \in Nat
          BY Clocks DEF SmallerOf
    <3>3. heat' \in Nat BY <2>1, Clocks DEF Time, SmallerOf
    <3>4. QED BY <3>1, <3>2, <3>3, <2>1, TimeClocks, Clocks
  <2>2. CASE PidCycle
    <3>1. ~(heat > 0) /\ heat' = heat BY <2>2 DEF PidCycle
    <3>2. since'["pid"] = 0 BY <2>2 DEF PidCycle, Advance, TypeOK, Counters
    <3>3. QED BY <3>1, <3>2, Clocks
  <2>3. CASE Overheat BY <2>3, Clocks DEF Overheat
  <2>4. CASE TimerTick \/ OutputCycle
        BY <2>4, <2>u DEF TimerTick, OutputCycle, Advance, TypeOK, Counters
  <2>5. CASE UNCHANGED <<since, heat>> BY <2>5, <2>u
  <2>6. QED BY <2>1, <2>2, <2>3, <2>4, <2>5, <1>2
            DEF Next, cutoffVars, FallBehind, WatchdogCycle
<1>3. QED BY <1>1, <1>2

LEMMA HeatTrainStep ==
    /\ TypeOK /\ TypeOK' /\ HeatTrain /\ HeatUnseen /\ PidPace /\ WatchdogInTime
    /\ OutputUpper' /\ OutputQuiet' /\ [Next]_cutoffVars
    => HeatTrain'
<1> SUFFICES ASSUME TypeOK, TypeOK', HeatTrain, HeatUnseen, PidPace, WatchdogInTime,
                    OutputUpper', OutputQuiet', [Next]_cutoffVars
             PROVE  HeatTrain'
    OBVIOUS
<1>1. CASE Reset BY <1>1 DEF Reset, HeatTrain
<1>2. CASE ~Reset /\ train' /\ OnTime("output")'
  <2>o. /\ OnTime("output") /\ (OnTime("pid")' => OnTime("pid"))
        /\ (OnTime("timer")' => OnTime("timer")) /\ (OnTime("watchdog")' => OnTime("watchdog"))
        BY <1>2, Lateness DEF Activities, Counters
  <2>k. TimerPeriod + PidLate \in Nat /\ (StaleLimit["pid"] + 2) * WdMax \in Nat
    <3>1. TimerPeriod + PidLate \in Nat BY RatesAssumption
    <3>2. StaleLimit["pid"] \in Nat /\ WdMax \in Nat BY Clocks, WindowsAssumption
    <3>3. (StaleLimit["pid"] + 2) * WdMax \in Nat BY <3>2, Z3
    <3>4. QED BY <3>1, <3>3
  <2>1. CASE OutputCycle
    <3>1. /\ since'["output"] = 0 /\ since'["pid"] = since["pid"]
          /\ heat' = heat /\ late' = late /\ ~tripped
          BY <1>2, <2>1 DEF OutputCycle, TypeOK, Counters
    <3>2. heat <= since["pid"] + 1 BY <3>1 DEF HeatUnseen
    <3>3. OnTime("pid") /\ OnTime("timer") => HeatWithin(TimerPeriod + PidLate)'
      <4>1. OnTime("pid") /\ OnTime("timer") => since["pid"] <= TimerPeriod + PidLate
            BY RatesAssumption, Clocks DEF PidPace
      <4>2. QED BY <4>1, <3>1, <3>2, <2>k, Clocks DEF HeatWithin
    <3>4. seen' => HeatWithin((age + 1) * OutMax)'
      <4>1. seen' => since'["pid"] <= since'["output"] + (age' + 1) * OutMax
            BY <1>2 DEF OutputUpper, OutputQuiet
      <4> DEFINE K == (age' + 1) * OutMax
      <4>2. K \in Nat
        <5> DEFINE n == age'
        <5>1. n \in Nat /\ OutMax \in Nat BY Clocks, WindowsAssumption DEF TypeOK
        <5> HIDE DEF n
        <5>2. (n + 1) * OutMax \in Nat BY <5>1, OneMore
        <5>3. QED BY <5>2, Zenon DEF n
      <4>3. seen' => since["pid"] <= 0 + K BY <4>1, <3>1
      <4> HIDE DEF K
      <4>4. seen' => heat' <= since'["output"] + K + 1 BY <4>2, <4>3, <3>1, <3>2, Clocks
      <4>5. QED BY <4>4 DEF K, HeatWithin
    <3>5. OnTime("watchdog") => HeatWithin((StaleLimit["pid"] + 2) * WdMax)'
      <4>1. OnTime("watchdog") => since["pid"] <= (StaleLimit["pid"] + 2) * WdMax
            BY <3>1, Clocks DEF WatchdogInTime
      <4>2. QED BY <4>1, <3>1, <3>2, <2>k, Clocks DEF HeatWithin
    <3>6. QED BY <3>3, <3>4, <3>5, <2>o DEF HeatTrain
  <2>2. CASE ~OutputCycle
    <3>u. /\ OnTime("pid") /\ OnTime("timer") => HeatWithin(TimerPeriod + PidLate)
          /\ seen => HeatWithin((age + 1) * OutMax)
          /\ OnTime("watchdog") => HeatWithin((StaleLimit["pid"] + 2) * WdMax)
          /\ UNCHANGED <<train, seen, age>>
      <4>1. UNCHANGED <<train, seen, age>>
            BY <1>2, <2>2 DEF Next, cutoffVars, Time, TimerTick, PidCycle, WatchdogCycle,
               FallBehind, Overheat
      <4>2. QED BY <4>1, <1>2, <2>o DEF HeatTrain
    <3>1. CASE Time
      <4>1. ASSUME NEW K \in Nat, heat <= since["output"] + K + 1
            PROVE  heat' <= since'["output"] + K + 1
        <5>1. K + 1 \in Nat /\ heat <= since["output"] + (K + 1) BY <4>1, Clocks
        <5>2. SmallerOf(heat + 1, Horizon) <= SmallerOf(since["output"] + 1, Horizon) + (K + 1)
              BY <5>1, TimePasses, Clocks
        <5>3. /\ SmallerOf(heat + 1, Horizon) \in Nat
              /\ SmallerOf(since["output"] + 1, Horizon) \in Nat /\ heat' \in Nat
              BY <3>1, Clocks DEF SmallerOf, Time
        <5>4. QED BY <5>2, <5>3, <3>1, TimeClocks, Clocks
      <4>2. QED BY <4>1, <3>u, <2>o, <2>k, Clocks DEF HeatTrain, HeatWithin
    <3>2. CASE Overheat
      <4>1. since' = since /\ heat' = 1 /\ late' = late BY <3>2 DEF Overheat
      <4>2. ASSUME NEW K \in Nat PROVE heat' <= since'["output"] + K + 1 BY <4>1, Clocks
      <4>3. QED BY <4>1, <4>2, <3>u, <2>k, Clocks DEF HeatTrain, HeatWithin
    <3>3. CASE heat' = heat /\ since'["output"] = since["output"]
          BY <3>3, <3>u, <2>o DEF HeatTrain, HeatWithin
    <3>4. TimerTick \/ PidCycle => heat' = heat /\ since'["output"] = since["output"]
          BY DEF TimerTick, PidCycle, Advance, TypeOK, Counters
    <3>5. QED BY <3>1, <3>2, <3>3, <3>4, <1>2, <2>2
              DEF Next, cutoffVars, FallBehind, WatchdogCycle
  <2>3. QED BY <2>1, <2>2
<1>3. CASE ~(train' /\ OnTime("output")') BY <1>3 DEF HeatTrain
<1>4. QED BY <1>1, <1>2, <1>3

\* CutoffTiming!HotEndsInTime: who cuts an overheated oven off, and how late.
THEOREM CutoffHot == Spec => []HotEndsInTime
<1>1. TypeOK /\ OutputUpper /\ OutputQuiet /\ HeatTrain => HotEndsInTime
  <2> SUFFICES ASSUME TypeOK, OutputUpper, OutputQuiet, HeatTrain, train, OnTime("output")
               PROVE  /\ OnTime("pid") /\ OnTime("timer")
                           => heat <= TimerPeriod + PidLate + OutMax + 1
                      /\ seen => heat <= (OutputPidLimit + 2) * OutMax + 1
                      /\ OnTime("watchdog")
                           => heat <= (StaleLimit["pid"] + 2) * WdMax + OutMax + 1
      BY DEF HotEndsInTime
  <2>1. since["output"] <= OutMax /\ age <= OutputPidLimit BY DEF OutputUpper, OutputQuiet
  <2>2. OnTime("pid") /\ OnTime("timer") => heat <= TimerPeriod + PidLate + OutMax + 1
        BY <2>1, Clocks, RatesAssumption DEF HeatTrain, HeatWithin
  <2>3. seen => heat <= (OutputPidLimit + 2) * OutMax + 1
    <3>1. (age + 1) * OutMax + OutMax <= (OutputPidLimit + 2) * OutMax
          BY <2>1, MoreCycles, Clocks, WindowsAssumption
    <3>2. OutputPidLimit \in Nat /\ OutMax \in Nat BY Clocks, WindowsAssumption
    <3>3. (OutputPidLimit + 2) * OutMax \in Nat BY <3>2, Z3
    <3>4. seen => heat <= since["output"] + (age + 1) * OutMax + 1
          BY DEF HeatTrain, HeatWithin
    <3>5. QED BY <3>1, <3>3, <3>4, <2>1, Clocks
  <2>4. OnTime("watchdog") => heat <= (StaleLimit["pid"] + 2) * WdMax + OutMax + 1
    <3>1. StaleLimit["pid"] \in Nat /\ WdMax \in Nat BY Clocks, WindowsAssumption
    <3>2. (StaleLimit["pid"] + 2) * WdMax \in Nat BY <3>1, Z3
    <3>3. OnTime("watchdog") => heat <= since["output"] + (StaleLimit["pid"] + 2) * WdMax + 1
          BY DEF HeatTrain, HeatWithin
    <3>4. QED BY <3>2, <3>3, <2>1, Clocks
  <2>5. QED BY <2>2, <2>3, <2>4
<1>2. Init => PidPace /\ HeatUnseen /\ HeatTrain
  <2>1. Init => PidPace BY RatesAssumption DEF Init, Zero, Counters, PidPace
  <2>2. Init => HeatUnseen BY DEF Init, Zero, Counters, HeatUnseen
  <2>3. Init => HeatTrain BY DEF Init, HeatTrain
  <2>4. QED BY <2>1, <2>2, <2>3
<1>3. QED BY <1>1, <1>2, TypeInit, TypeStep, OutputInit, OutputUpperStep, OutputQuietStep,
             PidPaceStep, HeatUnseenStep, HeatTrainStep, CutoffWatchdog, PTL DEF Spec

-----------------------------------------------------------------------------
(* No nuisance trip                                                         *)

\* The longest a counter stands still while everyone is on time.
Gap == [pid |-> TimerPeriod + PidLate, output |-> OutMax, timer |-> TimerPeriod]

\* While everyone is on time, a counter that has been found stale has stood still
\* through all those cycles but the first, each at least WdMin long.
WatchdogLower ==
    late = {} =>
      \A c \in Counters :
        /\ stale[c] <= StaleLimit[c]
        /\ stale[c] > 0 => "watchdog" \in begun
        /\ \A s \in Nat : c \notin fresh["watchdog"] /\ stale[c] = s + 1
                         => s * WdMin + rest <= since[c]

\* The same for Output.
OutputLower ==
    late = {} =>
      /\ age <= OutputPidLimit
      /\ seen => "output" \in begun
      /\ \A s \in Nat : "pid" \notin fresh["output"] /\ age = s + 1
                       => s * OutMin + since["output"] <= since["pid"]

LEMMA GapFacts ==
    /\ \A c \in Counters : Gap[c] \in Nat /\ Gap[c] <= Horizon
    /\ \A c \in Counters : Gap[c] < StaleLimit[c] * WdMin
    /\ Gap["pid"] < OutputPidLimit * OutMin
<1>1. Counters = {"pid", "output", "timer"} BY DEF Counters
<1>2. /\ Gap["pid"] = TimerPeriod + PidLate /\ Gap["output"] = OutMax
      /\ Gap["timer"] = TimerPeriod
      BY DEF Gap
<1>3. TimerPeriod \in Nat /\ PidLate \in Nat /\ OutMax \in Nat /\ Horizon \in Nat
      BY RatesAssumption, WindowsAssumption
<1>4. \A c \in Counters : Gap[c] \in Nat /\ Gap[c] <= Horizon
      BY <1>1, <1>2, <1>3, LimitsAssumption DEF WindowsFit
<1>5. \A c \in Counters : Gap[c] < StaleLimit[c] * WdMin
      BY <1>1, <1>2, LimitsAssumption DEF WindowsFit
<1>6. QED BY <1>2, <1>4, <1>5, LimitsAssumption DEF WindowsFit

LEMMA GapKept ==
    ASSUME TypeOK, PidPace, OutputUpper, late = {}
    PROVE  /\ \A c \in Counters : since[c] <= Gap[c]
           /\ Time => \A c \in Counters : since'[c] = since[c] + 1
<1>1. OnTime("pid") /\ OnTime("timer") /\ OnTime("output") BY DEF OnTime
<1>2. TimerPeriod \in Nat /\ PidLate \in Nat /\ PidLate < TimerPeriod BY RatesAssumption
<1>3. since["output"] <= OutMax BY <1>1 DEF OutputUpper
<1>4. since["timer"] <= TimerPeriod BY <1>1 DEF PidPace
<1>5. since["pid"] <= TimerPeriod + PidLate BY <1>1, <1>2, Clocks DEF PidPace
<1>6. \A c \in Counters : since[c] <= Gap[c] BY <1>3, <1>4, <1>5 DEF Gap, Counters
<1>7. ASSUME Time, NEW c \in Counters PROVE since'[c] = since[c] + 1
  <2>1. /\ since["timer"] < TimerPeriod /\ (due => since["timer"] < PidLate)
        /\ since["output"] < OutMax
        BY <1>1, <1>7 DEF Time
  <2>2. since["pid"] < TimerPeriod + PidLate BY <1>1, <1>2, <2>1, Clocks DEF PidPace
  <2>3. since[c] < Gap[c] BY <2>1, <2>2 DEF Gap, Counters
  <2>4. since[c] + 1 <= Horizon BY <2>3, GapFacts, Clocks
  <2>5. QED BY <1>7, <2>4, TimeClocks, Clocks DEF SmallerOf
<1>8. QED BY <1>6, <1>7

\* s whole cycles after the first.
LEMMA WholeCycles ==
    ASSUME NEW W \in Nat, NEW s \in Nat, NEW x \in Nat, NEW r \in Nat,
           s > 0 => r >= W, \A t \in Nat : s = t + 1 => t * W + r <= x
    PROVE  s * W <= x
<1>1. CASE s = 0
  <2>1. s * W = 0 BY <1>1, Z3
  <2>2. QED BY <2>1
<1>2. CASE s > 0
  <2>1. PICK t \in Nat : s = t + 1
    <3>1. s - 1 \in Nat /\ s = (s - 1) + 1 BY <1>2
    <3>2. QED BY <3>1
  <2>2. t * W + r <= x /\ r >= W BY <2>1, <1>2
  <2>3. s * W = t * W + W /\ t * W \in Nat BY <2>1, OneMore
  <2>4. QED BY <2>2, <2>3
<1>3. QED BY <1>1, <1>2

LEMMA WatchdogLowerStep ==
    TypeOK /\ TypeOK' /\ PidPace /\ OutputUpper /\ WatchdogLower /\ [Next]_cutoffVars
    => WatchdogLower'
<1> SUFFICES ASSUME TypeOK, TypeOK', PidPace, OutputUpper, WatchdogLower,
                    [Next]_cutoffVars, late' = {}, NEW c \in Counters
             PROVE  /\ stale'[c] <= StaleLimit[c]
                    /\ stale'[c] > 0 => "watchdog" \in begun'
                    /\ \A s \in Nat : c \notin fresh'["watchdog"] /\ stale'[c] = s + 1
                                     => s * WdMin + rest' <= since'[c]
    BY DEF WatchdogLower
<1>n. /\ StaleLimit[c] \in Nat /\ stale[c] \in Nat /\ WdMin \in Nat
      /\ since[c] \in Nat /\ rest \in Nat
      BY RatesAssumption, WindowsAssumption, Clocks DEF TypeOK
<1>1. CASE Reset
  <2>1. stale'[c] = 0 BY <1>1 DEF Reset, Zero
  <2>2. QED BY <2>1, <1>n
<1>2. CASE ~Reset
  <2>o. late = {} BY <1>2 DEF Next, cutoffVars, Time, TimerTick, PidCycle, OutputCycle,
          WatchdogCycle, FallBehind, Overheat
  <2>u. /\ stale[c] <= StaleLimit[c]
        /\ stale[c] > 0 => "watchdog" \in begun
        /\ \A s \in Nat : c \notin fresh["watchdog"] /\ stale[c] = s + 1
                         => s * WdMin + rest <= since[c]
        BY <2>o DEF WatchdogLower
  <2>1. CASE WatchdogCycle
    <3>1. rest' = 0 /\ since' = since /\ "watchdog" \in begun' BY <2>1 DEF WatchdogCycle
    <3>2. CASE c \in fresh["watchdog"]
      <4>1. stale'[c] = 0 BY <2>1, <3>2 DEF WatchdogCycle
      <4>2. QED BY <4>1, <1>n
    <3>3. CASE c \notin fresh["watchdog"]
      <4>1. stale'[c] = stale[c] + 1
            BY <2>1, <3>3, <2>u, <1>n DEF WatchdogCycle, SmallerOf
      <4>2. stale[c] > 0 => rest >= WdMin BY <2>1, <2>u DEF WatchdogCycle
      <4>3. stale[c] * WdMin <= since[c] BY <4>2, <3>3, <2>u, <1>n, WholeCycles
      <4>4. stale[c] # StaleLimit[c]
        <5>1. since[c] <= Gap[c] /\ Gap[c] < StaleLimit[c] * WdMin /\ Gap[c] \in Nat
              BY <2>o, GapKept, GapFacts
        <5>2. stale[c] * WdMin \in Nat BY <1>n, OneMore
        <5>3. SUFFICES ASSUME stale[c] = StaleLimit[c] PROVE FALSE OBVIOUS
        <5>4. since[c] < stale[c] * WdMin BY <5>1, <5>2, <5>3, <1>n
        <5>5. QED BY <5>2, <5>4, <4>3, <1>n
      <4>5. stale'[c] <= StaleLimit[c] BY <4>1, <4>4, <2>u, <1>n
      <4>6. ASSUME NEW s \in Nat, stale'[c] = s + 1 PROVE s * WdMin + rest' <= since'[c]
        <5>1. s = stale[c] BY <4>1, <4>6, <1>n
        <5>2. s * WdMin \in Nat BY <1>n, OneMore
        <5>3. QED BY <5>1, <5>2, <3>1, <4>3
      <4>7. QED BY <3>1, <4>5, <4>6
    <3>4. QED BY <3>2, <3>3
  <2>2. CASE Time
    <3>1. UNCHANGED <<stale, begun, fresh>> /\ since'[c] = since[c] + 1
          BY <2>2, <2>o, GapKept DEF Time
    <3>2. rest' <= rest + 1 /\ rest' \in Nat
          BY <2>2, TimeClocks, Clocks DEF SmallerOf
    <3>3. ASSUME NEW s \in Nat, s * WdMin + rest <= since[c]
          PROVE  s * WdMin + rest' <= since'[c]
      <4>1. s * WdMin \in Nat BY <1>n, OneMore
      <4>2. QED BY <4>1, <3>1, <3>2, <3>3, <1>n
    <3>4. QED BY <3>1, <3>3, <2>u
  <2>3. ASSUME NEW d \in Counters,
               /\ "watchdog" \in begun => fresh'["watchdog"] = fresh["watchdog"] \cup {d}
               /\ c # d => since'[c] = since[c]
               /\ "watchdog" \in begun => "watchdog" \in begun'
               /\ UNCHANGED <<rest, stale>>
        PROVE  /\ stale'[c] > 0 => "watchdog" \in begun'
               /\ \A s \in Nat : c \notin fresh'["watchdog"] /\ stale'[c] = s + 1
                                => s * WdMin + rest' <= since'[c]
    <3>1. stale'[c] > 0 => "watchdog" \in begun' BY <2>3, <2>u
    <3>2. ASSUME NEW s \in Nat, c \notin fresh'["watchdog"], stale'[c] = s + 1
          PROVE  s * WdMin + rest' <= since'[c]
      <4>1. "watchdog" \in begun BY <2>3, <3>2, <2>u
      <4>2. c # d /\ c \notin fresh["watchdog"] BY <2>3, <3>2, <4>1
      <4>3. QED BY <2>3, <3>2, <4>2, <2>u
    <3>3. QED BY <3>1, <3>2
  <2>4. CASE TimerTick
    <3>1. /\ "watchdog" \in begun => fresh'["watchdog"] = fresh["watchdog"] \cup {"timer"}
          /\ c # "timer" => since'[c] = since[c]
          /\ UNCHANGED <<rest, stale, begun>>
          BY <2>4 DEF TimerTick, Advance, TypeOK, Watched, Counters
    <3>2. QED BY <3>1, <2>3, <2>u, Clocks
  <2>5. CASE PidCycle
    <3>1. /\ "watchdog" \in begun => fresh'["watchdog"] = fresh["watchdog"] \cup {"pid"}
          /\ c # "pid" => since'[c] = since[c]
          /\ UNCHANGED <<rest, stale, begun>>
          BY <2>5 DEF PidCycle, Advance, TypeOK, Watched, Counters
    <3>2. QED BY <3>1, <2>3, <2>u, Clocks
  <2>6. CASE OutputCycle
    <3>1. /\ "watchdog" \in begun => fresh'["watchdog"] = fresh["watchdog"] \cup {"output"}
          /\ c # "output" => since'[c] = since[c]
          /\ UNCHANGED <<rest, stale>>
          /\ "watchdog" \in begun => "watchdog" \in begun'
          BY <2>6 DEF OutputCycle, TypeOK, Counters
    <3>2. QED BY <3>1, <2>3, <2>u, Clocks
  <2>7. CASE UNCHANGED <<since, rest, begun, fresh, stale>> BY <2>7, <2>u
  <2>8. QED BY <2>1, <2>2, <2>4, <2>5, <2>6, <2>7, <1>2
            DEF Next, cutoffVars, FallBehind, Overheat
<1>3. QED BY <1>1, <1>2

LEMMA OutputLowerStep ==
    TypeOK /\ TypeOK' /\ PidPace /\ OutputUpper /\ OutputLower /\ [Next]_cutoffVars
    => OutputLower'
<1> SUFFICES ASSUME TypeOK, TypeOK', PidPace, OutputUpper, OutputLower,
                    [Next]_cutoffVars, late' = {}
             PROVE  /\ age' <= OutputPidLimit
                    /\ seen' => "output" \in begun'
                    /\ \A s \in Nat : "pid" \notin fresh'["output"] /\ age' = s + 1
                                     => s * OutMin + since'["output"] <= since'["pid"]
    BY DEF OutputLower
<1>n. /\ OutputPidLimit \in Nat /\ age \in Nat /\ OutMin \in Nat
      /\ since["pid"] \in Nat /\ since["output"] \in Nat
      BY RatesAssumption, WindowsAssumption, Clocks
<1>1. CASE Reset
  <2>1. age' = 0 /\ seen' = FALSE BY <1>1 DEF Reset
  <2>2. QED BY <2>1, <1>n
<1>2. CASE ~Reset
  <2>o. late = {} BY <1>2 DEF Next, cutoffVars, Time, TimerTick, PidCycle, OutputCycle,
          WatchdogCycle, FallBehind, Overheat
  <2>u. /\ age <= OutputPidLimit
        /\ seen => "output" \in begun
        /\ \A s \in Nat : "pid" \notin fresh["output"] /\ age = s + 1
                         => s * OutMin + since["output"] <= since["pid"]
        BY <2>o DEF OutputLower
  <2>1. CASE OutputCycle
    <3>1. since'["output"] = 0 /\ since'["pid"] = since["pid"] /\ "output" \in begun'
          BY <2>1 DEF OutputCycle, TypeOK, Counters
    <3>2. CASE "pid" \in fresh["output"]
      <4>1. age' = 0 BY <2>1, <3>2, OutputAge
      <4>2. QED BY <4>1, <3>1, <1>n
    <3>3. CASE "pid" \notin fresh["output"] /\ ~seen
      <4>1. age' = 0
        <5>1. age' = age BY <2>1, <3>3, OutputAge
        <5>2. ~(age > 0) BY <3>3 DEF TypeOK
        <5>3. QED BY <5>1, <5>2, <1>n
      <4>2. QED BY <4>1, <3>1, <1>n
    <3>4. CASE "pid" \notin fresh["output"] /\ seen
      <4>1. age' = SmallerOf(age + 1, 2 * OutputPidLimit + 1) BY <2>1, <3>4, OutputAge
      <4>2. age' = age + 1 BY <4>1, <2>u, <1>n DEF SmallerOf
      <4>3. since["output"] >= OutMin BY <2>1, <3>4, <2>u DEF OutputCycle
      <4>4. age * OutMin <= since["pid"] BY <4>3, <3>4, <2>u, <1>n, WholeCycles
      <4>5. age # OutputPidLimit
        <5>1. /\ since["pid"] <= Gap["pid"] /\ Gap["pid"] < OutputPidLimit * OutMin
              /\ Gap["pid"] \in Nat
              BY <2>o, GapKept, GapFacts, Clocks
        <5>2. age * OutMin \in Nat BY <1>n, OneMore
        <5>3. SUFFICES ASSUME age = OutputPidLimit PROVE FALSE OBVIOUS
        <5>4. since["pid"] < age * OutMin BY <5>1, <5>2, <5>3, <1>n
        <5>5. QED BY <5>2, <5>4, <4>4, <1>n
      <4>6. age' <= OutputPidLimit BY <4>2, <4>5, <2>u, <1>n
      <4>7. ASSUME NEW s \in Nat, age' = s + 1
            PROVE  s * OutMin + since'["output"] <= since'["pid"]
        <5>1. s = age BY <4>2, <4>7, <1>n
        <5>2. s * OutMin \in Nat BY <1>n, OneMore
        <5>3. QED BY <5>1, <5>2, <3>1, <4>4
      <4>8. QED BY <3>1, <4>6, <4>7
    <3>5. QED BY <3>2, <3>3, <3>4
  <2>2. CASE Time
    <3>1. /\ UNCHANGED <<age, seen, begun, fresh>> /\ since'["pid"] = since["pid"] + 1
          /\ since'["output"] = since["output"] + 1
          BY <2>2, <2>o, GapKept, Clocks DEF Time
    <3>2. ASSUME NEW s \in Nat, s * OutMin + since["output"] <= since["pid"]
          PROVE  s * OutMin + since'["output"] <= since'["pid"]
      <4>1. s * OutMin \in Nat BY <1>n, OneMore
      <4>2. QED BY <4>1, <3>1, <3>2, <1>n
    <3>3. QED BY <3>1, <3>2, <2>u
  <2>3. CASE PidCycle
    <3>1. /\ UNCHANGED <<age, seen, begun>>
          /\ "output" \in begun => "pid" \in fresh'["output"]
          BY <2>3 DEF PidCycle, Advance, Watched, TypeOK
    <3>2. age > 0 => "output" \in begun BY <2>u DEF TypeOK
    <3>3. QED BY <3>1, <3>2, <2>u, <1>n
  <2>4. CASE TimerTick
    <3>1. /\ UNCHANGED <<age, seen, begun>>
          /\ since'["pid"] = since["pid"] /\ since'["output"] = since["output"]
          /\ "output" \in begun => fresh'["output"] = fresh["output"]
          BY <2>4 DEF TimerTick, Advance, Watched, TypeOK, Counters
    <3>2. age > 0 => "output" \in begun BY <2>u DEF TypeOK
    <3>3. QED BY <3>1, <3>2, <2>u, <1>n
  <2>5. CASE /\ UNCHANGED <<since, age, seen>> /\ fresh'["output"] = fresh["output"]
             /\ "output" \in begun => "output" \in begun'
        BY <2>5, <2>u
  <2>6. WatchdogCycle => /\ fresh'["output"] = fresh["output"]
                         /\ "output" \in begun => "output" \in begun'
        BY DEF WatchdogCycle, TypeOK, Watched
  <2>7. QED BY <2>1, <2>2, <2>3, <2>4, <2>5, <2>6, <1>2
            DEF Next, cutoffVars, FallBehind, Overheat, WatchdogCycle
<1>3. QED BY <1>1, <1>2

LEMMA QuietStep ==
    TypeOK /\ TypeOK' /\ NoNuisanceTrip /\ WatchdogLower' /\ OutputLower' /\ [Next]_cutoffVars
    => NoNuisanceTrip'
<1> SUFFICES ASSUME TypeOK, TypeOK', NoNuisanceTrip, WatchdogLower', OutputLower',
                    [Next]_cutoffVars, late' = {}, heat' = 0
             PROVE  ~tripped'
    BY DEF NoNuisanceTrip
<1>1. CASE Reset BY <1>1 DEF Reset
<1>2. CASE ~Reset
  <2>1. ~tripped
    <3>1. late = {} BY <1>2 DEF Next, cutoffVars, Time, TimerTick, PidCycle, OutputCycle,
            WatchdogCycle, FallBehind, Overheat
    <3>2. heat = 0
      <4>1. CASE Time
        <5>1. Horizon > 0 BY RatesAssumption, WindowsAssumption, LimitsAssumption
        <5>2. heat' = IF heat = 0 THEN 0 ELSE SmallerOf(heat + 1, Horizon) BY <4>1 DEF Time
        <5>3. SmallerOf(heat + 1, Horizon) > 0 BY <5>1, Clocks DEF SmallerOf
        <5>4. CASE heat = 0 BY <5>4
        <5>5. CASE heat # 0 BY <5>2, <5>3, <5>5
        <5>6. QED BY <5>4, <5>5
      <4>2. QED BY <4>1, <1>2 DEF Next, cutoffVars, TimerTick, PidCycle, OutputCycle,
              WatchdogCycle, FallBehind, Overheat
    <3>3. QED BY <3>1, <3>2 DEF NoNuisanceTrip
  <2>2. CASE PidCycle
    <3>1. heat = 0 BY <2>2 DEF PidCycle
    <3>2. ~(heat > 0) BY <3>1
    <3>3. tripped' = (tripped \/ heat > 0) BY <2>2 DEF PidCycle
    <3>4. QED BY <2>1, <3>2, <3>3, Zenon
  <2>3. CASE OutputCycle
    <3>1. age' <= OutputPidLimit /\ age' \in Nat
          BY WindowsAssumption DEF OutputLower, TypeOK
    <3>2. ~TooOld(age') BY <3>1, WindowsAssumption DEF TooOld
    <3>3. QED BY <2>1, <2>3, <3>2 DEF OutputCycle
  <2>4. CASE WatchdogCycle
    <3>1. \A c \in Counters : /\ stale'[c] <= StaleLimit[c]
                              /\ stale'[c] \in Nat /\ StaleLimit[c] \in Nat
          BY WindowsAssumption DEF WatchdogLower, TypeOK
    <3>2. ~Starved(stale') BY <3>1 DEF Starved
    <3>3. QED BY <2>1, <2>4, <3>2 DEF WatchdogCycle
  <2>5. CASE UNCHANGED tripped BY <2>1, <2>5
  <2>6. QED BY <2>2, <2>3, <2>4, <2>5, <1>2
            DEF Next, cutoffVars, Time, TimerTick, FallBehind, Overheat
<1>3. QED BY <1>1, <1>2

\* CutoffTiming!NoNuisanceTrip: the limits fit the rates.
THEOREM CutoffNoNuisance == Spec => []NoNuisanceTrip
<1>1. Init => /\ PidPace /\ WatchdogLower /\ OutputLower /\ NoNuisanceTrip
  <2>1. Init => PidPace BY RatesAssumption DEF Init, Zero, Counters, PidPace
  <2>2. Init => WatchdogLower BY WindowsAssumption DEF Init, Zero, WatchdogLower
  <2>3. Init => OutputLower BY WindowsAssumption DEF Init, OutputLower
  <2>4. Init => NoNuisanceTrip BY DEF Init, NoNuisanceTrip
  <2>5. QED BY <2>1, <2>2, <2>3, <2>4
<1>2. QED BY <1>1, TypeInit, TypeStep, OutputInit, OutputUpperStep, PidPaceStep,
             WatchdogLowerStep, OutputLowerStep, QuietStep, PTL DEF Spec

-----------------------------------------------------------------------------
(* The code's own numbers                                                   *)

\* In microseconds: a release every 500 ms, no Watchdog cycle shorter than its sleep
\* of 100 ms, no Output cycle shorter than 8.333 ms, limits of 120, 8, 2 and 8.
CodeRates ==
    /\ TimerPeriod = 500000 /\ WdMin = 100000 /\ OutMin = 8333
    /\ OutputPidLimit = 120 /\ StaleLimit = [pid |-> 8, output |-> 2, timer |-> 8]

\* The assumption on the limits holds of them, as long as a PID cycle ends within
\* 300 ms of its release and Output comes back within 200 ms, far above what either
\* thread sleeps or waits for.
THEOREM CodeKeepsWindows ==
    ASSUME CodeRates, PidLate < 300000, OutMax < 200000
    PROVE  WindowsFit
BY RatesAssumption DEF CodeRates, WindowsFit

\* The train of the code, and with it the heat of a zone B above its limit, when
\* Output comes back within 10 ms and the Watchdog within 120 ms: 1.22 s without a
\* PID cycle after one that Output has seen, 1.21 s without any PID cycle or release;
\* 0.81 s of heat while PID keeps its times, 1.22 s when it does not.
CodeCutsOff ==
    train /\ OnTime("output") =>
      /\ seen => since["pid"] <= 1220000 /\ heat <= 1220001
      /\ OnTime("pid") /\ OnTime("timer") => heat <= 810000
      /\ OnTime("watchdog") => /\ since["pid"] <= 1210000 /\ since["timer"] <= 1210000
                               /\ heat <= 1210001

\* With the code's numbers each bound above holds of every behaviour: the latency
\* of the cutoff chain (output_thread.c, watchdog_thread.c) in absolute time.
THEOREM CodeCutsOffInTime ==
    Spec => [](CodeRates /\ PidLate < 300000 /\ OutMax <= 10000 /\ WdMax <= 120000
               => CodeCutsOff)
<1>1. TypeOK /\ TrainEndsInTime /\ HotEndsInTime
      => (CodeRates /\ PidLate < 300000 /\ OutMax <= 10000 /\ WdMax <= 120000
          => CodeCutsOff)
  <2> SUFFICES ASSUME TypeOK, TrainEndsInTime, HotEndsInTime, CodeRates,
                      PidLate < 300000, OutMax <= 10000, WdMax <= 120000,
                      train, OnTime("output")
               PROVE  /\ seen => since["pid"] <= 1220000 /\ heat <= 1220001
                      /\ OnTime("pid") /\ OnTime("timer") => heat <= 810000
                      /\ OnTime("watchdog") =>
                           /\ since["pid"] <= 1210000 /\ since["timer"] <= 1210000
                           /\ heat <= 1210001
      BY DEF CodeCutsOff
  <2>1. /\ StaleLimit["pid"] = 8 /\ StaleLimit["timer"] = 8
        /\ OutputPidLimit = 120 /\ TimerPeriod = 500000
        BY DEF CodeRates
  <2>2. OutMax \in Nat /\ WdMax \in Nat /\ PidLate \in Nat
        BY Clocks, RatesAssumption
  <2>3. seen => since["pid"] <= 122 * OutMax /\ heat <= 122 * OutMax + 1
        BY <2>1 DEF TrainEndsInTime, HotEndsInTime
  <2>4. OnTime("pid") /\ OnTime("timer") => heat <= 500000 + PidLate + OutMax + 1
        BY <2>1 DEF HotEndsInTime
  <2>5. OnTime("watchdog") => /\ since["pid"] <= 10 * WdMax + OutMax
                              /\ since["timer"] <= 10 * WdMax + OutMax
                              /\ heat <= 10 * WdMax + OutMax + 1
        BY <2>1, Clocks DEF TrainEndsInTime, HotEndsInTime
  <2>6. QED BY <2>2, <2>3, <2>4, <2>5, Clocks
<1>2. QED BY <1>1, CutoffTypes, CutoffTrain, CutoffHot, PTL
=============================================================================
