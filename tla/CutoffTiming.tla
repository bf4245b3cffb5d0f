---------------------------- MODULE CutoffTiming ----------------------------
(***************************************************************************)
(* The cutoff chain in time: how long the heater's keep-alive train can    *)
(* outlive what it depends on, and whether the staleness limits leave room *)
(* for the jitter of threads that are on time (output_thread.c,            *)
(* watchdog_thread.c, the rates of shared.h and pid_thread.c).             *)
(*                                                                         *)
(* Time advances in whole units.  An activity that is on time lets time    *)
(* pass only up to the end of its period; one that is late runs whenever   *)
(* it likes, or never again.  A cycle takes no time: OvenThreads has the   *)
(* interleavings inside it, OvenTiming the deadline check.  The oven is    *)
(* armed all along; a disarmed one does not pulse.                         *)
(***************************************************************************)
EXTENDS Naturals

CONSTANTS
    TimerPeriod,      \* OVEN_PID_PERIOD_MS
    PidLate,          \* longest time from a release to the end of its cycle
    OutMin, OutMax,   \* time between two Output cycles, sleep and jitter
    WdMin, WdMax,     \* time between two Watchdog cycles
    OutputPidLimit,   \* OVEN_PID_STALE_LIMIT_CYCLES
    StaleLimit,       \* StaleLimit[c]: WD_*_STALE_CYCLES for counter c
    LateSets,         \* activities an instance lets be late together
    Horizon           \* bound on the ages an instance tells apart

Counters == {"pid", "output", "timer"}
Activities == Counters \cup {"watchdog"}

ASSUME RatesAssumption ==
    /\ TimerPeriod \in Nat \ {0} /\ PidLate \in Nat /\ PidLate < TimerPeriod
    /\ OutMin \in Nat \ {0} /\ OutMax \in Nat /\ OutMin <= OutMax
    /\ WdMin \in Nat \ {0} /\ WdMax \in Nat /\ WdMin <= WdMax
ASSUME WindowsAssumption ==
    /\ OutputPidLimit \in Nat /\ StaleLimit \in [Counters -> Nat]
    /\ Horizon \in Nat /\ LateSets \subseteq SUBSET Activities
\* The limits leave room for the gaps an oven that is on time leaves in a counter.
WindowsFit ==
    /\ TimerPeriod < StaleLimit["timer"] * WdMin
    /\ TimerPeriod + PidLate < StaleLimit["pid"] * WdMin
    /\ TimerPeriod + PidLate < OutputPidLimit * OutMin
    /\ OutMax < StaleLimit["output"] * WdMin
\* The ages the properties speak of are told apart.
ASSUME LimitsAssumption ==
    WindowsFit /\ TimerPeriod + PidLate <= Horizon /\ OutMax <= Horizon

VARIABLES
    since,     \* since[c]: time since counter c last advanced, or the release
    rest,      \* time since the Watchdog's last cycle, or the release
    due,       \* s_release holds a release PID has not served
    begun,     \* the monitors that have taken their baseline
    fresh,     \* fresh[r]: counters that advanced since monitor r last looked
    age, seen, \* Output: cycles_since_pid, pid_seen
    stale,     \* Watchdog: its three stale counts
    tripped,   \* g_fault_word is nonzero
    train,     \* Output's last cycle pulsed
    heat,      \* time zone B has been above its limit, 0 if it is not
    late       \* the activities that do not keep their times any more

cutoffVars == <<since, rest, due, begun, fresh, age, seen, stale, tripped, train,
                heat, late>>

Watched == [output |-> {"pid"}, watchdog |-> Counters]
SmallerOf(a, b) == IF a < b THEN a ELSE b
OnTime(a) == a \notin late
\* The oven has tripped and Output, if it is on time, has stopped: nothing
\* changes that before a reset.
Over == tripped /\ (OnTime("output") => ~train)

Zero == [c \in Counters |-> 0]
NothingFresh == [r \in DOMAIN Watched |-> {}]

\* main releases the threads right after it has started the timer.
Init ==
    /\ since = Zero /\ rest = 0 /\ due = FALSE
    /\ begun = {} /\ fresh = NothingFresh
    /\ age = 0 /\ seen = FALSE /\ stale = Zero
    /\ tripped = FALSE /\ train = FALSE /\ heat = 0 /\ late = {}

\* Counter c advances, which every monitor past its baseline can notice.
Advance(c) ==
    /\ since' = [since EXCEPT ![c] = 0]
    /\ fresh' = [r \in DOMAIN Watched |->
                   IF r \in begun THEN fresh[r] \cup ({c} \cap Watched[r]) ELSE {}]

-----------------------------------------------------------------------------
\* A unit of time, if nobody who is on time has to run first.
Time ==
    /\ ~Over
    /\ OnTime("timer") => since["timer"] < TimerPeriod
    /\ OnTime("pid") /\ due => since["timer"] < PidLate
    /\ OnTime("output") => since["output"] < OutMax
    /\ OnTime("watchdog") => rest < WdMax
    /\ since' = [c \in Counters |-> SmallerOf(since[c] + 1, Horizon)]
    /\ rest' = SmallerOf(rest + 1, Horizon)
    /\ heat' = IF heat = 0 THEN 0 ELSE SmallerOf(heat + 1, Horizon)
    /\ UNCHANGED <<due, begun, fresh, age, seen, stale, tripped, train, late>>

\* release_timer_cb
TimerTick ==
    /\ since["timer"] >= TimerPeriod
    /\ due' = TRUE
    /\ Advance("timer")
    /\ UNCHANGED <<rest, begun, age, seen, stale, tripped, train, heat, late>>

\* Mutant of PidCycle: the limit on B is not looked at.
PidCycleBlind ==
    /\ due /\ due' = FALSE
    /\ Advance("pid")
    /\ UNCHANGED <<rest, begun, age, seen, stale, tripped, train, heat, late>>

\* The end of pid_cycle, which has checked the limit on B and then advances
\* g_pid_seq.  Its other faults are in OvenThreads.
PidCycle ==
    /\ due /\ due' = FALSE
    /\ tripped' = (tripped \/ heat > 0)
    /\ Advance("pid")
    /\ UNCHANGED <<rest, begun, age, seen, stale, train, heat, late>>

\* Mutant of TooOld: the window counted at twice the rate of the cycle.
TooOldTwice(n) == n > 2 * OutputPidLimit
\* Output's verdict on the age of PID data.
TooOld(n) == n > OutputPidLimit

\* Mutant of AgeAfter: the cycles before PID's first one count too.
AgeAfterEager(advanced) ==
    IF advanced THEN 0 ELSE SmallerOf(age + 1, 2 * OutputPidLimit + 1)
\* cycles_since_pid after a cycle that has seen PID advance or not.
AgeAfter(advanced) ==
    IF advanced THEN 0
    ELSE IF seen THEN SmallerOf(age + 1, 2 * OutputPidLimit + 1) ELSE age

\* One cycle of output_thread_entry; the first comes right after the baseline.
OutputCycle ==
    /\ "output" \in begun => since["output"] >= OutMin
    /\ age' = AgeAfter("pid" \in fresh["output"])
    /\ seen' = (seen \/ "pid" \in fresh["output"])
    /\ tripped' = (tripped \/ TooOld(age'))
    /\ train' = ~tripped'
    /\ since' = [since EXCEPT !["output"] = 0]
    /\ begun' = begun \cup {"output"}
    /\ fresh' = [output |-> {}, watchdog |-> IF "watchdog" \in begun
                                             THEN fresh["watchdog"] \cup {"output"} ELSE {}]
    /\ UNCHANGED <<rest, due, stale, heat, late>>

\* Mutants of Starved: the 500 ms of OVEN_LIVENESS_LIMIT_CYCLES for all three; a
\* fault only when all three are stale.
StarvedSoon(ages) == \E c \in Counters : ages[c] > TimerPeriod
StarvedAll(ages) == \A c \in Counters : ages[c] > StaleLimit[c]
\* The Watchdog raises a fault.
Starved(ages) == \E c \in Counters : ages[c] > StaleLimit[c]

\* One cycle of watchdog_thread_entry; the first comes right after the baseline.
WatchdogCycle ==
    /\ "watchdog" \in begun => rest >= WdMin
    /\ stale' = [c \in Counters |-> IF c \in fresh["watchdog"] THEN 0
                                    ELSE SmallerOf(stale[c] + 1, StaleLimit[c] + 1)]
    /\ tripped' = (tripped \/ Starved(stale'))
    /\ rest' = 0
    /\ begun' = begun \cup {"watchdog"}
    /\ fresh' = [fresh EXCEPT !["watchdog"] = {}]
    /\ UNCHANGED <<since, due, age, seen, train, heat, late>>

\* From here on activity a keeps no times: it hangs, starves or stumbles on.
FallBehind(a) ==
    /\ late' = late \cup {a}
    /\ \E L \in LateSets : late' \subseteq L
    /\ UNCHANGED <<since, rest, due, begun, fresh, age, seen, stale, tripped, train, heat>>

Overheat ==
    /\ heat = 0 /\ heat' = 1
    /\ UNCHANGED <<since, rest, due, begun, fresh, age, seen, stale, tripped, train, late>>

Reset ==
    /\ Over
    /\ since' = Zero /\ rest' = 0 /\ due' = FALSE
    /\ begun' = {} /\ fresh' = NothingFresh
    /\ age' = 0 /\ seen' = FALSE /\ stale' = Zero
    /\ tripped' = FALSE /\ train' = FALSE /\ heat' = 0 /\ late' = {}

Next == \/ Time \/ TimerTick \/ PidCycle \/ OutputCycle \/ WatchdogCycle
        \/ Overheat \/ Reset \/ \E a \in Activities : FallBehind(a)

Spec == Init /\ [][Next]_cutoffVars

-----------------------------------------------------------------------------
(* Properties                                                               *)

\* Every variable has the values the code can give it.
TypeOK ==
    /\ since \in [Counters -> 0 .. Horizon] /\ rest \in 0 .. Horizon
    /\ due \in BOOLEAN /\ begun \subseteq DOMAIN Watched
    /\ fresh \in [DOMAIN Watched -> SUBSET Counters]
    /\ age \in 0 .. 2 * OutputPidLimit + 1 /\ seen \in BOOLEAN /\ (age > 0 => seen)
    /\ stale \in [Counters -> Nat] /\ \A c \in Counters : stale[c] <= StaleLimit[c] + 1
    /\ tripped \in BOOLEAN /\ train \in BOOLEAN
    /\ heat \in 0 .. Horizon /\ late \subseteq Activities

\* The limits fit the rates: while every thread and the timer are on time,
\* nothing trips, from the first cycle after boot on.  The counters advance at
\* the end of a cycle, the monitors sample them at their own pace.
NoNuisanceTrip == late = {} /\ heat = 0 => ~tripped

\* A Watchdog that is on time trips the oven within StaleLimit[c] + 2 of its
\* longest cycles of the last advance of any counter c, the first one included.
WatchdogInTime ==
    OnTime("watchdog") /\ ~tripped
      => \A c \in Counters : since[c] <= (StaleLimit[c] + 2) * WdMax

\* How long the train can outlive what feeds it, while Output is on time: the last
\* PID cycle it has seen by OutputPidLimit + 2 of its longest cycles, whatever the
\* Watchdog does; any counter, one that has never advanced included, by the time a
\* Watchdog on time takes and one cycle more (output_thread.c).
TrainEndsInTime ==
    train /\ OnTime("output")
      => /\ seen => since["pid"] <= (OutputPidLimit + 2) * OutMax
         /\ OnTime("watchdog")
              => \A c \in Counters : since[c] <= (StaleLimit[c] + 2) * WdMax + OutMax

\* How long an overheated zone B can keep the train, by who is still on time
\* beside Output: PID and its timer check the limit; failing that Output misses
\* PID; failing that (PID never ran) the Watchdog does.
HotEndsInTime ==
    train /\ OnTime("output")
      => /\ OnTime("pid") /\ OnTime("timer") => heat <= TimerPeriod + PidLate + OutMax + 1
         /\ seen => heat <= (OutputPidLimit + 2) * OutMax + 1
         /\ OnTime("watchdog") => heat <= (StaleLimit["pid"] + 2) * WdMax + OutMax + 1
=============================================================================
