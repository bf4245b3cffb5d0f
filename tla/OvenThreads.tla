---------------------------- MODULE OvenThreads ----------------------------
(***************************************************************************)
(* The running oven: the release timer, the PID, Output and Watchdog       *)
(* threads (pid_thread.c, output_thread.c, watchdog_thread.c), the         *)
(* operator, and the sensor-B temperature they guard, composed over the    *)
(* safe-state latch of OvenState (which FaultLatch implements).            *)
(*                                                                         *)
(* PID and Output are cooperative, so what they do between two points      *)
(* where they block is one step: PID blocks on its release semaphore and   *)
(* in each of the two SPI reads, Output in its period sleep.  The Watchdog *)
(* is preemptible: each access it makes to shared state is a step, and the *)
(* other threads run between any two of them.  Time is not modelled: any   *)
(* thread may be late, or (Hang) stop for good.                            *)
(***************************************************************************)
EXTENDS Integers

CONSTANTS
    OutputPidLimit,   \* OVEN_PID_STALE_LIMIT_CYCLES
    StaleLimit,       \* StaleLimit[c]: WD_*_STALE_CYCLES for counter c
    HangSets,         \* activities an instance lets hang together: bounds hung
    Inputs,           \* input kinds it explores: "operator", "pid_faults"
    PulseCap          \* bound on the two pulse counters kept as history

Counters == {"pid", "output", "timer"}
Activities == Counters \cup {"watchdog"}

ASSUME LimitsAssumption ==
    /\ OutputPidLimit \in Nat /\ PulseCap \in Nat
    /\ HangSets \subseteq SUBSET Activities
    /\ StaleLimit \in [Counters -> Nat]

VARIABLES
    mode,      \* s_state
    tripped,   \* g_fault_word is nonzero
    hot,       \* zone B is above OVEN_SENSOR_B_ABS_LIMIT_CC
    hung,      \* the activities that have stopped running
    fresh,     \* fresh[r]: counters that advanced since thread r last read them
    sem,       \* s_release, a semaphore of maximum count 1
    pid,       \* PID thread: where it blocks, and its locals and controller
    out,       \* Output thread: started, its latch, PID age, pid_seen
    wd,        \* Watchdog thread: its next access (a step and an index), stale counts
    pulses     \* history: keepalive pulses since a PID cycle, and health
               \* pulses since a trip

threadVars == <<mode, tripped, hot, hung, fresh, sem, pid, out, wd, pulses>>

\* The threads that watch counters, and which (output_thread.c, watchdog_thread.c).
Watched == [output |-> {"pid"}, watchdog |-> Counters]

PidStart == [at |-> "wait", started |-> FALSE, aOk |-> FALSE, active |-> FALSE]
OutStart == [running |-> FALSE, state |-> "RUN", since |-> 0, seen |-> FALSE]
WdStart == [at |-> <<"start", 1>>, stale |-> [c \in Counters |-> 0]]
NoPulses == [keepalive |-> 0, health |-> 0]

NothingFresh == [r \in DOMAIN Watched |-> {}]

Init ==
    /\ mode = "INIT" /\ tripped = FALSE
    /\ hot = FALSE /\ hung = {}
    /\ fresh = NothingFresh /\ sem = 0
    /\ pid = PidStart /\ out = OutStart /\ wd = WdStart
    /\ pulses = NoPulses

Up == mode # "INIT"
Runs(a) == Up /\ a \notin hung
Increment(c) == fresh' = [r \in DOMAIN Watched |-> fresh[r] \cup ({c} \cap Watched[r])]
SmallerOf(a, b) == IF a < b THEN a ELSE b

\* Mutant of RaiseIf: the state machine only faults an armed oven.
RaiseIfArmed(fault) == /\ tripped' = (tripped \/ fault)
                       /\ mode' = IF fault /\ mode = "ARMED" THEN "FAULTED" ELSE mode

\* fault_raise by a cooperative thread, if it found any fault.
RaiseIf(fault) == /\ tripped' = (tripped \/ fault)
                  /\ mode' = IF fault THEN "FAULTED" ELSE mode

-----------------------------------------------------------------------------
(* Boot, abstracted to its two outcomes (FaultLatch has the steps)          *)

Boot(faulted) ==
    /\ mode = "INIT"
    /\ mode' = IF faulted THEN "FAULTED" ELSE "DISARMED"
    /\ tripped' = faulted
    /\ UNCHANGED <<hot, hung, fresh, sem, pid, out, wd, pulses>>

Reset ==
    /\ mode' = "INIT" /\ tripped' = FALSE
    /\ hot' \in BOOLEAN /\ hung' = {}
    /\ fresh' = NothingFresh /\ sem' = 0
    /\ pid' = PidStart /\ out' = OutStart /\ wd' = WdStart
    /\ pulses' = NoPulses

-----------------------------------------------------------------------------
(* Operator requests (oven_state.c), atomic as FaultLatch shows             *)

\* Mutant of Arm: the request does not look at the fault word.
ArmUnchecked == /\ Up /\ mode = "DISARMED"
                /\ mode' = "ARMED"
                /\ UNCHANGED <<tripped, hot, hung, fresh, sem, pid, out, wd, pulses>>

Arm == /\ Up /\ mode = "DISARMED" /\ ~tripped
       /\ mode' = "ARMED"
       /\ UNCHANGED <<tripped, hot, hung, fresh, sem, pid, out, wd, pulses>>

Disarm == /\ mode = "ARMED" /\ mode' = "DISARMED"
          /\ UNCHANGED <<tripped, hot, hung, fresh, sem, pid, out, wd, pulses>>

-----------------------------------------------------------------------------
(* Release timer and PID thread (pid_thread.c)                              *)

\* Mutant of Tick: a counting semaphore instead of one of maximum count 1.
TickCounting == /\ Runs("timer")
                /\ sem < 2 /\ sem' = sem + 1
                /\ Increment("timer")
                /\ UNCHANGED <<mode, tripped, hot, hung, pid, out, wd, pulses>>

\* release_timer_cb: a second give before the take is lost.
Tick == /\ Runs("timer")
        /\ sem' = 1
        /\ Increment("timer")
        /\ UNCHANGED <<mode, tripped, hot, hung, pid, out, wd, pulses>>

\* k_sem_take returns; a late release is a fault; the read of A blocks.
PidRelease(late) ==
    /\ Runs("pid") /\ pid.at = "wait" /\ sem = 1
    /\ late => pid.started
    /\ sem' = 0
    /\ RaiseIf(late)
    /\ pid' = [pid EXCEPT !.at = "reading_a", !.started = TRUE]
    /\ UNCHANGED <<hot, hung, fresh, out, wd, pulses>>

\* acquire_sensor(A): a comm error or implausible value is a fault.
PidReadA(ok) ==
    /\ Runs("pid") /\ pid.at = "reading_a"
    /\ RaiseIf(~ok)
    /\ pid' = [pid EXCEPT !.at = "reading_b", !.aOk = ok]
    /\ UNCHANGED <<hot, hung, fresh, sem, out, wd, pulses>>

\* Mutant of OverLimit: the limit is only checked while the oven is armed.
OverLimitArmed(ok) == ok /\ hot /\ mode = "ARMED"

\* The absolute limit on B, independent of the control path.
OverLimit(ok) == ok /\ hot

\* acquire_sensor(B), the limit check, the control law and publication.  The
\* controller restarts its integrator when it was not active the cycle before.
PidReadB(ok) ==
    /\ Runs("pid") /\ pid.at = "reading_b"
    /\ RaiseIf(~ok \/ OverLimit(ok))
    /\ pid' = [pid EXCEPT !.at = "wait", !.aOk = FALSE,
                          !.active = pid.aOk /\ mode' = "ARMED" /\ ~tripped']
    /\ pulses' = [pulses EXCEPT !.keepalive = 0]
    /\ Increment("pid")
    /\ UNCHANGED <<hot, hung, sem, out, wd>>

-----------------------------------------------------------------------------
(* Output thread (output_thread.c)                                          *)

\* g_init_done was seen: take the current PID counter as the baseline.
OutputStart ==
    /\ Runs("output") /\ ~out.running
    /\ out' = [out EXCEPT !.running = TRUE]
    /\ fresh' = [fresh EXCEPT !.output = {}]
    /\ UNCHANGED <<mode, tripped, hot, hung, sem, pid, wd, pulses>>

\* Mutant of PidAge: the count starts over while the oven is not armed.
PidAgeArmed(advanced) ==
    IF advanced \/ mode # "ARMED" THEN 0
    ELSE IF out.seen THEN SmallerOf(out.since + 1, OutputPidLimit + 1)
    ELSE out.since

\* cycles_since_pid, which only counts once a PID cycle has been seen.
PidAge(advanced) ==
    IF advanced THEN 0
    ELSE IF out.seen THEN SmallerOf(out.since + 1, OutputPidLimit + 1)
    ELSE out.since

\* One 8.333 ms cycle.
OutputCycle ==
    /\ Runs("output") /\ out.running
    /\ LET advanced == "pid" \in fresh.output
           since == PidAge(advanced)
           stale == since > OutputPidLimit
           safe == tripped \/ stale \/ out.state = "SAFE"
           pulse == ~safe /\ mode = "ARMED"
       IN  /\ RaiseIf(stale)
           /\ out' = [out EXCEPT !.since = since, !.seen = @ \/ advanced,
                                 !.state = IF safe THEN "SAFE" ELSE @]
           /\ pulses' = [pulses EXCEPT !.keepalive =
                           IF pulse THEN SmallerOf(@ + 1, PulseCap) ELSE @]
    /\ fresh' = [watchdog |-> fresh.watchdog \cup {"output"}, output |-> {}]
    /\ UNCHANGED <<hot, hung, sem, pid, wd>>

-----------------------------------------------------------------------------
(* Watchdog thread (watchdog_thread.c)                                      *)

\* Its accesses to shared state, in the order of a cycle: read the three
\* counters, raise for each stale one (setting the bit and latching are two
\* steps), read the word if all are alive, pulse if it is clear.
Reads == <<"pid", "output", "timer">>
Raises == <<"output", "pid", "timer">>

Stale(stale, c) == stale[c] > StaleLimit[c]

\* Mutant of RaiseFrom: the loop over the counters starts one too late.
RaiseFromNext(stale, i) ==
    LET due == {k \in i + 1 .. 3 : Stale(stale, Raises[k])}
    IN  IF due # {} THEN <<"raise", CHOOSE k \in due : \A l \in due : k <= l>>
        ELSE IF \E c \in Counters : Stale(stale, c) THEN <<"read", 1>>
        ELSE <<"decide", 0>>

\* The first raise at or after the i-th that the code reaches, or what follows.
RaiseFrom(stale, i) ==
    LET due == {k \in i .. 3 : Stale(stale, Raises[k])}
    IN  IF due # {} THEN <<"raise", CHOOSE k \in due : \A l \in due : k <= l>>
        ELSE IF \E c \in Counters : Stale(stale, c) THEN <<"read", 1>>
        ELSE <<"decide", 0>>

WdAt(step) == Runs("watchdog") /\ wd.at[1] = step

\* The first readings, one counter at a time, with nothing to compare them with.
WdBegin ==
    /\ WdAt("start")
    /\ LET i == wd.at[2]
       IN  /\ wd' = [wd EXCEPT !.at = IF i = 3 THEN <<"read", 1>> ELSE <<"start", i + 1>>]
           /\ fresh' = [fresh EXCEPT !.watchdog = @ \ {Reads[i]}]
    /\ UNCHANGED <<mode, tripped, hot, hung, sem, pid, out, pulses>>

WdRead ==
    /\ WdAt("read")
    /\ LET i == wd.at[2]
           c == Reads[i]
           age == IF c \in fresh.watchdog THEN 0
                  ELSE SmallerOf(wd.stale[c] + 1, StaleLimit[c] + 1)
           stale == [wd.stale EXCEPT ![c] = age]
       IN  /\ wd' = [at |-> IF i = 3 THEN RaiseFrom(stale, 1) ELSE <<"read", i + 1>>,
                     stale |-> stale]
           /\ fresh' = [fresh EXCEPT !.watchdog = @ \ {c}]
    /\ UNCHANGED <<mode, tripped, hot, hung, sem, pid, out, pulses>>

\* fault_raise's atomic_or ...
WdRaise ==
    /\ WdAt("raise")
    /\ tripped' = TRUE
    /\ wd' = [wd EXCEPT !.at = <<"latch", @[2]>>]
    /\ UNCHANGED <<mode, hot, hung, fresh, sem, pid, out, pulses>>

\* ... and its oven_state_enter_faulted.
WdLatch ==
    /\ WdAt("latch")
    /\ mode' = "FAULTED"
    /\ wd' = [wd EXCEPT !.at = RaiseFrom(wd.stale, @[2] + 1)]
    /\ UNCHANGED <<tripped, hot, hung, fresh, sem, pid, out, pulses>>

\* Mutant of WdDecide: the pulse is gated on liveness alone, as the feeding of
\* the on-chip watchdog is.
WdDecideAlive ==
    /\ WdAt("decide")
    /\ wd' = [wd EXCEPT !.at = <<"pulse", 0>>]
    /\ UNCHANGED <<mode, tripped, hot, hung, fresh, sem, pid, out, pulses>>

\* healthy: all alive and the word clear.  Otherwise the pin stays low.
WdDecide ==
    /\ WdAt("decide")
    /\ wd' = [wd EXCEPT !.at = IF tripped THEN <<"read", 1>> ELSE <<"pulse", 0>>]
    /\ UNCHANGED <<mode, tripped, hot, hung, fresh, sem, pid, out, pulses>>

\* emit_hw_wdt_pulse, whatever became of the word since; then the sleep.
WdPulse ==
    /\ WdAt("pulse")
    /\ wd' = [wd EXCEPT !.at = <<"read", 1>>]
    /\ pulses' = IF tripped THEN [pulses EXCEPT !.health = SmallerOf(@ + 1, PulseCap)]
                 ELSE pulses
    /\ UNCHANGED <<mode, tripped, hot, hung, fresh, sem, pid, out>>

-----------------------------------------------------------------------------
(* What can go wrong                                                        *)

\* An activity stops where it is: a driver call that never returns, a masked
\* or misconfigured timer, a suspended thread.
Hang(a) ==
    /\ Up /\ a \notin hung
    /\ hung' = hung \cup {a}
    /\ \E H \in HangSets : hung' \subseteq H
    /\ UNCHANGED <<mode, tripped, hot, fresh, sem, pid, out, wd, pulses>>

Overheat ==
    /\ Up /\ ~hot /\ hot' = TRUE
    /\ UNCHANGED <<mode, tripped, hung, fresh, sem, pid, out, wd, pulses>>

-----------------------------------------------------------------------------
MayFail(fault) == fault => "pid_faults" \in Inputs

PidStep == \/ \E late \in BOOLEAN : MayFail(late) /\ PidRelease(late)
           \/ \E ok \in BOOLEAN : MayFail(~ok) /\ (PidReadA(ok) \/ PidReadB(ok))
OutputStep == OutputStart \/ OutputCycle
WdStep == WdBegin \/ WdRead \/ WdRaise \/ WdLatch \/ WdDecide \/ WdPulse
Operator == "operator" \in Inputs /\ (Arm \/ Disarm)
Environment == Overheat \/ Reset \/ \E a \in Activities : Hang(a)

Next == \/ \E faulted \in BOOLEAN : Boot(faulted)
        \/ Tick \/ PidStep \/ OutputStep \/ WdStep
        \/ Operator \/ Environment

\* An activity that has not hung gets the CPU again and again: the timer is an
\* interrupt, PID and Output outrank everything that runs for long, and the
\* bounded work of both leaves time for the Watchdog.
Fairness == /\ WF_threadVars(\E faulted \in BOOLEAN : Boot(faulted))
            /\ WF_threadVars(Tick) /\ WF_threadVars(PidStep)
            /\ WF_threadVars(OutputStep) /\ WF_threadVars(WdStep)

Spec == Init /\ [][Next]_threadVars
FairSpec == Spec /\ Fairness

-----------------------------------------------------------------------------
(* Properties                                                               *)

WdSteps == {<<"decide", 0>>, <<"pulse", 0>>}
           \cup {"start", "read", "raise", "latch"} \X (1 .. 3)

\* Every variable has the values the code can give it.
TypeOK ==
    /\ mode \in {"INIT", "DISARMED", "ARMED", "FAULTED"}
    /\ tripped \in BOOLEAN /\ hot \in BOOLEAN
    /\ hung \subseteq Activities
    /\ fresh \in [DOMAIN Watched -> SUBSET Counters]
    /\ sem \in {0, 1}
    /\ pid \in [at : {"wait", "reading_a", "reading_b"}, started : BOOLEAN,
                aOk : BOOLEAN, active : BOOLEAN]
    /\ out \in [running : BOOLEAN, state : {"RUN", "SAFE"},
                since : 0 .. OutputPidLimit + 1, seen : BOOLEAN]
    /\ wd \in [at : WdSteps, stale : [Counters -> Nat]]
    /\ \A c \in Counters : wd.stale[c] <= StaleLimit[c] + 1
    /\ pulses \in [keepalive : 0 .. PulseCap, health : 0 .. PulseCap]

\* The three latches agree (shared.c, output_thread.c): a tripped oven is
\* FAULTED except while the Watchdog is between setting its bit and latching;
\* FAULTED is never without a trip; and Output's own latch never closes on
\* anything the fault word does not tell the other threads.
LatchesAgree ==
    /\ tripped => mode = "FAULTED" \/ wd.at[1] = "latch"
    /\ mode = "FAULTED" => tripped
    /\ out.state = "SAFE" => tripped

\* A decision to pulse is made before the pulse, so a trip by PID or Output
\* can land between the two: at most one health pulse follows a trip
\* (watchdog_thread.c).
OneStrayHealthPulse == pulses.health <= 1

\* Once Output has seen a PID cycle, the heater is never kept enabled for more
\* than OutputPidLimit + 1 pulses without another (output_thread.c): not across
\* a disarm and rearm, and not because PID advanced while Output slept.
KeepaliveNeedsPid == out.seen => pulses.keepalive <= OutputPidLimit + 1

\* The threads together keep the promise of the latch.
Oven == INSTANCE OvenState
ImplementsOvenState == Oven!Spec

\* The SSR-enable pulse train has stopped for good: Output is SAFE, or does
\* not run at all (a missing pulse, which the detector takes as off).
HeaterOff == out.state = "SAFE" \/ "output" \in hung \/ mode = "INIT"

\* Output cuts off on its own when PID or its release timer stops after a
\* first cycle, even with the Watchdog hung.
OutputCutsOff == out.seen /\ hung \cap {"pid", "timer"} # {} ~> HeaterOff

\* Whatever watched activity stops, the Watchdog latches a trip, even if PID
\* never ran at all.
WatchdogCutsOff ==
    hung \cap Counters # {} ~> tripped \/ "watchdog" \in hung \/ mode = "INIT"

\* An overheated zone B ends with the heater off through one of three paths:
\* PID's limit check, Output's PID-staleness cutoff, or the Watchdog.  The one
\* way out is a PID that stops before its first cycle and a hung Watchdog.
HotEndsOff == hot ~> HeaterOff \/ (~out.seen /\ "watchdog" \in hung)

\* src/output_thread.c:16 and 101-103 allow a keep-alive pulse only while PID
\* data is fresh, with no exception for a PID that has not had a cycle yet.
PulsesNeedFreshPid ==
    [][pulses'.keepalive > pulses.keepalive => out'.seen]_threadVars

\* README.md:115 has "a clean restart on arming".  The controller restarts only
\* when it was inactive the cycle before, so an arming must find it inactive.
CleanRestart == [][mode # "ARMED" /\ mode' = "ARMED" => ~pid.active]_threadVars
=============================================================================
