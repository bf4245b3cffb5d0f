----------------------------- MODULE OvenTiming -----------------------------
(***************************************************************************)
(* When the PID thread runs (pid_thread.c): the periodic release timer,    *)
(* the semaphore of maximum count 1 between its interrupt and the thread,  *)
(* and the deadline check, which measures from start to start.  Time       *)
(* advances in whole units; the timer is exact, and a cycle or the wait    *)
(* for the CPU may take any time up to MaxGap from one start to the next.  *)
(***************************************************************************)
EXTENDS Naturals

CONSTANTS
    Period,     \* OVEN_PID_PERIOD_MS
    Margin,     \* OVEN_PID_DEADLINE_MARGIN_MS
    MaxGap      \* bound on the time between two starts

ASSUME TimingAssumption ==
    /\ Period \in Nat \ {0} /\ Margin \in 1 .. Period \div 2 /\ MaxGap \in Nat

VARIABLES
    phase,      \* time since the timer last fired
    sem,        \* s_release
    pid,        \* the thread: waiting on s_release, or in its cycle
    since,      \* time since last_start_ms
    started,    \* a cycle has started
    deadline,   \* OVEN_FAULT_PID_DEADLINE is raised
    missed,     \* history: releases lost since the last start, up to 2
    punctual    \* history: starts since one that had lost a release, up to Rare

timingVars == <<phase, sem, pid, since, started, deadline, missed, punctual>>

\* The starts there must be, at the least, between two releases lost in silence.
Rare == Period \div Margin - 1

SmallerOf(a, b) == IF a < b THEN a ELSE b

\* pid_thread_start, in main, before the other threads' release.
Init == /\ phase = 0 /\ sem = 0 /\ pid = "wait"
        /\ since = 0 /\ started = FALSE /\ deadline = FALSE
        /\ missed = 0 /\ punctual = Rare

\* Mutant of Time: a counting semaphore.
TimeCounting ==
    /\ since < MaxGap
    /\ since' = IF started THEN since + 1 ELSE since
    /\ phase' = (phase + 1) % Period
    /\ sem' = IF phase' = 0 THEN sem + 1 ELSE sem
    /\ UNCHANGED <<pid, started, deadline, missed, punctual>>

\* release_timer_cb: a give to a semaphore that holds one already is lost.
Time ==
    /\ since < MaxGap
    /\ since' = IF started THEN since + 1 ELSE since
    /\ phase' = (phase + 1) % Period
    /\ IF phase' = 0
       THEN /\ sem' = 1
            /\ missed' = IF started /\ sem = 1 THEN SmallerOf(missed + 1, 2) ELSE missed
       ELSE UNCHANGED <<sem, missed>>
    /\ UNCHANGED <<pid, started, deadline, punctual>>

\* Mutants of Late: a whole period more; the margin counted twice; no margin.
LatePeriod(gap) == gap > 2 * Period + Margin
LateMargin(gap) == gap > Period + 2 * Margin
LateStrict(gap) == gap > Period
\* The deadline check of a start, by the time since the start before.
Late(gap) == gap > Period + Margin

\* k_sem_take returns: measure, check, and begin pid_cycle.
Start ==
    /\ pid = "wait" /\ sem = 1
    /\ sem' = 0 /\ pid' = "cycle"
    /\ since' = 0 /\ started' = TRUE
    /\ deadline' = (deadline \/ (started /\ Late(since)))
    /\ missed' = 0
    /\ punctual' = IF missed = 0 THEN SmallerOf(punctual + 1, Rare) ELSE 0
    /\ UNCHANGED phase

Finish == /\ pid = "cycle" /\ pid' = "wait"
          /\ UNCHANGED <<phase, sem, since, started, deadline, missed, punctual>>

Next == Time \/ Start \/ Finish

Spec == Init /\ [][Next]_timingVars

-----------------------------------------------------------------------------
(* Properties                                                               *)

\* Every variable has the values the code can give it.
TypeOK ==
    /\ phase \in 0 .. Period - 1 /\ sem \in {0, 1} /\ pid \in {"wait", "cycle"}
    /\ since \in 0 .. MaxGap /\ started \in BOOLEAN /\ deadline \in BOOLEAN
    /\ missed \in 0 .. 2 /\ punctual \in 0 .. Rare

\* A start: the only step that sets the time back.
Starting == pid = "wait" /\ pid' = "cycle"

\* An overrun that loses two releases is a fault at the next start, whatever the
\* starts before it had drifted by (pid_thread_entry).
DoubleMissIsFault == [][Starting /\ missed = 2 => deadline']_timingVars

\* The check bounds the drift it does not see: of the releases lost without a
\* fault, any two have at least Rare starts between them.
SilentMissesAreRare ==
    [][Starting /\ missed > 0 /\ ~deadline' => punctual >= Rare]_timingVars

\* No nuisance trip: whoever is late by no more than the margin after its own
\* release, and has lost none, never trips, however early the cycle before was.
OnTimeNeverTrips ==
    [][Starting /\ missed = 0 /\ phase <= Margin => deadline' = deadline]_timingVars

\* SAFETY-STATUS.md:27 lists "Single missed PID cycle = fault" as done, and
\* src/pid_thread.c:182 says the same of the check: a start that finds a release
\* lost since the start before is a fault.
SingleMissIsFault == [][Starting /\ missed > 0 => deadline']_timingVars
=============================================================================
