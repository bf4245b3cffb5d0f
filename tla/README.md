# Verification of the filament-oven firmware

TLA+ models of the control and safety core of this repository, TLC runs that
check them on small instances, and TLAPS proofs of the results that matter most
for every instance. Paths below are relative to the repository root.

The firmware drives a heater through a chain of independent cutoffs. Its claim
is that **any detected fault removes heater power, and stays that way across a
reset**. Most of it is about who may run between two of somebody else's steps,
and that is what these models are about.

## 1. Inventory

| Component | State it keeps | Operations | Hard behaviour | What makes it correct |
|---|---|---|---|---|
| Fault word (`src/shared.c`) | `g_fault_word`, OR-only | `fault_raise` | three separate effects (OR, latch, store), preemptible for background callers | word and state agree; nothing is lost when raises overlap |
| State machine (`src/oven_state.c`) | `s_state` | `boot_ok`, `enter_faulted`, `request_arm`, `request_disarm` | `request_arm` reads the word, then swaps the state | FAULTED is terminal; nothing arms past a trip |
| Retained record (`src/fault.c`) | `s_rec` in noinit RAM | `load`, `store` (`clear` has no caller) | five non-atomic accesses, in place; resets in between; garbage at power-on | a trip is found again after a reset, and none is made up |
| Boot (`src/main.c`) | `g_init_done` | restore, field I/O, device checks, release | a fault found at any stage | no path from a fault to DISARMED |
| PID thread and release timer (`src/pid_thread.c`) | semaphore of maximum 1, controller, `g_pid_seq` | timer callback, cycle | blocks in each SPI read; late or missing releases | every sensor fault and the zone-B limit trip |
| Output thread (`src/output_thread.c`) | own two-state latch, PID age | one cycle each 8.333 ms | freshness seen only through a counter | keep-alive stops on a trip or a stale PID, by itself |
| Watchdog thread (`src/watchdog_thread.c`) | three ages | one cycle each 100 ms | everybody preempts it | a stopped thread or timer trips; no health pulse train after a trip |
| Control law (`src/pid.c`) | accumulators and histories | `pid_reset`, `pid_update` | truncating integer arithmetic, two rails, retunes, arming edges | bounded, bumpless, no residue, leaves the rails without lag |
| Publication (`src/pid_pub.c`) | seqlock, semaphore | publish, snapshot, wait | a copy of many words, preempted | never torn, never loses the last cycle |
| Bench consumer (`src/oven_debug.c`) | stall flag, rows since the last header | wait, snapshot, trace, draw | slower than the loop; the loop may stop | shows the last cycle in the end; no trace without its header |
| Shell (`src/shell_cmds.c`) | – | arm, disarm, fault, sp, gains | unchecked inputs, published one by one | nothing it does gets past a trip or out of the law's bounds |

Interaction: PID, Output, the Watchdog, main and the shell share only atomics
(`src/shared.h`). Three of these are liveness counters which each monitor
compares with its own last reading. `fault_raise` is the one path that writes
the word, the state and the record. PID and Output are cooperative and outrank
everything; main, shell, debug and (last) the Watchdog are preemptible.

`PROJECT.json` lists the hazards these behaviours imply, each at its line.

## 2. Modules

| Module | What it is | Composes |
|---|---|---|
| `OvenState` | abstract: mode, and whether the oven has tripped | – |
| `FaultLatch` | fault word, state machine, retained record, boot | implements `OvenState` |
| `FaultLatchProofs` | theorems about `FaultLatch` | extends it |
| `OvenThreads` | timer, PID, Output, Watchdog, operator, zone-B temperature | implements `OvenState` too, so it rests on the latch as `FaultLatch` provides it |
| `OvenThreadsProofs` | theorems about `OvenThreads` | extends it |
| `OvenThreadsProgress` | why its cutoffs come, for every limit | extends `OvenThreadsProofs` |
| `OvenTiming` | release timer, semaphore and deadline check in discrete time | – |
| `OvenTimingProofs` | theorems about `OvenTiming` | extends it |
| `CutoffTiming` | the cutoff chain in discrete time: timer, PID, Output and Watchdog at their rates, any of them falling behind | – |
| `CutoffTimingProofs` | theorems about `CutoffTiming` | extends it |
| `PidLaw` | the control law | – |
| `PidLawProofs` | theorems about `PidLaw` | extends it |
| `Mailbox` | abstract: a publication is taken whole, and is the latest | – |
| `PidPub` | the seqlock publication and its consumer | implements `Mailbox` |
| `PidPubProofs` | theorems about `PidPub` | extends it |
| `MC*` | constants of the instances | |

### FaultLatch

`word` is the set of bits of `g_fault_word`, `state` is `s_state`, `rec` is
`s_rec`, `boot` is how far `main` has got, `frame[t]` is the activation of
`fault_raise` (or of `request_arm`) that thread `t` is in: its program counter,
its `bits`, `prev`, `count` locals and the crc it has computed. Each access to
shared memory is an action: `RaiseOr`, `RaiseLatch`, `StoreScan` (the crc over
the old record), `StoreCheck`, `StoreMagic`, `StoreCause`, `StoreTrip`,
`StoreSum`, `StoreCrc`, `ArmCheck`, `ArmCas`. The three reads of a record for its
crc are one step, and so are the comparison of the two crcs and the read of the old
count. A raise in between spoils the comparison, as one between the two steps does;
one outcome is left out, that a raise between the comparison and the read hands on
its own newer count, which concerns `trip_count` alone and `TripsCounted` excepts. `CanRun` is the scheduler: a
thread runs only if every other thread it finds inside a call has a lower
priority, which is what a strict-priority single CPU gives. A cooperative
raiser runs to the end (`RaiseAtomic`), but may land between any two steps of a
background thread. `WarmReset` can strike anywhere, `WarmResetInStore` inside a
cooperative store, `PowerCycle` also makes the record garbage. The crc is a
digest which no two contents share and garbage never matches; that is the one
idealisation. `persisted` and `damage` are history, read only by properties.

### OvenThreads

A thread that cannot be preempted is cut into steps only where it blocks: PID
at its semaphore and in each SPI read, Output in its sleep. The Watchdog is cut
at each shared access: one read per counter, for the first readings as in every
cycle, the two halves of a raise, the read of the word, and the pulse. A counter
and its reader's last value are modelled by `fresh[r]`, the counters that advanced since `r` read them, which is all
`seq_advanced` tells. Time is left out: any thread may be arbitrarily late, so a
spurious staleness trip is possible, and a safety property holds without any
assumption about speed. `hung` are activities that stop for good, `hot` says
that zone B is above its limit. A sensor either tells the truth or fails.
`pulses` is history. Boot is its outcome, since `FaultLatch` has its steps. The
on-chip watchdog is compiled out in this configuration (no `watchdog0` alias),
and so is its feed.

### OvenTiming

The one thing `OvenThreads` leaves as a choice, whether a release is late. `Time`
is a unit of the millisecond clock, and the interrupt when the phase comes
round; `Start` is the return of `k_sem_take` with the measurement and the check;
`Finish` the end of `pid_cycle`. A cycle may take any time and the thread may
wait for the CPU for any time, up to `MaxGap` between two starts. `missed` and
`punctual` are history.

### CutoffTiming

`OvenThreads` says *that* a cutoff path ends the train, `CutoffTiming` *how soon*,
and that none of them trips an oven on time. `since[c]` is the time since counter
`c` last advanced, `rest` since the Watchdog's last cycle, `due` the release
semaphore, `fresh` as in `OvenThreads`, `age`, `seen` and `stale` the code's
counts. `Time` is a unit in which nobody who is on time has to run: the timer has
its period, PID finishes within `PidLate` of its release, Output and the Watchdog
come back between `OutMin`/`WdMin` and `OutMax`/`WdMax` of their last cycle (their
`k_sleep` is relative, so the work of the cycle and the jitter add up). `FallBehind`
takes an activity out of these rules for good: it may hang, starve or stumble on.
A cycle takes no time, since `OvenThreads` has its interleavings, and one counter
read is the same instant as the next. The oven is armed all along, the worst case
for the heater. `WindowsFit`, part of the named assumption on the limits, says that
the gaps an oven on time leaves in each counter are below the window that watches
it; for the code, in ms: 500 (timer) and 550 (PID, with the deadline margin) below
8 x 100; 550 below 120 x 8.333; 8.333 below 2 x 100. `CodeKeepsWindows` (section 4)
says how far from those numbers it still holds.

### PidLaw

One `Update` is one `pid_update`, with C's truncating division, the order of
the clamps, and every input the caller can hand over, out-of-range gains and
temperatures included. A production image has `CONFIG_ASSERT=y`, where such an
input fails the assertion before the clamp and halts the whole system (section 5);
`PidLaw` follows the clamp, without which `NoOverflow` fails. The scales are constants, small in the runs, and so is `IntMax`: `Wide` holds
the bounds that the comments of `pid_update` argue term by term, and `Formed`
every value it forms, so that one property can say that none leaves the width.
`diag` only copies values.
`seq`, the low bit of `g_pid_seq`, makes every cycle a step.

### PidPub

Publisher and consumer, one access a step. Priorities would let the publisher
run only as a block; the model lets the two interleave freely, so the seqlock is
checked for more than this CPU needs. `seq` is unbounded (its 32 bits wrap after
34 years, a snapshot lasts microseconds). The consumer's wait may time out, which
it reports once (`log.stalled`), and it repeats the header of its trace
(`log.rows`).

## 3. Runs

| Run | Result | What it shows |
|---|---|---|
| `fault_latch` | holds | `WordIsLatched`, `RecordTellsWord`, `RecordComplete`, `LatchKept`, `TripsCounted`, refinement of `OvenState` |
| `latch_torn`, `latch_reset` | violated | the two findings about the record (section 6) |
| `oven_threads` | holds | `LatchesAgree`, `OneStrayHealthPulse`, `KeepaliveNeedsPid`, refinement of `OvenState` |
| `oven_threads_live` | holds | `OutputCutsOff`, `WatchdogCutsOff`, `HotEndsOff` under `Fairness` |
| `keepalive_before_pid`, `rearm_within_cycle` | violated | two findings about arming |
| `oven_timing` | holds | an overrun that loses two releases trips; a punctual start never does; what drifts past the check loses one release in ten at most |
| `single_miss` | violated | one lost release may go unnoticed |
| `cutoff_timing` | holds | `NoNuisanceTrip`; the latency of each cutoff path with others behind: `WatchdogInTime`, `TrainEndsInTime`, `HotEndsInTime` |
| `pid_law` | holds | velocity form, bumpless retune, no hidden bias, decay of the filter, output explained by the accumulators, no overflow |
| `pid_pub` | holds | refinement of `Mailbox`, no lost wakeup, the last cycle is shown |

Each property of a run that holds has a mutant: a plausible bug in one
definition under which TLC finds that property violated. The operators are named
for what they break and stand before the definition they mutate.

### Bounds

* `fault_latch`: one thread of each kind, with the shell above the Watchdog so
  that preemption nests (Watchdog in a store, shell in a store, PID raise). Two
  raisers share a bit and one has its own, so raises are equal, disjoint or
  overlapping; the shell may raise any mask. `TripMod` 3 wraps the count.
* `oven_threads`: `OutputPidLimit` 1 and `StaleLimit` 1 for PID, 0 for the others
  are the smallest limits with a late-but-not-stale state. `PulseCap` 3 lies
  above every bound the properties state. `HangSets` is empty: for safety a hung
  thread is one that is not scheduled.
* `oven_threads_live`: limits 0, PID or Output hung, or the timer and the Watchdog
  together. No operator and no PID faults: they can only trip or change the mode,
  and no leads-to property depends on a mode other than INIT. `PulseCap` 0
  switches the history off.
* `oven_timing`, `single_miss`: `Period` 20 and `Margin` 2 are the code's 500 ms and
  50 ms in units of 25 ms. `MaxGap` 60 is three periods: a gap can
  lose two releases whatever the phase it began at. The theorems cover every unit.
* `cutoff_timing`: a unit is 100 ms, so the timer's period (5), the Watchdog's (1)
  and its limits (8, 2, 8) are the code's; `PidLate` 1 is more than the 50 ms
  margin. Output runs once a unit with a limit of 10 instead of twelve times with
  120: the same second, with the same strict comparison. `LateSets` lets PID and
  the Watchdog, or the timer, or Output fall behind. `Horizon` 14 lies above every
  bound the properties state (12, and 13 for `heat`), and at it the ages saturate.
* `pid_law`: output range 0..6, temperatures -1..1 with one setpoint or reading
  out of the window, gains that reach both rails, the bound of the integral and
  that of the filter, one set out of range. `IntMax` 28 is the
  least width that `Wide` allows for these constants. All reachable states are explored.
* `pid_pub`: three fields, the code's three tries, five publications: enough to
  exhaust the tries and still publish. `HeaderEvery` 2 repeats the header twice. The instance stops after the last of
  them, hence `CHECK_DEADLOCK FALSE`.

### Fairness

`OvenThreads` assumes weak fairness of boot, the timer, and each thread unless
it has hung. The timer is an interrupt. PID and Output are the highest
priorities, and do bounded work. The Watchdog is the lowest: it runs because the
others block. If they did not, it would be a hung Watchdog, which the
properties name. `PidPub` assumes that both threads run and that a publication
once begun is finished; not that there is another one.

## 4. Proofs

Every property of the passing runs that is not a liveness property is a theorem.
For the liveness properties the argument is a theorem up to fairness: a quantity
that no step increases and each step of the responsible thread decreases.

`FaultLatchProofs`, checked by TLAPS for any threads, priorities, fault bits and
`TripMod`, from the named assumptions of `FaultLatch`:

* `TypeCorrect`: the type invariant.
* `LatchInvariant`: the inductive invariant `LatchInv`. `WordIsLatched` and
  `RecordTellsWord` are not inductive alone. They need: boot has raised nothing
  before the restore and nobody else runs until it is up (`BootInv`); a raise in
  progress has its bits in the word (`RaiseInv`); **a raiser between its OR and
  its latch outranks every pending arm request** (`ArmInv`) – it is the
  scheduler that makes the arm request's check-then-swap safe, since the raiser
  latches before the request resumes; what a store has already written at each
  of its points (`StoreInv`); and the magic number precedes any crc (`CrcInv`).
* `WordLatched`, `RecordTruthful`: projections of it.
* `KeptInvariant`: the inductive invariant `KeptInv` about the record, on top of
  `LatchInv`. A store that has computed its crc owns the record until it returns,
  unless `damage` says "torn": nobody who has a new bit to store came after it, and
  whoever was storing before it has a lower priority and must wait (`CrcOwner`).
  Hence, once a store has returned, the record is intact with a cause, or in the
  middle of a store (`RecordKept`), the word is nonempty after the restore
  (`WordKept`), and without any overlap there is one raise at a time, it stores the
  whole word (`OneRaise`), and the record holds it when nobody is (`Settled`).
* `TripKept`, `RecordWhole`: `LatchKept` and `RecordComplete` follow from it.
* `StoresCounted`: `TripsCounted`, from `KeptInv` and `CountInv`. The field `trip` of a
  record is not the count while a store is rewriting it; the digest in its crc is,
  from the return of one store to the return of the next (`DigestInv`). What a store
  has scanned, carried and added agrees with that digest as long as no other store
  touched the record meanwhile (`CountHeld`), and a reset, which ends every store,
  leaves the digest alone.
* `LatchImplementsOvenState`: `Spec` implements `OvenState!Spec`. `ArmInv` is
  what makes `ArmCas` an abstract `Arm` or a stutter.

`OvenThreadsProofs`, for any limits, any set of hanging activities and any
lateness: `ThreadsInvariant` is inductive because, beside the properties
themselves, it says that the Watchdog latches only after it has set its bit
(`LatchInv`), that after a stray health pulse it cannot be on its way to another
(`HealthInv`), and that the keepalive pulses never outnumber Output's own age
of PID (`AgeInv`: pulses are counted from the PID cycle, the age from Output's
noticing it, and a cycle Output has not noticed yet means no pulse). From it:
`ThreadTypes`, `ThreadLatchesAgree`, `OneStrayPulse`, `KeepaliveBounded` and
`ThreadsImplementOvenState`.

`OvenThreadsProgress`, under the same assumptions: why the cutoffs come. The runs
check the three leads-to properties of `oven_threads_live` with limits 0; these
theorems bound, for every limit, how often a thread still has to run.

* `OutputStops`: once PID or its timer has stopped, `OutCyclesLeft` counts the cycles
  Output can still make before its latch closes, at most 3 x (`OutputPidLimit` + 2):
  a stopped timer leaves PID two cycles at most, one under way and one release.
  Nothing the operator, the Watchdog or PID does gives Output a cycle back.
* `WatchdogStops`: once a counter `c` has stopped, the Watchdog's position in its
  cycle, its count for `c` and what it has not yet read of `c` together allow at most
  6 x `StaleLimit[c]` + 18 of its steps before it trips the oven, however it is
  preempted between two of them. It needs that a counter found stale is raised in
  the cycle that found it (`StaleInv`), and that what others advance in between is
  never `c`.
* `PidStops`: an overheated zone B trips the oven by PID's third step, whether the
  reading tells the truth or fails.

`OvenTimingProofs`, for any period and any margin of at most half of it:
`TimingInvariant` ties the time since the last start to the phase, the releases
met and the lateness of that start; without a fault the lateness grows by at most
a margin from start to start, and a start that has lost a release begins with
less than one. Hence `DoubleMissFaults`, `SilentMissesRare`, `NoNuisanceTrip`.

`CutoffTimingProofs`, for any rates, jitter and limits that satisfy the named
assumptions, with Output and Watchdog at unrelated rates: what a monitor counts
bounds what it has not measured. While it is on time, n stale cycles behind it put
the counter's last advance between n - 1 of its shortest and n + 1 of its longest
cycles away (`WatchdogUpper`, `OutputUpper`; `WatchdogLower`, `OutputLower`; the
`Quiet` invariants cover the cycle before it looks again). The upper bounds give
`CutoffWatchdog` and `CutoffTrain`: a train that has seen PID ends by Output's own
count, any other by a trip that Output finds a cycle later, which rests on Output
coming back within a cycle of any trip (`TrainCounters`); with PID's own pace (`PidPace`) and what is
known of a hot zone that nobody has tripped on yet (`HeatUnseen`, `HeatTrain`) they
give `CutoffHot`; the lower bounds against the gaps of an oven on time (`Gap`) give
`CutoffNoNuisance`. Two theorems put the code's numbers in, in microseconds:
`CodeKeepsWindows` shows that the windows fit as long as PID ends a cycle within
300 ms of its release and Output comes back within 200 ms, so a healthy oven with that
much jitter is not tripped; `CodeCutsOffInTime` that, with Output coming back within
10 ms and the Watchdog within 120 ms, the train ends 1.22 s after the last PID cycle
Output has seen and 1.21 s after the last advance of PID or timer, seen or not, and
that it feeds an overheated zone B for 0.81 s at most while PID keeps its times.

`PidLawProofs`, for any scales, pole below 1, gains and temperatures, so for the
code's 1e6 and 2^16 too: every property of the run `pid_law`. The invariant
`LawInv` adds only that an active controller has a history. `UpdateFacts` is what
one cycle does, `PinnedFacts` that the anti-windup keeps output and terms in step
in each of its three cases. `LawFitsItsWidth` is `NoOverflow` from `Wide` alone,
and `CodeIsWide` shows that the code's constants with 2^63 - 1 satisfy `Wide`: what
the comments claim for three products, for every value `pid_update` forms.
Two theorems are about no run. `ArmingIsClean` says that the first output after an
arming which the controller sees is that of a fresh integral (`CleanArming`).
`SteadyErrorIsIntegrated` says that the integral has no
dead zone. While gains and temperatures stand still, every cycle moves the output
by the whole increment of the error, to the rail if need be, at any scale and also
from the bound of the integral. Its hypothesis of an empty filter is what
`FilterDecays` gives, and it needs `OutputExplained` in its exact form: the integral
*is* the bounded difference of the output and the other terms.

`PidPubProofs`, for any record, number of tries and number of cycles: `PubInvariant`
is the seqlock argument (the counter is odd exactly during a write, an even one
means a whole record, and a copy agrees with the record while the counter stands)
and the semaphore's (with no signal pending and no write under way, what the
consumer is doing will show the last cycle). Hence `PubTypes`, `NoWakeupIsLost` and
`SnapshotsAreWhole`. `ConsumerComesToRest`: when no cycle is published any more, the
consumer has at most three snapshots' worth of steps to make (`StepsToRest`), and
what is on show when none is left is the last cycle. A snapshot given up after
`Tries` does not lose it, because the write that spoilt the last try has signalled
since.

Out of the prover's reach, and only model-checked: the leads-to properties themselves
(`OutputCutsOff`, `WatchdogCutsOff`, `HotEndsOff`, `LastCycleShown`). Their ranks are
proved; the last step, that a thread with weak fairness keeps running, needs ENABLED
and induction over the rank, and is what the runs check. Also induction over data:
nothing here is recursive.

## 5. Not modelled

Boards, overlays and Kconfig (no behaviour of their own); log and trace
formatting, LED drawing; `fault_record_clear` (no caller); the on-chip watchdog
(compiled out); contactor sequencing, process diagnostics, the NVS mirror and
OPC UA (documented as planned, no code); the detectors and relays off the board;
the status LED, whose
drawing is only the time the consumer spends between two waits. A thermocouple
stuck at a plausible low value is outside every model: no code looks for it. The
shell's three separate writes of a gain set are the free choice of gains in
`PidLaw`, which allows every mixture, in range or not, in every cycle; the bench
preset is one such choice. Nor is the halt after a failed assertion, which an
out-of-range gain or setpoint from the shell causes in a production image: Zephyr's
fatal error handler, which nothing in `src/` overrides, stops every thread. No pulse
follows, so only the hardware off the board, which misses the pulses, can act.

## 6. Findings

1. A raise that lands between the computation and the writing of the crc
   (`src/fault.c:60`) leaves an invalid record, and the trip does not survive a
   reset (`latch_torn`).
2. A reset inside the in-place rewrite destroys a record an earlier trip had
   completed (`latch_reset`). `LatchKept` is what remains true.
3. The deadline check compares a start with the start before it. Overruns within
   the margin add up, and a release is lost without the fault that
   `SAFETY-STATUS.md:27` promises (`single_miss`); `SilentMissesAreRare` and
   `DoubleMissIsFault` are what remains true.
4. An oven armed before the first PID cycle pulses without PID data
   (`keepalive_before_pid`). The Watchdog ends it if no cycle follows:
   `TrainEndsInTime` bounds how long that train lives, `CodeCutsOffInTime` puts the
   bound at 1.21 s after the threads are released.
5. A disarm and arm between two PID cycles is no arming edge for the controller
   (`rearm_within_cycle`).

Smaller disagreements that no finding is about:

* `docs/ARCHITECTURE.md:29` has Output stop "within <= 2 control periods (<= 1 s)"
  of PID staleness. The comparison is strict, the age starts at the Output cycle
  that notices PID, and the sleep is relative: `TrainEndsInTime` has the two cycles
  and the stretch that come on top.
* `README.md:99` has the health pulse stop "the instant a fault latches". The Watchdog
  decides and then pulses, so a trip in between is followed by one more pulse:
  `OneStrayHealthPulse` has that one and no other.
* `src/fault.c:16` calls `trip_count` "cumulative trips since last power-on". It
  counts stores: a boot that restores a fault counts again, a raise of bits that are
  already set does not, and of two raises that overlap one may go uncounted.
  `TripsCounted` has what remains true.
* `src/shared.h:50` defines `OVEN_LIVENESS_LIMIT_CYCLES` (5), which nothing uses; the
  Watchdog has its own limits of 8, 2 and 8. With 5 a healthy oven would trip: that
  is the mutant of `NoNuisanceTrip`.
* `docs/ARCHITECTURE.md:264` relies on parameters clamped before publication;
  `cmd_gains` publishes them unchecked, and only `pid_update` clamps.
* `src/pid.h:18` calls the anti-windup conditional integration. It is
  back-calculation: held at a rail, the integral follows the other terms, within
  its bound (`OutputExplained`).

## 7. Plan

Done: `OvenState`, `FaultLatch`, `OvenThreads`, `OvenTiming`, `CutoffTiming`, `PidLaw`,
`PidPub`, each with its proofs. What could follow, in order of importance:

1. `OvenTiming` as an implementation of the timer and PID of `CutoffTiming`: the deadline
   check there and the pace assumed of a PID on time here are stated apart.
2. The shell's publication of a gain set in three separate writes, with the
   thread that may starve it between them, instead of the free choice of `PidLaw`.
3. The planned components (contactor sequencing, process diagnostics, NVS mirror),
   once there is code.
