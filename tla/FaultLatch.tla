----------------------------- MODULE FaultLatch -----------------------------
(***************************************************************************)
(* The fault latch: the OR-only fault word and fault_raise (shared.c), the *)
(* system state machine (oven_state.c), the retained fault record          *)
(* (fault.c) and the boot sequence that restores it (main.c), under the    *)
(* scheduling of oven_threads.h on one CPU.                                *)
(*                                                                         *)
(* fault_raise is not atomic: it ORs the word, sets the state and rewrites *)
(* a four-field record in place.  main and the background threads (the     *)
(* Watchdog and whoever issues operator commands) are preemptible, so each *)
(* of those accesses is a step of its own, and a thread runs only while    *)
(* every other thread it finds inside a call has a lower priority.  PID    *)
(* and Output are cooperative: once running they finish the call, so their *)
(* raise is one step - but one that can land between any two steps of a    *)
(* background thread.  A reset can strike anywhere, in the middle of a     *)
(* cooperative thread's store too; the record is in noinit RAM and keeps   *)
(* what had been written.                                                  *)
(***************************************************************************)
EXTENDS Integers

CONSTANTS
    Main,         \* the boot thread (main.c)
    Background,   \* preemptible threads that raise, arm or disarm after boot
    RealTime,     \* cooperative threads: PID and Output
    Operators,    \* the background threads that issue arm and disarm requests
    Prio,         \* priority of a background thread, a smaller number is higher
    FaultBits,    \* enum oven_fault_bit
    DeviceInit,   \* OVEN_FAULT_DEVICE_INIT
    Restored,     \* OVEN_FAULT_RESTORED
    Masks,        \* Masks[t]: the masks thread t may pass to fault_raise
    TripMod,      \* trip_count is a TripMod-valued counter (2^32 in the code)
    NoCrc         \* a crc field that matches no contents (noinit RAM at power-on)

ASSUME ThreadsAssumption ==
    /\ Main \notin Background \cup RealTime
    /\ Background \cap RealTime = {}
    /\ Operators \subseteq Background
    /\ Prio \in [Background -> Nat]
ASSUME BitsAssumption ==
    /\ DeviceInit \in FaultBits /\ Restored \in FaultBits
    /\ Masks \in [Background \cup RealTime -> SUBSET (SUBSET FaultBits)]
ASSUME TripAssumption == TripMod \in Nat \ {0}
\* The crc is modelled as a digest that no two contents share.
Digest == [magic : BOOLEAN, cause : SUBSET FaultBits, trip : 0 .. TripMod - 1]
ASSUME CrcAssumption == NoCrc \notin Digest

VARIABLES
    word,      \* g_fault_word, as the set of its bits
    state,     \* s_state
    rec,       \* s_rec, the retained record
    boot,      \* how far main() has got
    frame,     \* frame[t]: where t is inside fault_raise or oven_state_request_arm
    persisted,   \* history: some fault_record_store returned since power-on
    damage     \* history: which accidents hit a store since then, see Overlap

latchVars == <<word, state, rec, boot, frame, persisted, damage>>

States == {"INIT", "DISARMED", "ARMED", "FAULTED"}
Callers == Background \cup {Main}
BootSteps == {"restore", "field_io", "pid_dev", "output_dev", "watchdog_dev",
              "boot_ok", "release", "up"}
\* Where a call is: before "latch" it has done nothing, at "magic" to "crc" it
\* is about to write that field, at "sum" to compute the crc; "cas" is the arm
\* request between its two accesses.
StorePcs == {"scan", "check", "magic", "cause", "trip", "sum", "crc"}
RaisePcs == StorePcs \cup {"latch"}
Pcs == RaisePcs \cup {"idle", "cas"}

Idle == [pc |-> "idle", bits |-> {}, prev |-> {}, count |-> 0, sum |-> NoCrc]

DigestOf(r) == [magic |-> r.magic, cause |-> r.cause, trip |-> r.trip]
\* record_valid
Valid(r) == r.magic /\ r.crc = DigestOf(r)
\* The record after a whole fault_record_store(cause).
Stored(r, cause) ==
    LET body == [magic |-> TRUE, cause |-> cause,
                 trip |-> ((IF Valid(r) THEN r.trip ELSE 0) + 1) % TripMod]
    IN  [magic |-> TRUE, cause |-> cause, trip |-> body.trip, crc |-> body]
\* What a reset in the middle of that store leaves: its writes in order, no crc.
CutShort(r, cause) ==
    LET m == [r EXCEPT !.magic = TRUE]
        c == [m EXCEPT !.cause = cause]
    IN  {m, c, [c EXCEPT !.trip = Stored(r, cause).trip]}

Garbage == [magic : BOOLEAN, cause : SUBSET FaultBits,
            trip : 0 .. TripMod - 1, crc : {NoCrc}]

Init == /\ word = {} /\ state = "INIT"
        /\ rec \in Garbage
        /\ boot = "restore"
        /\ frame = [t \in Callers |-> Idle]
        /\ persisted = FALSE /\ damage = {}

-----------------------------------------------------------------------------
(* Scheduling.  main outranks the background threads and does not block     *)
(* until boot is over, and the cooperative threads wait for g_init_done.    *)

Busy(u) == frame[u].pc # "idle"
CanRun(t) ==
    IF t = Main THEN boot # "up"
    ELSE /\ boot = "up"
         /\ \A u \in Background \ {t} : Busy(u) => Prio[t] < Prio[u]

Goto(t, pc) == frame' = [frame EXCEPT ![t].pc = pc]
Return(t) == frame' = [frame EXCEPT ![t] = Idle]

\* The accidents a store of bits b can meet or cause, by what other callers
\* are doing: "stale", another raise is under way, whose record will not hold
\* b; "torn", another store has computed its crc and will write it over this.
Overlap(b, us) ==
    IF b \subseteq word THEN {}
    ELSE { a \in {"stale", "torn"} :
             \E u \in us : frame[u].pc \in (IF a = "torn" THEN {"crc"} ELSE RaisePcs) }

\* fault_raise(b) up to its atomic_or.
BeginRaise(t, b) ==
    /\ word' = word \cup b
    /\ frame' = [frame EXCEPT ![t] = [Idle EXCEPT !.pc = "latch", !.bits = b, !.prev = word]]
    /\ damage' = damage \cup Overlap(b, Background \ {t})
    /\ UNCHANGED <<state, rec, persisted>>

-----------------------------------------------------------------------------
(* fault_raise by a preemptible thread                                      *)

RaiseOr(t, b) ==
    /\ t # Main /\ CanRun(t) /\ frame[t].pc = "idle"
    /\ b # {}
    /\ BeginRaise(t, b)
    /\ UNCHANGED boot

\* oven_state_enter_faulted, then the test that returns if no bit is new.
RaiseLatch(t) ==
    /\ CanRun(t) /\ frame[t].pc = "latch"
    /\ state' = "FAULTED"
    /\ IF frame[t].bits \subseteq frame[t].prev
       THEN Return(t)
       ELSE Goto(t, "scan")
    /\ UNCHANGED <<word, rec, boot, persisted, damage>>

\* record_valid computes the crc of the record as it is ...
StoreScan(t) ==
    /\ CanRun(t) /\ frame[t].pc = "scan"
    /\ frame' = [frame EXCEPT ![t] = [@ EXCEPT !.pc = "check", !.sum = DigestOf(rec)]]
    /\ UNCHANGED <<word, state, rec, boot, persisted, damage>>

\* Mutant of StoreCheck: the count is carried over from any record.
StoreCheckAny(t) ==
    /\ CanRun(t) /\ frame[t].pc = "check"
    /\ frame' = [frame EXCEPT ![t] = [@ EXCEPT !.pc = "magic", !.sum = NoCrc,
                                         !.count = rec.trip]]
    /\ UNCHANGED <<word, state, rec, boot, persisted, damage>>

\* ... and compares it with the crc field: an intact record keeps its count.
StoreCheck(t) ==
    /\ CanRun(t) /\ frame[t].pc = "check"
    /\ LET intact == rec.magic /\ rec.crc = frame[t].sum
       IN  frame' = [frame EXCEPT ![t] = [@ EXCEPT !.pc = "magic", !.sum = NoCrc,
                                            !.count = IF intact THEN rec.trip ELSE 0]]
    /\ UNCHANGED <<word, state, rec, boot, persisted, damage>>

StoreMagic(t) ==
    /\ CanRun(t) /\ frame[t].pc = "magic"
    /\ rec' = [rec EXCEPT !.magic = TRUE]
    /\ Goto(t, "cause")
    /\ UNCHANGED <<word, state, boot, persisted, damage>>

\* Mutant of StoreCause: the raise stores its own bits, not the whole word.
StoreCauseOwn(t) ==
    /\ CanRun(t) /\ frame[t].pc = "cause"
    /\ rec' = [rec EXCEPT !.cause = frame[t].bits]
    /\ Goto(t, "trip")
    /\ UNCHANGED <<word, state, boot, persisted, damage>>

StoreCause(t) ==
    /\ CanRun(t) /\ frame[t].pc = "cause"
    /\ rec' = [rec EXCEPT !.cause = frame[t].prev \cup frame[t].bits]
    /\ Goto(t, "trip")
    /\ UNCHANGED <<word, state, boot, persisted, damage>>

\* Mutant of StoreTrip: a count that does not fit its field.
StoreTripWide(t) ==
    /\ CanRun(t) /\ frame[t].pc = "trip"
    /\ rec' = [rec EXCEPT !.trip = frame[t].count + 1]
    /\ Goto(t, "sum")
    /\ UNCHANGED <<word, state, boot, persisted, damage>>

StoreTrip(t) ==
    /\ CanRun(t) /\ frame[t].pc = "trip"
    /\ rec' = [rec EXCEPT !.trip = (frame[t].count + 1) % TripMod]
    /\ Goto(t, "sum")
    /\ UNCHANGED <<word, state, boot, persisted, damage>>

\* Mutant of StoreSum: the crc is computed before the count is bumped.
StoreSumEarly(t) ==
    /\ CanRun(t) /\ frame[t].pc = "sum"
    /\ LET early == [rec EXCEPT !.trip = frame[t].count]
       IN  frame' = [frame EXCEPT ![t] = [@ EXCEPT !.pc = "crc", !.sum = DigestOf(early)]]
    /\ UNCHANGED <<word, state, rec, boot, persisted, damage>>

StoreSum(t) ==
    /\ CanRun(t) /\ frame[t].pc = "sum"
    /\ frame' = [frame EXCEPT ![t] = [@ EXCEPT !.pc = "crc", !.sum = DigestOf(rec)]]
    /\ UNCHANGED <<word, state, rec, boot, persisted, damage>>

StoreCrc(t) ==
    /\ CanRun(t) /\ frame[t].pc = "crc"
    /\ rec' = [rec EXCEPT !.crc = frame[t].sum]
    /\ Return(t)
    /\ persisted' = TRUE
    /\ UNCHANGED <<word, state, boot, damage>>

RaiseStep(t) ==
    \/ RaiseLatch(t) \/ StoreScan(t) \/ StoreCheck(t) \/ StoreMagic(t)
    \/ StoreCause(t) \/ StoreTrip(t) \/ StoreSum(t) \/ StoreCrc(t)

-----------------------------------------------------------------------------
(* fault_raise by a cooperative thread: nothing runs until it returns       *)

RaiseAtomic(b) ==
    /\ boot = "up" /\ b # {}
    /\ word' = word \cup b
    /\ state' = "FAULTED"
    /\ rec' = IF b \subseteq word THEN rec ELSE Stored(rec, word \cup b)
    /\ persisted' = (persisted \/ ~(b \subseteq word))
    /\ damage' = damage \cup Overlap(b, Background)
    /\ UNCHANGED <<boot, frame>>

-----------------------------------------------------------------------------
(* Operator requests (oven_state.c)                                         *)

\* Mutant of ArmCheck: the request does not look at the fault word.
ArmUnchecked(t) ==
    /\ t # Main /\ CanRun(t) /\ frame[t].pc = "idle"
    /\ Goto(t, "cas")
    /\ UNCHANGED <<word, state, rec, boot, persisted, damage>>

\* oven_state_request_arm: read the word, and only if it is clear ...
ArmCheck(t) ==
    /\ t # Main /\ CanRun(t) /\ frame[t].pc = "idle"
    /\ word = {}
    /\ Goto(t, "cas")
    /\ UNCHANGED <<word, state, rec, boot, persisted, damage>>

\* ... compare-and-swap DISARMED to ARMED.
ArmCas(t) ==
    /\ CanRun(t) /\ frame[t].pc = "cas"
    /\ state' = IF state = "DISARMED" THEN "ARMED" ELSE state
    /\ Return(t)
    /\ UNCHANGED <<word, rec, boot, persisted, damage>>

RequestDisarm(t) ==
    /\ t # Main /\ CanRun(t) /\ frame[t].pc = "idle"
    /\ state = "ARMED" /\ state' = "DISARMED"
    /\ UNCHANGED <<word, rec, boot, frame, persisted, damage>>

-----------------------------------------------------------------------------
(* main()                                                                   *)

AfterStep == [restore |-> "field_io", field_io |-> "pid_dev", pid_dev |-> "output_dev",
              output_dev |-> "watchdog_dev", watchdog_dev |-> "boot_ok",
              boot_ok |-> "release", release |-> "up"]

MainAt(steps) == boot \in steps /\ ~Busy(Main) /\ boot' = AfterStep[boot]

\* Mutant of BootRestore: the restored cause is not raised again.
BootRestoreBare ==
    /\ MainAt({"restore"})
    /\ IF Valid(rec) /\ rec.cause # {}
       THEN BeginRaise(Main, {Restored})
       ELSE UNCHANGED <<word, state, rec, frame, persisted, damage>>

\* restore_latched_fault: a valid record with a cause is raised again.
BootRestore ==
    /\ MainAt({"restore"})
    /\ IF Valid(rec) /\ rec.cause # {}
       THEN BeginRaise(Main, rec.cause \cup {Restored})
       ELSE UNCHANGED <<word, state, rec, frame, persisted, damage>>

\* configure_field_io and verify_devices: each may find its device not ready.
BootCheck(ready) ==
    /\ MainAt({"field_io", "pid_dev", "output_dev", "watchdog_dev"})
    /\ IF ready THEN UNCHANGED <<word, state, rec, frame, persisted, damage>>
       ELSE BeginRaise(Main, {DeviceInit})

\* Mutant of BootOk: a plain store instead of a compare-and-swap.
BootOkStore ==
    /\ MainAt({"boot_ok"})
    /\ state' = "DISARMED"
    /\ UNCHANGED <<word, rec, frame, persisted, damage>>

\* oven_state_boot_ok: compare-and-swap, so a restored fault wins.
BootOk ==
    /\ MainAt({"boot_ok"})
    /\ state' = IF state = "INIT" THEN "DISARMED" ELSE state
    /\ UNCHANGED <<word, rec, frame, persisted, damage>>

BootRelease ==
    /\ MainAt({"release"})
    /\ UNCHANGED <<word, state, rec, frame, persisted, damage>>

-----------------------------------------------------------------------------
(* Resets: external watchdog, brownout, kernel reboot, power               *)

RestartCpu ==
    /\ word' = {} /\ state' = "INIT" /\ boot' = "restore"
    /\ frame' = [t \in Callers |-> Idle]

\* A reset inside a store cuts it short.  Before the first store since
\* power-on has returned there is nothing to lose.
WarmReset ==
    /\ RestartCpu
    /\ damage' = IF persisted /\ \E t \in Callers : frame[t].pc \in {"trip", "sum", "crc"}
                 THEN damage \cup {"torn"} ELSE damage
    /\ UNCHANGED <<rec, persisted>>

\* The reset strikes while a cooperative thread is storing bits b.
WarmResetInStore(b) ==
    /\ boot = "up" /\ b # {} /\ ~(b \subseteq word)
    /\ rec' \in CutShort(rec, word \cup b)
    /\ RestartCpu
    /\ damage' = IF persisted THEN damage \cup {"torn"} ELSE damage
    /\ UNCHANGED persisted

PowerCycle ==
    /\ RestartCpu
    /\ rec' \in Garbage
    /\ persisted' = FALSE /\ damage' = {}

-----------------------------------------------------------------------------
BootNext == BootRestore \/ (\E ready \in BOOLEAN : BootCheck(ready)) \/ BootOk \/ BootRelease
RaiseNext == \/ \E t \in Background : \E b \in Masks[t] : RaiseOr(t, b)
             \/ \E t \in Callers : RaiseStep(t)
             \/ \E t \in RealTime : \E b \in Masks[t] : RaiseAtomic(b)
OperatorNext == \E t \in Operators : ArmCheck(t) \/ ArmCas(t) \/ RequestDisarm(t)
ResetNext == \/ WarmReset
             \/ \E t \in RealTime : \E b \in Masks[t] : WarmResetInStore(b)
             \/ PowerCycle

Next == BootNext \/ RaiseNext \/ OperatorNext \/ ResetNext

Spec == Init /\ [][Next]_latchVars

-----------------------------------------------------------------------------
(* Properties                                                               *)

Records == [magic : BOOLEAN, cause : SUBSET FaultBits,
            trip : 0 .. TripMod - 1, crc : Digest \cup {NoCrc}]
Frames == [pc : Pcs, bits : SUBSET FaultBits, prev : SUBSET FaultBits,
           count : 0 .. TripMod - 1, sum : Digest \cup {NoCrc}]

\* Every variable has the values the code can give it.
TypeOK ==
    /\ word \subseteq FaultBits
    /\ state \in States
    /\ rec \in Records
    /\ boot \in BootSteps
    /\ frame \in [Callers -> Frames]
    /\ persisted \in BOOLEAN
    /\ damage \subseteq {"stale", "torn"}

\* The two atomics that carry the safe state agree: a nonzero fault word means
\* FAULTED, except inside the window of a thread that has set its bits and is
\* about to latch; and FAULTED is never entered without a cause (shared.c,
\* fault_raise; oven_state_boot_ok and request_arm must not overwrite it).
WordIsLatched ==
    /\ word # {} => state = "FAULTED" \/ \E t \in Callers : frame[t].pc = "latch"
    /\ state = "FAULTED" => word # {}

\* Once boot has read the record, an intact record blames only faults that
\* are in the word: whatever interleaving or reset produced it, no cause is
\* made up, and none is left behind by an earlier session (fault.c).
RecordTellsWord ==
    boot # "restore" /\ Valid(rec) => rec.cause \subseteq word

Quiet == \A t \in Callers : ~Busy(t)

\* When no raise is in progress and no other raise or reset overlapped one
\* since power-on, the record is intact and holds every bit of the word: the
\* last of several raises leaves the union, not its own bits.
RecordComplete ==
    damage = {} /\ Quiet /\ word # {} => Valid(rec) /\ rec.cause = word

\* After a store has returned, every later session ends its boot FAULTED, as
\* long as no raise hit a background thread between computing and writing the
\* crc and no reset cut a rewrite short (restore_latched_fault).
LatchKept ==
    persisted /\ "torn" \notin damage /\ boot = "up" => state = "FAULTED"

\* The count of the last store that has returned since power-on: its crc is the
\* digest of what it stored, whatever another store is doing to the fields.
LastCount == IF rec.crc = NoCrc THEN 0 ELSE rec.crc.trip

\* trip_count counts the stores since power-on: one more with each, 1 with the
\* first whatever the noinit RAM held, across every reset, and round at its width -
\* as long as no raise or reset overlapped another's store (fault.c).
TripsCounted ==
    [][damage' = {} /\ rec'.crc # rec.crc /\ rec'.crc # NoCrc
         => rec'.crc.trip = (LastCount + 1) % TripMod]_latchVars

\* What fault_raise, the state machine and the boot sequence promise together.
Oven == INSTANCE OvenState WITH mode <- state, tripped <- (word # {})
ImplementsOvenState == Oven!Spec

\* docs/ARCHITECTURE.md:363-366 claims it without LatchKept's exception: after
\* a safety trip, after any reset, boot into FAULTED.
TripSurvivesAnyReset == persisted /\ boot = "up" => state = "FAULTED"

\* docs/ARCHITECTURE.md:365 has the fault cause stored at the fault: with no
\* raise in progress, a tripped oven has an intact record.
TrippedRecordIntact == Quiet /\ word # {} => Valid(rec)
=============================================================================
