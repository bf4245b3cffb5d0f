-------------------------- MODULE FaultLatchProofs --------------------------
(***************************************************************************)
(* Theorems about FaultLatch, for every set of threads, every priority     *)
(* assignment, every set of fault bits and every width of trip_count.      *)
(***************************************************************************)
EXTENDS FaultLatch, TLAPS

(***************************************************************************)
(* Records and the counter                                                 *)
(***************************************************************************)

\* A trip count stays within its width.
LEMMA TripRange ==
    ASSUME NEW n \in Nat
    PROVE  (n + 1) % TripMod \in 0 .. TripMod - 1
  BY TripAssumption, SMT

\* A digest of a record is a digest.
LEMMA DigestType ==
    ASSUME NEW r \in Records
    PROVE  DigestOf(r) \in Digest
  BY DEF DigestOf, Digest, Records

\* A whole store yields a valid record of that cause.
LEMMA StoredRecord ==
    ASSUME NEW r \in Records, NEW c \in SUBSET FaultBits
    PROVE  /\ Stored(r, c) \in Records
           /\ Stored(r, c).cause = c
           /\ Valid(Stored(r, c))
  <1> DEFINE n == IF Valid(r) THEN r.trip ELSE 0
  <1>1. n \in Nat
    BY TripAssumption DEF Records
  <1>2. (n + 1) % TripMod \in 0 .. TripMod - 1
    BY <1>1, TripRange
  <1> HIDE DEF n
  <1> DEFINE body == [magic |-> TRUE, cause |-> c, trip |-> (n + 1) % TripMod]
  <1>3. Stored(r, c) = [magic |-> TRUE, cause |-> c, trip |-> body.trip, crc |-> body]
    BY DEF Stored, n
  <1>4. body \in Digest
    BY <1>2 DEF Digest
  <1> QED
    BY <1>2, <1>3, <1>4 DEF Records, Valid, DigestOf, Digest

\* A store cut short is still a record, its crc is the old one.
LEMMA CutShortRecord ==
    ASSUME NEW r \in Records, NEW c \in SUBSET FaultBits, NEW q \in CutShort(r, c)
    PROVE  q \in Records /\ q.crc = r.crc /\ q.magic
  <1>1. Stored(r, c).trip \in 0 .. TripMod - 1
    BY StoredRecord DEF Records
  <1> QED
    BY <1>1 DEF CutShort, Records

(***************************************************************************)
(* Type correctness                                                        *)
(***************************************************************************)

LEMMA IdleType == Idle \in Frames
  BY TripAssumption DEF Idle, Frames, Pcs, RaisePcs, StorePcs

\* The atomic_or of a raise, common to main and the background threads.
LEMMA BeginRaiseType ==
    ASSUME TypeOK, NEW t \in Callers, NEW b \in SUBSET FaultBits, BeginRaise(t, b),
           boot' \in BootSteps
    PROVE  TypeOK'
  <1>1. [Idle EXCEPT !.pc = "latch", !.bits = b, !.prev = word] \in Frames
    BY IdleType DEF Idle, Frames, Pcs, RaisePcs, StorePcs, TypeOK
  <1>2. frame' \in [Callers -> Frames]
    BY <1>1 DEF BeginRaise, TypeOK, Frames
  <1>3. damage' \subseteq {"stale", "torn"}
    BY DEF BeginRaise, TypeOK, Overlap
  <1> QED
    BY <1>2, <1>3 DEF BeginRaise, TypeOK, Frames

\* The steps of a preemptible raise after its atomic_or.
LEMMA RaiseStepType ==
    ASSUME TypeOK, NEW t \in Callers, RaiseStep(t)
    PROVE  TypeOK'
  <1> USE DEF TypeOK, Pcs, RaisePcs, StorePcs, Goto, Return
  <1>1. CASE RaiseLatch(t)
    BY <1>1, IdleType DEF RaiseLatch, Frames, States
  <1>2. CASE StoreScan(t)
    <2> DEFINE f == [frame[t] EXCEPT !.pc = "check", !.sum = DigestOf(rec)]
    <2>1. f \in Frames
      BY DigestType DEF Frames
    <2>2. frame' = [frame EXCEPT ![t] = f]
      BY <1>2 DEF StoreScan
    <2> HIDE DEF f
    <2> QED
      BY <1>2, <2>1, <2>2 DEF StoreScan
  <1>3. CASE StoreCheck(t)
    <2> DEFINE n == IF rec.magic /\ rec.crc = frame[t].sum THEN rec.trip ELSE 0
    <2>1. n \in 0 .. TripMod - 1
      BY TripAssumption DEF Records
    <2> DEFINE f == [frame[t] EXCEPT !.pc = "magic", !.sum = NoCrc, !.count = n]
    <2>2. frame' = [frame EXCEPT ![t] = f]
      BY <1>3 DEF StoreCheck
    <2> HIDE DEF n
    <2>3. f \in Frames
      BY <2>1 DEF Frames
    <2> HIDE DEF f
    <2>4. frame' \in [Callers -> Frames]
      BY <2>2, <2>3
    <2> QED
      BY <1>3, <2>4 DEF StoreCheck
  <1>4. CASE StoreMagic(t)
    <2>1. rec' \in Records
      BY <1>4 DEF StoreMagic, Records
    <2>2. frame' \in [Callers -> Frames]
      BY <1>4 DEF StoreMagic, Frames
    <2> QED
      BY <1>4, <2>1, <2>2 DEF StoreMagic
  <1>5. CASE StoreCause(t)
    <2>1. rec' \in Records
      BY <1>5 DEF StoreCause, Records, Frames
    <2>2. frame' \in [Callers -> Frames]
      BY <1>5 DEF StoreCause, Frames
    <2> QED
      BY <1>5, <2>1, <2>2 DEF StoreCause
  <1>6. CASE StoreTrip(t)
    <2>1. (frame[t].count + 1) % TripMod \in 0 .. TripMod - 1
      BY TripRange DEF Frames
    <2> QED
      BY <1>6, <2>1 DEF StoreTrip, Frames, Records
  <1>7. CASE StoreSum(t)
    <2> DEFINE f == [frame[t] EXCEPT !.pc = "crc", !.sum = DigestOf(rec)]
    <2>1. f \in Frames
      BY DigestType DEF Frames
    <2>2. frame' = [frame EXCEPT ![t] = f]
      BY <1>7 DEF StoreSum
    <2> HIDE DEF f
    <2> QED
      BY <1>7, <2>1, <2>2 DEF StoreSum
  <1>8. CASE StoreCrc(t)
    BY <1>8, IdleType DEF StoreCrc, Frames, Records
  <1> QED
    BY <1>1, <1>2, <1>3, <1>4, <1>5, <1>6, <1>7, <1>8 DEF RaiseStep

\* One whole raise of a cooperative thread.
LEMMA RaiseAtomicType ==
    ASSUME TypeOK, NEW b \in SUBSET FaultBits, RaiseAtomic(b)
    PROVE  TypeOK'
  <1>1. Stored(rec, word \cup b) \in Records
    BY StoredRecord DEF TypeOK, Records
  <1>2. damage' \subseteq {"stale", "torn"}
    BY DEF RaiseAtomic, TypeOK, Overlap
  <1> QED
    BY <1>1, <1>2 DEF RaiseAtomic, TypeOK, Records, States

\* Boot steps.
LEMMA BootType ==
    ASSUME TypeOK, BootNext
    PROVE  TypeOK'
  <1>1. ASSUME NEW steps, steps \subseteq BootSteps \ {"up"}, MainAt(steps)
        PROVE  boot' \in BootSteps
    BY <1>1 DEF MainAt, AfterStep, BootSteps
  <1>2. CASE BootRestore
    <2>1. boot' \in BootSteps
      BY <1>1, <1>2 DEF BootRestore, BootSteps
    <2>2. CASE Valid(rec) /\ rec.cause # {}
      BY <1>2, <2>1, <2>2, BeginRaiseType, BitsAssumption DEF BootRestore, TypeOK, Callers, Records
    <2>3. CASE ~(Valid(rec) /\ rec.cause # {})
      BY <1>2, <2>1, <2>3 DEF BootRestore, TypeOK
    <2> QED
      BY <2>2, <2>3
  <1>3. ASSUME NEW ready \in BOOLEAN, BootCheck(ready)
        PROVE  TypeOK'
    <2>1. boot' \in BootSteps
      BY <1>1, <1>3 DEF BootCheck, BootSteps
    <2>2. CASE ready
      BY <1>3, <2>1, <2>2 DEF BootCheck, TypeOK
    <2>3. CASE ~ready
      BY <1>3, <2>1, <2>3, BeginRaiseType, BitsAssumption DEF BootCheck, Callers
    <2> QED
      BY <2>2, <2>3
  <1>4. CASE BootOk
    BY <1>1, <1>4 DEF BootOk, BootSteps, TypeOK, States
  <1>5. CASE BootRelease
    BY <1>1, <1>5 DEF BootRelease, BootSteps, TypeOK
  <1> QED
    BY <1>2, <1>3, <1>4, <1>5 DEF BootNext

\* Resets.
LEMMA ResetType ==
    ASSUME TypeOK, ResetNext
    PROVE  TypeOK'
  <1> DEFINE Rest == /\ word' \subseteq FaultBits /\ state' \in States
                     /\ boot' \in BootSteps /\ frame' \in [Callers -> Frames]
  <1>1. ASSUME RestartCpu PROVE Rest
    BY <1>1, IdleType DEF RestartCpu, States, BootSteps
  <1>2. CASE WarmReset
    BY <1>1, <1>2 DEF WarmReset, TypeOK, Frames
  <1>3. ASSUME NEW t \in RealTime, NEW b \in Masks[t], WarmResetInStore(b)
        PROVE  TypeOK'
    <2>1. b \subseteq FaultBits
      BY BitsAssumption
    <2>2. rec' \in Records
      BY <1>3, <2>1, CutShortRecord DEF WarmResetInStore, TypeOK, Records
    <2> QED
      BY <1>1, <1>3, <2>2 DEF WarmResetInStore, TypeOK, Frames, Records
  <1>4. CASE PowerCycle
    BY <1>1, <1>4 DEF PowerCycle, Garbage, TypeOK, Records
  <1> QED
    BY <1>2, <1>3, <1>4 DEF ResetNext

LEMMA TypeInit == Init => TypeOK
  BY IdleType, TripAssumption DEF Init, TypeOK, Garbage, Records, States, BootSteps

LEMMA TypeNext == TypeOK /\ [Next]_latchVars => TypeOK'
  <1> SUFFICES ASSUME TypeOK, [Next]_latchVars PROVE TypeOK'
    OBVIOUS
  <1>1. CASE BootNext
    BY <1>1, BootType
  <1>2. ASSUME NEW t \in Background, NEW b \in Masks[t], RaiseOr(t, b)
        PROVE  TypeOK'
    <2>1. b \in SUBSET FaultBits /\ t \in Callers
      BY BitsAssumption DEF Callers
    <2> QED
      BY <1>2, <2>1, BeginRaiseType DEF RaiseOr, TypeOK
  <1>3. ASSUME NEW t \in Callers, RaiseStep(t) PROVE TypeOK'
    BY <1>3, RaiseStepType
  <1>4. ASSUME NEW t \in RealTime, NEW b \in Masks[t], RaiseAtomic(b)
        PROVE  TypeOK'
    BY <1>4, RaiseAtomicType, BitsAssumption
  <1>5. CASE OperatorNext
    BY <1>5, IdleType, ThreadsAssumption
    DEF OperatorNext, ArmCheck, ArmCas, RequestDisarm, TypeOK, Goto, Return,
        Callers, Frames, States, Pcs
  <1>6. CASE ResetNext
    BY <1>6, ResetType
  <1>7. CASE UNCHANGED latchVars
    BY <1>7 DEF latchVars, TypeOK
  <1> QED
    BY <1>1, <1>2, <1>3, <1>4, <1>5, <1>6, <1>7 DEF Next, RaiseNext

\* Every variable keeps its type (PROVES TypeOK of FaultLatch).
THEOREM TypeCorrect == Spec => []TypeOK
  BY TypeInit, TypeNext, PTL DEF Spec

(***************************************************************************)
(* The latch.  WordIsLatched and RecordTellsWord are not inductive: they   *)
(* need to know what a raise in progress has already put into the word,    *)
(* who can be inside a call at which point of boot, and that a raiser that *)
(* has not latched yet outranks any arm request it has interrupted.        *)
(***************************************************************************)

\* Before the threads are released only main runs, and it starts clean.
BootInv ==
    /\ boot = "restore" => word = {} /\ state = "INIT"
    /\ boot # "up" => \A t \in Background : frame[t].pc = "idle"
    /\ boot \in {"restore", "release", "up"} => frame[Main].pc = "idle"
    /\ frame[Main].pc # "cas"

\* A raise in progress has set its bits, and there are some.
RaiseInv == \A t \in Callers :
    frame[t].pc \in RaisePcs =>
        /\ frame[t].bits # {}
        /\ frame[t].bits \cup frame[t].prev \subseteq word

\* A raiser that has not latched yet interrupted every pending arm request.
ArmInv == \A t, u \in Background :
    frame[t].pc = "cas" /\ frame[u].pc = "latch" => Prio[u] < Prio[t]

\* What a store has already written when it is at a given point.
StoreInv == \A t \in Callers :
    /\ frame[t].pc \in {"trip", "sum", "crc"} => rec.cause \subseteq word
    /\ frame[t].pc \in {"cause", "trip", "sum", "crc"} => rec.magic

\* Only a store writes a crc, and it writes the magic number first.
CrcInv == rec.crc # NoCrc => rec.magic

LatchInv == /\ TypeOK /\ BootInv /\ RaiseInv /\ ArmInv /\ StoreInv /\ CrcInv
            /\ WordIsLatched /\ RecordTellsWord

LEMMA LatchInit == Init => LatchInv
  <1> SUFFICES ASSUME Init PROVE LatchInv
    OBVIOUS
  <1>1. \A t \in Callers : frame[t] = Idle
    BY DEF Init
  <1>2. Main \in Callers /\ Background \subseteq Callers
    BY DEF Callers
  <1> QED
    BY <1>1, <1>2, TypeInit DEF Init, LatchInv, BootInv, RaiseInv, ArmInv, StoreInv,
       CrcInv, WordIsLatched, RecordTellsWord, Idle, RaisePcs, StorePcs, Garbage

\* The atomic_or, by main during boot or by a background thread after it.
LEMMA BeginRaiseLatch ==
    ASSUME LatchInv, NEW t \in Callers, NEW b \in SUBSET FaultBits, b # {},
           BeginRaise(t, b), frame[t].pc = "idle",
           \/ /\ t = Main /\ boot' \notin {"restore", "release", "up"}
              /\ boot # "up"
              /\ boot = "restore" => rec.cause \subseteq b
           \/ t \in Background /\ CanRun(t) /\ UNCHANGED boot
    PROVE  /\ BootInv' /\ RaiseInv' /\ ArmInv' /\ StoreInv' /\ CrcInv'
           /\ WordIsLatched' /\ RecordTellsWord'
  <1> DEFINE f == [Idle EXCEPT !.pc = "latch", !.bits = b, !.prev = word]
  <1>1. f.pc = "latch" /\ f.bits = b /\ f.prev = word
    BY DEF Idle
  <1>2. frame' = [frame EXCEPT ![t] = f] /\ word' = word \cup b
        /\ UNCHANGED <<state, rec, persisted>>
    BY DEF BeginRaise
  <1> HIDE DEF f
  <1>3. /\ frame'[t] = f
        /\ \A u \in Callers : u # t => frame'[u] = frame[u]
    BY <1>2 DEF LatchInv, TypeOK
  <1>4. Main \in Callers /\ Background \subseteq Callers /\ Main \notin Background
    BY ThreadsAssumption DEF Callers
  <1>5. BootInv'
    BY <1>1, <1>2, <1>3, <1>4 DEF LatchInv, BootInv, CanRun
  <1>6. RaiseInv'
    BY <1>1, <1>2, <1>3 DEF LatchInv, RaiseInv
  <1>7. ArmInv'
    BY <1>1, <1>2, <1>3, <1>4 DEF LatchInv, ArmInv, BootInv, CanRun, Busy
  <1>8. StoreInv' /\ CrcInv'
    BY <1>1, <1>2, <1>3 DEF LatchInv, StoreInv, CrcInv
  <1>9. WordIsLatched'
    BY <1>1, <1>2, <1>3 DEF LatchInv, WordIsLatched
  <1>10. RecordTellsWord'
    BY <1>2, <1>4 DEF LatchInv, RecordTellsWord, CanRun, Valid, DigestOf
  <1> QED
    BY <1>5, <1>6, <1>7, <1>8, <1>9, <1>10

\* The rest of a preemptible raise.
LEMMA RaiseStepLatch ==
    ASSUME LatchInv, NEW t \in Callers, RaiseStep(t)
    PROVE  /\ BootInv' /\ RaiseInv' /\ ArmInv' /\ StoreInv' /\ CrcInv'
           /\ WordIsLatched' /\ RecordTellsWord'
  <1>1. /\ UNCHANGED <<word, boot>>
        /\ \A u \in Callers : u # t => frame'[u] = frame[u]
    BY DEF RaiseStep, RaiseLatch, StoreScan, StoreCheck, StoreMagic, StoreCause, StoreTrip,
           StoreSum, StoreCrc, Goto, Return, LatchInv, TypeOK
  <1>2. /\ frame[t].pc \in RaisePcs
        /\ frame'[t].pc \in StorePcs \cup {"idle"}
        /\ frame'[t].pc # "idle" =>
              frame'[t].bits = frame[t].bits /\ frame'[t].prev = frame[t].prev
    <2> USE DEF LatchInv, TypeOK, Frames, RaisePcs, StorePcs, Idle, Goto, Return
    <2>1. CASE RaiseLatch(t)
      BY <2>1 DEF RaiseLatch
    <2>2. CASE StoreScan(t)
      BY <2>2 DEF StoreScan
    <2>3. CASE StoreCheck(t)
      BY <2>3 DEF StoreCheck
    <2>4. CASE StoreMagic(t)
      BY <2>4 DEF StoreMagic
    <2>5. CASE StoreCause(t)
      BY <2>5 DEF StoreCause
    <2>6. CASE StoreTrip(t)
      BY <2>6 DEF StoreTrip
    <2>7. CASE StoreSum(t)
      BY <2>7 DEF StoreSum
    <2>8. CASE StoreCrc(t)
      BY <2>8 DEF StoreCrc
    <2> QED
      BY <2>1, <2>2, <2>3, <2>4, <2>5, <2>6, <2>7, <2>8 DEF RaiseStep
  <1>3. Main \in Callers /\ Background \subseteq Callers /\ Main \notin Background
    BY ThreadsAssumption DEF Callers
  <1>4. BootInv'
    <2>1. boot \notin {"restore", "release", "up"} \/ t # Main
      BY <1>2 DEF LatchInv, BootInv, RaisePcs, StorePcs
    <2>2. boot # "up" => t \notin Background
      BY <1>2 DEF LatchInv, BootInv, RaisePcs, StorePcs
    <2>3. boot = "restore" => FALSE
      BY <1>2, <2>1, <2>2 DEF LatchInv, BootInv, Callers
    <2> QED
      BY <1>1, <1>2, <1>3, <2>1, <2>2, <2>3 DEF LatchInv, BootInv, StorePcs
  <1>5. RaiseInv'
    BY <1>1, <1>2 DEF LatchInv, RaiseInv, RaisePcs, StorePcs
  <1>6. ArmInv'
    BY <1>1, <1>2, <1>3 DEF LatchInv, ArmInv, StorePcs
  <1>7. frame[t].bits # {} /\ frame[t].bits \cup frame[t].prev \subseteq word
    BY <1>2 DEF LatchInv, RaiseInv
  <1>8. WordIsLatched'
    <2>1. CASE RaiseLatch(t)
      BY <1>1, <1>7, <2>1 DEF RaiseLatch, WordIsLatched
    <2>2. CASE ~RaiseLatch(t)
      <3>1. state' = state /\ frame[t].pc # "latch"
        BY <2>2 DEF RaiseStep, StoreScan, StoreCheck, StoreMagic, StoreCause, StoreTrip,
                    StoreSum, StoreCrc
      <3> QED
        BY <1>1, <3>1 DEF LatchInv, WordIsLatched
    <2> QED
      BY <2>1, <2>2
  <1>9. StoreInv' /\ CrcInv' /\ RecordTellsWord'
    <2>1. rec \in Records /\ boot # "restore"
      BY <1>2 DEF LatchInv, TypeOK, BootInv, Callers, RaisePcs, StorePcs
    <2>2. CASE StoreMagic(t)
      <3>1. rec' = [rec EXCEPT !.magic = TRUE] /\ frame'[t].pc = "cause"
        BY <2>2 DEF StoreMagic, Goto, LatchInv, TypeOK, Frames
      <3>2. rec'.cause = rec.cause /\ rec'.trip = rec.trip /\ rec'.crc = rec.crc /\ rec'.magic
        BY <2>1, <3>1 DEF Records
      <3>3. Valid(rec') => Valid(rec)
        <4> SUFFICES ASSUME Valid(rec') PROVE Valid(rec)
          OBVIOUS
        <4>1. rec'.crc # NoCrc
          BY CrcAssumption, RaiseStepType, DigestType DEF Valid, LatchInv, TypeOK
        <4>2. rec.magic
          BY <3>2, <4>1 DEF LatchInv, CrcInv
        <4>3. rec' = rec
          BY <2>1, <3>1, <4>2 DEF Records
        <4> QED
          BY <4>3
      <3> QED
        BY <1>1, <2>1, <3>1, <3>2, <3>3 DEF LatchInv, StoreInv, CrcInv, RecordTellsWord
    <2>3. CASE StoreCause(t)
      <3>1. /\ rec' = [rec EXCEPT !.cause = frame[t].prev \cup frame[t].bits]
            /\ frame'[t].pc = "trip" /\ frame[t].pc = "cause"
        BY <2>3 DEF StoreCause, Goto, LatchInv, TypeOK, Frames
      <3>2. rec'.cause \subseteq word /\ rec'.magic = rec.magic /\ rec'.crc = rec.crc
        BY <1>7, <2>1, <3>1 DEF Records
      <3> QED
        BY <1>1, <3>1, <3>2 DEF LatchInv, StoreInv, CrcInv, RecordTellsWord
    <2>4. CASE StoreTrip(t)
      <3>1. /\ rec' = [rec EXCEPT !.trip = (frame[t].count + 1) % TripMod]
            /\ frame'[t].pc = "sum" /\ frame[t].pc = "trip"
        BY <2>4 DEF StoreTrip, Goto, LatchInv, TypeOK, Frames
      <3>2. rec'.cause = rec.cause /\ rec'.magic = rec.magic /\ rec'.crc = rec.crc
        BY <2>1, <3>1 DEF Records
      <3> QED
        BY <1>1, <3>1, <3>2 DEF LatchInv, StoreInv, CrcInv, RecordTellsWord
    <2>5. CASE StoreCrc(t)
      <3>1. /\ rec' = [rec EXCEPT !.crc = frame[t].sum]
            /\ frame'[t].pc = "idle" /\ frame[t].pc = "crc"
        BY <2>5 DEF StoreCrc, Return, LatchInv, TypeOK, Frames, Idle
      <3>2. rec'.cause = rec.cause /\ rec'.magic = rec.magic
        BY <2>1, <3>1 DEF Records
      <3> QED
        BY <1>1, <3>1, <3>2 DEF LatchInv, StoreInv, CrcInv, RecordTellsWord
    <2>6. CASE RaiseLatch(t) \/ StoreScan(t) \/ StoreCheck(t)
      <3> USE DEF LatchInv, TypeOK, Frames, Idle, Goto, Return
      <3>1. rec' = rec
        BY <2>6 DEF RaiseLatch, StoreScan, StoreCheck
      <3>2. RaiseLatch(t) => frame'[t].pc \in {"idle", "scan"}
        BY DEF RaiseLatch
      <3>3. StoreScan(t) => frame'[t].pc = "check"
        BY DEF StoreScan
      <3>4. StoreCheck(t) => frame'[t].pc = "magic"
        BY DEF StoreCheck
      <3>5. frame'[t].pc \in {"idle", "scan", "check", "magic"}
        BY <2>6, <3>2, <3>3, <3>4
      <3> QED
        BY <1>1, <3>1, <3>5 DEF StoreInv, CrcInv, RecordTellsWord
    <2>7. CASE StoreSum(t)
      <3>1. rec' = rec /\ frame'[t].pc = "crc" /\ frame[t].pc = "sum"
        BY <2>7 DEF StoreSum, LatchInv, TypeOK, Frames
      <3> QED
        BY <1>1, <3>1 DEF LatchInv, StoreInv, CrcInv, RecordTellsWord
    <2> QED
      BY <2>2, <2>3, <2>4, <2>5, <2>6, <2>7 DEF RaiseStep
  <1> QED
    BY <1>4, <1>5, <1>6, <1>8, <1>9

\* A whole raise of a cooperative thread, between two steps of the others.
LEMMA RaiseAtomicLatch ==
    ASSUME LatchInv, NEW b \in SUBSET FaultBits, RaiseAtomic(b)
    PROVE  /\ BootInv' /\ RaiseInv' /\ ArmInv' /\ StoreInv' /\ CrcInv'
           /\ WordIsLatched' /\ RecordTellsWord'
  <1>1. /\ boot = "up" /\ boot' = boot /\ frame' = frame /\ b # {}
        /\ word' = word \cup b /\ state' = "FAULTED"
    BY DEF RaiseAtomic
  <1>2. \/ rec' = rec
        \/ rec'.magic /\ rec'.cause = word'
    BY <1>1, StoredRecord DEF RaiseAtomic, LatchInv, TypeOK, Valid
  <1>3. BootInv' /\ RaiseInv' /\ ArmInv' /\ WordIsLatched'
    BY <1>1 DEF LatchInv, BootInv, RaiseInv, ArmInv, WordIsLatched
  <1>4. StoreInv' /\ CrcInv' /\ RecordTellsWord'
    BY <1>1, <1>2 DEF LatchInv, StoreInv, CrcInv, RecordTellsWord
  <1> QED
    BY <1>3, <1>4

\* The arm request's compare-and-swap finds DISARMED only if nothing has been
\* raised since it read the word.
LEMMA ArmClear ==
    ASSUME LatchInv, NEW t \in Operators, ArmCas(t), state = "DISARMED"
    PROVE  word = {}
  <1>1. t \in Background /\ t # Main /\ frame[t].pc = "cas" /\ CanRun(t)
    BY ThreadsAssumption DEF ArmCas
  <1>2. boot = "up" /\ frame[Main].pc = "idle"
    BY <1>1 DEF LatchInv, BootInv, CanRun
  <1>3. ASSUME NEW u \in Background, frame[u].pc = "latch" PROVE FALSE
    <2>1. u # t
      BY <1>1, <1>3
    <2>2. Prio[u] < Prio[t] /\ Prio[t] < Prio[u]
      BY <1>1, <1>3, <2>1 DEF LatchInv, ArmInv, CanRun, Busy
    <2> QED
      BY <1>1, <2>2, ThreadsAssumption
  <1> QED
    BY <1>2, <1>3 DEF LatchInv, WordIsLatched, Callers

LEMMA OperatorLatch ==
    ASSUME LatchInv, NEW t \in Operators, ArmCheck(t) \/ ArmCas(t) \/ RequestDisarm(t)
    PROVE  /\ BootInv' /\ RaiseInv' /\ ArmInv' /\ StoreInv' /\ CrcInv'
           /\ WordIsLatched' /\ RecordTellsWord'
  <1>1. t \in Background /\ t \in Callers /\ t # Main
    BY ThreadsAssumption DEF Callers
  <1>2. UNCHANGED <<word, rec, boot>>
    BY DEF ArmCheck, ArmCas, RequestDisarm
  <1>3. boot = "up"
    BY <1>1 DEF ArmCheck, ArmCas, RequestDisarm, CanRun
  <1>4. \A u \in Callers : u # t => frame'[u] = frame[u]
    BY <1>1 DEF ArmCheck, ArmCas, RequestDisarm, Goto, Return, LatchInv, TypeOK
  <1>5. frame[t].pc \in {"idle", "cas"} /\ frame'[t].pc \in {"idle", "cas"}
    <2> USE <1>1 DEF LatchInv, TypeOK, Frames, Goto, Return, Idle
    <2>1. CASE ArmCheck(t)
      BY <2>1 DEF ArmCheck
    <2>2. CASE ArmCas(t)
      BY <2>2 DEF ArmCas
    <2>3. CASE RequestDisarm(t)
      BY <2>3 DEF RequestDisarm
    <2> QED
      BY <2>1, <2>2, <2>3
  <1>6. BootInv'
    BY <1>1, <1>2, <1>3, <1>4 DEF LatchInv, BootInv, Callers
  <1>7. RaiseInv' /\ StoreInv' /\ CrcInv' /\ RecordTellsWord'
    BY <1>2, <1>4, <1>5
    DEF LatchInv, RaiseInv, StoreInv, CrcInv, RecordTellsWord, RaisePcs, StorePcs
  <1>8. ArmInv'
    <2>1. CASE ArmCheck(t)
      <3>1. \A u \in Background : frame[u].pc # "latch"
        BY <2>1 DEF ArmCheck, LatchInv, RaiseInv, RaisePcs, Callers
      <3>2. \A u \in Background : frame'[u].pc # "latch"
        BY <1>4, <1>5, <3>1 DEF Callers
      <3> QED
        BY <3>2 DEF ArmInv
    <2>2. CASE ArmCas(t) \/ RequestDisarm(t)
      <3>1. frame'[t].pc = "idle"
        BY <1>1, <2>2 DEF ArmCas, RequestDisarm, Return, LatchInv, TypeOK, Idle
      <3> QED
        BY <1>1, <1>4, <3>1 DEF LatchInv, ArmInv, Callers
    <2> QED
      BY <2>1, <2>2
  <1>9. WordIsLatched'
    <2>1. CASE state' = "ARMED" /\ state = "DISARMED"
      <3>1. word = {}
        BY <2>1, ArmClear DEF ArmCheck, RequestDisarm
      <3> QED
        BY <1>2, <2>1, <3>1 DEF WordIsLatched
    <2>2. CASE state # "FAULTED" /\ state' # "FAULTED"
      BY <1>2, <1>4, <1>5, <2>2 DEF LatchInv, WordIsLatched
    <2>3. CASE state = "FAULTED" /\ state' = "FAULTED"
      BY <1>2, <2>3 DEF LatchInv, WordIsLatched
    <2> QED
      BY <2>1, <2>2, <2>3 DEF ArmCheck, ArmCas, RequestDisarm
  <1> QED
    BY <1>6, <1>7, <1>8, <1>9

LEMMA BootLatch ==
    ASSUME LatchInv, BootNext
    PROVE  /\ BootInv' /\ RaiseInv' /\ ArmInv' /\ StoreInv' /\ CrcInv'
           /\ WordIsLatched' /\ RecordTellsWord'
  <1> USE DEF MainAt, AfterStep, Busy
  <1>1. Main \in Callers /\ frame[Main].pc = "idle"
    BY DEF BootNext, BootRestore, BootCheck, BootOk, BootRelease, Callers
  <1>2. CASE BootRestore /\ Valid(rec) /\ rec.cause # {}
    <2>1. boot = "restore" /\ boot' = "field_io"
      BY <1>2 DEF BootRestore
    <2>2. BeginRaise(Main, rec.cause \cup {Restored})
      BY <1>2 DEF BootRestore
    <2>3. rec.cause \cup {Restored} \in SUBSET FaultBits
      BY BitsAssumption DEF LatchInv, TypeOK, Records
    <2> QED
      BY <1>1, <2>1, <2>2, <2>3, BeginRaiseLatch
  <1>3. ASSUME NEW ready \in BOOLEAN, BootCheck(ready), ~ready
        PROVE  /\ BootInv' /\ RaiseInv' /\ ArmInv' /\ StoreInv' /\ CrcInv'
               /\ WordIsLatched' /\ RecordTellsWord'
    <2>1. boot' \in {"pid_dev", "output_dev", "watchdog_dev", "boot_ok"}
          /\ boot \notin {"restore", "up"}
      BY <1>3 DEF BootCheck
    <2>2. BeginRaise(Main, {DeviceInit}) /\ {DeviceInit} \in SUBSET FaultBits
      BY <1>3, BitsAssumption DEF BootCheck
    <2> QED
      BY <1>1, <2>1, <2>2, BeginRaiseLatch
  <1>4. ASSUME UNCHANGED <<word, rec, frame>>, boot \in BootSteps \ {"up"},
               boot' \in BootSteps \ {"restore"},
               boot = "restore" => ~Valid(rec) \/ rec.cause = {}
        PROVE  BootInv' /\ RaiseInv' /\ ArmInv' /\ StoreInv' /\ CrcInv' /\ RecordTellsWord'
    BY <1>1, <1>4 DEF LatchInv, BootInv, RaiseInv, ArmInv, StoreInv, CrcInv, RecordTellsWord
  <1>5. CASE BootRestore /\ ~(Valid(rec) /\ rec.cause # {})
    BY <1>4, <1>5 DEF BootRestore, BootSteps, LatchInv, WordIsLatched
  <1>6. ASSUME NEW ready \in BOOLEAN, BootCheck(ready), ready
        PROVE  /\ BootInv' /\ RaiseInv' /\ ArmInv' /\ StoreInv' /\ CrcInv'
               /\ WordIsLatched' /\ RecordTellsWord'
    BY <1>4, <1>6 DEF BootCheck, BootSteps, LatchInv, WordIsLatched
  <1>7. CASE BootOk
    <2>1. UNCHANGED <<word, rec, frame>> /\ boot = "boot_ok" /\ boot' = "release"
      BY <1>7 DEF BootOk
    <2>2. WordIsLatched'
      <3>1. \A t \in Callers : frame[t].pc # "latch"
        BY <1>1, <2>1 DEF LatchInv, BootInv, Callers
      <3> QED
        BY <1>7, <2>1, <3>1 DEF BootOk, LatchInv, WordIsLatched
    <2> QED
      BY <1>4, <2>1, <2>2 DEF BootSteps
  <1>8. CASE BootRelease
    BY <1>4, <1>8 DEF BootRelease, BootSteps, LatchInv, WordIsLatched
  <1> QED
    BY <1>2, <1>3, <1>5, <1>6, <1>7, <1>8 DEF BootNext

\* A reset leaves only the record, and main will judge it before anything else.
LEMMA ResetLatch ==
    ASSUME LatchInv, ResetNext
    PROVE  /\ BootInv' /\ RaiseInv' /\ ArmInv' /\ StoreInv' /\ CrcInv'
           /\ WordIsLatched' /\ RecordTellsWord'
  <1>1. RestartCpu
    BY DEF ResetNext, WarmReset, WarmResetInStore, PowerCycle
  <1>2. /\ word' = {} /\ state' = "INIT" /\ boot' = "restore"
        /\ \A t \in Callers : frame'[t].pc = "idle"
    BY <1>1 DEF RestartCpu, Idle
  <1>3. CrcInv'
    <2>1. CASE WarmReset
      BY <2>1 DEF WarmReset, LatchInv, CrcInv
    <2>2. ASSUME NEW t \in RealTime, NEW b \in Masks[t], WarmResetInStore(b)
          PROVE  CrcInv'
      <3>1. word \cup b \in SUBSET FaultBits /\ rec \in Records
        BY BitsAssumption DEF LatchInv, TypeOK
      <3>2. rec'.magic
        BY <2>2, <3>1, CutShortRecord DEF WarmResetInStore
      <3> QED
        BY <3>2 DEF CrcInv
    <2>3. CASE PowerCycle
      BY <2>3 DEF PowerCycle, Garbage, CrcInv
    <2> QED
      BY <2>1, <2>2, <2>3 DEF ResetNext
  <1> QED
    BY <1>2, <1>3 DEF BootInv, RaiseInv, ArmInv, StoreInv, WordIsLatched, RecordTellsWord,
                      Callers, RaisePcs, StorePcs

LEMMA LatchNext == LatchInv /\ [Next]_latchVars => LatchInv'
  <1> SUFFICES ASSUME LatchInv, [Next]_latchVars PROVE LatchInv'
    OBVIOUS
  <1> DEFINE Others == /\ BootInv /\ RaiseInv /\ ArmInv /\ StoreInv /\ CrcInv
                       /\ WordIsLatched /\ RecordTellsWord
  <1>1. TypeOK'
    BY TypeNext DEF LatchInv
  <1>2. ASSUME BootNext PROVE Others'
    BY <1>2, BootLatch
  <1>3. ASSUME NEW t \in Background, NEW b \in Masks[t], RaiseOr(t, b)
        PROVE  Others'
    <2>1. t \in Callers /\ b \in SUBSET FaultBits
      BY BitsAssumption DEF Callers
    <2> QED
      BY <1>3, <2>1, BeginRaiseLatch DEF RaiseOr
  <1>4. ASSUME NEW t \in Callers, RaiseStep(t) PROVE Others'
    BY <1>4, RaiseStepLatch
  <1>5. ASSUME NEW t \in RealTime, NEW b \in Masks[t], RaiseAtomic(b) PROVE Others'
    <2>1. b \in SUBSET FaultBits
      BY BitsAssumption
    <2> QED
      BY <1>5, <2>1, RaiseAtomicLatch
  <1>6. ASSUME OperatorNext PROVE Others'
    BY <1>6, OperatorLatch DEF OperatorNext
  <1>7. ASSUME ResetNext PROVE Others'
    BY <1>7, ResetLatch
  <1>8. ASSUME UNCHANGED latchVars PROVE Others'
    BY <1>8 DEF latchVars, LatchInv, BootInv, RaiseInv, ArmInv, StoreInv, CrcInv,
                WordIsLatched, RecordTellsWord, Valid, DigestOf
  <1> QED
    BY <1>1, <1>2, <1>3, <1>4, <1>5, <1>6, <1>7, <1>8 DEF Next, RaiseNext, LatchInv

\* The inductive strengthening that the two theorems below project from: word
\* and state agree, and every raise in progress stores only bits it has set.
THEOREM LatchInvariant == Spec => []LatchInv
  BY LatchInit, LatchNext, PTL DEF Spec

\* The fault word and the state machine never contradict each other, whatever
\* preempts fault_raise and wherever boot is (PROVES WordIsLatched).
THEOREM WordLatched == Spec => []WordIsLatched
  <1>1. LatchInv => WordIsLatched
    BY DEF LatchInv
  <1> QED
    BY <1>1, LatchInvariant, PTL

\* An intact record never blames a fault that was not raised (PROVES
\* RecordTellsWord): for boot, that a restored cause is a real one.
THEOREM RecordTruthful == Spec => []RecordTellsWord
  <1>1. LatchInv => RecordTellsWord
    BY DEF LatchInv
  <1> QED
    BY <1>1, LatchInvariant, PTL

(***************************************************************************)
(* The record.  RecordComplete and LatchKept need to know who may still    *)
(* write it: a store that has computed its crc owns the record until it    *)
(* returns, unless another store overtook it - and damage says so - and a  *)
(* raise that nobody overlapped holds the whole word.                      *)
(***************************************************************************)

\* The record is between its old contents and its new ones.
Storing(t) == frame[t].pc \in {"trip", "sum", "crc"}

\* A raise that has a new bit, so that it will store, or is storing.
NewRaise(t) ==
    \/ frame[t].pc \in StorePcs
    \/ frame[t].pc = "latch" /\ ~(frame[t].bits \subseteq frame[t].prev)

StoreLatched == \A t \in Callers :
    /\ frame[t].pc \in StorePcs => state = "FAULTED"
    /\ Storing(t) => rec.cause # {}

\* The crc about to be written is the record's, and whoever else is storing
\* was interrupted before it computed its own.
CrcOwner == "torn" \notin damage =>
    \A t \in Callers : frame[t].pc = "crc" =>
        /\ frame[t].sum = DigestOf(rec)
        /\ \A u \in Callers \ {t} : NewRaise(u) => Prio[t] < Prio[u]

RecordKept == persisted /\ "torn" \notin damage =>
    \/ \E t \in Callers : Storing(t)
    \/ Valid(rec) /\ rec.cause # {}

WordKept == persisted /\ "torn" \notin damage /\ boot # "restore" => word # {}

\* Without an overlap there is one raise at a time, and it stores the word.
OneRaise == damage = {} =>
    \A t \in Callers : NewRaise(t) =>
        /\ word = frame[t].prev \cup frame[t].bits
        /\ Storing(t) => rec.cause = word
        /\ \A u \in Callers : NewRaise(u) => u = t

Settled == damage = {} /\ word # {} =>
    \/ \E t \in Callers : NewRaise(t)
    \/ Valid(rec) /\ rec.cause = word

KeptInv == /\ StoreLatched /\ CrcOwner /\ RecordKept /\ WordKept /\ LatchKept
           /\ OneRaise /\ Settled

\* A thread that runs inside a raise outranks all the others it finds in one.
LEMMA Outranks ==
    ASSUME LatchInv, NEW t \in Callers, CanRun(t), frame[t].pc # "idle",
           NEW u \in Callers, u # t, frame[u].pc # "idle"
    PROVE  t \in Background /\ u \in Background /\ Prio[t] < Prio[u]
  <1>1. CASE t = Main
    BY <1>1, ThreadsAssumption DEF LatchInv, BootInv, CanRun, Callers
  <1>2. CASE t # Main
    <2>1. t \in Background /\ boot = "up" /\ u \in Background
      BY <1>2 DEF LatchInv, BootInv, CanRun, Callers
    <2> QED
      BY <1>2, <2>1 DEF CanRun, Busy
  <1> QED
    BY <1>1, <1>2

LEMMA KeptInit == Init => KeptInv
  <1> SUFFICES ASSUME Init PROVE KeptInv
    OBVIOUS
  <1>1. \A t \in Callers : frame[t].pc = "idle"
    BY DEF Init, Idle
  <1> QED
    BY <1>1 DEF Init, KeptInv, StoreLatched, CrcOwner, RecordKept, WordKept, LatchKept,
       OneRaise, Settled, Storing, NewRaise, StorePcs

\* The atomic_or: a new bit is accounted for against every raise under way.
LEMMA BeginRaiseKept ==
    ASSUME LatchInv, KeptInv, NEW t \in Callers, NEW b \in SUBSET FaultBits, b # {},
           BeginRaise(t, b), frame[t].pc = "idle",
           \/ t = Main /\ boot # "up" /\ boot' # "up"
           \/ t \in Background /\ CanRun(t) /\ UNCHANGED boot
    PROVE  KeptInv'
  <1> DEFINE f == [Idle EXCEPT !.pc = "latch", !.bits = b, !.prev = word]
  <1>1. f.pc = "latch" /\ f.bits = b /\ f.prev = word
    BY DEF Idle
  <1>2. frame' = [frame EXCEPT ![t] = f] /\ word' = word \cup b
        /\ UNCHANGED <<state, rec, persisted>>
    BY DEF BeginRaise
  <1> HIDE DEF f
  <1>3. /\ frame'[t] = f
        /\ \A u \in Callers : u # t => frame'[u] = frame[u]
    BY <1>2 DEF LatchInv, TypeOK
  <1>4. /\ NewRaise(t)' <=> ~(b \subseteq word)
        /\ \A u \in Callers : u # t => (NewRaise(u)' <=> NewRaise(u))
        /\ \A u \in Callers : Storing(u)' <=> Storing(u)
    BY <1>1, <1>3 DEF NewRaise, Storing, StorePcs
  <1>5. ~NewRaise(t)
    BY DEF NewRaise, StorePcs
  <1>6. damage \subseteq damage'
    BY DEF BeginRaise
  <1>7. ASSUME ~(b \subseteq word), NEW u \in Callers, u # t, NewRaise(u)
        PROVE  "stale" \in damage' /\ (frame[u].pc = "crc" => "torn" \in damage')
    <2>1. u \in Background \ {t} /\ frame[u].pc \in RaisePcs
      BY <1>7 DEF NewRaise, StorePcs, RaisePcs, CanRun, LatchInv, BootInv, Callers
    <2> QED
      BY <1>7, <2>1 DEF BeginRaise, Overlap
  <1>8. StoreLatched'
    BY <1>1, <1>2, <1>3, <1>4 DEF KeptInv, StoreLatched, StorePcs
  <1>9. CrcOwner'
    <2> SUFFICES ASSUME "torn" \notin damage', NEW v \in Callers, frame'[v].pc = "crc"
                 PROVE  /\ frame'[v].sum = DigestOf(rec)
                        /\ \A u \in Callers \ {v} : NewRaise(u)' => Prio[v] < Prio[u]
      BY <1>2 DEF CrcOwner
    <2>1. v # t /\ frame'[v] = frame[v] /\ frame[v].pc = "crc"
      BY <1>1, <1>3
    <2>2. NewRaise(v)
      BY <2>1 DEF NewRaise, StorePcs
    <2>3. b \subseteq word
      BY <1>7, <2>1, <2>2
    <2> QED
      BY <1>4, <1>6, <2>1, <2>3 DEF KeptInv, CrcOwner
  <1>10. RecordKept'
    BY <1>2, <1>4, <1>6 DEF KeptInv, RecordKept, Valid, DigestOf
  <1>11. WordKept' /\ LatchKept'
    BY <1>2, <1>6 DEF KeptInv, WordKept, LatchKept
  <1>12. OneRaise'
    <2>1. CASE b \subseteq word
      <3>1. word' = word
        BY <1>2, <2>1
      <3> QED
        BY <1>2, <1>3, <1>4, <1>6, <2>1, <3>1 DEF KeptInv, OneRaise
    <2>2. CASE ~(b \subseteq word)
      <3> SUFFICES ASSUME damage' = {}, NEW v \in Callers, NewRaise(v)'
                   PROVE  v = t
        BY <1>1, <1>2, <1>3 DEF OneRaise, Storing
      <3> QED
        BY <1>4, <1>7, <2>2
    <2> QED
      BY <2>1, <2>2
  <1>13. Settled'
    <2>1. CASE b \subseteq word
      <3>1. word' = word
        BY <1>2, <2>1
      <3> QED
        BY <1>2, <1>4, <1>5, <1>6, <3>1 DEF KeptInv, Settled, Valid, DigestOf
    <2>2. CASE ~(b \subseteq word)
      BY <1>4, <2>2 DEF Settled
    <2> QED
      BY <2>1, <2>2
  <1> QED
    BY <1>8, <1>9, <1>10, <1>11, <1>12, <1>13 DEF KeptInv

\* The rest of a preemptible raise.  A step that leaves the record alone ...
LEMMA QuietStepKept ==
    ASSUME LatchInv, KeptInv, NEW t \in Callers, CanRun(t),
           RaiseLatch(t) \/ StoreScan(t) \/ StoreCheck(t) \/ StoreSum(t)
    PROVE  KeptInv'
  <1> USE DEF LatchInv, TypeOK, Frames
  <1>1. /\ UNCHANGED <<word, rec, boot, persisted, damage>>
        /\ \A u \in Callers : u # t => frame'[u] = frame[u]
    BY DEF RaiseLatch, StoreScan, StoreCheck, StoreSum, Goto, Return
  <1>2. /\ frame[t].pc \in {"latch", "scan", "check", "sum"}
        /\ state' \in {state, "FAULTED"}
        /\ frame'[t].pc \in StorePcs => state' = "FAULTED"
        /\ NewRaise(t)' <=> NewRaise(t)
        /\ NewRaise(t) => frame'[t].bits = frame[t].bits /\ frame'[t].prev = frame[t].prev
        /\ Storing(t)' <=> Storing(t)
    <2> USE DEF NewRaise, Storing, StorePcs, KeptInv, StoreLatched
    <2>1. CASE RaiseLatch(t)
      BY <2>1 DEF RaiseLatch, Goto, Return, Idle
    <2>2. CASE StoreScan(t)
      BY <2>2 DEF StoreScan
    <2>3. CASE StoreCheck(t)
      BY <2>3 DEF StoreCheck
    <2>4. CASE StoreSum(t)
      BY <2>4 DEF StoreSum
    <2> QED
      BY <2>1, <2>2, <2>3, <2>4
  <1>3. \A u \in Callers : (NewRaise(u)' <=> NewRaise(u)) /\ (Storing(u)' <=> Storing(u))
    BY <1>1, <1>2 DEF NewRaise, Storing
  <1>4. StoreLatched'
    BY <1>1, <1>2, <1>3 DEF KeptInv, StoreLatched
  <1>5. CrcOwner'
    <2> SUFFICES ASSUME "torn" \notin damage, NEW v \in Callers, frame'[v].pc = "crc"
                 PROVE  /\ frame'[v].sum = DigestOf(rec)
                        /\ \A u \in Callers \ {v} : NewRaise(u) => Prio[v] < Prio[u]
      BY <1>1, <1>3 DEF CrcOwner
    <2>1. CASE v # t
      BY <1>1, <2>1 DEF KeptInv, CrcOwner
    <2>2. CASE v = t
      <3>1. StoreSum(t)
        <4>1. RaiseLatch(t) => frame'[t].pc \in {"idle", "scan"}
          BY DEF RaiseLatch, Goto, Return, Idle
        <4>2. StoreScan(t) => frame'[t].pc = "check"
          BY DEF StoreScan
        <4>3. StoreCheck(t) => frame'[t].pc = "magic"
          BY DEF StoreCheck
        <4> QED
          BY <2>2, <4>1, <4>2, <4>3
      <3>2. frame'[t].sum = DigestOf(rec)
        BY <3>1 DEF StoreSum
      <3>3. ASSUME NEW u \in Callers \ {t}, NewRaise(u) PROVE Prio[t] < Prio[u]
        BY <1>2, <3>3, Outranks DEF NewRaise, StorePcs
      <3> QED
        BY <2>2, <3>2, <3>3
    <2> QED
      BY <2>1, <2>2
  <1>6. RecordKept' /\ WordKept' /\ Settled'
    BY <1>1, <1>3 DEF KeptInv, RecordKept, WordKept, Settled, Valid, DigestOf
  <1>7. LatchKept'
    BY <1>1, <1>2 DEF KeptInv, LatchKept
  <1>8. OneRaise'
    BY <1>1, <1>2, <1>3 DEF KeptInv, OneRaise
  <1> QED
    BY <1>4, <1>5, <1>6, <1>7, <1>8 DEF KeptInv

\* ... one that rewrites a field: no other store holds a crc it would spoil ...
LEMMA WriteStepKept ==
    ASSUME LatchInv, KeptInv, NEW t \in Callers, CanRun(t),
           StoreMagic(t) \/ StoreCause(t) \/ StoreTrip(t)
    PROVE  KeptInv'
  <1> USE DEF LatchInv, TypeOK, Frames, Records
  <1>1. /\ UNCHANGED <<word, state, boot, persisted, damage>>
        /\ \A u \in Callers : u # t => frame'[u] = frame[u]
    BY DEF StoreMagic, StoreCause, StoreTrip, Goto
  <1>2. /\ frame[t].pc \in {"magic", "cause", "trip"}
        /\ frame'[t].pc \in {"cause", "trip", "sum"}
        /\ frame'[t].bits = frame[t].bits /\ frame'[t].prev = frame[t].prev
        /\ Storing(t)' <=> frame[t].pc # "magic"
    <2> USE DEF Goto, Storing
    <2>1. CASE StoreMagic(t)
      BY <2>1 DEF StoreMagic
    <2>2. CASE StoreCause(t)
      BY <2>2 DEF StoreCause
    <2>3. CASE StoreTrip(t)
      BY <2>3 DEF StoreTrip
    <2> QED
      BY <2>1, <2>2, <2>3
  <1>3. \A u \in Callers : /\ NewRaise(u)' <=> NewRaise(u)
                           /\ u # t => (Storing(u)' <=> Storing(u))
    BY <1>1, <1>2 DEF NewRaise, Storing, StorePcs
  <1>4. NewRaise(t) /\ frame[t].pc \in RaisePcs
    BY <1>2 DEF NewRaise, StorePcs, RaisePcs
  <1>5. /\ frame[t].pc = "cause" => rec'.cause = frame[t].prev \cup frame[t].bits
        /\ frame[t].pc # "cause" => rec'.cause = rec.cause
    BY DEF StoreMagic, StoreCause, StoreTrip
  <1>6. frame[t].bits # {} /\ Storing(t)' => rec'.cause # {}
    BY <1>2, <1>4, <1>5 DEF KeptInv, StoreLatched, Storing
  <1>7. StoreLatched'
    <2>1. frame[t].bits # {}
      BY <1>4 DEF RaiseInv
    <2>2. ASSUME NEW u \in Callers, u # t, Storing(u) PROVE rec'.cause # {}
      BY <1>5, <2>1, <2>2 DEF KeptInv, StoreLatched
    <2>3. frame[t].pc \in StorePcs
      BY <1>2 DEF StorePcs
    <2> QED
      BY <1>1, <1>3, <1>6, <2>1, <2>2, <2>3 DEF KeptInv, StoreLatched
  <1>8. CrcOwner'
    <2> SUFFICES ASSUME "torn" \notin damage, NEW v \in Callers, frame'[v].pc = "crc"
                 PROVE  FALSE
      BY <1>1 DEF CrcOwner
    <2>1. v # t /\ frame[v].pc = "crc"
      BY <1>1, <1>2
    <2>2. Prio[v] < Prio[t]
      BY <1>4, <2>1 DEF KeptInv, CrcOwner
    <2>3. t \in Background /\ v \in Background /\ Prio[t] < Prio[v]
      BY <1>2, <2>1, Outranks
    <2> QED
      BY <2>2, <2>3, ThreadsAssumption
  <1>9. RecordKept'
    <2>1. CASE Storing(t)'
      BY <2>1 DEF RecordKept
    <2>2. CASE \E u \in Callers : u # t /\ Storing(u)
      BY <1>3, <2>2 DEF RecordKept
    <2>3. CASE frame[t].pc = "magic" /\ ~\E u \in Callers : u # t /\ Storing(u)
      <3> SUFFICES ASSUME persisted, "torn" \notin damage PROVE Valid(rec') /\ rec'.cause # {}
        BY <1>1 DEF RecordKept, Valid, DigestOf
      <3>1. Valid(rec) /\ rec.cause # {}
        BY <2>3 DEF KeptInv, RecordKept, Storing
      <3>2. rec' = [rec EXCEPT !.magic = TRUE]
        BY <2>3 DEF StoreMagic, StoreCause, StoreTrip
      <3>3. rec' = rec
        BY <3>1, <3>2 DEF TypeOK, Records, Valid
      <3> QED
        BY <3>1, <3>3
    <2> QED
      BY <1>2, <2>1, <2>2, <2>3
  <1>10. WordKept' /\ LatchKept'
    BY <1>1 DEF KeptInv, WordKept, LatchKept
  <1>11. OneRaise'
    <2> SUFFICES ASSUME damage = {}
                 PROVE  /\ word = frame[t].prev \cup frame[t].bits
                        /\ Storing(t)' => rec'.cause = word
                        /\ \A u \in Callers : NewRaise(u) => u = t
      BY <1>1, <1>2, <1>3 DEF OneRaise
    <2>1. /\ word = frame[t].prev \cup frame[t].bits
          /\ Storing(t) => rec.cause = word
          /\ \A u \in Callers : NewRaise(u) => u = t
      BY <1>4 DEF KeptInv, OneRaise
    <2> QED
      BY <1>2, <1>5, <2>1 DEF Storing
  <1>12. Settled'
    BY <1>3, <1>4 DEF Settled
  <1> QED
    BY <1>7, <1>8, <1>9, <1>10, <1>11, <1>12 DEF KeptInv

\* ... and the one that makes the record valid again.
LEMMA CrcStepKept ==
    ASSUME LatchInv, KeptInv, NEW t \in Callers, CanRun(t), StoreCrc(t)
    PROVE  KeptInv'
  <1> USE DEF LatchInv, TypeOK, Frames, Records
  <1>1. /\ UNCHANGED <<word, state, boot, damage>> /\ persisted'
        /\ \A u \in Callers : u # t => frame'[u] = frame[u]
        /\ frame[t].pc = "crc" /\ frame'[t].pc = "idle"
    BY DEF StoreCrc, Return, Idle
  <1>2. /\ rec'.cause = rec.cause /\ DigestOf(rec') = DigestOf(rec)
        /\ rec'.magic /\ rec'.crc = frame[t].sum
    BY <1>1 DEF StoreCrc, DigestOf, StoreInv
  <1>3. NewRaise(t) /\ Storing(t) /\ ~NewRaise(t)' /\ ~Storing(t)' /\ frame[t].pc \in RaisePcs
    BY <1>1 DEF NewRaise, Storing, StorePcs, RaisePcs
  <1>4. \A u \in Callers : u # t => /\ NewRaise(u)' <=> NewRaise(u)
                                    /\ Storing(u)' <=> Storing(u)
    BY <1>1 DEF NewRaise, Storing
  <1>5. "torn" \notin damage => Valid(rec')
    BY <1>1, <1>2 DEF KeptInv, CrcOwner, Valid, DigestOf
  <1>6. rec'.cause # {} /\ state = "FAULTED" /\ word # {}
    <2>1. frame[t].bits # {} /\ frame[t].bits \cup frame[t].prev \subseteq word
      BY <1>3 DEF RaiseInv
    <2> QED
      BY <1>1, <1>2, <1>3, <2>1 DEF KeptInv, StoreLatched, StorePcs
  <1>7. StoreLatched'
    BY <1>1, <1>3, <1>6 DEF StoreLatched
  <1>8. CrcOwner'
    <2> SUFFICES ASSUME "torn" \notin damage, NEW v \in Callers, frame'[v].pc = "crc"
                 PROVE  FALSE
      BY <1>1 DEF CrcOwner
    <2>1. v # t /\ frame[v].pc = "crc"
      BY <1>1
    <2>2. Prio[v] < Prio[t]
      BY <1>3, <2>1 DEF KeptInv, CrcOwner
    <2>3. t \in Background /\ v \in Background /\ Prio[t] < Prio[v]
      BY <1>1, <2>1, Outranks
    <2> QED
      BY <2>2, <2>3, ThreadsAssumption
  <1>9. RecordKept'
    BY <1>1, <1>5, <1>6 DEF RecordKept, Valid, DigestOf
  <1>10. WordKept' /\ LatchKept'
    BY <1>1, <1>6 DEF WordKept, LatchKept
  <1>11. ASSUME damage = {}
         PROVE  /\ \A u \in Callers : ~NewRaise(u)'
                /\ Valid(rec') /\ rec'.cause = word
    <2>1. \A u \in Callers : NewRaise(u) => u = t
      BY <1>3, <1>11 DEF KeptInv, OneRaise
    <2>2. rec.cause = word
      BY <1>3, <1>11 DEF KeptInv, OneRaise
    <2> QED
      BY <1>2, <1>3, <1>4, <1>5, <1>11, <2>1, <2>2
  <1>12. OneRaise' /\ Settled'
    BY <1>1, <1>11 DEF OneRaise, Settled, Valid, DigestOf
  <1> QED
    BY <1>7, <1>8, <1>9, <1>10, <1>12 DEF KeptInv

\* A whole raise of a cooperative thread, between two steps of the others.
LEMMA RaiseAtomicKept ==
    ASSUME LatchInv, KeptInv, NEW b \in SUBSET FaultBits, RaiseAtomic(b)
    PROVE  KeptInv'
  <1>1. /\ boot = "up" /\ boot' = boot /\ frame' = frame /\ b # {}
        /\ word' = word \cup b /\ state' = "FAULTED" /\ damage \subseteq damage'
    BY DEF RaiseAtomic
  <1>2. \A u \in Callers : (NewRaise(u)' <=> NewRaise(u)) /\ (Storing(u)' <=> Storing(u))
    BY <1>1 DEF NewRaise, Storing
  <1>3. StoreLatched' /\ WordKept' /\ LatchKept'
    <2>1. rec' = rec \/ rec'.cause # {}
      BY <1>1, StoredRecord DEF RaiseAtomic, LatchInv, TypeOK
    <2> QED
      BY <1>1, <1>2, <2>1 DEF KeptInv, StoreLatched, WordKept, LatchKept
  <1>4. CASE b \subseteq word
    <2>1. word' = word /\ rec' = rec /\ persisted' = persisted
      BY <1>1, <1>4 DEF RaiseAtomic, LatchInv, TypeOK
    <2>2. CrcOwner' /\ OneRaise'
      BY <1>1, <1>2, <2>1 DEF KeptInv, CrcOwner, OneRaise
    <2>3. RecordKept' /\ Settled'
      BY <1>1, <1>2, <2>1 DEF KeptInv, RecordKept, Settled, Valid, DigestOf
    <2> QED
      BY <1>3, <2>2, <2>3 DEF KeptInv
  <1>5. CASE ~(b \subseteq word)
    <2>1. rec' = Stored(rec, word \cup b)
      BY <1>5 DEF RaiseAtomic
    <2>2. Valid(rec)' /\ rec'.cause = word'
      <3>1. word \cup b \in SUBSET FaultBits /\ rec \in Records
        BY DEF LatchInv, TypeOK
      <3>2. Valid(rec') /\ rec'.cause = word \cup b
        BY <2>1, <3>1, StoredRecord
      <3> QED
        BY <1>1, <3>2 DEF Valid, DigestOf
    <2>3. ASSUME NEW u \in Callers, NewRaise(u)
          PROVE  "stale" \in damage' /\ (frame[u].pc = "crc" => "torn" \in damage')
      <3>1. u \in Background /\ frame[u].pc \in RaisePcs
        BY <1>1, <2>3 DEF NewRaise, StorePcs, RaisePcs, LatchInv, BootInv, Callers
      <3> QED
        BY <1>5, <3>1 DEF RaiseAtomic, Overlap
    <2>4. CrcOwner'
      BY <1>1, <2>3 DEF CrcOwner, NewRaise, StorePcs
    <2>5. OneRaise'
      BY <1>2, <2>3 DEF OneRaise
    <2>6. RecordKept' /\ Settled'
      BY <1>1, <2>2 DEF RecordKept, Settled
    <2> QED
      BY <1>3, <2>4, <2>5, <2>6 DEF KeptInv
  <1> QED
    BY <1>4, <1>5

\* A request neither raises nor stores, and never leaves FAULTED.
LEMMA OperatorKept ==
    ASSUME LatchInv, KeptInv, NEW t \in Operators,
           ArmCheck(t) \/ ArmCas(t) \/ RequestDisarm(t)
    PROVE  KeptInv'
  <1>1. t \in Callers
    BY ThreadsAssumption DEF Callers
  <1>2. /\ UNCHANGED <<word, rec, boot, persisted, damage>>
        /\ state = "FAULTED" => state' = "FAULTED"
        /\ \A u \in Callers : u # t => frame'[u] = frame[u]
    BY <1>1 DEF ArmCheck, ArmCas, RequestDisarm, Goto, Return, LatchInv, TypeOK
  <1>3. frame[t].pc \in {"idle", "cas"} /\ frame'[t].pc \in {"idle", "cas"}
    <2> USE <1>1 DEF LatchInv, TypeOK, Frames, Goto, Return, Idle
    <2>1. CASE ArmCheck(t)
      BY <2>1 DEF ArmCheck
    <2>2. CASE ArmCas(t)
      BY <2>2 DEF ArmCas
    <2>3. CASE RequestDisarm(t)
      BY <2>3 DEF RequestDisarm
    <2> QED
      BY <2>1, <2>2, <2>3
  <1>4. \A u \in Callers :
            /\ NewRaise(u)' <=> NewRaise(u)
            /\ Storing(u)' <=> Storing(u)
            /\ NewRaise(u) => frame'[u] = frame[u]
            /\ frame'[u].pc \in StorePcs => frame'[u] = frame[u]
    BY <1>2, <1>3 DEF NewRaise, Storing, StorePcs
  <1>5. StoreLatched'
    BY <1>2, <1>4 DEF KeptInv, StoreLatched
  <1>6. CrcOwner'
    BY <1>2, <1>4 DEF KeptInv, CrcOwner, StorePcs
  <1>7. OneRaise'
    BY <1>2, <1>4 DEF KeptInv, OneRaise
  <1>8. RecordKept' /\ Settled'
    BY <1>2, <1>4 DEF KeptInv, RecordKept, Settled, Valid, DigestOf
  <1>9. WordKept' /\ LatchKept'
    BY <1>2 DEF KeptInv, WordKept, LatchKept
  <1> QED
    BY <1>5, <1>6, <1>7, <1>8, <1>9 DEF KeptInv

\* Boot raises what the record says, before anyone can be released.
LEMMA BootKept ==
    ASSUME LatchInv, LatchInv', KeptInv, BootNext
    PROVE  KeptInv'
  <1> USE DEF MainAt, AfterStep, Busy
  <1>1. /\ Main \in Callers /\ frame[Main].pc = "idle" /\ boot # "up"
        /\ \A t \in Callers : frame[t].pc = "idle"
    BY DEF BootNext, BootRestore, BootCheck, BootOk, BootRelease, Callers, LatchInv, BootInv
  <1>2. CASE BootRestore /\ Valid(rec) /\ rec.cause # {}
    <2>1. boot' = "field_io" /\ BeginRaise(Main, rec.cause \cup {Restored})
      BY <1>2 DEF BootRestore
    <2>2. rec.cause \cup {Restored} \in SUBSET FaultBits
      BY BitsAssumption DEF LatchInv, TypeOK, Records
    <2> QED
      BY <1>1, <2>1, <2>2, BeginRaiseKept
  <1>3. ASSUME NEW ready \in BOOLEAN, BootCheck(ready), ~ready
        PROVE  KeptInv'
    <2>1. boot' # "up" /\ BeginRaise(Main, {DeviceInit}) /\ {DeviceInit} \in SUBSET FaultBits
      BY <1>3, BitsAssumption DEF BootCheck
    <2> QED
      BY <1>1, <2>1, BeginRaiseKept
  <1>4. ASSUME UNCHANGED <<word, rec, frame, persisted, damage>>,
               boot = "restore" => ~Valid(rec) \/ rec.cause = {},
               boot' = "up" => boot = "release" /\ state' = state
        PROVE  KeptInv'
    <2>1. \A t \in Callers : ~NewRaise(t) /\ ~Storing(t) /\ frame[t].pc # "latch"
      BY <1>1 DEF NewRaise, Storing, StorePcs
    <2>2. StoreLatched' /\ CrcOwner' /\ OneRaise'
      BY <1>1, <1>4, <2>1 DEF StoreLatched, CrcOwner, OneRaise, NewRaise, Storing, StorePcs
    <2>3. RecordKept' /\ Settled'
      BY <1>4, <2>1 DEF KeptInv, RecordKept, Settled, Valid, DigestOf, Storing, NewRaise
    <2>4. persisted /\ "torn" \notin damage => word # {}
      BY <1>4, <2>1 DEF KeptInv, RecordKept, WordKept
    <2>5. word # {} => state = "FAULTED"
      BY <2>1 DEF LatchInv, WordIsLatched
    <2>6. WordKept' /\ LatchKept'
      BY <1>4, <2>4, <2>5 DEF WordKept, LatchKept
    <2> QED
      BY <2>2, <2>3, <2>6 DEF KeptInv
  <1>5. CASE BootRestore /\ ~(Valid(rec) /\ rec.cause # {})
    BY <1>4, <1>5 DEF BootRestore
  <1>6. ASSUME NEW ready \in BOOLEAN, BootCheck(ready), ready
        PROVE  KeptInv'
    BY <1>4, <1>6 DEF BootCheck
  <1>7. CASE BootOk
    BY <1>4, <1>7 DEF BootOk
  <1>8. CASE BootRelease
    BY <1>4, <1>8 DEF BootRelease
  <1> QED
    BY <1>2, <1>3, <1>5, <1>6, <1>7, <1>8 DEF BootNext

\* A reset ends every raise; it leaves an intact record unless it cut a store
\* short, and then damage says so.
LEMMA ResetKept ==
    ASSUME LatchInv, KeptInv, ResetNext
    PROVE  KeptInv'
  <1>1. /\ word' = {} /\ boot' = "restore"
        /\ \A t \in Callers : frame'[t].pc = "idle"
    <2>1. RestartCpu
      BY DEF ResetNext, WarmReset, WarmResetInStore, PowerCycle
    <2> QED
      BY <2>1 DEF RestartCpu, Idle
  <1>2. \A t \in Callers : ~NewRaise(t)' /\ ~Storing(t)'
    BY <1>1 DEF NewRaise, Storing, StorePcs
  <1>3. RecordKept'
    <2>1. CASE WarmReset
      <3> SUFFICES ASSUME persisted, "torn" \notin damage'
                   PROVE  Valid(rec) /\ rec.cause # {}
        BY <2>1 DEF WarmReset, RecordKept, Valid, DigestOf
      <3>1. "torn" \notin damage /\ ~\E t \in Callers : Storing(t)
        BY <2>1 DEF WarmReset, Storing
      <3> QED
        BY <3>1 DEF KeptInv, RecordKept
    <2>2. ASSUME NEW t \in RealTime, NEW b \in Masks[t], WarmResetInStore(b)
          PROVE  RecordKept'
      BY <2>2 DEF WarmResetInStore, RecordKept
    <2>3. CASE PowerCycle
      BY <2>3 DEF PowerCycle, RecordKept
    <2> QED
      BY <2>1, <2>2, <2>3 DEF ResetNext
  <1> QED
    BY <1>1, <1>2, <1>3 DEF KeptInv, StoreLatched, CrcOwner, WordKept, LatchKept, OneRaise,
                            Settled, StorePcs

LEMMA KeptNext == LatchInv /\ LatchInv' /\ KeptInv /\ [Next]_latchVars => KeptInv'
  <1> SUFFICES ASSUME LatchInv, LatchInv', KeptInv, [Next]_latchVars PROVE KeptInv'
    OBVIOUS
  <1>1. CASE BootNext
    BY <1>1, BootKept
  <1>2. ASSUME NEW t \in Background, NEW b \in Masks[t], RaiseOr(t, b)
        PROVE  KeptInv'
    <2>1. t \in Callers /\ b \in SUBSET FaultBits
      BY BitsAssumption DEF Callers
    <2> QED
      BY <1>2, <2>1, BeginRaiseKept DEF RaiseOr
  <1>3. ASSUME NEW t \in Callers, RaiseStep(t) PROVE KeptInv'
    <2>1. CanRun(t)
      BY <1>3 DEF RaiseStep, RaiseLatch, StoreScan, StoreCheck, StoreMagic, StoreCause,
                  StoreTrip, StoreSum, StoreCrc
    <2> QED
      BY <1>3, <2>1, QuietStepKept, WriteStepKept, CrcStepKept DEF RaiseStep
  <1>4. ASSUME NEW t \in RealTime, NEW b \in Masks[t], RaiseAtomic(b) PROVE KeptInv'
    BY <1>4, RaiseAtomicKept, BitsAssumption
  <1>5. CASE OperatorNext
    BY <1>5, OperatorKept DEF OperatorNext
  <1>6. CASE ResetNext
    BY <1>6, ResetKept
  <1>7. CASE UNCHANGED latchVars
    BY <1>7 DEF latchVars, KeptInv, StoreLatched, CrcOwner, RecordKept, WordKept, LatchKept,
                OneRaise, Settled, Storing, NewRaise, Valid, DigestOf
  <1> QED
    BY <1>1, <1>2, <1>3, <1>4, <1>5, <1>6, <1>7 DEF Next, RaiseNext

\* The inductive invariant of the record: who still writes it, and what it
\* holds when nobody does.
THEOREM KeptInvariant == Spec => []KeptInv
  <1>1. LatchInv /\ KeptInv /\ [Next]_latchVars => KeptInv'
    BY LatchNext, KeptNext
  <1> QED
    BY <1>1, KeptInit, LatchInvariant, PTL DEF Spec

\* A stored trip ends every later boot in FAULTED, unless a raise or a reset
\* tore a record (PROVES LatchKept).
THEOREM TripKept == Spec => []LatchKept
  <1>1. KeptInv => LatchKept
    BY DEF KeptInv
  <1> QED
    BY <1>1, KeptInvariant, PTL

\* With no overlap since power-on, a quiet oven's record is intact and holds
\* the whole word (PROVES RecordComplete).
THEOREM RecordWhole == Spec => []RecordComplete
  <1>1. KeptInv => RecordComplete
    BY DEF KeptInv, Settled, RecordComplete, Quiet, Busy, NewRaise, StorePcs
  <1> QED
    BY <1>1, KeptInvariant, PTL

(***************************************************************************)
(* The trip count.  TripsCounted is about the one step that writes the crc *)
(* or the whole record; the count was read seven steps before it.          *)
(***************************************************************************)

\* A store that has returned leaves a digest in the crc field, which only a power
\* cycle removes.
DigestInv ==
    /\ persisted <=> rec.crc # NoCrc
    /\ \A t \in Callers : frame[t].pc = "crc" => frame[t].sum # NoCrc

\* Without an overlap, what a store has read, added and put into its digest.
CountHeld(t) ==
    /\ frame[t].pc = "check" => frame[t].sum = DigestOf(rec)
    /\ frame[t].pc \in {"magic", "cause", "trip"} => frame[t].count = LastCount
    /\ frame[t].pc = "sum" => rec.trip = (LastCount + 1) % TripMod
    /\ frame[t].pc = "crc" => frame[t].sum.trip = (LastCount + 1) % TripMod

CountInv == DigestInv /\ (damage = {} => \A t \in Callers : CountHeld(t))

\* What TripsCounted asks of a step.
CountsOne == damage' = {} /\ rec'.crc # rec.crc /\ rec'.crc # NoCrc
               => rec'.crc.trip = (LastCount + 1) % TripMod

LEMMA CountInit == Init => CountInv
  <1> SUFFICES ASSUME Init PROVE CountInv
    OBVIOUS
  <1>1. \A t \in Callers : frame[t].pc = "idle"
    BY DEF Init, Idle
  <1> QED
    BY <1>1 DEF Init, Garbage, CountInv, DigestInv, CountHeld

\* Where the record stands when an intact one would keep its count.
LEMMA IntactCount ==
    ASSUME LatchInv, KeptInv, CountInv, "torn" \notin damage,
           \A u \in Callers : ~Storing(u)
    PROVE  LastCount = IF Valid(rec) THEN rec.trip ELSE 0
  <1>1. CASE persisted
    <2>1. Valid(rec) /\ rec.crc # NoCrc
      BY <1>1 DEF KeptInv, RecordKept, CountInv, DigestInv
    <2> QED
      BY <2>1 DEF Valid, DigestOf, LastCount
  <1>2. CASE ~persisted
    <2>1. rec.crc = NoCrc /\ rec \in Records
      BY <1>2 DEF CountInv, DigestInv, LatchInv, TypeOK
    <2>2. ~Valid(rec)
      BY <2>1, DigestType, CrcAssumption DEF Valid
    <2> QED
      BY <2>1, <2>2 DEF LastCount
  <1> QED
    BY <1>1, <1>2

\* Steps that leave the record alone and put nobody into a store.
LEMMA OutsideCounts ==
    ASSUME CountInv, UNCHANGED <<rec, persisted>>, damage' = {} => damage = {},
           \A t \in Callers : \/ frame'[t] = frame[t]
                              \/ frame'[t].pc \in {"idle", "cas", "latch", "scan"}
    PROVE  CountInv' /\ CountsOne
  <1>1. LastCount' = LastCount
    BY DEF LastCount
  <1>2. DigestInv'
    BY DEF CountInv, DigestInv
  <1>3. ASSUME damage' = {}, NEW t \in Callers PROVE CountHeld(t)'
    <2>1. CountHeld(t)
      BY <1>3 DEF CountInv
    <2> QED
      BY <1>1, <2>1 DEF CountHeld, DigestOf
  <1> QED
    BY <1>2, <1>3 DEF CountInv, CountsOne

\* The steps of a store: without an overlap no other one is under way.
LEMMA StoreCounts ==
    ASSUME LatchInv, KeptInv, CountInv, NEW t \in Callers,
           \/ StoreScan(t) \/ StoreCheck(t) \/ StoreMagic(t) \/ StoreCause(t)
           \/ StoreTrip(t) \/ StoreSum(t) \/ StoreCrc(t)
    PROVE  CountInv' /\ CountsOne
  <1> USE DEF LatchInv, TypeOK, Frames, Records, Goto, Return, Idle
  <1>1. /\ damage' = damage /\ frame[t].pc \in StorePcs
        /\ \A u \in Callers : u # t => frame'[u] = frame[u]
    BY DEF StoreScan, StoreCheck, StoreMagic, StoreCause, StoreTrip, StoreSum, StoreCrc, StorePcs
  <1>2. ASSUME damage = {}, NEW u \in Callers, u # t
        PROVE  frame'[u] = frame[u] /\ frame'[u].pc \notin StorePcs
    BY <1>1, <1>2 DEF KeptInv, OneRaise, NewRaise
  <1>3. ASSUME damage = {}, CountHeld(t)' PROVE \A u \in Callers : CountHeld(u)'
    BY <1>2, <1>3 DEF CountHeld, StorePcs
  <1>4. damage = {} => CountHeld(t)
    BY DEF CountInv
  <1>5. CASE StoreScan(t) \/ StoreCheck(t) \/ StoreSum(t)
    <2>1. UNCHANGED <<rec, persisted>> /\ LastCount' = LastCount
      BY <1>5 DEF StoreScan, StoreCheck, StoreSum, LastCount
    <2>2. CASE StoreScan(t)
      <3>1. frame'[t].pc = "check" /\ frame'[t].sum = DigestOf(rec)
        BY <2>2 DEF StoreScan
      <3>2. DigestInv'
        BY <1>1, <2>1, <3>1 DEF CountInv, DigestInv
      <3>3. CountHeld(t)'
        BY <2>1, <3>1 DEF CountHeld, DigestOf
      <3> QED
        BY <1>1, <1>3, <2>1, <3>2, <3>3 DEF CountInv, CountsOne
    <2>3. CASE StoreCheck(t)
      <3>1. /\ frame[t].pc = "check" /\ frame'[t].pc = "magic"
            /\ frame'[t].count = IF rec.magic /\ rec.crc = frame[t].sum THEN rec.trip ELSE 0
        BY <2>3 DEF StoreCheck
      <3>2. DigestInv'
        BY <1>1, <2>1, <3>1 DEF CountInv, DigestInv
      <3>3. ASSUME damage = {} PROVE CountHeld(t)'
        <4>1. \A u \in Callers : ~Storing(u)
          BY <1>2, <3>1, <3>3 DEF Storing, StorePcs
        <4>2. LastCount = IF Valid(rec) THEN rec.trip ELSE 0
          BY <3>3, <4>1, IntactCount
        <4>3. frame[t].sum = DigestOf(rec)
          BY <1>4, <3>1, <3>3 DEF CountHeld
        <4>4. frame'[t].count = LastCount
          BY <3>1, <4>2, <4>3 DEF Valid
        <4> QED
          BY <2>1, <3>1, <4>4 DEF CountHeld
      <3> QED
        BY <1>1, <1>3, <2>1, <3>2, <3>3 DEF CountInv, CountsOne
    <2>4. CASE StoreSum(t)
      <3>1. /\ frame[t].pc = "sum" /\ frame'[t].pc = "crc"
            /\ frame'[t].sum = DigestOf(rec) /\ frame'[t].sum.trip = rec.trip
        BY <2>4 DEF StoreSum, DigestOf
      <3>2. frame'[t].sum # NoCrc
        BY <3>1, DigestType, CrcAssumption
      <3>3. DigestInv'
        BY <1>1, <2>1, <3>2 DEF CountInv, DigestInv
      <3>4. damage = {} => CountHeld(t)'
        BY <1>4, <2>1, <3>1 DEF CountHeld
      <3> QED
        BY <1>1, <1>3, <2>1, <3>3, <3>4 DEF CountInv, CountsOne
    <2> QED
      BY <1>5, <2>2, <2>3, <2>4
  <1>6. CASE StoreMagic(t) \/ StoreCause(t) \/ StoreTrip(t)
    <2>1. rec'.crc = rec.crc /\ persisted' = persisted /\ LastCount' = LastCount
      BY <1>6 DEF StoreMagic, StoreCause, StoreTrip, LastCount
    <2>2. /\ frame[t].pc \in {"magic", "cause", "trip"} /\ frame'[t].pc \in {"cause", "trip", "sum"}
          /\ frame'[t].count = frame[t].count
          /\ frame'[t].pc = "sum" => rec'.trip = (frame[t].count + 1) % TripMod
      <3>1. CASE StoreMagic(t)
        BY <3>1 DEF StoreMagic
      <3>2. CASE StoreCause(t)
        BY <3>2 DEF StoreCause
      <3>3. CASE StoreTrip(t)
        BY <3>3 DEF StoreTrip
      <3> QED
        BY <1>6, <3>1, <3>2, <3>3
    <2>3. DigestInv'
      BY <1>1, <2>1, <2>2 DEF CountInv, DigestInv
    <2>4. damage = {} => CountHeld(t)'
      BY <1>4, <2>1, <2>2 DEF CountHeld
    <2> QED
      BY <1>1, <1>3, <2>1, <2>3, <2>4 DEF CountInv, CountsOne
  <1>7. CASE StoreCrc(t)
    <2>1. /\ rec'.crc = frame[t].sum /\ persisted'
          /\ frame[t].pc = "crc" /\ frame'[t].pc = "idle"
      BY <1>7 DEF StoreCrc
    <2>2. DigestInv'
      BY <1>1, <2>1 DEF CountInv, DigestInv
    <2>3. CountHeld(t)'
      BY <2>1 DEF CountHeld
    <2>4. CountsOne
      BY <1>1, <1>4, <2>1 DEF CountHeld, CountsOne
    <2> QED
      BY <1>1, <1>3, <2>2, <2>3, <2>4 DEF CountInv
  <1> QED
    BY <1>5, <1>6, <1>7

\* A whole raise of a cooperative thread: without an overlap nobody is storing.
LEMMA RaiseAtomicCounts ==
    ASSUME LatchInv, KeptInv, CountInv, NEW b \in SUBSET FaultBits, RaiseAtomic(b)
    PROVE  CountInv' /\ CountsOne
  <1>1. boot = "up" /\ UNCHANGED frame /\ (damage' = {} => damage = {})
    BY DEF RaiseAtomic
  <1>2. CASE b \subseteq word
    <2>1. UNCHANGED <<rec, persisted>>
      BY <1>2 DEF RaiseAtomic, LatchInv, TypeOK
    <2> QED
      BY <1>1, <2>1, OutsideCounts
  <1>3. CASE ~(b \subseteq word)
    <2>1. rec' = Stored(rec, word \cup b) /\ persisted'
      BY <1>3 DEF RaiseAtomic
    <2>2. /\ rec'.crc = DigestOf(rec') /\ rec' \in Records
          /\ rec'.crc.trip = ((IF Valid(rec) THEN rec.trip ELSE 0) + 1) % TripMod
      <3>1. rec \in Records /\ word \cup b \in SUBSET FaultBits
        BY DEF LatchInv, TypeOK
      <3>2. rec' \in Records /\ Valid(rec')
        BY <2>1, <3>1, StoredRecord
      <3>3. rec'.trip = ((IF Valid(rec) THEN rec.trip ELSE 0) + 1) % TripMod
        BY <2>1 DEF Stored
      <3>4. rec'.crc = DigestOf(rec') /\ rec'.crc.trip = rec'.trip
        BY <3>2 DEF Valid, DigestOf
      <3> QED
        BY <3>2, <3>3, <3>4
    <2>3. DigestInv'
      BY <1>1, <2>1, <2>2, DigestType, CrcAssumption DEF CountInv, DigestInv
    <2>4. ASSUME damage' = {}, NEW u \in Callers PROVE frame[u].pc \notin RaisePcs
      <3>1. u \in Background \/ frame[u].pc = "idle"
        BY <1>1 DEF LatchInv, BootInv, Callers
      <3>2. frame[u].pc \in RaisePcs /\ u \in Background => "stale" \in damage'
        BY <1>3 DEF RaiseAtomic, Overlap
      <3> QED
        BY <2>4, <3>1, <3>2 DEF RaisePcs, StorePcs
    <2>5. damage' = {} => \A u \in Callers : CountHeld(u)'
      BY <1>1, <2>4 DEF CountHeld, RaisePcs, StorePcs
    <2>6. CountsOne
      <3> SUFFICES ASSUME damage' = {} PROVE rec'.crc.trip = (LastCount + 1) % TripMod
        BY DEF CountsOne
      <3>1. \A u \in Callers : ~Storing(u)
        BY <2>4 DEF Storing, RaisePcs, StorePcs
      <3>2. LastCount = IF Valid(rec) THEN rec.trip ELSE 0
        BY <1>1, <3>1, IntactCount
      <3> QED
        BY <2>2, <3>2
    <2> QED
      BY <2>3, <2>5, <2>6 DEF CountInv
  <1> QED
    BY <1>2, <1>3

\* A reset leaves nobody storing and the crc alone; power loss takes both away.
LEMMA ResetCounts ==
    ASSUME LatchInv, CountInv, ResetNext
    PROVE  CountInv' /\ CountsOne
  <1>1. \A t \in Callers : frame'[t].pc = "idle"
    <2>1. RestartCpu
      BY DEF ResetNext, WarmReset, WarmResetInStore, PowerCycle
    <2> QED
      BY <2>1 DEF RestartCpu, Idle
  <1>2. \/ rec'.crc = rec.crc /\ persisted' = persisted
        \/ rec'.crc = NoCrc /\ ~persisted'
    <2>1. CASE WarmReset
      BY <2>1 DEF WarmReset
    <2>2. ASSUME NEW t \in RealTime, NEW b \in Masks[t], WarmResetInStore(b)
          PROVE  rec'.crc = rec.crc /\ persisted' = persisted
      <3>1. rec \in Records /\ word \cup b \in SUBSET FaultBits
        BY BitsAssumption DEF LatchInv, TypeOK
      <3> QED
        BY <2>2, <3>1, CutShortRecord DEF WarmResetInStore
    <2>3. CASE PowerCycle
      BY <2>3 DEF PowerCycle, Garbage
    <2> QED
      BY <2>1, <2>2, <2>3 DEF ResetNext
  <1> QED
    BY <1>1, <1>2 DEF CountInv, DigestInv, CountHeld, CountsOne

LEMMA CountNext ==
    ASSUME LatchInv, KeptInv, CountInv, [Next]_latchVars
    PROVE  CountInv' /\ CountsOne
  <1> USE DEF LatchInv, TypeOK
  <1>1. ASSUME NEW t \in Callers, NEW b, BeginRaise(t, b) PROVE CountInv' /\ CountsOne
    <2>1. UNCHANGED <<rec, persisted>> /\ (damage' = {} => damage = {})
      BY <1>1 DEF BeginRaise
    <2>2. \A u \in Callers : frame'[u] = frame[u] \/ frame'[u].pc = "latch"
      BY <1>1 DEF BeginRaise, Idle
    <2> QED
      BY <2>1, <2>2, OutsideCounts
  <1>2. ASSUME UNCHANGED <<rec, frame, persisted, damage>> PROVE CountInv' /\ CountsOne
    BY <1>2, OutsideCounts
  <1>3. CASE BootNext
    BY <1>1, <1>2, <1>3 DEF BootNext, BootRestore, BootCheck, BootOk, BootRelease, Callers
  <1>4. ASSUME NEW t \in Background, NEW b \in Masks[t], RaiseOr(t, b)
        PROVE  CountInv' /\ CountsOne
    BY <1>1, <1>4 DEF RaiseOr, Callers
  <1>5. ASSUME NEW t \in Callers, RaiseStep(t) PROVE CountInv' /\ CountsOne
    <2>1. CASE RaiseLatch(t)
      <3>1. UNCHANGED <<rec, persisted, damage>>
        BY <2>1 DEF RaiseLatch
      <3>2. \A u \in Callers : frame'[u] = frame[u] \/ frame'[u].pc \in {"idle", "scan"}
        BY <2>1 DEF RaiseLatch, Goto, Return, Idle, Frames
      <3> QED
        BY <3>1, <3>2, OutsideCounts
    <2> QED
      BY <1>5, <2>1, StoreCounts DEF RaiseStep
  <1>6. ASSUME NEW t \in RealTime, NEW b \in Masks[t], RaiseAtomic(b)
        PROVE  CountInv' /\ CountsOne
    BY <1>6, RaiseAtomicCounts, BitsAssumption
  <1>7. CASE OperatorNext
    <2>1. UNCHANGED <<rec, persisted, damage>>
      BY <1>7 DEF OperatorNext, ArmCheck, ArmCas, RequestDisarm
    <2>2. \A u \in Callers : frame'[u] = frame[u] \/ frame'[u].pc \in {"idle", "cas"}
      BY <1>7 DEF OperatorNext, ArmCheck, ArmCas, RequestDisarm, Goto, Return, Idle, Frames
    <2> QED
      BY <2>1, <2>2, OutsideCounts
  <1>8. CASE ResetNext
    BY <1>8, ResetCounts
  <1>9. CASE UNCHANGED latchVars
    BY <1>2, <1>9 DEF latchVars
  <1> QED
    BY <1>3, <1>4, <1>5, <1>6, <1>7, <1>8, <1>9 DEF Next, RaiseNext

\* Each store that nobody overlapped counts exactly one more than the last one
\* that returned, whatever resets lie between them (PROVES TripsCounted).
THEOREM StoresCounted == Spec => TripsCounted
  <1>1. LatchInv /\ KeptInv /\ CountInv /\ [Next]_latchVars => CountInv'
    BY CountNext
  <1>2. LatchInv /\ KeptInv /\ CountInv /\ [Next]_latchVars => CountsOne
    BY CountNext
  <1>3. CountsOne => (damage' = {} /\ rec'.crc # rec.crc /\ rec'.crc # NoCrc
                        => rec'.crc.trip = (LastCount + 1) % TripMod)
    BY DEF CountsOne
  <1> QED
    BY <1>1, <1>2, <1>3, CountInit, LatchInvariant, KeptInvariant, PTL DEF Spec, TripsCounted

(***************************************************************************)
(* Refinement of OvenState                                                 *)
(***************************************************************************)

LEMMA OvenInit == Init => Oven!Init
  BY DEF Init, Oven!Init

LEMMA OvenNext == LatchInv /\ [Next]_latchVars => [Oven!Next]_(Oven!ovenVars)
  <1> SUFFICES ASSUME LatchInv, [Next]_latchVars PROVE Oven!Next \/ UNCHANGED Oven!ovenVars
    OBVIOUS
  <1> USE DEF Oven!Next, Oven!ovenVars
  <1>1. ASSUME NEW t \in Callers, NEW b, b # {}, BeginRaise(t, b)
        PROVE  Oven!Next \/ UNCHANGED Oven!ovenVars
    BY <1>1 DEF BeginRaise, Oven!Trip
  <1>2. ASSUME BootNext PROVE Oven!Next \/ UNCHANGED Oven!ovenVars
    <2>1. CASE BootRestore
      BY <1>1, <2>1 DEF BootRestore, Callers
    <2>2. ASSUME NEW ready \in BOOLEAN, BootCheck(ready)
          PROVE  Oven!Next \/ UNCHANGED Oven!ovenVars
      BY <1>1, <2>2 DEF BootCheck, Callers
    <2>3. CASE BootOk
      <3>1. \A t \in Callers : frame[t].pc # "latch"
        BY <2>3 DEF BootOk, MainAt, Busy, LatchInv, BootInv, Callers
      <3>2. state = "INIT" => word = {}
        BY <3>1 DEF LatchInv, WordIsLatched
      <3> QED
        BY <2>3, <3>2 DEF BootOk, Oven!BootOk
    <2>4. CASE BootRelease
      BY <2>4 DEF BootRelease
    <2> QED
      BY <1>2, <2>1, <2>2, <2>3, <2>4 DEF BootNext
  <1>3. ASSUME NEW t \in Background, NEW b \in Masks[t], RaiseOr(t, b)
        PROVE  Oven!Next \/ UNCHANGED Oven!ovenVars
    BY <1>1, <1>3 DEF RaiseOr, Callers
  <1>4. ASSUME NEW t \in Callers, RaiseStep(t)
        PROVE  Oven!Next \/ UNCHANGED Oven!ovenVars
    <2>1. CASE RaiseLatch(t)
      <3>1. word # {}
        BY <2>1 DEF RaiseLatch, LatchInv, RaiseInv, RaisePcs
      <3> QED
        BY <2>1, <3>1 DEF RaiseLatch, Oven!Latch
    <2>2. CASE ~RaiseLatch(t)
      BY <1>4, <2>2 DEF RaiseStep, StoreScan, StoreCheck, StoreMagic, StoreCause,
                        StoreTrip, StoreSum, StoreCrc
    <2> QED
      BY <2>1, <2>2
  <1>5. ASSUME NEW b, RaiseAtomic(b)
        PROVE  Oven!Next \/ UNCHANGED Oven!ovenVars
    BY <1>5 DEF RaiseAtomic, Oven!Trip, Oven!Latch
  <1>6. ASSUME NEW t \in Operators, ArmCheck(t) \/ ArmCas(t) \/ RequestDisarm(t)
        PROVE  Oven!Next \/ UNCHANGED Oven!ovenVars
    BY <1>6, ArmClear DEF ArmCheck, ArmCas, RequestDisarm, Oven!Arm, Oven!Disarm
  <1>7. ASSUME ResetNext PROVE Oven!Next
    BY <1>7 DEF ResetNext, WarmReset, WarmResetInStore, PowerCycle, RestartCpu, Oven!Reset
  <1>8. CASE UNCHANGED latchVars
    BY <1>8 DEF latchVars
  <1> QED
    BY <1>2, <1>3, <1>4, <1>5, <1>6, <1>7, <1>8 DEF Next, RaiseNext, OperatorNext

\* fault_raise, the state machine and boot together implement OvenState: a
\* trip is irrevocable until a reset, and nothing arms or leaves INIT past one
\* (PROVES ImplementsOvenState).
THEOREM LatchImplementsOvenState == Spec => ImplementsOvenState
  BY LatchInvariant, OvenInit, OvenNext, PTL DEF Spec, ImplementsOvenState, Oven!Spec
=============================================================================
