-------------------------- MODULE OvenTimingProofs --------------------------
(***************************************************************************)
(* Theorems about OvenTiming, for every period and margin: what the        *)
(* deadline check of the PID thread sees, and what can drift past it.      *)
(***************************************************************************)
EXTENDS OvenTiming, TLAPS

(***************************************************************************)
(* The inductive invariant                                                 *)
(***************************************************************************)

\* The last start came "late" units after a release, which fixes the time since
\* then by the phase and the releases met since.  Without a fault each start is
\* at most a margin later than the one before, and one that has lost a release
\* begins the count anew.
Drift(late) ==
    /\ sem = 0 => missed = 0 /\ since + late = phase
    /\ sem = 1 /\ missed = 0 => since + late = phase + Period
    /\ sem = 1 /\ missed = 1 => since + late = phase + Period + Period
    /\ sem = 1 /\ missed = 2 => since + late >= phase + Period + Period + Period
    /\ ~deadline /\ punctual < Rare => late + 1 <= Margin + punctual * Margin

DriftInv ==
    IF started THEN \E late \in 0 .. Period - 1 : Drift(late)
    ELSE missed = 0 /\ punctual = Rare

TimingInv == TypeOK /\ DriftInv

(***************************************************************************)
(* Arithmetic                                                              *)
(***************************************************************************)

LEMMA PhaseNext ==
    ASSUME NEW n \in 0 .. Period - 1
    PROVE  (n + 1) % Period = IF n + 1 = Period THEN 0 ELSE n + 1
  BY TimingAssumption, Z3

\* The code's margin fits at least twice into its period.
LEMMA RareFacts ==
    /\ Rare \in Nat \ {0}
    /\ \A k \in Nat : k < Rare => k * Margin + Margin + Margin <= Period
  <1> DEFINE q == Period \div Margin
  <1>1. Period \in Nat /\ Margin \in Nat \ {0} /\ Margin + Margin <= Period
    BY TimingAssumption
  <1>2. q \in Nat /\ Margin * q <= Period /\ Period < Margin * (q + 1)
    BY <1>1, Z3
  <1>3. Rare = q - 1
    BY DEF Rare
  <1> HIDE DEF q
  <1>4. q >= 2
    <2> SUFFICES ASSUME q < 2 PROVE FALSE
      BY <1>2
    <2>1. q = 0 \/ q = 1
      BY <1>2
    <2> QED
      BY <1>1, <1>2, <2>1
  <1>5. ASSUME NEW k \in Nat, k < Rare PROVE k * Margin + Margin + Margin <= Period
    <2>1. PICK r \in Nat : q = k + 2 + r
      <3>1. q - k - 2 \in Nat /\ q = k + 2 + (q - k - 2)
        BY <1>2, <1>3, <1>5
      <3> QED
        BY <3>1
    <2>2. Margin * q = k * Margin + Margin + Margin + Margin * r
      BY <1>1, <2>1
    <2>3. Margin * r \in Nat /\ k * Margin \in Nat
      BY <1>1
    <2> QED
      BY <1>1, <1>2, <2>2, <2>3
  <1> QED
    BY <1>2, <1>3, <1>4, <1>5

(***************************************************************************)
(* The inductive step                                                      *)
(***************************************************************************)

LEMMA TimingInit == Init => TimingInv
  <1>1. 0 \in 0 .. Period - 1 /\ 0 \in 0 .. MaxGap
    BY TimingAssumption
  <1>2. Rare \in 0 .. Rare
    BY RareFacts
  <1> SUFFICES ASSUME Init PROVE TypeOK /\ DriftInv
    BY DEF TimingInv
  <1>3. TypeOK
    <2>1. phase \in 0 .. Period - 1 /\ since \in 0 .. MaxGap
      BY <1>1 DEF Init
    <2>2. punctual \in 0 .. Rare
      BY <1>2 DEF Init
    <2>3. sem \in {0, 1} /\ pid \in {"wait", "cycle"} /\ missed \in 0 .. 2
      BY DEF Init
    <2>4. started \in BOOLEAN /\ deadline \in BOOLEAN
      BY DEF Init
    <2> QED
      BY <2>1, <2>2, <2>3, <2>4 DEF TypeOK
  <1>4. DriftInv
    BY DEF Init, DriftInv
  <1> QED
    BY <1>3, <1>4

LEMMA TimeType ==
    ASSUME TypeOK, Time
    PROVE  TypeOK'
  <1>1. phase' \in 0 .. Period - 1
    BY PhaseNext, TimingAssumption DEF TypeOK, Time
  <1>2. since' \in 0 .. MaxGap
    BY TimingAssumption DEF TypeOK, Time
  <1>3. sem' \in {0, 1} /\ missed' \in 0 .. 2
    BY DEF TypeOK, Time, SmallerOf
  <1> QED
    BY <1>1, <1>2, <1>3 DEF TypeOK, Time

LEMMA TimeDrift ==
    ASSUME TimingInv, Time
    PROVE  DriftInv'
  <1>1. CASE ~started
    BY <1>1 DEF TimingInv, TypeOK, DriftInv, Time
  <1>2. CASE started
    <2>1. PICK late \in 0 .. Period - 1 : Drift(late)
      BY <1>2 DEF TimingInv, DriftInv
    <2>2. /\ phase \in 0 .. Period - 1 /\ since \in Nat /\ missed \in 0 .. 2 /\ sem \in {0, 1}
          /\ since' = since + 1 /\ Period \in Nat \ {0} /\ late \in Nat
      BY <1>2, TimingAssumption DEF TimingInv, TypeOK, Time
    <2>3. UNCHANGED <<pid, started, deadline, punctual>>
      BY DEF Time
    <2>4. CASE phase + 1 = Period
      <3>1. phase' = 0
        BY <2>2, <2>4, PhaseNext DEF Time
      <3>2. sem' = 1 /\ missed' = IF sem = 1 THEN SmallerOf(missed + 1, 2) ELSE missed
        BY <1>2, <3>1 DEF Time
      <3>3. Drift(late)'
        BY <2>1, <2>2, <2>3, <2>4, <3>1, <3>2 DEF Drift, SmallerOf
      <3> QED
        BY <1>2, <2>3, <3>3 DEF DriftInv
    <2>5. CASE phase + 1 # Period
      <3>1. phase' = phase + 1
        BY <2>2, <2>5, PhaseNext DEF Time
      <3>2. UNCHANGED <<sem, missed>>
        BY <2>2, <3>1 DEF Time
      <3>3. Drift(late)'
        BY <2>1, <2>2, <2>3, <3>1, <3>2 DEF Drift
      <3> QED
        BY <1>2, <2>3, <3>3 DEF DriftInv
    <2> QED
      BY <2>4, <2>5
  <1> QED
    BY <1>1, <1>2

LEMMA StartType ==
    ASSUME TypeOK, Start
    PROVE  TypeOK'
  <1>1. punctual' \in 0 .. Rare
    BY RareFacts DEF TypeOK, Start, SmallerOf
  <1>2. deadline' \in BOOLEAN
    BY DEF TypeOK, Start
  <1> QED
    BY <1>1, <1>2, TimingAssumption DEF TypeOK, Start

LEMMA StartDrift ==
    ASSUME TimingInv, Start
    PROVE  DriftInv'
  <1>1. /\ phase \in 0 .. Period - 1 /\ since \in Nat /\ missed \in 0 .. 2 /\ sem = 1
        /\ punctual \in 0 .. Rare /\ Period \in Nat \ {0} /\ Margin \in Nat \ {0}
        /\ Rare \in Nat \ {0}
    BY TimingAssumption, RareFacts DEF TimingInv, TypeOK, Start
  <1>2. /\ sem' = 0 /\ since' = 0 /\ started' = TRUE /\ missed' = 0 /\ phase' = phase
        /\ deadline' = (deadline \/ (started /\ Late(since)))
        /\ punctual' = IF missed = 0 THEN SmallerOf(punctual + 1, Rare) ELSE 0
    BY DEF Start
  <1>3. ASSUME ~deadline', punctual' < Rare
        PROVE  phase + 1 <= Margin + punctual' * Margin
    <2>1. CASE ~started
      BY <1>1, <1>2, <1>3, <2>1 DEF TimingInv, DriftInv, SmallerOf
    <2>2. CASE started
      <3>1. PICK late \in 0 .. Period - 1 : Drift(late)
        BY <2>2 DEF TimingInv, DriftInv
      <3>2. ~deadline /\ since <= Period + Margin
        <4>1. ~deadline /\ ~Late(since)
          BY <1>2, <1>3, <2>2, Zenon
        <4> QED
          BY <1>1, <4>1 DEF Late
      <3>3. CASE missed = 0
        <4>1. punctual' = punctual + 1 /\ punctual < Rare
          BY <1>1, <1>2, <1>3, <3>3 DEF SmallerOf
        <4>2. phase <= late + Margin
          BY <1>1, <3>1, <3>2, <3>3 DEF Drift
        <4>3. late + 1 <= Margin + punctual * Margin
          BY <3>1, <3>2, <4>1 DEF Drift
        <4>4. punctual' * Margin = punctual * Margin + Margin /\ punctual * Margin \in Nat
          BY <1>1, <4>1
        <4> QED
          BY <1>1, <4>2, <4>3, <4>4
      <3>4. CASE missed # 0
        <4>1. phase + 1 <= Margin
          BY <1>1, <3>1, <3>2, <3>4 DEF Drift
        <4>2. punctual' = 0
          BY <1>2, <3>4
        <4> QED
          BY <1>1, <4>1, <4>2
      <3> QED
        BY <3>3, <3>4
    <2> QED
      BY <2>1, <2>2
  <1>4. \E late \in 0 .. Period - 1 : Drift(late)'
    <2>1. phase' \in 0 .. Period - 1
      BY <1>1, <1>2
    <2> QED
      BY <1>1, <1>2, <1>3, <2>1 DEF Drift
  <1> QED
    BY <1>2, <1>4 DEF DriftInv

LEMMA TimingNext == TimingInv /\ [Next]_timingVars => TimingInv'
  <1> SUFFICES ASSUME TimingInv, [Next]_timingVars PROVE TimingInv'
    OBVIOUS
  <1>1. CASE Time
    BY <1>1, TimeType, TimeDrift DEF TimingInv
  <1>2. CASE Start
    BY <1>2, StartType, StartDrift DEF TimingInv
  <1>3. CASE Finish \/ UNCHANGED timingVars
    BY <1>3 DEF Finish, timingVars, TimingInv, TypeOK, DriftInv, Drift
  <1> QED
    BY <1>1, <1>2, <1>3 DEF Next

\* The drift invariant that the theorems below project from.
THEOREM TimingInvariant == Spec => []TimingInv
  BY TimingInit, TimingNext, PTL DEF Spec

(***************************************************************************)
(* Theorems                                                                *)
(***************************************************************************)

\* The types, for every period and margin (PROVES TypeOK).
THEOREM TimingTypes == Spec => []TypeOK
  <1>1. TimingInv => TypeOK
    BY DEF TimingInv
  <1> QED
    BY <1>1, TimingInvariant, PTL

\* What a start finds when it has lost a release, or none.
LEMMA StartingIsStart ==
    ASSUME [Next]_timingVars, Starting
    PROVE  Start
  BY DEF Next, Time, Finish, timingVars, Starting

LEMMA MissIsNotFirst ==
    ASSUME TimingInv, Start, missed > 0
    PROVE  /\ started
           /\ ~deadline' => since <= Period + Margin /\ ~deadline
  <1>1. started
    BY DEF TimingInv, DriftInv
  <1>2. since \in Nat
    BY DEF TimingInv, TypeOK
  <1>3. ~deadline' => ~deadline /\ ~Late(since)
    BY <1>1, Zenon DEF Start
  <1> QED
    BY <1>1, <1>2, <1>3, TimingAssumption DEF Late

\* An overrun that loses two releases is a fault, for any period and any margin of
\* at most half of it (PROVES DoubleMissIsFault).
THEOREM DoubleMissFaults == Spec => DoubleMissIsFault
  <1>1. ASSUME TimingInv, [Next]_timingVars, Starting, missed = 2 PROVE deadline'
    <2>1. Start
      BY <1>1, StartingIsStart
    <2>2. PICK late \in 0 .. Period - 1 : Drift(late)
      BY <1>1, <2>1, MissIsNotFirst DEF TimingInv, DriftInv
    <2>3. since > Period + Margin
      BY <1>1, <2>1, <2>2, TimingAssumption DEF Drift, Start, TimingInv, TypeOK
    <2> QED
      BY <1>1, <2>1, <2>3, MissIsNotFirst, TimingAssumption DEF TimingInv, TypeOK
  <1>2. TimingInv /\ [Next]_timingVars => [Starting /\ missed = 2 => deadline']_timingVars
    BY <1>1
  <1> QED
    BY <1>2, TimingInvariant, PTL DEF Spec, DoubleMissIsFault

\* The drift that escapes the check costs at most one release in Rare + 1: with
\* the code's 500 ms and 50 ms, one in ten (PROVES SilentMissesAreRare).
THEOREM SilentMissesRare == Spec => SilentMissesAreRare
  <1>1. ASSUME TimingInv, [Next]_timingVars, Starting, missed > 0, ~deadline'
        PROVE  punctual >= Rare
    <2>1. Start /\ sem = 1
      BY <1>1, StartingIsStart DEF Start
    <2>2. PICK late \in 0 .. Period - 1 : Drift(late)
      BY <1>1, <2>1, MissIsNotFirst DEF TimingInv, DriftInv
    <2>3. since <= Period + Margin /\ ~deadline
      BY <1>1, <2>1, MissIsNotFirst
    <2>4. /\ phase \in Nat /\ since \in Nat /\ missed \in {1, 2} /\ punctual \in Nat
          /\ Period \in Nat \ {0} /\ Margin \in Nat \ {0} /\ Rare \in Nat
      BY <1>1, TimingAssumption, RareFacts DEF TimingInv, TypeOK
    <2>5. late + Margin >= Period
      BY <2>1, <2>2, <2>3, <2>4 DEF Drift
    <2> SUFFICES ASSUME punctual < Rare PROVE FALSE
      BY <2>4
    <2>6. late + 1 <= Margin + punctual * Margin
      BY <2>2, <2>3 DEF Drift
    <2>7. punctual * Margin + Margin + Margin <= Period /\ punctual * Margin \in Nat
      BY <2>4, RareFacts
    <2> QED
      BY <2>4, <2>5, <2>6, <2>7
  <1>2. TimingInv /\ [Next]_timingVars
        => [Starting /\ missed > 0 /\ ~deadline' => punctual >= Rare]_timingVars
    BY <1>1
  <1> QED
    BY <1>2, TimingInvariant, PTL DEF Spec, SilentMissesAreRare

\* A start within the margin of its own release never trips, however early the
\* start before it was (PROVES OnTimeNeverTrips).
THEOREM NoNuisanceTrip == Spec => OnTimeNeverTrips
  <1>1. ASSUME TimingInv, [Next]_timingVars, Starting, missed = 0, phase <= Margin
        PROVE  deadline' = deadline
    <2>1. Start /\ sem = 1
      BY <1>1, StartingIsStart DEF Start
    <2>2. ~(started /\ Late(since))
      <3> SUFFICES ASSUME started PROVE ~Late(since)
        OBVIOUS
      <3>1. PICK late \in 0 .. Period - 1 : Drift(late)
        BY <1>1 DEF TimingInv, DriftInv
      <3>2. since + late = phase + Period
        BY <1>1, <2>1, <3>1 DEF Drift
      <3> QED
        BY <1>1, <3>2, TimingAssumption DEF Late, TimingInv, TypeOK
    <2>3. deadline \in BOOLEAN
      BY <1>1 DEF TimingInv, TypeOK
    <2> QED
      BY <2>1, <2>2, <2>3 DEF Start
  <1>2. TimingInv /\ [Next]_timingVars
        => [Starting /\ missed = 0 /\ phase <= Margin => deadline' = deadline]_timingVars
    BY <1>1
  <1> QED
    BY <1>2, TimingInvariant, PTL DEF Spec, OnTimeNeverTrips
=============================================================================
