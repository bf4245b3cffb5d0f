---------------------------- MODULE PidLawProofs ----------------------------
(***************************************************************************)
(* Theorems about PidLaw, for every choice of scales, filter pole, gains   *)
(* and temperatures, the 1e6 and 2^16 of the code among them.  Only the    *)
(* last part, on 64 bits, looks inside the products.                       *)
(***************************************************************************)
EXTENDS PidLaw, TLAPS

(***************************************************************************)
(* Integer arithmetic                                                      *)
(***************************************************************************)

LEMMA ClampType ==
    ASSUME NEW v \in Int, NEW lo \in Int, NEW hi \in Int, lo <= hi
    PROVE  Clamp(v, lo, hi) \in lo .. hi
  BY DEF Clamp

\* A quotient lies between two multiples of its divisor.
LEMMA Division ==
    ASSUME NEW n \in Nat, NEW d \in Nat \ {0}
    PROVE  /\ n \div d \in Nat
           /\ d * (n \div d) <= n
  BY Z3

LEMMA QuotType ==
    ASSUME NEW a \in Int, NEW b \in Nat \ {0}
    PROVE  Quot(a, b) \in Int
  BY Division DEF Quot

LEMMA MaxUType == MaxU \in Nat /\ -MaxU \in Int /\ -MaxU <= MaxU
  <1>1. MaxU \in Nat
    BY ScaleAssumption DEF MaxU
  <1> QED
    BY <1>1

LEMMA FullScale ==
    ASSUME NEW v \in Int
    PROVE  Clamp(v, -MaxU, MaxU) \in -MaxU .. MaxU
  BY MaxUType DEF Clamp

\* Rounding to whole half-cycles cannot leave the range of the heater.
LEMMA PowerRange ==
    ASSUME NEW u \in 0 .. MaxU
    PROVE  Power(u) \in 0 .. MaxPower
  <1> DEFINE h == Fp \div 2
             n == u + h
             q == n \div Fp
  <1>1. h \in Nat /\ h < Fp
    BY ScaleAssumption
  <1>2. Fp \in Nat /\ MaxPower \in Nat /\ MaxU = MaxPower * Fp /\ MaxU \in Nat
    BY ScaleAssumption, MaxUType DEF MaxU
  <1> HIDE DEF h
  <1>3. n \in Nat /\ n < MaxPower * Fp + Fp
    BY <1>1, <1>2
  <1> HIDE DEF n
  <1>4. q \in Nat /\ Fp * q <= n
    BY <1>3, Division, ScaleAssumption
  <1> HIDE DEF q
  <1>5. q <= MaxPower
    <2> SUFFICES ASSUME q > MaxPower PROVE FALSE
      BY <1>2, <1>4
    <2>1. PICK r \in Nat : q = MaxPower + 1 + r
      <3>1. q - MaxPower - 1 \in Nat
        BY <1>2, <1>4
      <3>2. q = MaxPower + 1 + (q - MaxPower - 1)
        BY <1>2, <1>4
      <3> QED
        BY <3>1, <3>2
    <2>2. Fp * q = MaxPower * Fp + Fp + Fp * r
      BY <1>2, <2>1
    <2>3. Fp * r \in Nat /\ MaxPower * Fp \in Nat
      BY <1>2
    <2> QED
      BY <1>2, <1>3, <1>4, <2>2, <2>3
  <1> QED
    BY <1>4, <1>5 DEF Power, q, n, h

(***************************************************************************)
(* What one cycle does                                                     *)
(***************************************************************************)

\* The integral before anti-windup, from the state before and what a cycle used.
NewIntegral == Carried(gPrev', NewProportional, yd')
               + Increment(gPrev', ePrev', ErrorBefore(ePrev'))

LEMMA TermTypes ==
    ASSUME NEW g \in GainSets, NEW e \in Int, NEW ep \in Int
    PROVE  /\ Proportional(g, e) \in Int
           /\ Increment(g, e, ep) \in Int
           /\ g.ki = 0 => Increment(g, e, ep) = 0
  <1>1. g.kp \in Int /\ g.ki \in Int
    BY DEF GainSets
  <1>2. \A a, b, c \in Int : a * b * c \in Int /\ (a = 0 => a * b * c = 0)
    OBVIOUS
  <1> QED
    BY <1>1, <1>2, ScaleAssumption DEF Proportional, Increment

LEMMA GainsType ==
    ASSUME NEW raw \in Gains
    PROVE  ValidGains(raw) \in GainSets
  <1>1. raw.kp \in Int /\ raw.ki \in Int /\ raw.kd \in Int
    BY InputAssumption
  <1>2. \A k \in {"kp", "ki", "kd"} : Clamp(raw[k], 0, GainMax) \in 0 .. GainMax
    <2>1. 0 <= GainMax /\ GainMax \in Int /\ 0 \in Int
      BY ScaleAssumption
    <2>2. \A v \in Int : Clamp(v, 0, GainMax) \in 0 .. GainMax
      BY <2>1, ClampType
    <2> QED
      BY <1>1, <2>2
  <1> QED
    BY <1>2 DEF ValidGains, GainSets

LEMMA FilteredType ==
    ASSUME TypeOK, NEW g \in GainSets, NEW dpv \in Int
    PROVE  Filtered(g, dpv) \in -MaxU .. MaxU
  <1> DEFINE a == Quot(Pole * yd, Q)
             b == Quot(g.kd * (Q - Pole) * DNum, DDen)
  <1>1. Pole * yd \in Int /\ Q \in Nat \ {0} /\ DDen \in Nat \ {0}
    BY ScaleAssumption, MaxUType DEF TypeOK
  <1>2. g.kd * (Q - Pole) * DNum \in Int
    BY ScaleAssumption DEF GainSets
  <1>3. a \in Int /\ b \in Int
    BY <1>1, <1>2, QuotType
  <1> HIDE DEF a, b
  <1> DEFINE v == a - b * dpv
  <1>4. v \in Int
    BY <1>3
  <1> HIDE DEF v
  <1>5. Clamp(v, -MaxU, MaxU) \in -MaxU .. MaxU
    BY <1>4, FullScale
  <1> QED
    BY <1>5 DEF Filtered, Slope, v, a, b

\* The invariant: types, a history whenever the controller was active, and an
\* output explained by its terms.
LawInv == TypeOK /\ (active => primed) /\ OutputExplained

LEMMA UpdateFacts ==
    ASSUME LawInv, NEW raw \in Gains, NEW setpoint \in Temps, NEW measured \in Temps,
           NEW act \in BOOLEAN, Update(raw, setpoint, measured, act)
    PROVE  /\ gPrev' \in GainSets
           /\ pvPrev' \in TempMin .. TempMax /\ ePrev' \in -ErrorMax .. ErrorMax
           /\ yd' \in -MaxU .. MaxU
           /\ active' = act /\ primed' = TRUE /\ seq' \in {0, 1}
           /\ NewProportional \in Int /\ NewIntegral \in Int
           /\ yi' = IF act THEN Bounded(Pinned(NewIntegral, NewProportional, yd').yi)
                    ELSE yi
           /\ y' = IF act THEN Pinned(NewIntegral, NewProportional, yd').y ELSE 0
  <1> DEFINE g == ValidGains(raw)
             pv == ValidTemp(measured)
             e == ValidTemp(setpoint) - pv
             d == Filtered(g, IF primed THEN pv - pvPrev ELSE 0)
  <1>1. /\ gPrev' = g /\ pvPrev' = pv /\ ePrev' = e /\ yd' = d
        /\ active' = act /\ primed' = TRUE /\ seq' = 1 - seq
    BY DEF Update
  <1>2. g \in GainSets
    BY GainsType
  <1>3. pv \in TempMin .. TempMax /\ ValidTemp(setpoint) \in TempMin .. TempMax
    BY ClampType, InputAssumption DEF ValidTemp
  <1>4. e \in -ErrorMax .. ErrorMax /\ e \in Int
    BY <1>3, InputAssumption DEF ErrorMax
  <1>5. (IF primed THEN pv - pvPrev ELSE 0) \in Int
    BY <1>3, InputAssumption DEF LawInv, TypeOK
  <1>6. d \in -MaxU .. MaxU /\ d \in Int
    BY <1>2, <1>5, FilteredType, MaxUType DEF LawInv
  <1>7. Proportional(g, e) \in Int
    BY <1>2, <1>4, TermTypes
  <1>8. ErrorBefore(e) \in Int
    BY <1>4, InputAssumption DEF ErrorBefore, LawInv, TypeOK, ErrorMax
  <1>9. Increment(g, e, ErrorBefore(e)) \in Int
    BY <1>2, <1>4, <1>8, TermTypes
  <1>10. Carried(g, Proportional(g, e), d) \in Int
    BY <1>6, <1>7, MaxUType DEF Carried, LawInv, TypeOK
  <1>11. /\ yi' = IF act THEN Bounded(Pinned(Carried(g, Proportional(g, e), d)
                                     + Increment(g, e, ErrorBefore(e)),
                                     Proportional(g, e), d).yi)
                  ELSE yi
         /\ y' = IF act THEN Pinned(Carried(g, Proportional(g, e), d)
                                    + Increment(g, e, ErrorBefore(e)),
                                    Proportional(g, e), d).y
                 ELSE 0
    BY DEF Update
  <1>12. seq' \in {0, 1}
    BY <1>1 DEF LawInv, TypeOK
  <1> HIDE DEF g, pv, e, d
  <1> QED
    BY <1>1, <1>2, <1>3, <1>4, <1>6, <1>7, <1>9, <1>10, <1>11, <1>12
    DEF NewProportional, NewIntegral

\* The anti-windup keeps output and terms in step, and the output in its range.
LEMMA PinnedFacts ==
    ASSUME NEW i \in Int, NEW yp \in Int, NEW d \in Int
    PROVE  /\ Pinned(i, yp, d).yi \in Int
           /\ Pinned(i, yp, d).y = yp + Pinned(i, yp, d).yi + d
           /\ Pinned(i, yp, d).y = Clamp(yp + i + d, 0, MaxU)
           /\ Pinned(i, yp, d).y \in 0 .. MaxU
  BY MaxUType DEF Pinned, Clamp

(***************************************************************************)
(* The inductive step                                                      *)
(***************************************************************************)

LEMMA LawInit == Init => LawInv
  <1> SUFFICES ASSUME Init PROVE LawInv
    OBVIOUS
  <1>1. NoGains \in GainSets
    BY ScaleAssumption DEF NoGains, GainSets
  <1>2. 0 \in 0 .. MaxU /\ 0 \in -MaxU .. MaxU
    BY MaxUType
  <1>3. 0 \in -ErrorMax .. ErrorMax
    BY InputAssumption DEF ErrorMax
  <1>4. Power(y) \in 0 .. MaxPower
    BY <1>2, PowerRange DEF Init
  <1> QED
    BY <1>1, <1>2, <1>3, <1>4 DEF Init, LawInv, TypeOK, OutputExplained

LEMMA LawUpdate ==
    ASSUME LawInv, NEW raw \in Gains, NEW setpoint \in Temps, NEW measured \in Temps,
           NEW act \in BOOLEAN, Update(raw, setpoint, measured, act)
    PROVE  LawInv'
  <1> DEFINE pin == Pinned(NewIntegral, NewProportional, yd')
  <1>1. /\ yi' = IF act THEN Bounded(pin.yi) ELSE yi
        /\ y' = IF act THEN pin.y ELSE 0
        /\ active' = act /\ primed' = TRUE
        /\ NewProportional \in Int /\ NewIntegral \in Int /\ yd' \in -MaxU .. MaxU
    BY UpdateFacts
  <1>2. /\ pin.yi \in Int /\ pin.y \in 0 .. MaxU
        /\ pin.y = NewProportional + pin.yi + yd'
    <2>1. yd' \in Int
      BY <1>1, MaxUType
    <2> HIDE DEF NewIntegral, NewProportional
    <2> QED
      BY <1>1, <2>1, PinnedFacts
  <1> HIDE DEF pin
  <1>3. yi' \in -MaxU .. MaxU
    <2>1. Bounded(pin.yi) \in -MaxU .. MaxU
      BY <1>2, FullScale DEF Bounded
    <2> QED
      BY <1>1, <2>1 DEF LawInv, TypeOK
  <1>4. y' \in 0 .. MaxU
    BY <1>1, <1>2, MaxUType
  <1>5. Power(y') \in 0 .. MaxPower
    BY <1>4, PowerRange
  <1>6. TypeOK'
    <2>1. (Power(y))' = Power(y')
      BY DEF Power
    <2> QED
      BY <1>1, <1>3, <1>4, <1>5, <2>1, UpdateFacts DEF TypeOK
  <1>7. OutputExplained'
    <2> SUFFICES ASSUME act
                 PROVE  yi' = Bounded(y' - NewProportional - yd')
      BY <1>1 DEF OutputExplained, NewProportional, Bounded
    <2>1. yi' = Bounded(pin.yi) /\ y' = NewProportional + pin.yi + yd'
      BY <1>1, <1>2
    <2> HIDE DEF NewProportional
    <2>2. pin.yi = y' - NewProportional - yd'
      BY <1>1, <1>2, <2>1, MaxUType
    <2> QED
      BY <2>1, <2>2
  <1> QED
    BY <1>1, <1>6, <1>7 DEF LawInv

LEMMA LawNext == LawInv /\ [Next]_lawVars => LawInv'
  <1> SUFFICES ASSUME LawInv, [Next]_lawVars PROVE LawInv'
    OBVIOUS
  <1>1. CASE Next
    BY <1>1, LawUpdate DEF Next
  <1>2. CASE UNCHANGED lawVars
    BY <1>2 DEF lawVars, LawInv, TypeOK, OutputExplained, Bounded, Power
  <1> QED
    BY <1>1, <1>2

\* The inductive invariant that the theorems below project from.
THEOREM LawInvariant == Spec => []LawInv
  BY LawInit, LawNext, PTL DEF Spec

(***************************************************************************)
(* Theorems                                                                *)
(***************************************************************************)

\* At the rails too the accumulators explain the output, for any gains and any
\* sequence of retunes and armings (PROVES OutputExplained).
THEOREM OutputIsExplained == Spec => []OutputExplained
  <1>1. LawInv => OutputExplained
    BY DEF LawInv
  <1> QED
    BY <1>1, LawInvariant, PTL

\* The accumulators and the output stay within the actuator's range, and the
\* command within the heater's: the assertions of pid_update (PROVES TypeOK).
THEOREM LawTypes == Spec => []TypeOK
  <1>1. LawInv => TypeOK
    BY DEF LawInv
  <1> QED
    BY <1>1, LawInvariant, PTL

\* An active cycle's output is the clamped sum of its three terms.
LEMMA ActiveOutput ==
    ASSUME LawInv, Next, active'
    PROVE  /\ y' = Clamp(NewProportional + NewIntegral + yd', 0, MaxU)
           /\ NewProportional \in Int /\ NewIntegral \in Int /\ yd' \in Int
           /\ gPrev' \in GainSets /\ ePrev' \in Int
  <1>1. PICK raw \in Gains, setpoint \in Temps, measured \in Temps, act \in BOOLEAN :
             Update(raw, setpoint, measured, act)
    BY DEF Next
  <1> HIDE DEF NewIntegral, NewProportional
  <1>2. /\ active' = act /\ NewProportional \in Int /\ NewIntegral \in Int
        /\ yd' \in -MaxU .. MaxU /\ gPrev' \in GainSets /\ ePrev' \in -ErrorMax .. ErrorMax
        /\ y' = IF act THEN Pinned(NewIntegral, NewProportional, yd').y ELSE 0
    BY <1>1, UpdateFacts
  <1>3. yd' \in Int /\ ePrev' \in Int
    BY <1>2, MaxUType, InputAssumption DEF ErrorMax
  <1>4. y' = Pinned(NewIntegral, NewProportional, yd').y
    BY <1>2
  <1> QED
    BY <1>2, <1>3, <1>4, PinnedFacts

\* The error before, of a controller that has a history.
LEMMA History ==
    ASSUME LawInv, primed
    PROVE  /\ ErrorBefore(ePrev') = ePrev /\ ePrev \in Int
           /\ Increment(gPrev', ePrev', ErrorBefore(ePrev')) = NewIncrement
  BY InputAssumption DEF LawInv, TypeOK, ErrorBefore, NewIncrement, ErrorMax

\* The first output after an arming is that of a fresh integral, for any earlier
\* active period: CleanArming, which has no run of its own.
THEOREM ArmingIsClean == Spec => CleanArming
  <1>1. ASSUME LawInv, [Next]_lawVars, ~active, active', primed
        PROVE  y' = Clamp(NewProportional + yd' + NewIncrement, 0, MaxU)
    <2>1. Next
      BY <1>1 DEF lawVars
    <2> HIDE DEF NewProportional
    <2>2. Carried(gPrev', NewProportional, yd') = 0
      BY <1>1 DEF Carried
    <2>3. NewIntegral = 0 + NewIncrement
      BY <1>1, <2>2, History DEF NewIntegral
    <2>4. NewIncrement \in Int
      BY <1>1, <2>1, ActiveOutput, TermTypes, History DEF NewIncrement
    <2> QED
      BY <1>1, <2>1, <2>3, <2>4, ActiveOutput
  <1>2. LawInv /\ [Next]_lawVars
        => [~active /\ active' /\ primed /\ gPrev'.ki # 0
              => y' = Clamp(NewProportional + yd' + NewIncrement, 0, MaxU)]_lawVars
    BY <1>1
  <1> QED
    BY <1>2, LawInvariant, PTL DEF Spec, CleanArming

\* With Ki = 0 the output is that of the other two terms, whatever came before
\* (PROVES NoHiddenBias).
THEOREM NoBias == Spec => NoHiddenBias
  <1>1. ASSUME LawInv, [Next]_lawVars, ~UNCHANGED lawVars, active', gPrev'.ki = 0
        PROVE  y' = Clamp(NewProportional + yd', 0, MaxU)
    <2>1. Next
      BY <1>1
    <2> HIDE DEF NewProportional
    <2>2. ErrorBefore(ePrev') \in Int
      BY <1>1, <2>1, ActiveOutput, History DEF ErrorBefore
    <2>3. NewIntegral = 0 + 0
      <3>1. Carried(gPrev', NewProportional, yd') = 0
        BY <1>1 DEF Carried
      <3>2. Increment(gPrev', ePrev', ErrorBefore(ePrev')) = 0
        BY <1>1, <2>1, <2>2, ActiveOutput, TermTypes
      <3> QED
        BY <3>1, <3>2 DEF NewIntegral
    <2> QED
      BY <1>1, <2>1, <2>3, ActiveOutput
  <1>2. LawInv /\ [Next]_lawVars
        => [active' /\ gPrev'.ki = 0 => y' = Clamp(NewProportional + yd', 0, MaxU)]_lawVars
    BY <1>1
  <1> QED
    BY <1>2, LawInvariant, PTL DEF Spec, NoHiddenBias

\* A change of gains while active moves the output by one increment at most, for
\* any pair of gain sets (PROVES BumplessRetune).
THEOREM RetuneIsBumpless == Spec => BumplessRetune
  <1>1. ASSUME LawInv, [Next]_lawVars, active, active', gPrev' # gPrev, gPrev'.ki # 0
        PROVE  y' = Clamp(y + NewIncrement, 0, MaxU)
    <2>1. Next
      BY <1>1 DEF lawVars
    <2> HIDE DEF NewProportional
    <2>2. primed /\ y \in Int
      BY <1>1, MaxUType DEF LawInv, TypeOK
    <2>3. NewIntegral = (y - NewProportional - yd') + NewIncrement
      <3>1. Carried(gPrev', NewProportional, yd') = y - NewProportional - yd'
        BY <1>1 DEF Carried
      <3> QED
        BY <1>1, <2>2, <3>1, History DEF NewIntegral
    <2>4. NewIncrement \in Int
      BY <1>1, <2>1, <2>2, ActiveOutput, TermTypes, History DEF NewIncrement
    <2>5. NewProportional + NewIntegral + yd' = y + NewIncrement
      BY <1>1, <2>1, <2>2, <2>3, <2>4, ActiveOutput
    <2> QED
      BY <1>1, <2>1, <2>5, ActiveOutput
  <1>2. LawInv /\ [Next]_lawVars
        => [active /\ active' /\ gPrev' # gPrev /\ gPrev'.ki # 0
              => y' = Clamp(y + NewIncrement, 0, MaxU)]_lawVars
    BY <1>1 DEF lawVars
  <1> QED
    BY <1>2, LawInvariant, PTL DEF Spec, BumplessRetune

\* The code computes the position form; with unchanged gains it is the velocity
\* form, rails included (PROVES VelocityForm).
THEOREM LawIsVelocityForm == Spec => VelocityForm
  <1> DEFINE Moved == y' = Clamp(y + (NewProportional - Proportional(gPrev, ePrev))
                                 + (yd' - yd) + NewIncrement, 0, MaxU)
  <1>1. ASSUME LawInv, Next, Kept PROVE Moved
    <2> HIDE DEF NewProportional
    <2>1. /\ active /\ active' /\ gPrev' = gPrev /\ gPrev.ki # 0
          /\ y = Proportional(gPrev, ePrev) + yi + yd
      BY <1>1 DEF Kept
    <2>2. primed /\ y \in Int /\ yi \in Int /\ yd \in Int /\ gPrev \in GainSets
      BY <1>1, <2>1, MaxUType DEF LawInv, TypeOK
    <2>3. NewIntegral = yi + NewIncrement
      <3>1. Carried(gPrev', NewProportional, yd') = yi
        BY <2>1 DEF Carried
      <3> QED
        BY <1>1, <2>2, <3>1, History DEF NewIntegral
    <2>4. NewIncrement \in Int /\ Proportional(gPrev, ePrev) \in Int
      BY <1>1, <2>1, <2>2, ActiveOutput, TermTypes, History DEF NewIncrement
    <2> DEFINE p == Proportional(gPrev, ePrev)
    <2> HIDE DEF p
    <2>5. y = p + yi + yd /\ p \in Int
      BY <2>1, <2>4 DEF p
    <2>6. NewProportional + NewIntegral + yd'
            = y + (NewProportional - p) + (yd' - yd) + NewIncrement
      BY <1>1, <2>1, <2>2, <2>3, <2>4, <2>5, ActiveOutput
    <2> QED
      BY <1>1, <2>1, <2>6, ActiveOutput DEF p
  <1> HIDE DEF Moved
  <1>2. LawInv /\ [Next]_lawVars => [Kept => Moved]_lawVars
    BY <1>1
  <1> QED
    BY <1>2, LawInvariant, PTL DEF Spec, VelocityForm, Moved

\* The pole makes every nonzero magnitude smaller.
LEMMA PoleShrinks ==
    ASSUME NEW n \in Nat \ {0}
    PROVE  (Pole * n) \div Q \in 0 .. n - 1
  <1> DEFINE m == Pole * n
             q == m \div Q
  <1>1. Pole \in Nat /\ Q \in Nat \ {0} /\ Pole <= Q - 1
    BY ScaleAssumption
  <1>2. m \in Nat /\ m <= Q * n - n
    <2>1. PICK s \in Nat : Q = Pole + 1 + s
      <3>1. Q - Pole - 1 \in Nat /\ Q = Pole + 1 + (Q - Pole - 1)
        BY <1>1
      <3> QED
        BY <3>1
    <2>2. Q * n = Pole * n + n + s * n
      BY <1>1, <2>1
    <2>3. s * n \in Nat /\ Pole * n \in Nat
      BY <1>1, <2>1
    <2> QED
      BY <2>2, <2>3
  <1> HIDE DEF m
  <1>3. q \in Nat /\ Q * q <= m
    BY <1>1, <1>2, Division
  <1> HIDE DEF q
  <1>4. q < n
    <2> SUFFICES ASSUME q >= n PROVE FALSE
      BY <1>3
    <2>1. PICK r \in Nat : q = n + r
      <3>1. q - n \in Nat /\ q = n + (q - n)
        BY <1>3
      <3> QED
        BY <3>1
    <2>2. Q * q = Q * n + Q * r
      BY <1>1, <2>1
    <2>3. Q * r \in Nat /\ Q * n \in Nat
      BY <1>1, <2>1
    <2> QED
      BY <1>2, <1>3, <2>2, <2>3
  <1> QED
    BY <1>3, <1>4 DEF q, m

\* C's truncating quotient takes every nonzero value closer to zero.
LEMMA QuotShrinks ==
    ASSUME NEW v \in Int, v # 0
    PROVE  Quot(Pole * v, Q) \in Int /\ Size(Quot(Pole * v, Q)) < Size(v)
  <1> DEFINE a == Quot(Pole * v, Q)
  <1>1. CASE v > 0
    <2>1. Pole * v >= 0 /\ Pole * v \in Nat
      BY <1>1, ScaleAssumption
    <2>2. a \in 0 .. v - 1
      BY <1>1, <2>1, PoleShrinks DEF Quot
    <2> QED
      BY <1>1, <2>2 DEF Size
  <1>2. CASE v < 0
    <2>1. -v \in Nat \ {0} /\ -(Pole * v) = Pole * (-v)
      BY <1>2, ScaleAssumption
    <2>2. (Pole * (-v)) \div Q \in 0 .. (-v) - 1
      BY <2>1, PoleShrinks
    <2>3. CASE Pole * v >= 0
      <3>1. Pole * v = 0
        BY <1>2, <2>3, ScaleAssumption
      <3>2. a = 0
        BY <2>1, <2>2, <3>1, Division, ScaleAssumption DEF Quot
      <3> QED
        BY <1>2, <3>2 DEF Size
    <2>4. CASE ~(Pole * v >= 0)
      <3>1. a = -((Pole * (-v)) \div Q)
        BY <2>1, <2>4 DEF Quot
      <3> HIDE DEF a
      <3>2. a \in Int /\ Size(a) < Size(v)
        BY <1>2, <2>2, <3>1 DEF Size
      <3> QED
        BY <3>2 DEF a
    <2> QED
      BY <2>3, <2>4
  <1> QED
    BY <1>1, <1>2

\* With a steady measurement only the pole is at work.
LEMMA SteadyFilter ==
    ASSUME LawInv, Next, primed, pvPrev' = pvPrev
    PROVE  /\ yd' = Clamp(Quot(Pole * yd, Q), -MaxU, MaxU)
           /\ Quot(Pole * yd, Q) \in Int
  <1>1. PICK raw \in Gains, setpoint \in Temps, measured \in Temps, act \in BOOLEAN :
             Update(raw, setpoint, measured, act)
    BY DEF Next
  <1> DEFINE pv == ValidTemp(measured)
             g == ValidGains(raw)
             a == Quot(Pole * yd, Q)
             b == Quot(g.kd * (Q - Pole) * DNum, DDen)
  <1>2. pv - pvPrev = 0
    <2>1. pv \in Int
      BY InputAssumption, ClampType DEF ValidTemp
    <2>2. pvPrev' = pv
      BY <1>1 DEF Update
    <2> QED
      BY <2>1, <2>2
  <1>3. yd' = Clamp(a - b * (pv - pvPrev), -MaxU, MaxU)
    BY <1>1 DEF Update, Filtered, Slope
  <1>4. b \in Int
    <2>1. g \in GainSets
      BY GainsType
    <2>2. g.kd * (Q - Pole) * DNum \in Int
      BY <2>1, ScaleAssumption DEF GainSets
    <2> QED
      BY <2>2, QuotType, ScaleAssumption
  <1>5. a \in Int
    <2>1. Pole * yd \in Int
      BY ScaleAssumption, MaxUType DEF LawInv, TypeOK
    <2> QED
      BY <2>1, QuotType, ScaleAssumption
  <1> HIDE DEF a, b, pv
  <1>6. a - b * (pv - pvPrev) = a
    BY <1>2, <1>4, <1>5
  <1> QED
    BY <1>3, <1>5, <1>6 DEF a

\* C's truncation leaves no remainder behind, for any pole and any word width
\* (PROVES DerivativeDecays).
THEOREM FilterDecays == Spec => DerivativeDecays
  <1>1. ASSUME LawInv, Next, primed, pvPrev' = pvPrev, yd # 0
        PROVE  Size(yd') < Size(yd)
    <2> DEFINE a == Quot(Pole * yd, Q)
    <2>1. yd' = Clamp(a, -MaxU, MaxU)
      BY <1>1, SteadyFilter
    <2>2. yd \in -MaxU .. MaxU /\ yd \in Int
      BY <1>1, MaxUType DEF LawInv, TypeOK
    <2>3. a \in Int /\ Size(a) < Size(yd)
      BY <1>1, <2>2, QuotShrinks
    <2> HIDE DEF a
    <2>4. yd' = a
      BY <2>1, <2>2, <2>3, MaxUType DEF Clamp, Size
    <2> QED
      BY <2>3, <2>4
  <1>2. LawInv /\ [Next]_lawVars
        => [primed /\ pvPrev' = pvPrev /\ yd # 0 => Size(yd') < Size(yd)]_lawVars
    BY <1>1
  <1> QED
    BY <1>2, LawInvariant, PTL DEF Spec, DerivativeDecays

(***************************************************************************)
(* No steady error                                                         *)
(***************************************************************************)

\* A cycle with everything as in the one before and the filter empty.
Steady == /\ active /\ active' /\ gPrev' = gPrev /\ gPrev.ki # 0
          /\ ePrev' = ePrev /\ pvPrev' = pvPrev /\ yd = 0

\* The output moves toward the setpoint by the whole increment or is at the rail.
ErrorIntegrated ==
    /\ ePrev > 0 => NewIncrement > 0 /\ (y' = MaxU \/ y' >= y + NewIncrement)
    /\ ePrev < 0 => NewIncrement < 0 /\ (y' = 0 \/ y' <= y + NewIncrement)
    /\ ePrev = 0 => y' = y

\* The signs of the two terms are those of the error.
LEMMA TermSigns ==
    ASSUME NEW g \in GainSets, g.ki # 0, NEW e \in Int
    PROVE  /\ e > 0 => Proportional(g, e) >= 0 /\ Increment(g, e, e) > 0
           /\ e < 0 => Proportional(g, e) <= 0 /\ Increment(g, e, e) < 0
           /\ e = 0 => Proportional(g, e) = 0 /\ Increment(g, e, e) = 0
  <1>1. g.kp \in Nat /\ g.ki \in Nat /\ g.ki > 0
    BY ScaleAssumption DEF GainSets
  <1>2. PScale \in Nat /\ PScale > 0 /\ IScale \in Nat /\ IScale > 0
    BY ScaleAssumption
  <1>3. \A k, n \in Nat : k * n \in Nat /\ (k > 0 /\ n > 0 => k * n > 0)
    BY Z3
  <1>4. ASSUME NEW n \in Nat, n > 0
        PROVE  g.kp * n * PScale >= 0 /\ g.ki * (n + n) * IScale > 0
    <2>1. g.kp * n \in Nat /\ g.ki * (n + n) \in Nat /\ g.ki * (n + n) > 0
      BY <1>1, <1>3, <1>4
    <2>2. g.kp * n * PScale \in Nat /\ g.ki * (n + n) * IScale > 0
      BY <1>2, <1>3, <2>1
    <2> QED
      BY <2>2
  <1>5. CASE e > 0
    BY <1>4, <1>5 DEF Proportional, Increment
  <1>6. CASE e < 0
    <2>1. -e \in Nat /\ -e > 0
      BY <1>6
    <2>2. g.kp * (-e) * PScale >= 0 /\ g.ki * ((-e) + (-e)) * IScale > 0
      BY <1>4, <2>1
    <2>3. /\ g.kp * (-e) * PScale = -(g.kp * e * PScale)
          /\ g.ki * ((-e) + (-e)) * IScale = -(g.ki * (e + e) * IScale)
      BY <1>1, <1>2, Z3
    <2>4. g.kp * e * PScale \in Int /\ g.ki * (e + e) * IScale \in Int
      BY <1>1, <1>2, Z3
    <2> QED
      BY <1>6, <2>2, <2>3, <2>4 DEF Proportional, Increment
  <1>7. CASE e = 0
    <2>1. g.kp * 0 * PScale = 0 /\ g.ki * (0 + 0) * IScale = 0
      BY <1>1, <1>2, Z3
    <2> QED
      BY <1>7, <2>1 DEF Proportional, Increment
  <1> QED
    BY <1>5, <1>6, <1>7

\* The integral has no dead zone, at whatever scale and from whatever state, the
\* bound on the integral included: while gains and temperatures stand still, every
\* cycle moves the output by the whole of its increment, until the error is gone
\* or the output at its rail.  That is what pid.c:23 has PID_FP for.
THEOREM SteadyErrorIsIntegrated == Spec => [][Steady => ErrorIntegrated]_lawVars
  <1>1. ASSUME LawInv, Next, Steady PROVE ErrorIntegrated
    <2> DEFINE p == Proportional(gPrev, ePrev)
               inc == NewIncrement
    <2>1. /\ active /\ active' /\ gPrev' = gPrev /\ gPrev.ki # 0
          /\ ePrev' = ePrev /\ pvPrev' = pvPrev /\ yd = 0 /\ primed
      BY <1>1 DEF Steady, LawInv
    <2>2. gPrev \in GainSets /\ ePrev \in Int /\ y \in 0 .. MaxU /\ y' \in 0 .. MaxU
      <3>1. LawInv'
        BY <1>1, LawUpdate DEF Next
      <3> QED
        BY <1>1, <2>1, <3>1, History DEF LawInv, TypeOK
    <2>3. yd' = 0
      <3>1. Pole * yd = 0 /\ Quot(0, Q) = 0
        BY <2>1, ScaleAssumption, Z3 DEF Quot
      <3> QED
        BY <1>1, <2>1, <3>1, SteadyFilter, MaxUType DEF Clamp
    <2>4. NewIntegral = yi + inc /\ NewProportional = p
      <3>1. Carried(gPrev', NewProportional, yd') = yi
        BY <2>1 DEF Carried
      <3> QED
        BY <1>1, <2>1, <3>1, History DEF NewIntegral, NewProportional
    <2>5. inc = Increment(gPrev, ePrev, ePrev)
      BY <2>1 DEF NewIncrement
    <2>6. inc \in Int /\ p \in Int
      BY <2>2, <2>5, TermTypes
    <2>7. /\ ePrev > 0 => p >= 0 /\ inc > 0
          /\ ePrev < 0 => p <= 0 /\ inc < 0
          /\ ePrev = 0 => p = 0 /\ inc = 0
      BY <2>1, <2>2, <2>5, TermSigns
    <2>8. yi = Clamp(y - p - 0, -MaxU, MaxU)
      BY <1>1, <2>1 DEF LawInv, OutputExplained, Bounded
    <2>9. y' = Clamp(p + (yi + inc) + 0, 0, MaxU)
      BY <1>1, <2>1, <2>3, <2>4, ActiveOutput
    <2> SUFFICES /\ ePrev > 0 => inc > 0 /\ (y' = MaxU \/ y' >= y + inc)
                 /\ ePrev < 0 => inc < 0 /\ (y' = 0 \/ y' <= y + inc)
                 /\ ePrev = 0 => y' = y
      BY DEF ErrorIntegrated
    <2> HIDE DEF p, inc
    <2>10. CASE ePrev > 0
      BY <2>2, <2>6, <2>7, <2>8, <2>9, <2>10, MaxUType DEF Clamp
    <2>11. CASE ePrev < 0
      BY <2>2, <2>6, <2>7, <2>8, <2>9, <2>11, MaxUType DEF Clamp
    <2>12. CASE ePrev = 0
      BY <2>2, <2>6, <2>7, <2>8, <2>9, <2>12, MaxUType DEF Clamp
    <2> QED
      BY <2>2, <2>10, <2>11, <2>12
  <1>2. LawInv /\ [Next]_lawVars => [Steady => ErrorIntegrated]_lawVars
    BY <1>1
  <1> QED
    BY <1>2, LawInvariant, PTL DEF Spec

(***************************************************************************)
(* Sixty-four bits                                                         *)
(***************************************************************************)

Within(v, B) == v \in -B .. B

LEMMA Monotone ==
    ASSUME NEW x \in Nat, NEW z \in Nat, NEW k \in Nat, x <= z
    PROVE  x * k <= z * k /\ x * k \in Nat /\ z * k \in Nat
  <1>1. PICK r \in Nat : z = x + r
    <2>1. z - x \in Nat /\ z = x + (z - x)
      OBVIOUS
    <2> QED
      BY <2>1
  <1>2. z * k = x * k + r * k
    BY <1>1, Z3
  <1>3. r * k \in Nat /\ x * k \in Nat
    BY Z3
  <1> QED
    BY <1>2, <1>3

\* A product of a gain and a difference.
LEMMA ProductWithin ==
    ASSUME NEW A \in Nat, NEW B \in Nat, NEW a \in 0 .. A, NEW b \in -B .. B
    PROVE  Within(a * b, A * B) /\ A * B \in Nat
  <1>1. ASSUME NEW n \in 0 .. B PROVE a * n <= A * B /\ a * n \in Nat /\ A * B \in Nat
    <2>1. a * n <= A * n /\ a * n \in Nat
      BY Monotone
    <2>2. n * A <= B * A /\ n * A \in Nat /\ B * A \in Nat
      BY Monotone
    <2>3. n * A = A * n /\ B * A = A * B
      BY Z3
    <2> QED
      BY <2>1, <2>2, <2>3
  <1>2. CASE b >= 0
    <2>1. b \in 0 .. B
      BY <1>2
    <2> QED
      BY <2>1, <1>1 DEF Within
  <1>3. CASE b < 0
    <2>1. -b \in 0 .. B
      BY <1>3
    <2>2. a * b = -(a * (-b))
      BY Z3
    <2> QED
      BY <2>1, <2>2, <1>1 DEF Within
  <1> QED
    BY <1>2, <1>3

\* A scale of at least one makes no bound smaller.
LEMMA ScaleWithin ==
    ASSUME NEW B \in Nat, NEW v \in -B .. B, NEW k \in Nat \ {0}
    PROVE  Within(v * k, B * k) /\ B <= B * k /\ B * k \in Nat
  <1>1. k \in 0 .. k /\ k \in Nat /\ 1 <= k
    OBVIOUS
  <1>2. Within(k * v, k * B) /\ k * B \in Nat
    BY <1>1, ProductWithin
  <1>3. k * v = v * k /\ k * B = B * k
    BY Z3
  <1>4. 1 * B <= k * B
    BY <1>1, Monotone
  <1> QED
    BY <1>2, <1>3, <1>4 DEF Within

\* A nonnegative quotient is no larger than its dividend.
LEMMA QuotWithin ==
    ASSUME NEW n \in Nat, NEW d \in Nat \ {0}
    PROVE  Quot(n, d) \in 0 .. n
  <1>1. n \div d \in Nat /\ d * (n \div d) <= n
    BY Division
  <1> DEFINE q == n \div d
  <1> HIDE DEF q
  <1>2. q \in Nat /\ d * q <= n
    BY <1>1 DEF q
  <1>3. 1 * q <= d * q /\ d * q \in Nat
    BY <1>2, Monotone
  <1>4. q \in 0 .. n
    BY <1>2, <1>3
  <1> QED
    BY <1>4 DEF Quot, q

\* What a cycle finds and what it takes in.
LEMMA Operands ==
    ASSUME LawInv, NEW raw \in Gains, NEW setpoint \in Temps, NEW measured \in Temps,
           NEW act \in BOOLEAN, Update(raw, setpoint, measured, act)
    PROVE  /\ gPrev' \in GainSets
           /\ ePrev' \in -ErrorMax .. ErrorMax
           /\ (IF primed THEN ePrev ELSE ePrev') \in -ErrorMax .. ErrorMax
           /\ (IF primed THEN pvPrev' - pvPrev ELSE 0) \in -ErrorMax .. ErrorMax
           /\ yd' \in -MaxU .. MaxU /\ yd \in -MaxU .. MaxU /\ yi \in -MaxU .. MaxU
           /\ y \in 0 .. MaxU /\ y' \in 0 .. MaxU
           /\ ErrorMax \in Nat /\ GainMax \in Nat /\ MaxU \in Nat
  <1>1. ErrorMax \in Nat /\ GainMax \in Nat /\ MaxU \in Nat
    BY ScaleAssumption, InputAssumption, MaxUType DEF ErrorMax
  <1>2. gPrev' \in GainSets /\ ePrev' \in -ErrorMax .. ErrorMax
        /\ pvPrev' \in TempMin .. TempMax /\ yd' \in -MaxU .. MaxU
    BY UpdateFacts
  <1>3. (IF primed THEN ePrev ELSE ePrev') \in -ErrorMax .. ErrorMax
    BY <1>2 DEF LawInv, TypeOK
  <1>4. (IF primed THEN pvPrev' - pvPrev ELSE 0) \in -ErrorMax .. ErrorMax
    <2>1. CASE primed
      <3>1. pvPrev \in TempMin .. TempMax
        BY <2>1 DEF LawInv, TypeOK
      <3>2. \A a, b \in TempMin .. TempMax : a - b \in -ErrorMax .. ErrorMax
        BY InputAssumption DEF ErrorMax
      <3> QED
        BY <1>2, <2>1, <3>1, <3>2
    <2>2. CASE ~primed
      BY <2>2, <1>1
    <2> QED
      BY <2>1, <2>2
  <1>5. LawInv'
    BY LawUpdate
  <1> QED
    BY <1>1, <1>2, <1>3, <1>4, <1>5 DEF LawInv, TypeOK

\* The derivative's intermediates.
LEMMA DerivativeWide ==
    ASSUME NEW g \in GainSets, NEW dpv \in -ErrorMax .. ErrorMax, LawInv
    PROVE  /\ Within(g.kd * (Q - Pole), IntMax)
           /\ Within(g.kd * (Q - Pole) * DNum, IntMax)
           /\ Within(Pole * yd, IntMax)
           /\ Within(Slope(g) * dpv, IntMax)
           /\ Within(Quot(Pole * yd, Q) - Slope(g) * dpv, IntMax)
  <1>1. /\ ErrorMax \in Nat /\ MaxU \in Nat /\ IntMax \in Nat /\ GainMax \in Nat
        /\ Q - Pole \in Nat \ {0} /\ DNum \in Nat \ {0} /\ DDen \in Nat \ {0}
        /\ Pole \in 0 .. Q /\ Q \in Nat
    BY ScaleAssumption, InputAssumption, WidthAssumption, MaxUType DEF ErrorMax, Wide
  <1>2. g.kd \in 0 .. GainMax /\ g.kd \in Nat
    BY ScaleAssumption DEF GainSets
  <1> DEFINE k == g.kd * (Q - Pole)
             K == GainMax * (Q - Pole)
  <1>3. k <= K /\ k \in Nat /\ K \in Nat
    BY <1>1, <1>2, Monotone
  <1> DEFINE n == k * DNum
  <1>4. n <= K * DNum /\ n \in Nat /\ k <= n
    <2> HIDE DEF k, K
    <2>1. k * DNum <= K * DNum /\ k * DNum \in Nat
      BY <1>1, <1>3, Monotone
    <2>2. k \in -k .. k
      BY <1>3
    <2>3. k <= k * DNum
      BY <1>1, <1>3, <2>2, ScaleWithin
    <2> QED
      BY <2>1, <2>3
  <1>5. n <= SlopeMax /\ SlopeMax \in Nat /\ SlopeMax <= IntMax
    <2>1. SlopeMax = K * DNum /\ SlopeMax <= IntMax
      BY WidthAssumption DEF SlopeMax, Wide
    <2> HIDE DEF k, K, n
    <2>2. K * DNum \in Nat
      BY <1>1, <1>3, Z3
    <2> QED
      BY <1>4, <2>1, <2>2
  <1>6. Slope(g) \in 0 .. n
    BY <1>1, <1>4, QuotWithin DEF Slope
  <1> HIDE DEF n
  <1>7. Slope(g) \in 0 .. SlopeMax
    BY <1>4, <1>5, <1>6
  <1>8. Within(Slope(g) * dpv, SlopeMax * ErrorMax) /\ SlopeMax * ErrorMax \in Nat
    BY <1>1, <1>5, <1>7, ProductWithin
  <1>9. yd \in -MaxU .. MaxU /\ yd \in Int
    BY <1>1 DEF LawInv, TypeOK
  <1>10. Within(Pole * yd, Q * MaxU)
    BY <1>1, <1>9, ProductWithin
  <1>11. Quot(Pole * yd, Q) \in -MaxU .. MaxU
    <2>1. CASE yd = 0
      <3>1. Pole * yd = 0
        BY <1>1, <2>1
      <3>2. 0 \div Q = 0
        BY ScaleAssumption, Z3
      <3> QED
        BY <1>1, <3>1, <3>2 DEF Quot
    <2>2. CASE yd # 0
      <3> DEFINE a == Quot(Pole * yd, Q)
      <3>1. a \in Int /\ Size(a) < Size(yd)
        BY <1>9, <2>2, QuotShrinks
      <3> HIDE DEF a
      <3>2. a \in -MaxU .. MaxU
        BY <1>1, <1>9, <3>1 DEF Size
      <3> QED
        BY <3>2 DEF a
    <2> QED
      BY <2>1, <2>2
  <1> DEFINE s == Slope(g) * dpv
             a == Quot(Pole * yd, Q)
             S == SlopeMax * ErrorMax
  <1>12. Q * MaxU <= IntMax /\ S + MaxU <= IntMax /\ Q * MaxU \in Nat
    <2>1. Q * MaxU \in Nat
      BY <1>1, Z3
    <2> QED
      BY <2>1, WidthAssumption DEF Wide
  <1>13. Within(s, IntMax) /\ Within(a - s, IntMax)
    <2>1. s \in -S .. S /\ S \in Nat /\ a \in -MaxU .. MaxU
      BY <1>8, <1>11 DEF Within
    <2> HIDE DEF s, a, S
    <2> QED
      BY <1>1, <1>12, <2>1 DEF Within
  <1>14. Within(Pole * yd, IntMax)
    <2> DEFINE p == Pole * yd
               M == Q * MaxU
    <2>1. p \in -M .. M /\ M \in Nat /\ M <= IntMax
      BY <1>10, <1>12 DEF Within
    <2> HIDE DEF p, M
    <2>2. p \in -IntMax .. IntMax
      BY <1>1, <2>1
    <2> QED
      BY <2>2 DEF p, Within
  <1>15. Within(k, IntMax) /\ Within(n, IntMax)
    <2> HIDE DEF k, K
    <2> QED
      BY <1>1, <1>3, <1>4, <1>5 DEF Within
  <1> QED
    BY <1>13, <1>14, <1>15 DEF n

\* The terms and their sums.
LEMMA SumsWide ==
    ASSUME LawInv, NEW g \in GainSets, NEW e \in -ErrorMax .. ErrorMax,
           NEW ep \in -ErrorMax .. ErrorMax, NEW d \in -MaxU .. MaxU
    PROVE  \A v \in {g.kp * e, Proportional(g, e), y - Proportional(g, e),
                     y - Proportional(g, e) - d, g.ki * (e + ep), Increment(g, e, ep),
                     Carried(g, Proportional(g, e), d) + Increment(g, e, ep),
                     Proportional(g, e)
                       + (Carried(g, Proportional(g, e), d) + Increment(g, e, ep)),
                     Proportional(g, e)
                       + (Carried(g, Proportional(g, e), d) + Increment(g, e, ep)) + d,
                     MaxU - Proportional(g, e), MaxU - Proportional(g, e) - d,
                     -Proportional(g, e), -Proportional(g, e) - d} : Within(v, IntMax)
  <1>1. /\ ErrorMax \in Nat /\ MaxU \in Nat /\ IntMax \in Nat /\ GainMax \in Nat
        /\ PScale \in Nat \ {0} /\ IScale \in Nat \ {0}
        /\ g.kp \in 0 .. GainMax /\ g.ki \in 0 .. GainMax
        /\ y \in 0 .. MaxU /\ yi \in -MaxU .. MaxU
    BY ScaleAssumption, InputAssumption, WidthAssumption, MaxUType
    DEF ErrorMax, Wide, GainSets, LawInv, TypeOK
  <1> DEFINE p == g.kp * e
             P == GainMax * ErrorMax
             yp == Proportional(g, e)
             YP == P * PScale
  <1>2. p \in -P .. P /\ P \in Nat
    BY <1>1, ProductWithin DEF Within
  <1>3. yp \in -YP .. YP /\ YP \in Nat /\ P <= YP
    <2>1. yp = p * PScale
      BY DEF Proportional
    <2> HIDE DEF p, P, yp
    <2> QED
      BY <1>1, <1>2, <2>1, ScaleWithin DEF Within
  <1> DEFINE f == g.ki * (e + ep)
             F == GainMax * (2 * ErrorMax)
             inc == Increment(g, e, ep)
             INC == F * IScale
  <1>4. f \in -F .. F /\ F \in Nat
    <2>1. e + ep \in -(2 * ErrorMax) .. 2 * ErrorMax /\ 2 * ErrorMax \in Nat
      BY <1>1
    <2> QED
      BY <1>1, <2>1, ProductWithin DEF Within
  <1>5. inc \in -INC .. INC /\ INC \in Nat /\ F <= INC
    <2>1. inc = f * IScale
      BY DEF Increment
    <2> HIDE DEF f, F, inc
    <2> QED
      BY <1>1, <1>4, <2>1, ScaleWithin DEF Within
  <1>6. YP + 2 * MaxU + INC <= IntMax
    BY WidthAssumption DEF Wide
  <1> DEFINE c == Carried(g, yp, d)
  <1>7. c \in {0, y - yp - d, yi}
    BY Zenon DEF Carried
  <1> HIDE DEF p, P, yp, YP, f, F, inc, INC, c
  <1>8. \A v \in {p, yp, y - yp, y - yp - d, f, inc, MaxU - yp, MaxU - yp - d, -yp, -yp - d} :
           Within(v, IntMax)
    BY <1>1, <1>2, <1>3, <1>4, <1>5, <1>6 DEF Within
  <1>9. \A v \in {c + inc, yp + (c + inc), yp + (c + inc) + d} : Within(v, IntMax)
    <2>1. CASE c = 0
      BY <2>1, <1>1, <1>3, <1>5, <1>6 DEF Within
    <2>2. CASE c = yi
      BY <2>2, <1>1, <1>3, <1>5, <1>6 DEF Within
    <2>3. CASE c = y - yp - d
      BY <2>3, <1>1, <1>3, <1>5, <1>6 DEF Within
    <2> QED
      BY <1>7, <2>1, <2>2, <2>3
  <1> QED
    BY <1>8, <1>9 DEF p, yp, f, inc, c

\* No gains, measurements or sequence of armings and retunes make the arithmetic
\* leave 64 bits (PROVES NoOverflow).
THEOREM LawFitsItsWidth == Spec => NoOverflow
  <1> DEFINE F == Formed(gPrev', ePrev', IF primed THEN ePrev ELSE ePrev',
                         IF primed THEN pvPrev' - pvPrev ELSE 0, yd')
             Fits == F \cup {y' + Fp \div 2} \subseteq -IntMax .. IntMax
  <1>1. ASSUME LawInv, Next PROVE Fits
    <2>1. PICK raw \in Gains, setpoint \in Temps, measured \in Temps, act \in BOOLEAN :
               Update(raw, setpoint, measured, act)
      BY <1>1 DEF Next
    <2> DEFINE g == gPrev'
               e == ePrev'
               ep == IF primed THEN ePrev ELSE ePrev'
               dpv == IF primed THEN pvPrev' - pvPrev ELSE 0
               d == yd'
    <2>2. /\ g \in GainSets /\ e \in -ErrorMax .. ErrorMax /\ ep \in -ErrorMax .. ErrorMax
          /\ dpv \in -ErrorMax .. ErrorMax /\ d \in -MaxU .. MaxU /\ y' \in 0 .. MaxU
      BY <1>1, <2>1, Operands
    <2> HIDE DEF g, e, ep, dpv, d
    <2>3. \A v \in Formed(g, e, ep, dpv, d) : Within(v, IntMax)
      <3>1. \A v \in {g.kd * (Q - Pole), g.kd * (Q - Pole) * DNum, Pole * yd,
                      Slope(g) * dpv, Quot(Pole * yd, Q) - Slope(g) * dpv} : Within(v, IntMax)
        BY <1>1, <2>2, DerivativeWide
      <3> QED
        BY <1>1, <2>2, <3>1, SumsWide DEF Formed
    <2>4. y' + Fp \div 2 \in -IntMax .. IntMax
      <3>1. Fp \div 2 \in 0 .. Fp /\ Fp \in Nat
        BY ScaleAssumption
      <3>2. IntMax \in Nat /\ MaxU \in Nat /\ MaxU + Fp <= IntMax
        BY WidthAssumption, MaxUType DEF Wide
      <3>3. \A n \in 0 .. MaxU, h \in 0 .. Fp : n + h \in -IntMax .. IntMax
        BY <3>1, <3>2
      <3> QED
        BY <2>2, <3>1, <3>3
    <2>5. Formed(g, e, ep, dpv, d) \cup {y' + Fp \div 2} \subseteq -IntMax .. IntMax
      BY <2>3, <2>4 DEF Within
    <2> QED
      BY <2>5 DEF g, e, ep, dpv, d
  <1> HIDE DEF Fits
  <1>2. LawInv /\ [Next]_lawVars => [Fits]_lawVars
    BY <1>1
  <1> QED
    BY <1>2, LawInvariant, PTL DEF Spec, NoOverflow, Fits

\* The assumption holds of the code's own numbers: the constants of pid.c, a gain
\* bound of 10^6, the window from -20 to 300 degrees, and INT64_MAX.
THEOREM CodeIsWide ==
    ASSUME MaxPower = 120, Fp = 1000000, PScale = 1000, IScale = 250,
           Q = 65536, Pole = 51045, DNum = 125, DDen = 4096, GainMax = 1000000,
           TempMin = -2000, TempMax = 30000, IntMax = 9223372036854775807
    PROVE  Wide
  BY DEF Wide, MaxU, ErrorMax, SlopeMax
=============================================================================
