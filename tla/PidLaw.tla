------------------------------- MODULE PidLaw -------------------------------
(***************************************************************************)
(* The control law of pid.c: pid_reset and pid_update, one Update per      *)
(* 500 ms cycle, in the code's own integer arithmetic (truncating          *)
(* division, the order of the clamps).  The scale factors are constants,   *)
(* so a small instance keeps the structure of the code's 1e6 and 2^16.     *)
(* Setpoint, measurement, gains and the active flag are any the caller may *)
(* hand over: the shell publishes each gain on its own and unchecked, so   *)
(* any mixture of old and new gains, in range or not, can be read.  The    *)
(* diag record only copies what a cycle computed and is left out.          *)
(***************************************************************************)
EXTENDS Integers

CONSTANTS
    MaxPower,        \* OVEN_HEATER_MAX_POWER
    Fp,              \* PID_FP: internal units per half-cycle
    PScale, IScale,  \* PID_P_SCALE, PID_I_SCALE
    Q, Pole,         \* PID_Q16, PID_D_POLE_Q16
    DNum, DDen,      \* PID_D_NUM, PID_D_DEN
    GainMax,         \* OVEN_PID_GAIN_M_MAX
    IntMax,          \* INT64_MAX
    TempMin, TempMax,\* OVEN_TEMP_VALID_MIN_CC, _MAX_CC
    Gains,           \* the gain sets [kp, ki, kd] the caller may hand over
    Temps            \* the setpoints and measurements it may hand over

ASSUME ScaleAssumption ==
    /\ MaxPower \in Nat /\ Fp \in Nat \ {0} /\ GainMax \in Nat
    /\ PScale \in Nat \ {0} /\ IScale \in Nat \ {0}
    /\ Q \in Nat \ {0} /\ Pole \in 0 .. Q - 1
    /\ DNum \in Nat \ {0} /\ DDen \in Nat \ {0}
ASSUME InputAssumption ==
    /\ TempMin \in Int /\ TempMax \in Int /\ TempMin <= TempMax
    /\ Gains \subseteq [kp : Int, ki : Int, kd : Int]
    /\ Temps \subseteq Int

MaxU == MaxPower * Fp
ErrorMax == TempMax - TempMin
\* The steepest slope of the derivative, before its division.
SlopeMax == GainMax * (Q - Pole) * DNum

\* The width of the accumulators, which the comments of pid_update argue term by
\* term: each product, and the two sums that add terms up.
Wide ==
    /\ IntMax \in Nat
    /\ GainMax * ErrorMax * PScale + 2 * MaxU + GainMax * (2 * ErrorMax) * IScale <= IntMax
    /\ Q * MaxU <= IntMax /\ MaxU + Fp <= IntMax
    /\ SlopeMax <= IntMax /\ SlopeMax * ErrorMax + MaxU <= IntMax
ASSUME WidthAssumption == Wide

VARIABLES
    yi, yd,    \* accumulators of the integral and derivative terms
    y,         \* y_prev_u: the last output, in internal units
    ePrev, pvPrev,
    gPrev,     \* the gains last applied
    primed,    \* the histories hold a sample
    active,    \* active_prev
    seq        \* g_pid_seq modulo 2: every cycle is a step

lawVars == <<yi, yd, y, ePrev, pvPrev, gPrev, primed, active, seq>>

NoGains == [kp |-> 0, ki |-> 0, kd |-> 0]

\* C's division, which truncates toward zero.
Quot(a, b) == IF a >= 0 THEN a \div b ELSE -((-a) \div b)
Clamp(v, lo, hi) == IF v < lo THEN lo ELSE IF v > hi THEN hi ELSE v

\* validate_gain, validate_temp
ValidGains(g) == [k \in {"kp", "ki", "kd"} |-> Clamp(g[k], 0, GainMax)]
ValidTemp(t) == Clamp(t, TempMin, TempMax)

Proportional(g, e) == g.kp * e * PScale
Slope(g) == Quot(g.kd * (Q - Pole) * DNum, DDen)
\* Mutants of Filtered: the quotient rounds down instead of toward zero; the
\* accumulator is not bounded.
FilteredFloor(g, dpv) == Clamp(((Pole * yd) \div Q) - Slope(g) * dpv, -MaxU, MaxU)
FilteredFree(g, dpv) == Quot(Pole * yd, Q) - Slope(g) * dpv
\* The derivative of the measurement, through its filter, bounded.
Filtered(g, dpv) == Clamp(Quot(Pole * yd, Q) - Slope(g) * dpv, -MaxU, MaxU)
Increment(g, e, ep) == g.ki * (e + ep) * IScale

\* Mutant of ErrorBefore: the rectangle rule.
ErrorNow(e) == e
\* e[k-1]; the first cycle seeds the history with its own values.
ErrorBefore(e) == IF primed THEN ePrev ELSE e

\* Mutants of Carried: a retune that forgets the derivative term; no special
\* case for Ki = 0.
CarriedNoD(g, yp, d) ==
    IF g.ki = 0 \/ ~active THEN 0
    ELSE IF g # gPrev THEN y - yp ELSE yi
CarriedBias(g, yp, d) ==
    IF ~active THEN 0 ELSE IF g # gPrev THEN y - yp - d ELSE yi
\* The integral carried into an active cycle: none after an inactive one or
\* with Ki = 0; reconciled with the last output after a change of gains.
Carried(g, yp, d) ==
    IF g.ki = 0 \/ ~active THEN 0
    ELSE IF g # gPrev THEN y - yp - d
    ELSE yi

\* Mutant of Pinned: the integral pinned as if the derivative were not there.
PinnedNoD(i, yp, d) ==
    IF yp + i + d > MaxU THEN [yi |-> MaxU - yp, y |-> MaxU]
    ELSE IF yp + i + d < 0 THEN [yi |-> -yp, y |-> 0]
    ELSE [yi |-> i, y |-> yp + i + d]
\* Anti-windup: past a rail, the integral that holds the output at the rail.
Pinned(i, yp, d) ==
    IF yp + i + d > MaxU THEN [yi |-> MaxU - yp - d, y |-> MaxU]
    ELSE IF yp + i + d < 0 THEN [yi |-> -yp - d, y |-> 0]
    ELSE [yi |-> i, y |-> yp + i + d]

\* Mutant of Bounded: the second-line bound is missing.
BoundedNot(i) == i
\* The second-line bound on the integral.
Bounded(i) == Clamp(i, -MaxU, MaxU)

\* The command handed out: whole half-cycles, rounded to nearest.
Power(u) == (u + Fp \div 2) \div Fp

\* Every value pid_update forms on its way to yd, the integral and the output,
\* from gains g, errors e and ep, change dpv and new derivative term d.
Formed(g, e, ep, dpv, d) ==
    LET yp == Proportional(g, e)
        i == Carried(g, yp, d) + Increment(g, e, ep)
    IN  {g.kp * e, yp,
         g.kd * (Q - Pole), g.kd * (Q - Pole) * DNum, Pole * yd,
         Slope(g) * dpv, Quot(Pole * yd, Q) - Slope(g) * dpv,
         y - yp, y - yp - d, g.ki * (e + ep), Increment(g, e, ep), i,
         yp + i, yp + i + d, MaxU - yp, MaxU - yp - d, -yp, -yp - d}

-----------------------------------------------------------------------------
\* pid_reset, at boot.
Init == /\ yi = 0 /\ yd = 0 /\ y = 0
        /\ ePrev = 0 /\ pvPrev = 0 /\ gPrev = NoGains
        /\ primed = FALSE /\ active = FALSE
        /\ seq = 0

Update(raw, setpoint, measured, act) ==
    LET g == ValidGains(raw)
        pv == ValidTemp(measured)
        e == ValidTemp(setpoint) - pv
        yp == Proportional(g, e)
        d == Filtered(g, IF primed THEN pv - pvPrev ELSE 0)
        i == Carried(g, yp, d) + Increment(g, e, ErrorBefore(e))
        pin == Pinned(i, yp, d)
    IN  /\ yd' = d
        /\ yi' = IF act THEN Bounded(pin.yi) ELSE yi
        /\ y' = IF act THEN pin.y ELSE 0
        /\ ePrev' = e /\ pvPrev' = pv /\ gPrev' = g
        /\ primed' = TRUE /\ active' = act
        /\ seq' = 1 - seq

Next == \E raw \in Gains, setpoint \in Temps, measured \in Temps, act \in BOOLEAN :
            Update(raw, setpoint, measured, act)

Spec == Init /\ [][Next]_lawVars

-----------------------------------------------------------------------------
(* Properties.  After a cycle, gPrev, ePrev and pvPrev are what it used.    *)

GainSets == [{"kp", "ki", "kd"} -> 0 .. GainMax]

\* Every variable has the values the code can give it: the accumulators stay
\* within the output range and its mirror, the output within its rails
\* (the __ASSERTs of pid_update).
TypeOK ==
    /\ yi \in -MaxU .. MaxU /\ yd \in -MaxU .. MaxU
    /\ y \in 0 .. MaxU /\ Power(y) \in 0 .. MaxPower
    /\ ePrev \in -ErrorMax .. ErrorMax
    /\ primed => pvPrev \in TempMin .. TempMax
    /\ gPrev \in GainSets
    /\ primed \in BOOLEAN /\ active \in BOOLEAN /\ seq \in {0, 1}

\* The integral is always the one that explains the last output, at the rails
\* too, so the controller leaves a rail without lag; only its own bound can keep
\* it from that (pid.c, anti-windup).
OutputExplained == active => yi = Bounded(y - Proportional(gPrev, ePrev) - yd)

Kept == /\ active /\ active' /\ gPrev' = gPrev /\ gPrev.ki # 0
        /\ y = Proportional(gPrev, ePrev) + yi + yd
NewIncrement == Increment(gPrev', ePrev', ePrev)
NewProportional == Proportional(gPrev', ePrev')

\* Away from that bound pid_update is the velocity form of the control law: the
\* output moves by the changes of the three terms, and stops at the rails.
VelocityForm ==
    [][Kept => y' = Clamp(y + (NewProportional - Proportional(gPrev, ePrev))
                            + (yd' - yd) + NewIncrement, 0, MaxU)]_lawVars

\* A change of gains while active, in any mixture of old and new values, makes
\* the output jump by no more than one integral increment under the new gains.
BumplessRetune ==
    [][active /\ active' /\ gPrev' # gPrev /\ gPrev'.ki # 0
         => y' = Clamp(y + NewIncrement, 0, MaxU)]_lawVars

\* Nothing of an earlier active period survives into an arming but the filter,
\* which went on tracking: the first output is that of a fresh integral.
CleanArming ==
    [][~active /\ active' /\ primed /\ gPrev'.ki # 0
         => y' = Clamp(NewProportional + yd' + NewIncrement, 0, MaxU)]_lawVars

\* With Ki = 0 no residue of a retune or of an earlier Ki biases the output.
NoHiddenBias ==
    [][active' /\ gPrev'.ki = 0 => y' = Clamp(NewProportional + yd', 0, MaxU)]_lawVars

Size(v) == IF v < 0 THEN -v ELSE v

\* A steady measurement empties the derivative filter: no remainder sticks at
\* -1 for ever (truncating division).
DerivativeDecays ==
    [][primed /\ pvPrev' = pvPrev /\ yd # 0 => Size(yd') < Size(yd)]_lawVars

\* No step of the arithmetic leaves 64 bits, rounding for the command included,
\* whatever the gains and measurements handed over (the bounds argued in the
\* comments of pid_update).
NoOverflow ==
    [][Formed(gPrev', ePrev', IF primed THEN ePrev ELSE ePrev',
              IF primed THEN pvPrev' - pvPrev ELSE 0, yd') \cup {y' + Fp \div 2}
         \subseteq -IntMax .. IntMax]_lawVars
=============================================================================
