------------------------------ MODULE MCPidLaw ------------------------------
(***************************************************************************)
(* A control law with an output range of 2 half-cycles of 3 units, two     *)
(* temperature steps and gains that reach both rails, the bound of the     *)
(* integral and that of the filter, with one gain set out of range.        *)
(***************************************************************************)
EXTENDS PidLaw

Gain(kp, ki, kd) == [kp |-> kp, ki |-> ki, kd |-> kd]
MCGains == {Gain(0, 1, 0), Gain(1, 1, 0), Gain(2, 1, 1), Gain(1, 0, 1),
            Gain(1, 2, 2), Gain(-1, 9, 1)}
MCTempMin == -1
MCTemps == {-2, 0, 1}
=============================================================================
