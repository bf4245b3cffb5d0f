--------------------------- MODULE MCCutoffTiming ---------------------------
(***************************************************************************)
(* A unit is the Watchdog's period of 100 ms.  The timer, the Watchdog and *)
(* their limits are those of the code; Output runs once a unit instead of  *)
(* twelve times and waits ten cycles instead of 120, the same second.      *)
(***************************************************************************)
EXTENDS CutoffTiming

MCStaleLimit == [pid |-> 8, output |-> 2, timer |-> 8]
=============================================================================
