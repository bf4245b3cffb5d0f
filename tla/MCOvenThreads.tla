--------------------------- MODULE MCOvenThreads ---------------------------
(***************************************************************************)
(* The staleness limits of the code (120 Output cycles, 2 and 8 Watchdog   *)
(* cycles) scaled down to the smallest values at which a counter can be    *)
(* late without being stale.                                               *)
(***************************************************************************)
EXTENDS OvenThreads

MCStaleLimit == [c \in Counters |-> IF c = "pid" THEN 1 ELSE 0]

MCNoSlack == [c \in Counters |-> 0]
=============================================================================
