----------------------------- MODULE OvenState -----------------------------
(***************************************************************************)
(* What the safe-state latch promises the rest of the firmware, within one *)
(* power session of the CPU: an operating mode and whether the fault word  *)
(* is nonzero.  A trip is irrevocable until a reset; once it is latched    *)
(* the mode is FAULTED; and the oven leaves INIT or becomes ARMED only     *)
(* while nothing has tripped.  FaultLatch (the code of shared.c, fault.c,  *)
(* oven_state.c and main.c, step by step) implements this, and so does     *)
(* OvenThreads, which composes the running threads over it.                *)
(***************************************************************************)

VARIABLES
    mode,       \* the system state machine's state (oven_state.c: s_state)
    tripped     \* TRUE iff the fault word is nonzero (shared.c: g_fault_word)

ovenVars == <<mode, tripped>>

Modes == {"INIT", "DISARMED", "ARMED", "FAULTED"}

Init == mode = "INIT" /\ tripped = FALSE

\* Boot leaves INIT only when no fault was restored or found on the way up.
BootOk == /\ mode = "INIT" /\ ~tripped
          /\ mode' = "DISARMED"
          /\ UNCHANGED tripped

\* The heater can be armed only by request, from DISARMED, with no fault.
Arm == /\ mode = "DISARMED" /\ ~tripped
       /\ mode' = "ARMED"
       /\ UNCHANGED tripped

Disarm == /\ mode = "ARMED"
          /\ mode' = "DISARMED"
          /\ UNCHANGED tripped

\* A detector sets bits of the fault word; the mode follows in the same step
\* (a cooperative thread) or in a later one (a preemptible thread).
Trip == /\ ~tripped /\ tripped' = TRUE
        /\ mode' \in {mode, "FAULTED"}

Latch == /\ tripped
         /\ mode' = "FAULTED"
         /\ UNCHANGED tripped

\* A reset of the CPU: RAM atomics go back to their initial values.
Reset == mode' = "INIT" /\ tripped' = FALSE

Next == BootOk \/ Arm \/ Disarm \/ Trip \/ Latch \/ Reset

Spec == Init /\ [][Next]_ovenVars
=============================================================================
