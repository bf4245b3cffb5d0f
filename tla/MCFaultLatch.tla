--------------------------- MODULE MCFaultLatch ---------------------------
(***************************************************************************)
(* A small oven: the Watchdog, the shell above it (prj.conf keeps the      *)
(* Watchdog lowest), PID and Output.  One fault bit per kind of raiser.    *)
(***************************************************************************)
EXTENDS FaultLatch

MCPrio == [watchdog |-> 15, shell |-> 14]

\* Output and the Watchdog raise the same staleness bit; PID a sensor bit; the
\* shell may inject any mask at all ("oven fault <hexbits>"), zero included.
MCMasks == [pid |-> {{"sensor"}}, output |-> {{"stale"}}, watchdog |-> {{"stale"}},
            shell |-> SUBSET {"sensor", "stale"}]

MCFaultBits == {"sensor", "stale", "device_init", "restored"}
=============================================================================
