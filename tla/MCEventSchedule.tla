-------------------------- MODULE MCEventSchedule --------------------------
(* EventSchedule on small instances: one player, two links of the sweep chain,
   at most one retiming, the clocks cut at a few units.                      *)
EXTENDS EventSchedule

CONSTANTS r1, w1

\* One trouble at a time: a behaviour is followed past a retiming only when the rate changed,
\* nothing has failed, no task is scheduled and the clock is short of its end, so that the run
\* is the union of two cases and not their product.
OneTrouble ==
    epoch > 1 =>
        /\ rate # InitialRate /\ faults = 0 /\ game < MaxGame
        /\ \A e \in Tasks : view[e].status = "ABSENT" /\ rows[e].status = "ABSENT"
=============================================================================
