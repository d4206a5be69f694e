------------------------- MODULE MCTimeoutScheduler -------------------------
(* TimeoutScheduler for TLC.                                                *)
EXTENDS TimeoutScheduler

\* The bounds leave the cases that matter: a timeout of one run of the counter, one that
\* needs the dummy, and calls only while no expiry wraps (NoWrapWithin's assumption).
ASSUME BoundsAssumption ==
    /\ \E d \in Timeout : d <= RtcMax
    /\ \E d \in Timeout : d > RtcMax
    /\ \A d \in Timeout : MaxTime + RtcMax + d < AbsMod

=============================================================================
