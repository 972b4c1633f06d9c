--------------------------- MODULE MCRateLimiter ----------------------------
(* Values of the constants of BucketGauge for TLC. *)
EXTENDS BucketGauge

CONSTANT MaxCount     \* bound on the observer's two counters

MCAmounts == {0, 1, 2, 4}
MCCapacities == {2, 4}
MCRates == {1, 3}

\* The observer stops counting at MaxCount; the bucket itself is not bounded.
CountBound == window.spent <= MaxCount /\ window.credit <= MaxCount
=============================================================================
