---------------------------- MODULE MCOracleFeed ----------------------------
(* Values of the constants of OracleFeed for TLC: the minute around an expiry. *)
EXTENDS OracleFeed, TLC

Expiry == MsHour
MCTiers == <<"15m", "1h">>
\* Before and inside the safety window, the expiry, and the drain deadline of a window
\* opened first.
MCInstants == {Expiry - 5001, Expiry - 1, Expiry, Expiry + 9999}
=============================================================================
