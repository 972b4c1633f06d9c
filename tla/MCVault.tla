------------------------------ MODULE MCVault -------------------------------
(***************************************************************************)
(* Values for the constants of Vault.  Quote amounts, scales and times are *)
(* scaled down so that every rounding and every boundary is reached:       *)
(* basis points are quarters, the NAV has two fractional bits, and a clock *)
(* unit stands for the cooldown's granularity.                             *)
(***************************************************************************)
EXTENDS VaultClaims, TLC

CONSTANTS alice, bob, o1, o2

MCUsers == {alice, bob}
MCDefaults == [capacity |-> 3, refill_rate |-> 1, alloc_bps |-> 1,
               strike_otm_bps |-> 1, tenor |-> 3, max_staleness |-> 1]

NoTuning == [p \in Params |-> {}]
None == {}

\* An activated oracle that has published a forward price at time zero.
Priced(forward) == [active |-> TRUE, settled |-> FALSE, timestamp |-> 0,
                    forward |-> forward]

-----------------------------------------------------------------------------
(* Exits: two oracles one unit apart give two instants at which supply can     *)
(* match an expiry; prices do not move or go stale; whole and partial requests.*)
ExitOracles == {o1, o2}
ExitExpiry == o1 :> 3 @@ o2 :> 4
ExitInitialOracles == [o \in ExitOracles |-> Priced(4)]
ExitGrid == {3}
ExitDeposits == {4}
ExitRequests == {2, 3}
ExitTransfers == {3}
ExitFair == {2}
ExitTuning == [NoTuning EXCEPT !["capacity"] = {1}]

-----------------------------------------------------------------------------
(* Hedges: the admin can shorten the tenor below the roll trigger, which is    *)
(* what makes a roll on the expiring oracle possible; two forwards give two    *)
(* strikes, so rows are added, consolidated, rolled together and unwound.      *)
HedgeOracles == {o1}
HedgeExpiry == o1 :> 4
HedgeInitialOracles == o1 :> Priced(4)
HedgeDefaults == [MCDefaults EXCEPT !["tenor"] = 4]
HedgeGrid == {3, 6}
HedgeForwards == {4, 8}
HedgeFair == {1, 2}
HedgeTuning == [NoTuning EXCEPT !["tenor"] = {2}, !["max_staleness"] = {2}]

-----------------------------------------------------------------------------
(* Market: o2 still has to be activated and priced, and settles within the     *)
(* bound on the clock; managers' owners trade the vault's keys directly.       *)
MarketExpiry == o1 :> 4 @@ o2 :> 2
MarketInitialOracles == o1 :> Priced(4) @@ o2 :> NewOracle
MarketForwards == {4}
MarketTuning == [NoTuning EXCEPT !["tenor"] = {2}]
MarketTrades == {3}
=============================================================================
