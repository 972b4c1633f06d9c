---------------------------- MODULE PredictMarket ---------------------------
(***************************************************************************)
(* The part of the vendored DeepBook Predict package the vault calls:      *)
(* OracleSVI's life cycle, the checks of predict::mint and predict::redeem *)
(* and the positions a PredictManager holds.                               *)
(*                                                                         *)
(* A MarketKey carries oracle, expiry, strike and direction.  The vault    *)
(* only builds DOWN keys, and a key is accepted only when its expiry is    *)
(* the oracle's (assert_key_matches), so here a key is an oracle and a     *)
(* strike of the grid, and the vault's expiry is compared with ExpiryOf.   *)
(*                                                                         *)
(* Prices are data: what the SVI surface and Predict quote is any value    *)
(* the caller of an action picks, and an abort for want of funds, exposure *)
(* or ask bounds is the action not being taken.                            *)
(***************************************************************************)
EXTENDS MoveMath

CONSTANTS Oracles,        \* OracleSVI objects
          ExpiryOf,       \* each oracle's fixed expiry, in milliseconds
          Grid,           \* the strikes on the oracles' grid
          StalenessMs     \* constants::staleness_threshold_ms (30s)

ASSUME MarketAssumption ==
    /\ IsFiniteSet(Oracles)
    /\ ExpiryOf \in [Oracles -> Nat]
    /\ Grid \subseteq Nat
    /\ IsFiniteSet(Grid)
    /\ StalenessMs \in Nat

MarketKey == [oracle : Oracles, strike : Grid]

Oracle == [active : BOOLEAN, settled : BOOLEAN, timestamp : Nat, forward : Nat]

NewOracle == [active |-> FALSE, settled |-> FALSE, timestamp |-> 0, forward |-> 0]

\* oracle::status: settlement wins over expiry, expiry over inactivity.
Status(o, orc, t) ==
    IF orc.settled THEN "settled"
    ELSE IF t >= ExpiryOf[o] THEN "pending_settlement"
    ELSE IF orc.active THEN "active" ELSE "inactive"

Fresh(orc, t) == t <= orc.timestamp + StalenessMs

\* oracle_config::assert_live_oracle, required by predict::mint.
LiveOracle(o, orc, t) == Status(o, orc, t) = "active" /\ Fresh(orc, t)

\* oracle_config::assert_quoteable_oracle, required by predict::redeem: a settled
\* oracle is always accepted, the gap between expiry and settlement never.
QuoteableOracle(o, orc, t) ==
    Status(o, orc, t) = "settled" \/ LiveOracle(o, orc, t)

\* oracle_config::assert_key_matches for a key built from (oracle, expiry, strike).
KeyMatches(o, expiry, strike) == expiry = ExpiryOf[o] /\ strike \in Grid

\* oracle::activate
ActivateOK(o, orc, t) == ~orc.active /\ t < ExpiryOf[o]

\* oracle::update_prices: at or past expiry the first push settles the oracle.
UpdatePrices(o, orc, forward, t) ==
    IF Status(o, orc, t) = "pending_settlement"
    THEN [orc EXCEPT !.settled = TRUE, !.active = FALSE]
    ELSE [orc EXCEPT !.timestamp = t, !.forward = forward]

\* predict_manager::increase_position and decrease_position on the position of
\* one key; decrease aborts with EInsufficientPosition when the holding is short.
IncreasePosition(pos, k, q) == [pos EXCEPT ![k] = @ + q]

\* Mutant: the whole holding of the key is closed.
DecreasePositionCloses(pos, k, q) == [pos EXCEPT ![k] = 0]

DecreasePosition(pos, k, q) == [pos EXCEPT ![k] = @ - q]
=============================================================================
