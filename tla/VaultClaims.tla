---------------------------- MODULE VaultClaims -----------------------------
(***************************************************************************)
(* What comments of the Move package say of the vault and its code does    *)
(* not do; the run roll_possible shows a behaviour that contradicts it.    *)
(***************************************************************************)
EXTENDS Vault

\* vault.move:616: "the vault can ALWAYS keep its hedge book alive"; rebalance.move:75:
\* "anyone can call" the roll.  Stated of hedges that are due, on a live oracle,
\* in one manager: its owner can roll them.  The replacement's expiry, a tenor
\* away, is never that of the oracle that is about to expire.
RollPossible ==
    \A u \in Users, o \in Oracles :
        /\ ToRoll # {}
        /\ \A k \in ToRoll : k.oracle = o /\ positions[u][k] >= hedges[k].quantity
        /\ LiveOracle(o, oracles[o], now)
        => \E f \in FairValues, b \in SUBSET ToRoll : ENABLED RollExpiring(u, o, b, f)
=============================================================================
