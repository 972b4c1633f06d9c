---------------------------- MODULE VaultProofs -----------------------------
(***************************************************************************)
(* Proofs about Vault, for every set of users and oracles, every width of  *)
(* u64, every seed, scale and tunable, and a clock without bound.          *)
(*                                                                         *)
(* Types, BookBalanced, SharesBacked and RegistryIndexed are inductive     *)
(* only together: a wallet fits a u64 because it is part of total_shares   *)
(* (SharesBacked), a hedge's cost basis and the balance because they are   *)
(* part of total_assets (BookBalanced), and a roll keeps the books         *)
(* balanced only if the row it inserts replaces nothing, which needs the   *)
(* index to list every row (RegistryIndexed).                              *)
(*                                                                         *)
(* The second part is about VaultClients, for every wallet, amount, number *)
(* of runs and of attempts: on top of the vault's invariant, what a run    *)
(* has been paid at each of its steps and what its trace says so far.      *)
(*                                                                         *)
(* The third is about VaultEvents, for a ring of any length: which rows a  *)
(* table folded from any end of the log can have, and their sum.           *)
(*                                                                         *)
(* The last shows that Vault implements ShareLedger.                       *)
(***************************************************************************)
EXTENDS VaultClients, VaultEvents, HelperProofs

-----------------------------------------------------------------------------
\* u64 values are natural.
LEMMA U64Natural == ASSUME NEW S, NEW f, \A x \in S : f[x] \in U64 PROVE NatValued(f, S)
  BY U64MaxAssumption DEF NatValued, U64

LEMMA U64Nat == U64 \subseteq Nat
  BY U64MaxAssumption DEF U64

-----------------------------------------------------------------------------
(* Tables, keys and arithmetic.                                              *)

\* table::add extends the domain by its key.
LEMMA TableAddType ==
    ASSUME NEW t, NEW k, NEW v, NEW V, t \in [DOMAIN t -> V], v \in V
    PROVE  /\ DOMAIN TableAdd(t, k, v) = DOMAIN t \cup {k}
           /\ TableAdd(t, k, v) \in [DOMAIN t \cup {k} -> V]
           /\ TableAdd(t, k, v)[k] = v
           /\ \A x \in DOMAIN t \ {k} : TableAdd(t, k, v)[x] = t[x]
  BY DEF TableAdd

\* table::remove shrinks the domain by its key.
LEMMA TableRemoveType ==
    ASSUME NEW t, NEW k, NEW V, t \in [DOMAIN t -> V]
    PROVE  /\ DOMAIN TableRemove(t, k) = DOMAIN t \ {k}
           /\ TableRemove(t, k) \in [DOMAIN t \ {k} -> V]
           /\ \A x \in DOMAIN t \ {k} : TableRemove(t, k)[x] = t[x]
  BY DEF TableRemove

\* Oracles and strikes are finite, so the keys are.
LEMMA KeysFinite == IsFiniteSet(MarketKey)
  <1> DEFINE P == Oracles \X Grid
             h == [p \in P |-> [oracle |-> p[1], strike |-> p[2]]]
  <1>1. IsFiniteSet(P)
    BY MarketAssumption, FS_Product
  <1>2. h \in [P -> MarketKey]
    BY DEF MarketKey
  <1>3. ASSUME NEW k \in MarketKey PROVE \E p \in P : h[p] = k
    <2>1. <<k.oracle, k.strike>> \in P
      BY DEF MarketKey
    <2>2. h[<<k.oracle, k.strike>>] = k
      BY <2>1 DEF MarketKey
    <2> QED
      BY <2>1, <2>2
  <1>4. h \in Surjection(P, MarketKey)
    BY <1>2, <1>3 DEF Surjection
  <1> QED
    BY <1>1, <1>4, FS_Surjection

-----------------------------------------------------------------------------
(* The invariant and what follows from it.                                   *)

IInv == TypeOK /\ BookBalanced /\ SharesBacked /\ RegistryIndexed

\* The derived functions have u64 values.
LEMMA DerivedTypes ==
    ASSUME TypeOK
    PROVE  /\ \A u \in Users : EscrowOf[u] \in U64 /\ wallet[u] \in U64
           /\ \A k \in MarketKey : CostOf[k] \in U64
           /\ SumOver(Users, wallet) \in Nat /\ SumOver(Users, EscrowOf) \in Nat
           /\ SumOver(MarketKey, CostOf) \in Nat
  <1>1. 0 \in U64
    BY U64MaxAssumption DEF U64
  <1>2. \A u \in Users : EscrowOf[u] \in U64 /\ wallet[u] \in U64
    BY <1>1 DEF TypeOK, EscrowOf, Slot
  <1>3. \A k \in MarketKey : CostOf[k] \in U64
    BY <1>1 DEF TypeOK, CostOf, HedgeRow
  <1>4. SumOver(Users, wallet) \in Nat /\ SumOver(Users, EscrowOf) \in Nat
    BY U64Natural, U64Nat, <1>2, SumType, VaultAssumption
  <1>5. SumOver(MarketKey, CostOf) \in Nat
    BY U64Natural, U64Nat, <1>3, SumType, KeysFinite
  <1> QED
    BY <1>2, <1>3, <1>4, <1>5

\* A change of one user's wallet changes SumOver(Users, wallet) by as much.
LEMMA WalletUpdate ==
    ASSUME TypeOK, NEW u \in Users, NEW v \in U64
    PROVE  LET w == [wallet EXCEPT ![u] = v]
           IN  /\ w \in [Users -> U64]
               /\ SumOver(Users, w) = SumOver(Users, wallet) - wallet[u] + v
               /\ wallet[u] <= SumOver(Users, wallet)
  <1> DEFINE w == [wallet EXCEPT ![u] = v]
  <1>1. wallet \in [Users -> U64] /\ w \in [Users -> U64]
    BY DEF TypeOK
  <1>2. w[u] = v /\ \A y \in Users \ {u} : w[y] = wallet[y]
    BY <1>1
  <1>3. SumOver(Users, w) = SumOver(Users, wallet) - wallet[u] + w[u]
          /\ wallet[u] <= SumOver(Users, wallet)
    <2> HIDE DEF w
    <2> QED
      BY U64Natural, U64Nat, <1>1, <1>2, SumUpdate, VaultAssumption
  <1> QED
    BY <1>1, <1>2, <1>3

\* A change of one user's slot changes the escrowed total by as much.
LEMMA EscrowUpdate ==
    ASSUME TypeOK, NEW u \in Users,
           DOMAIN slots' \subseteq Users, slots' \in [DOMAIN slots' -> Slot],
           DOMAIN slots' \ {u} = DOMAIN slots \ {u},
           \A y \in DOMAIN slots \ {u} : slots'[y] = slots[y]
    PROVE  /\ SumOver(Users, EscrowOf)' = SumOver(Users, EscrowOf) - EscrowOf[u] + EscrowOf'[u]
           /\ EscrowOf[u] <= SumOver(Users, EscrowOf)
           /\ EscrowOf[u] \in U64 /\ EscrowOf'[u] \in U64
  <1>1. \A y \in Users : EscrowOf[y] \in U64
    BY DerivedTypes
  <1>2. \A y \in Users : EscrowOf'[y] \in U64
    BY U64MaxAssumption DEF EscrowOf, Slot, U64
  <1>3. \A y \in Users \ {u} : EscrowOf'[y] = EscrowOf[y]
    BY DEF EscrowOf
  <1> QED
    BY U64Natural, U64Nat, <1>1, <1>2, <1>3, SumUpdate, VaultAssumption

\* A change of one row changes the total cost basis by as much.
LEMMA CostUpdate ==
    ASSUME TypeOK, NEW k \in MarketKey,
           DOMAIN hedges' \subseteq MarketKey, hedges' \in [DOMAIN hedges' -> HedgeRow],
           DOMAIN hedges' \ {k} = DOMAIN hedges \ {k},
           \A y \in DOMAIN hedges \ {k} : hedges'[y] = hedges[y]
    PROVE  /\ SumOver(MarketKey, CostOf)' = SumOver(MarketKey, CostOf) - CostOf[k] + CostOf'[k]
           /\ CostOf[k] <= SumOver(MarketKey, CostOf)
           /\ CostOf[k] \in U64 /\ CostOf'[k] \in U64
  <1>1. \A y \in MarketKey : CostOf[y] \in U64
    BY DerivedTypes
  <1>2. \A y \in MarketKey : CostOf'[y] \in U64
    BY U64MaxAssumption DEF CostOf, HedgeRow, U64
  <1>3. \A y \in MarketKey \ {k} : CostOf'[y] = CostOf[y]
    BY DEF CostOf
  <1> QED
    BY U64Natural, U64Nat, <1>1, <1>2, <1>3, SumUpdate, KeysFinite

\* The books bound every part of them.
LEMMA Bounds ==
    ASSUME IInv
    PROVE  /\ balance + SumOver(MarketKey, CostOf) <= total_assets
           /\ SumOver(Users, wallet) + SumOver(Users, EscrowOf) <= total_shares
           /\ balance \in Nat /\ total_assets \in Nat /\ total_shares \in Nat
           /\ total_assets <= U64Max /\ total_shares <= U64Max
           /\ total_shares > 0
           /\ \A k \in MarketKey : hedge_keys[k] \in U64
  <1>1. /\ balance \in Nat /\ total_assets \in Nat /\ total_shares \in Nat
        /\ total_assets <= U64Max /\ total_shares <= U64Max /\ unwound \in Nat
    BY U64MaxAssumption DEF IInv, TypeOK, U64
  <1>2. VirtualShares \in Nat /\ VirtualShares > 0
    BY VaultAssumption, U64MaxAssumption DEF U64
  <1>3. \A k \in MarketKey : hedge_keys[k] \in U64
    BY U64MaxAssumption DEF IInv, RegistryIndexed, U64
  <1> QED
    BY <1>1, <1>2, <1>3, DerivedTypes DEF IInv, BookBalanced, SharesBacked

\* The tunables in force are u64 values.
LEMMA EffectiveType ==
    ASSUME TypeOK, NEW key \in Params
    PROVE  Effective(key) \in U64
  BY VaultAssumption DEF TypeOK, Effective

-----------------------------------------------------------------------------
(* Steps that leave the ledger, the book and the exits alone.                *)

\* Such a step preserves the invariant if what it does change keeps its type.
LEMMA FrameInv ==
    ASSUME IInv, UNCHANGED <<ledger, book, exits>>,
           now' \in Nat, paused' \in BOOLEAN, escrow_balance' \in U64,
           tunables' \in [Params -> U64], oracles' \in [Oracles -> Oracle]
    PROVE  IInv'
  <1>1. /\ UNCHANGED <<balance, total_assets, total_shares, hedges, hedge_keys>>
        /\ UNCHANGED <<positions, unwound, slots, limiters, wallet>>
    BY DEF ledger, book, exits
  <1>2. TypeOK'
    BY <1>1 DEF IInv, TypeOK
  <1>3. BookBalanced' /\ SharesBacked' /\ RegistryIndexed'
    BY <1>1 DEF IInv, BookBalanced, SharesBacked, RegistryIndexed, CostOf, EscrowOf
  <1> QED
    BY <1>2, <1>3 DEF IInv

\* Such a step that only moves positions.
LEMMA PositionsInv ==
    ASSUME IInv, UNCHANGED <<now, paused, escrow_balance, tunables, oracles, ledger, exits,
                             hedges, hedge_keys, unwound>>,
           positions' \in [Users -> [MarketKey -> U64]]
    PROVE  IInv'
  <1>1. /\ UNCHANGED <<balance, total_assets, total_shares, slots, limiters, wallet>>
        /\ UNCHANGED <<hedges, hedge_keys, unwound, now, paused>>
        /\ UNCHANGED <<escrow_balance, tunables, oracles>>
    BY DEF ledger, exits
  <1>2. TypeOK'
    BY <1>1 DEF IInv, TypeOK
  <1>3. BookBalanced' /\ SharesBacked' /\ RegistryIndexed'
    BY <1>1 DEF IInv, BookBalanced, SharesBacked, RegistryIndexed, CostOf, EscrowOf
  <1> QED
    BY <1>2, <1>3 DEF IInv

\* The clock.
LEMMA TickInv == ASSUME IInv, Tick PROVE IInv'
  BY FrameInv DEF Tick, IInv, TypeOK

\* admin_pause, admin_tune_strategy and admin_oracle_staleness_override.
LEMMA AdminPauseInv == ASSUME IInv, NEW p \in BOOLEAN, AdminPause(p) PROVE IInv'
  BY FrameInv DEF AdminPause, IInv, TypeOK

\* admin_tune_strategy changes one tunable to a u64 value.
LEMMA AdminTuneInv ==
    ASSUME IInv, NEW key \in TuneKeys, NEW v \in TuneValues[key], AdminTuneStrategy(key, v)
    PROVE  IInv'
  <1>1. v \in U64 /\ key \in Params
    BY VaultAssumption DEF Params
  <1>2. tunables' \in [Params -> U64]
    BY <1>1 DEF AdminTuneStrategy, IInv, TypeOK
  <1> QED
    BY <1>2, FrameInv DEF AdminTuneStrategy, IInv, TypeOK

\* admin_oracle_staleness_override changes the display-only tunable.
LEMMA StalenessInv ==
    ASSUME IInv, NEW v \in TuneValues["max_staleness"], AdminOracleStalenessOverride(v)
    PROVE  IInv'
  <1>1. v \in U64
    BY VaultAssumption DEF Params
  <1>2. tunables' \in [Params -> U64]
    BY <1>1 DEF AdminOracleStalenessOverride, IInv, TypeOK
  <1> QED
    BY <1>2, FrameInv DEF AdminOracleStalenessOverride, IInv, TypeOK

\* The oracle's operators.
LEMMA ActivateInv == ASSUME IInv, NEW o \in Oracles, OracleActivate(o) PROVE IInv'
  <1>1. oracles' \in [Oracles -> Oracle]
    BY DEF OracleActivate, IInv, TypeOK, Oracle
  <1> QED
    BY <1>1, FrameInv DEF OracleActivate, IInv, TypeOK

\* update_prices, before expiry and as the settling push, keeps the oracle's type.
LEMMA UpdatePricesInv ==
    ASSUME IInv, NEW o \in Oracles, NEW f \in Forwards, OracleUpdatePrices(o, f)
    PROVE  IInv'
  <1> DEFINE new == UpdatePrices(o, oracles[o], f, now)
  <1>1. f \in Nat /\ now \in Nat /\ oracles[o] \in Oracle
    BY VaultAssumption DEF IInv, TypeOK
  <1>2. new \in Oracle
    BY <1>1 DEF UpdatePrices, Oracle
  <1>3. oracles' = [oracles EXCEPT ![o] = new]
    BY DEF OracleUpdatePrices
  <1> HIDE DEF new
  <1>4. oracles' \in [Oracles -> Oracle]
    BY <1>2, <1>3 DEF IInv, TypeOK
  <1> QED
    BY <1>4, FrameInv DEF OracleUpdatePrices, IInv, TypeOK

\* Direct trades by a manager's owner.
LEMMA PredictMintInv ==
    ASSUME IInv, NEW u \in Users, NEW k \in MarketKey, NEW q \in TradeQuantities,
           PredictMint(u, k, q)
    PROVE  IInv'
  <1>1. positions' = [positions EXCEPT ![u] = IncreasePosition(positions[u], k, q)]
    BY DEF PredictMint
  <1>2. IncreasePosition(positions[u], k, q) \in [MarketKey -> U64]
    BY DEF PredictMint, IncreasePosition, IInv, TypeOK
  <1>3. positions' \in [Users -> [MarketKey -> U64]]
    BY <1>1, <1>2 DEF IInv, TypeOK
  <1> QED
    BY <1>3, PositionsInv DEF PredictMint

\* A direct redeem lowers a position by no more than is held.
LEMMA PredictRedeemInv ==
    ASSUME IInv, NEW u \in Users, NEW k \in MarketKey, NEW q \in TradeQuantities,
           PredictRedeem(u, k, q)
    PROVE  IInv'
  <1>1. positions' = [positions EXCEPT ![u] = DecreasePosition(positions[u], k, q)]
    BY DEF PredictRedeem
  <1>2. q \in Nat /\ positions[u][k] >= q /\ positions[u] \in [MarketKey -> U64]
    BY VaultAssumption DEF PredictRedeem, IInv, TypeOK
  <1>3. positions[u][k] - q \in U64
    BY <1>2, U64MaxAssumption DEF U64
  <1>4. DecreasePosition(positions[u], k, q) \in [MarketKey -> U64]
    BY <1>2, <1>3 DEF DecreasePosition
  <1>5. positions' \in [Users -> [MarketKey -> U64]]
    BY <1>1, <1>4 DEF IInv, TypeOK
  <1> QED
    BY <1>5, PositionsInv DEF PredictRedeem

-----------------------------------------------------------------------------
(* The redemption path.                                                      *)

\* Shares that move between a user's wallet, slot and the burn, with the cached
\* supply moving by the burn, preserve the invariant.
LEMMA ExitInv ==
    ASSUME IInv, NEW u \in Users, NEW w \in U64,
           UNCHANGED <<now, paused, escrow_balance, tunables, oracles, book>>,
           DOMAIN slots' \subseteq Users, slots' \in [DOMAIN slots' -> Slot],
           DOMAIN slots' \ {u} = DOMAIN slots \ {u},
           \A y \in DOMAIN slots \ {u} : slots'[y] = slots[y],
           DOMAIN limiters' \subseteq Users, limiters' \in [DOMAIN limiters' -> Bucket],
           wallet' = [wallet EXCEPT ![u] = w],
           balance' \in U64, total_assets' \in U64, total_shares' \in U64,
           total_assets' - balance' = total_assets - balance,
           total_shares' = total_shares - wallet[u] - EscrowOf[u] + w + EscrowOf'[u]
    PROVE  IInv'
  <1>1. /\ UNCHANGED <<hedges, hedge_keys, positions, unwound, now, paused>>
        /\ UNCHANGED <<escrow_balance, tunables, oracles>>
    BY DEF book
  <1>2. wallet' \in [Users -> U64]
    BY DEF IInv, TypeOK
  <1>3. TypeOK'
    BY <1>1, <1>2 DEF IInv, TypeOK
  <1>4. SumOver(MarketKey, CostOf)' = SumOver(MarketKey, CostOf)
    BY <1>1 DEF CostOf
  <1>5. BookBalanced'
    <2>1. /\ balance \in Nat /\ balance' \in Nat /\ total_assets \in Nat /\ total_assets' \in Nat
          /\ unwound \in Nat /\ SumOver(MarketKey, CostOf) \in Nat
      BY U64MaxAssumption, DerivedTypes DEF IInv, TypeOK, U64
    <2> QED
      BY <1>1, <1>4, <2>1 DEF IInv, BookBalanced
  <1>6. RegistryIndexed'
    BY <1>1 DEF IInv, RegistryIndexed
  <1>7. SharesBacked'
    <2>1. SumOver(Users, wallet)' = SumOver(Users, wallet) - wallet[u] + w
      BY WalletUpdate DEF IInv
    <2>2. /\ SumOver(Users, EscrowOf)' = SumOver(Users, EscrowOf) - EscrowOf[u] + EscrowOf'[u]
          /\ EscrowOf[u] \in U64 /\ EscrowOf'[u] \in U64
      BY EscrowUpdate DEF IInv
    <2>3. /\ SumOver(Users, wallet) \in Nat /\ SumOver(Users, EscrowOf) \in Nat
          /\ wallet[u] \in U64
      BY DerivedTypes DEF IInv
    <2>4. VirtualShares \in Nat /\ total_shares \in Nat /\ total_shares' \in Nat
      BY VaultAssumption, U64MaxAssumption DEF IInv, TypeOK, U64
    <2>5. total_shares = VirtualShares + SumOver(Users, wallet) + SumOver(Users, EscrowOf)
      BY DEF IInv, SharesBacked
    <2>6. total_shares' = VirtualShares + SumOver(Users, wallet)' + SumOver(Users, EscrowOf)'
      BY <2>1, <2>2, <2>3, <2>4, <2>5, U64MaxAssumption DEF U64
    <2> QED
      BY <2>6 DEF SharesBacked
  <1> QED
    BY <1>3, <1>5, <1>6, <1>7 DEF IInv

\* redeem_request moves shares from the wallet into a new slot.
LEMMA RedeemRequestInv ==
    ASSUME IInv, NEW u \in Users, NEW n \in Nat, RedeemRequest(u, n)
    PROVE  IInv'
  <1> DEFINE slot == [shares |-> n, timestamp_ms |-> now, claimed_so_far |-> 0]
  <1>1. n \in U64 /\ n <= wallet[u] /\ wallet[u] \in U64 /\ u \notin DOMAIN slots
    BY U64MaxAssumption DEF RedeemRequest, IInv, TypeOK, U64
  <1>2. slot \in Slot
    BY <1>1, U64MaxAssumption DEF Slot, IInv, TypeOK, U64
  <1>3. slots' = TableAdd(slots, u, slot) /\ slots \in [DOMAIN slots -> Slot]
        /\ DOMAIN slots \subseteq Users
    BY DEF RedeemRequest, IInv, TypeOK
  <1>4. /\ DOMAIN slots' = DOMAIN slots \cup {u} /\ slots' \in [DOMAIN slots' -> Slot]
        /\ slots'[u] = slot /\ \A y \in DOMAIN slots \ {u} : slots'[y] = slots[y]
    <2> HIDE DEF slot
    <2>1. /\ DOMAIN TableAdd(slots, u, slot) = DOMAIN slots \cup {u}
          /\ TableAdd(slots, u, slot) \in [DOMAIN slots \cup {u} -> Slot]
          /\ TableAdd(slots, u, slot)[u] = slot
          /\ \A y \in DOMAIN slots \ {u} : TableAdd(slots, u, slot)[y] = slots[y]
      <3>1. slot \in Slot /\ slots \in [DOMAIN slots -> Slot]
        BY <1>2, <1>3
      <3> QED
        BY <3>1 DEF TableAdd
    <2> QED
      BY <1>3, <2>1, Zenon
  <1>5. EscrowOf[u] = 0 /\ EscrowOf'[u] = n
    BY <1>1, <1>4 DEF EscrowOf
  <1>6. wallet[u] - n \in U64 /\ wallet' = [wallet EXCEPT ![u] = wallet[u] - n]
    BY <1>1, U64MaxAssumption DEF RedeemRequest, U64
  <1>7. /\ UNCHANGED <<now, paused, escrow_balance, tunables, oracles, book>>
        /\ UNCHANGED <<balance, total_assets, total_shares, limiters>>
    BY DEF RedeemRequest, ledger
  <1>8. /\ balance' \in U64 /\ total_assets' \in U64 /\ total_shares' \in U64
        /\ DOMAIN limiters' \subseteq Users /\ limiters' \in [DOMAIN limiters' -> Bucket]
    BY <1>7 DEF IInv, TypeOK
  <1>9. /\ total_assets' - balance' = total_assets - balance
        /\ total_shares' = total_shares - wallet[u] - EscrowOf[u] + (wallet[u] - n) + EscrowOf'[u]
    BY <1>1, <1>5, <1>7, U64MaxAssumption DEF IInv, TypeOK, U64
  <1> QED
    BY <1>3, <1>4, <1>6, <1>7, <1>8, <1>9, ExitInv

\* redeem_cancel moves a slot's shares back; they fit the wallet because both are
\* part of the supply.
LEMMA RedeemCancelInv == ASSUME IInv, NEW u \in Users, RedeemCancel(u) PROVE IInv'
  <1>1. slots' = TableRemove(slots, u) /\ slots \in [DOMAIN slots -> Slot]
        /\ DOMAIN slots \subseteq Users /\ u \in DOMAIN slots
    BY DEF RedeemCancel, IInv, TypeOK
  <1>2. /\ DOMAIN slots' = DOMAIN slots \ {u} /\ slots' \in [DOMAIN slots' -> Slot]
        /\ \A y \in DOMAIN slots \ {u} : slots'[y] = slots[y]
    BY <1>1, TableRemoveType
  <1>3. EscrowOf[u] = slots[u].shares /\ EscrowOf'[u] = 0
    BY <1>1, <1>2 DEF EscrowOf
  <1>4. /\ EscrowOf[u] \in U64 /\ EscrowOf[u] <= SumOver(Users, EscrowOf)
    BY <1>1, <1>2, EscrowUpdate DEF IInv
  <1>5. wallet[u] \in U64 /\ wallet[u] <= SumOver(Users, wallet)
    BY WalletUpdate, DerivedTypes DEF IInv
  <1>6. wallet[u] + EscrowOf[u] \in U64
    BY <1>4, <1>5, Bounds, DerivedTypes, U64MaxAssumption DEF IInv, U64
  <1>7. /\ UNCHANGED <<now, paused, escrow_balance, tunables, oracles, book>>
        /\ UNCHANGED <<balance, total_assets, total_shares, limiters>>
        /\ wallet' = [wallet EXCEPT ![u] = wallet[u] + EscrowOf[u]]
    BY <1>3 DEF RedeemCancel, ledger
  <1>8. /\ balance' \in U64 /\ total_assets' \in U64 /\ total_shares' \in U64
        /\ DOMAIN limiters' \subseteq Users /\ limiters' \in [DOMAIN limiters' -> Bucket]
    BY <1>7 DEF IInv, TypeOK
  <1>9. /\ total_assets' - balance' = total_assets - balance
        /\ total_shares' = total_shares - wallet[u] - EscrowOf[u]
                             + (wallet[u] + EscrowOf[u]) + EscrowOf'[u]
    BY <1>3, <1>4, <1>5, <1>7, U64MaxAssumption DEF IInv, TypeOK, U64
  <1> QED
    BY <1>1, <1>2, <1>6, <1>7, <1>8, <1>9, ExitInv

\* A transfer of share coins: what leaves one wallet arrives in the other.
LEMMA TransferSharesInv ==
    ASSUME IInv, NEW u \in Users, NEW v \in Users, NEW n \in TransferAmounts,
           TransferShares(u, v, n)
    PROVE  IInv'
  <1> DEFINE mid == [wallet EXCEPT ![u] = wallet[u] - n]
  <1>1. /\ u # v /\ n \in Nat /\ n <= wallet[u] /\ wallet[u] \in U64 /\ wallet[v] \in U64
        /\ wallet \in [Users -> U64]
    BY VaultAssumption, U64MaxAssumption DEF TransferShares, IInv, TypeOK, U64
  <1>2. wallet[u] - n \in U64
    BY <1>1, U64MaxAssumption DEF U64
  <1>3. /\ mid \in [Users -> U64]
        /\ SumOver(Users, mid) = SumOver(Users, wallet) - wallet[u] + (wallet[u] - n)
        /\ SumOver(Users, wallet) \in Nat
    BY <1>2, WalletUpdate, DerivedTypes DEF IInv
  <1>4. mid[v] = wallet[v] /\ wallet' = [mid EXCEPT ![v] = wallet[v] + n]
    BY <1>1 DEF TransferShares
  <1> HIDE DEF mid
  <1>5. SumOver(Users, wallet) = SumOver(Users, mid) + n /\ SumOver(Users, wallet) <= U64Max
    <2>1. SumOver(Users, wallet) + SumOver(Users, EscrowOf) <= total_shares
          /\ total_shares \in Nat /\ total_shares <= U64Max /\ SumOver(Users, EscrowOf) \in Nat
      BY Bounds, DerivedTypes DEF IInv
    <2> QED
      BY <1>1, <1>3, <2>1, U64MaxAssumption DEF U64
  <1>6. mid[v] <= SumOver(Users, mid) /\ SumOver(Users, mid) \in Nat
    BY U64Natural, U64Nat, <1>3, SumUpdate, VaultAssumption
  <1>7. wallet[v] + n \in U64
    BY <1>1, <1>4, <1>5, <1>6, U64MaxAssumption DEF U64
  <1>8. wallet' \in [Users -> U64] /\ wallet'[v] = wallet[v] + n
        /\ \A y \in Users \ {v} : wallet'[y] = mid[y]
    BY <1>3, <1>4, <1>7
  <1>9. SumOver(Users, wallet') = SumOver(Users, mid) - mid[v] + wallet'[v]
    BY U64Natural, U64Nat, <1>3, <1>8, SumUpdate, VaultAssumption
  <1>10. SumOver(Users, wallet') = SumOver(Users, wallet)
    BY <1>1, <1>4, <1>5, <1>6, <1>8, <1>9, U64MaxAssumption DEF U64
  <1>11. /\ UNCHANGED <<now, paused, escrow_balance, tunables, oracles, balance, total_assets>>
         /\ UNCHANGED <<total_shares, hedges, hedge_keys, positions, unwound, slots, limiters>>
    BY DEF TransferShares, ledger, book
  <1>12. TypeOK'
    BY <1>8, <1>11 DEF IInv, TypeOK
  <1>13. BookBalanced' /\ RegistryIndexed'
    BY <1>11 DEF IInv, BookBalanced, RegistryIndexed, CostOf
  <1>14. SharesBacked'
    <2>1. SumOver(Users, EscrowOf)' = SumOver(Users, EscrowOf)
      BY <1>11 DEF EscrowOf
    <2> QED
      BY <1>10, <1>11, <2>1 DEF IInv, SharesBacked
  <1> QED
    BY <1>12, <1>13, <1>14 DEF IInv

\* The bucket that get_or_init_user_bucket returns.
LEMMA UserBucketType ==
    ASSUME TypeOK, NEW u \in Users
    PROVE  UserBucket(u) \in Bucket
  <1>1. CASE u \in DOMAIN limiters
    BY <1>1 DEF UserBucket, TypeOK
  <1>2. CASE u \notin DOMAIN limiters
    <2> DEFINE c == Effective("capacity")
               q == Effective("refill_rate")
               b1 == UpdateConfig(NewBucket(now), c, q, now)
               b2 == Enable(b1, now)
    <2>1. c \in U64 /\ q \in U64 /\ now \in Nat
      BY EffectiveType DEF Params, TuneKeys, TypeOK
    <2>2. b1 \in Bucket
      BY <2>1, NewBucketType, UpdateConfigType
    <2>3. b2 \in Bucket
      BY <2>1, <2>2, EnableType
    <2>4. RecordDeposit(b2, c, now) \in Bucket
      BY <2>1, <2>3, RecordDepositType
    <2> QED
      BY <1>2, <2>4 DEF UserBucket, FullBucket
  <1> QED
    BY <1>1, <1>2

\* The amounts of a fulfil that is due: a positive NAV, a payout that the liquid
\* balance covers, and a natural number of shares to burn.
LEMMA FulfillAmounts ==
    ASSUME IInv, NEW u \in Users, FulfillDue(u)
    PROVE  /\ NavPerShare \in Nat /\ NavPerShare > 0
           /\ Payout(u) \in Nat /\ Payout(u) > 0
           /\ Payout(u) <= balance /\ Payout(u) <= ProRata(u)
           /\ SharesConsumed(Payout(u)) \in Nat
  <1> DEFINE v == AvailableWithdrawal(UserBucket(u), now)
  <1>1. NavPerShare \in U64 /\ ProRata(u) \in U64 /\ u \in DOMAIN slots /\ Payout(u) > 0
    BY DEF FulfillDue
  <1>2. v \in U64
    BY UserBucketType, AvailableType DEF IInv, TypeOK
  <1>3. balance \in U64
    BY DEF IInv, TypeOK
  <1>4. Payout(u) = MinOf(MinOf(ProRata(u), v), balance)
    BY DEF Payout
  <1> HIDE DEF v
  <1>5. Payout(u) \in Nat /\ Payout(u) <= balance /\ Payout(u) <= ProRata(u)
    BY <1>1, <1>2, <1>3, <1>4, U64MaxAssumption DEF MinOf, U64
  <1>6. NavPerShare \in Nat
    BY <1>1, U64MaxAssumption DEF U64
  <1>7. NavPerShare # 0
    <2> SUFFICES ASSUME NavPerShare = 0 PROVE FALSE
      OBVIOUS
    <2>1. slots[u].shares \in Nat /\ NavScale \in Nat \ {0}
      BY <1>1, VaultAssumption, U64MaxAssumption DEF IInv, TypeOK, Slot, U64
    <2>2. ProRata(u) = (slots[u].shares * 0) \div NavScale
      BY DEF ProRata, MulDivDown
    <2>3. slots[u].shares * 0 = 0 /\ 0 \div NavScale = 0
      BY <2>1
    <2>4. ProRata(u) = 0
      BY <2>2, <2>3
    <2> QED
      BY <1>1, <1>5, <2>4
  <1>8. SharesConsumed(Payout(u)) \in Nat
    <2>1. NavPerShare \in Nat \ {0} /\ NavScale \in Nat
      BY <1>6, <1>7, VaultAssumption
    <2> QED
      BY <1>5, <2>1, MulDivRounding DEF SharesConsumed
  <1> QED
    BY <1>1, <1>5, <1>6, <1>7, <1>8

\* redeem_fulfill takes the payout from the balance and from total_assets, and
\* the burned shares from the slot and from the supply.
LEMMA RedeemFulfillInv == ASSUME IInv, NEW u \in Users, RedeemFulfill(u) PROVE IInv'
  <1> DEFINE payout == Payout(u)
             consumed == SharesConsumed(payout)
  <1>1. FulfillDue(u) /\ FulfillSucceeds(u)
    BY DEF RedeemFulfill
  <1>2. payout \in Nat /\ payout <= balance /\ consumed \in Nat
    BY <1>1, FulfillAmounts
  <1>3. /\ ConsumeOK(UserBucket(u), payout, now) /\ consumed <= slots[u].shares
        /\ payout <= total_assets /\ consumed <= total_shares
    BY <1>1 DEF FulfillSucceeds
  <1>4. /\ limiters' = TableAdd(limiters, u, Consume(UserBucket(u), payout, now))
        /\ balance' = balance - payout /\ total_assets' = total_assets - payout
        /\ total_shares' = total_shares - consumed
        /\ slots' = BurnFromSlot(u, consumed)
        /\ UNCHANGED <<now, paused, escrow_balance, tunables, oracles, book, wallet>>
    BY DEF RedeemFulfill
  <1> HIDE DEF payout, consumed
  <1>5. Consume(UserBucket(u), payout, now) \in Bucket
    BY <1>2, <1>3, UserBucketType, ConsumeType DEF IInv, TypeOK
  <1>6. DOMAIN limiters' \subseteq Users /\ limiters' \in [DOMAIN limiters' -> Bucket]
    <2>1. DOMAIN limiters \subseteq Users /\ limiters \in [DOMAIN limiters -> Bucket]
      BY DEF IInv, TypeOK
    <2> DEFINE v == Consume(UserBucket(u), payout, now)
    <2> HIDE DEF v
    <2>2. /\ DOMAIN TableAdd(limiters, u, v) = DOMAIN limiters \cup {u}
          /\ TableAdd(limiters, u, v) \in [DOMAIN limiters \cup {u} -> Bucket]
      BY <1>5, <2>1, TableAddType DEF v
    <2>3. limiters' = TableAdd(limiters, u, v)
      BY <1>4 DEF v
    <2> QED
      BY <2>1, <2>2, <2>3
  <1>7. /\ balance \in U64 /\ total_assets \in U64 /\ total_shares \in U64
        /\ DOMAIN slots \subseteq Users /\ slots \in [DOMAIN slots -> Slot]
        /\ u \in DOMAIN slots /\ wallet \in [Users -> U64]
    BY <1>1 DEF IInv, TypeOK, FulfillDue
  <1>8. balance' \in U64 /\ total_assets' \in U64 /\ total_shares' \in U64
    BY <1>2, <1>3, <1>4, <1>7, U64MaxAssumption DEF U64
  <1>9. slots[u].shares \in U64 /\ slots[u].shares - consumed \in U64
    BY <1>2, <1>3, <1>7, U64MaxAssumption DEF Slot, U64
  <1>10. /\ DOMAIN slots' \subseteq Users /\ slots' \in [DOMAIN slots' -> Slot]
         /\ DOMAIN slots' \ {u} = DOMAIN slots \ {u}
         /\ \A y \in DOMAIN slots \ {u} : slots'[y] = slots[y]
         /\ EscrowOf'[u] = slots[u].shares - consumed
    <2>1. CASE slots[u].shares = consumed
      <3>1. slots' = TableRemove(slots, u)
        BY <1>4, <2>1 DEF BurnFromSlot
      <3>2. /\ DOMAIN slots' = DOMAIN slots \ {u} /\ slots' \in [DOMAIN slots' -> Slot]
            /\ \A y \in DOMAIN slots \ {u} : slots'[y] = slots[y]
        BY <1>7, <3>1, TableRemoveType
      <3>3. EscrowOf'[u] = 0 /\ slots[u].shares - consumed = 0
        BY <1>2, <1>9, <2>1, <3>2 DEF EscrowOf
      <3> QED
        BY <1>7, <3>2, <3>3
    <2>2. CASE slots[u].shares # consumed
      <3>1. slots' = [slots EXCEPT ![u] = [slots[u] EXCEPT !.shares = slots[u].shares - consumed]]
        BY <1>4, <1>7, <2>2 DEF BurnFromSlot
      <3>2. [slots[u] EXCEPT !.shares = slots[u].shares - consumed] \in Slot
            /\ [slots[u] EXCEPT !.shares = slots[u].shares - consumed].shares
                 = slots[u].shares - consumed
        BY <1>7, <1>9 DEF Slot
      <3>3. /\ DOMAIN slots' = DOMAIN slots /\ slots' \in [DOMAIN slots' -> Slot]
            /\ \A y \in DOMAIN slots \ {u} : slots'[y] = slots[y]
            /\ slots'[u].shares = slots[u].shares - consumed
        BY <1>7, <3>1, <3>2
      <3> QED
        BY <1>7, <3>3 DEF EscrowOf
    <2> QED
      BY <2>1, <2>2
  <1>11. EscrowOf[u] = slots[u].shares
    BY <1>7 DEF EscrowOf
  <1>12. wallet[u] \in U64 /\ wallet' = [wallet EXCEPT ![u] = wallet[u]]
    BY <1>4, <1>7
  <1>13. /\ total_assets' - balance' = total_assets - balance
         /\ total_shares' = total_shares - wallet[u] - EscrowOf[u] + wallet[u] + EscrowOf'[u]
    BY <1>2, <1>4, <1>7, <1>9, <1>10, <1>11, <1>12, U64MaxAssumption DEF U64
  <1> QED
    BY <1>4, <1>6, <1>8, <1>10, <1>12, <1>13, ExitInv

-----------------------------------------------------------------------------
(* The hedge book.                                                           *)

\* A key that Predict accepts is a market key.
LEMMA TargetKeyType ==
    ASSUME NEW o \in Oracles, CanMintTarget(o)
    PROVE  TargetKey(o) \in MarketKey
  BY DEF CanMintTarget, KeyMatches, TargetKey, MarketKey

\* insert_or_consolidate_hedge adds exactly the cost of the purchase to the book.
LEMMA InsertRowFacts ==
    ASSUME TypeOK, NEW k \in MarketKey, NEW q \in U64, NEW c \in Nat,
           k \in DOMAIN hedges => hedges[k].quantity + q \in U64,
           CostOf[k] + c \in U64
    PROVE  LET rows == InsertRow(hedges, k, q, c)
           IN  /\ DOMAIN rows = DOMAIN hedges \cup {k}
               /\ rows \in [DOMAIN rows -> HedgeRow]
               /\ rows[k].cost_basis = CostOf[k] + c
               /\ \A y \in DOMAIN hedges \ {k} : rows[y] = hedges[y]
  <1> DEFINE rows == InsertRow(hedges, k, q, c)
  <1>1. hedges \in [DOMAIN hedges -> HedgeRow]
    BY DEF TypeOK
  <1>2. CASE k \in DOMAIN hedges
    <2> DEFINE row == [quantity |-> hedges[k].quantity + q, cost_basis |-> hedges[k].cost_basis + c]
    <2>1. CostOf[k] = hedges[k].cost_basis
      BY <1>2 DEF CostOf
    <2>2. row \in HedgeRow /\ row.cost_basis = CostOf[k] + c
      BY <1>2, <2>1 DEF HedgeRow
    <2>3. rows = [hedges EXCEPT ![k] = row]
      BY <1>2 DEF InsertRow
    <2> HIDE DEF row, rows
    <2>4. /\ DOMAIN rows = DOMAIN hedges \cup {k} /\ rows \in [DOMAIN rows -> HedgeRow]
          /\ rows[k] = row /\ \A y \in DOMAIN hedges \ {k} : rows[y] = hedges[y]
      BY <1>1, <1>2, <2>2, <2>3
    <2> QED
      BY <2>2, <2>4 DEF rows
  <1>3. CASE k \notin DOMAIN hedges
    <2> DEFINE row == [quantity |-> q, cost_basis |-> c]
    <2>1. CostOf[k] = 0
      BY <1>3 DEF CostOf
    <2>2. row \in HedgeRow /\ row.cost_basis = CostOf[k] + c
      BY <2>1 DEF HedgeRow
    <2>3. rows = TableAdd(hedges, k, row)
      BY <1>3 DEF InsertRow
    <2> HIDE DEF row, rows
    <2>4. /\ DOMAIN rows = DOMAIN hedges \cup {k} /\ rows \in [DOMAIN rows -> HedgeRow]
          /\ rows[k] = row /\ \A y \in DOMAIN hedges \ {k} : rows[y] = hedges[y]
      BY <1>1, <2>2, <2>3 DEF TableAdd
    <2> QED
      BY <2>2, <2>4 DEF rows
  <1> QED
    BY <1>2, <1>3

\* InsertKey keeps the index exact and, with room to spare, within the cap.
LEMMA InsertKeyFacts ==
    ASSUME IInv, NEW k \in MarketKey, SumOver(MarketKey, hedge_keys) < RegistryCap,
           hedge_keys' = InsertKey(hedge_keys, hedges, k),
           DOMAIN hedges' = DOMAIN hedges \cup {k}
    PROVE  hedge_keys' \in [MarketKey -> Nat] /\ RegistryIndexed'
  <1>1. /\ hedge_keys \in [MarketKey -> Nat] /\ RegistryCap \in Nat
        /\ \A y \in MarketKey : hedge_keys[y] \in U64
        /\ \A y \in MarketKey : hedge_keys[y] = (IF y \in DOMAIN hedges THEN 1 ELSE 0)
        /\ SumOver(MarketKey, hedge_keys) \in Nat
    BY Bounds, VaultAssumption, SumType, U64Natural, KeysFinite
       DEF IInv, TypeOK, RegistryIndexed
  <1>2. CASE k \in DOMAIN hedges
    <2>1. hedge_keys' = hedge_keys /\ DOMAIN hedges' = DOMAIN hedges
      BY <1>2 DEF InsertKey
    <2> QED
      BY <1>1, <2>1 DEF RegistryIndexed
  <1>3. CASE k \notin DOMAIN hedges
    <2>1. hedge_keys' = [hedge_keys EXCEPT ![k] = hedge_keys[k] + 1]
      BY <1>3 DEF InsertKey
    <2>2. hedge_keys[k] = 0 /\ hedge_keys' \in [MarketKey -> Nat]
      BY <1>1, <1>3, <2>1
    <2>3. /\ hedge_keys'[k] = 1 /\ \A y \in MarketKey \ {k} : hedge_keys'[y] = hedge_keys[y]
      BY <1>1, <2>1, <2>2
    <2>4. \A y \in MarketKey : hedge_keys'[y] = (IF y \in DOMAIN hedges' THEN 1 ELSE 0)
      BY <1>1, <2>3
    <2>5. \A y \in MarketKey : hedge_keys'[y] \in U64
      BY <2>4, U64MaxAssumption DEF U64
    <2>6. SumOver(MarketKey, hedge_keys') = SumOver(MarketKey, hedge_keys) - hedge_keys[k] + hedge_keys'[k]
      BY <1>1, <2>3, <2>5, SumUpdate, U64Natural, KeysFinite
    <2>7. SumOver(MarketKey, hedge_keys') <= RegistryCap
      BY <1>1, <2>2, <2>3, <2>6
    <2> QED
      BY <2>2, <2>4, <2>7 DEF RegistryIndexed
  <1> QED
    BY <1>2, <1>3

\* supply: both legs of the deposit stay in the books, and the minted shares in
\* the depositor's wallet.
LEMMA SupplyInv ==
    ASSUME IInv, NEW u \in Users, NEW o \in Oracles, NEW a \in Nat, NEW f \in FairValues,
           Supply(u, o, a, f)
    PROVE  IInv'
  <1> DEFINE n == SharesToMint(a)
             c == MulDivDown(a, Effective("alloc_bps"), BpsScale)
             q == QuantityFor(c, f)
             k == TargetKey(o)
  <1>1. /\ n \in U64 /\ c <= a /\ total_assets + a \in U64 /\ total_shares + n \in U64
        /\ BuyHedgeForDeposit(u, o, c, f)
        /\ balance' = balance + (a - c) /\ total_assets' = total_assets + a
        /\ total_shares' = total_shares + n /\ wallet' = [wallet EXCEPT ![u] = wallet[u] + n]
        /\ UNCHANGED <<now, paused, escrow_balance, tunables, oracles, slots, limiters>>
    BY DEF Supply
  <1>2. a \in Nat /\ c \in Nat
    <2>1. a \in Nat /\ Effective("alloc_bps") \in Nat /\ BpsScale \in Nat \ {0}
      BY EffectiveType, VaultAssumption, U64MaxAssumption DEF IInv, Params, TuneKeys, U64
    <2> QED
      BY <2>1, MulDivRounding
  <1>3. /\ q \in U64 /\ CanMintTarget(o) /\ SumOver(MarketKey, hedge_keys) < RegistryCap
        /\ positions[u][k] + q \in U64
        /\ k \in DOMAIN hedges => hedges[k].quantity + q \in U64
        /\ positions' = [positions EXCEPT ![u] = IncreasePosition(positions[u], k, q)]
        /\ hedges' = InsertRow(hedges, k, q, c)
        /\ hedge_keys' = InsertKey(hedge_keys, hedges, k)
        /\ unwound' = unwound
    BY <1>1 DEF BuyHedgeForDeposit
  <1>4. k \in MarketKey
    BY <1>3, TargetKeyType
  <1> HIDE DEF n, c, q, k
  <1>5. CostOf[k] \in Nat /\ CostOf[k] <= SumOver(MarketKey, CostOf)
    <2>1. \A y \in MarketKey : CostOf[y] \in U64
      BY DerivedTypes DEF IInv
    <2>2. SumOver(MarketKey, CostOf) = SumOver(MarketKey \ {k}, CostOf) + CostOf[k]
          /\ SumOver(MarketKey \ {k}, CostOf) \in Nat
      BY U64Natural, U64Nat, <1>4, <2>1, SumSplit, KeysFinite
    <2>3. CostOf[k] \in Nat
      BY <1>4, <2>1, U64MaxAssumption DEF U64
    <2> QED
      BY <2>2, <2>3
  <1>6. CostOf[k] + c \in U64
    BY <1>1, <1>2, <1>5, Bounds, DerivedTypes, U64MaxAssumption DEF IInv, U64
  <1>7. /\ DOMAIN hedges' = DOMAIN hedges \cup {k} /\ hedges' \in [DOMAIN hedges' -> HedgeRow]
        /\ hedges'[k].cost_basis = CostOf[k] + c
        /\ \A y \in DOMAIN hedges \ {k} : hedges'[y] = hedges[y]
    BY <1>2, <1>3, <1>4, <1>6, InsertRowFacts DEF IInv
  <1>8. DOMAIN hedges \subseteq MarketKey /\ DOMAIN hedges' \subseteq MarketKey
    BY <1>4, <1>7 DEF IInv, TypeOK
  <1>9. hedge_keys' \in [MarketKey -> Nat] /\ RegistryIndexed'
    BY <1>3, <1>4, <1>7, InsertKeyFacts
  <1>10. wallet[u] \in Nat /\ n \in Nat /\ wallet[u] + n \in U64
    <2>1. wallet[u] \in U64 /\ wallet[u] <= SumOver(Users, wallet)
      BY WalletUpdate, DerivedTypes DEF IInv
    <2> QED
      BY <1>1, <2>1, Bounds, DerivedTypes, U64MaxAssumption DEF IInv, U64
  <1>11. balance' \in U64 /\ total_assets' \in U64 /\ total_shares' \in U64
    BY <1>1, <1>2, Bounds, DerivedTypes, U64MaxAssumption DEF IInv, U64
  <1>12. positions' \in [Users -> [MarketKey -> U64]]
    <2>1. positions \in [Users -> [MarketKey -> U64]]
      BY DEF IInv, TypeOK
    <2>2. IncreasePosition(positions[u], k, q) \in [MarketKey -> U64]
      BY <1>3, <1>4, <2>1 DEF IncreasePosition
    <2> QED
      BY <1>3, <2>1, <2>2
  <1>13. wallet' \in [Users -> U64]
    BY <1>1, <1>10 DEF IInv, TypeOK
  <1>14. TypeOK'
    BY <1>1, <1>3, <1>7, <1>8, <1>9, <1>11, <1>12, <1>13 DEF IInv, TypeOK
  <1>15. BookBalanced'
    <2>1. SumOver(MarketKey, CostOf)' = SumOver(MarketKey, CostOf) - CostOf[k] + CostOf'[k]
      BY <1>4, <1>7, <1>8, CostUpdate DEF IInv
    <2>2. CostOf'[k] = CostOf[k] + c
      BY <1>4, <1>7 DEF CostOf
    <2>3. /\ total_assets = balance + SumOver(MarketKey, CostOf) + unwound /\ unwound \in Nat
      BY DEF IInv, TypeOK, BookBalanced
    <2>4. total_assets' = balance' + SumOver(MarketKey, CostOf)' + unwound'
      BY <1>1, <1>2, <1>3, <1>5, <2>1, <2>2, <2>3, Bounds, DerivedTypes DEF IInv
    <2> QED
      BY <2>4 DEF BookBalanced
  <1>16. SharesBacked'
    <2>1. SumOver(Users, wallet)' = SumOver(Users, wallet) - wallet[u] + (wallet[u] + n)
      BY <1>1, <1>10, WalletUpdate DEF IInv
    <2>2. SumOver(Users, EscrowOf)' = SumOver(Users, EscrowOf)
      BY <1>1 DEF EscrowOf
    <2>3. /\ total_shares = VirtualShares + SumOver(Users, wallet) + SumOver(Users, EscrowOf)
          /\ VirtualShares \in Nat
      BY VaultAssumption, U64MaxAssumption DEF IInv, SharesBacked, U64
    <2>4. total_shares' = VirtualShares + SumOver(Users, wallet)' + SumOver(Users, EscrowOf)'
      BY <1>1, <1>10, <2>1, <2>2, <2>3, DerivedTypes DEF IInv
    <2> QED
      BY <2>4 DEF SharesBacked
  <1> QED
    BY <1>9, <1>14, <1>15, <1>16 DEF IInv

\* A step that changes only the book preserves the invariant if the book's total,
\* with what was unwound, and the index come out right.
LEMMA BookInv ==
    ASSUME IInv, UNCHANGED <<now, paused, escrow_balance, tunables, oracles, ledger, exits>>,
           DOMAIN hedges' \subseteq MarketKey, hedges' \in [DOMAIN hedges' -> HedgeRow],
           hedge_keys' \in [MarketKey -> Nat], RegistryIndexed',
           positions' \in [Users -> [MarketKey -> U64]], unwound' \in Nat,
           SumOver(MarketKey, CostOf)' + unwound' = SumOver(MarketKey, CostOf) + unwound,
           SumOver(MarketKey, CostOf)' \in Nat
    PROVE  IInv'
  <1>1. /\ UNCHANGED <<balance, total_assets, total_shares, slots, limiters, wallet>>
        /\ UNCHANGED <<now, paused, escrow_balance, tunables, oracles>>
    BY DEF ledger, exits
  <1>2. TypeOK'
    BY <1>1 DEF IInv, TypeOK
  <1>3. SharesBacked'
    BY <1>1 DEF IInv, SharesBacked, EscrowOf
  <1>4. BookBalanced'
    <2>1. total_assets = balance + SumOver(MarketKey, CostOf) + unwound /\ unwound \in Nat
      BY DEF IInv, TypeOK, BookBalanced
    <2>2. total_assets' = balance' + SumOver(MarketKey, CostOf)' + unwound'
      BY <1>1, <2>1, Bounds, DerivedTypes DEF IInv
    <2> QED
      BY <2>2 DEF BookBalanced
  <1> QED
    BY <1>2, <1>3, <1>4 DEF IInv

\* admin_emergency_unwind: the row's cost basis moves from the book to "unwound".
LEMMA UnwindInv == ASSUME IInv, NEW k \in MarketKey, AdminEmergencyUnwind(k) PROVE IInv'
  <1>1. /\ k \in DOMAIN hedges /\ positions[Admin][k] >= hedges[k].quantity
        /\ hedges' = TableRemove(hedges, k) /\ hedge_keys' = RemoveKey(hedge_keys, k)
        /\ positions' = [positions EXCEPT ![Admin] =
                            DecreasePosition(positions[Admin], k, hedges[k].quantity)]
        /\ unwound' = unwound + hedges[k].cost_basis
        /\ UNCHANGED <<now, paused, escrow_balance, tunables, oracles, ledger, exits>>
    BY DEF AdminEmergencyUnwind
  <1>2. /\ DOMAIN hedges \subseteq MarketKey /\ hedges \in [DOMAIN hedges -> HedgeRow]
        /\ hedge_keys \in [MarketKey -> Nat] /\ unwound \in Nat /\ Admin \in Users
        /\ positions \in [Users -> [MarketKey -> U64]]
        /\ \A y \in MarketKey : hedge_keys[y] = (IF y \in DOMAIN hedges THEN 1 ELSE 0)
        /\ SumOver(MarketKey, hedge_keys) <= RegistryCap
    BY VaultAssumption DEF IInv, TypeOK, RegistryIndexed
  <1>3. /\ DOMAIN hedges' = DOMAIN hedges \ {k} /\ hedges' \in [DOMAIN hedges' -> HedgeRow]
        /\ \A y \in DOMAIN hedges \ {k} : hedges'[y] = hedges[y]
    BY <1>1, <1>2, TableRemoveType
  <1>4. positions' \in [Users -> [MarketKey -> U64]]
    <2>1. positions[Admin] \in [MarketKey -> U64] /\ hedges[k].quantity \in U64
      BY <1>1, <1>2 DEF HedgeRow
    <2>2. positions[Admin][k] - hedges[k].quantity \in U64
      BY <1>1, <2>1, U64MaxAssumption DEF U64
    <2>3. DecreasePosition(positions[Admin], k, hedges[k].quantity) \in [MarketKey -> U64]
      BY <2>1, <2>2 DEF DecreasePosition
    <2> QED
      BY <1>1, <1>2, <2>3
  <1>5. hedge_keys' \in [MarketKey -> Nat] /\ RegistryIndexed'
    <2>1. hedge_keys[k] = 1
      BY <1>1, <1>2
    <2>2. hedge_keys' = [hedge_keys EXCEPT ![k] = 0]
      BY <1>1, <1>2, <2>1 DEF RemoveKey
    <2>3. /\ hedge_keys' \in [MarketKey -> Nat] /\ hedge_keys'[k] = 0
          /\ \A y \in MarketKey \ {k} : hedge_keys'[y] = hedge_keys[y]
      BY <1>2, <2>2
    <2>4. \A y \in MarketKey : hedge_keys'[y] = (IF y \in DOMAIN hedges' THEN 1 ELSE 0)
      BY <1>2, <1>3, <2>3
    <2>5. \A y \in MarketKey : hedge_keys'[y] \in U64 /\ hedge_keys[y] \in U64
      BY <1>2, <2>4, U64MaxAssumption DEF U64
    <2>6. /\ SumOver(MarketKey, hedge_keys')
               = SumOver(MarketKey, hedge_keys) - hedge_keys[k] + hedge_keys'[k]
          /\ SumOver(MarketKey, hedge_keys) \in Nat
      BY U64Natural, U64Nat, <2>3, <2>5, SumUpdate, KeysFinite
    <2>7. SumOver(MarketKey, hedge_keys') <= RegistryCap
      BY <1>2, <2>1, <2>3, <2>6, VaultAssumption
    <2> QED
      BY <2>3, <2>4, <2>7 DEF RegistryIndexed
  <1>6. /\ SumOver(MarketKey, CostOf)' = SumOver(MarketKey, CostOf) - CostOf[k] + CostOf'[k]
        /\ CostOf[k] <= SumOver(MarketKey, CostOf) /\ CostOf[k] \in U64
    BY <1>2, <1>3, CostUpdate DEF IInv
  <1>7. CostOf[k] = hedges[k].cost_basis /\ CostOf'[k] = 0
    BY <1>1, <1>3 DEF CostOf
  <1>8. /\ SumOver(MarketKey, CostOf)' + unwound' = SumOver(MarketKey, CostOf) + unwound
        /\ SumOver(MarketKey, CostOf)' \in Nat /\ unwound' \in Nat
    <2>1. CostOf[k] \in Nat /\ SumOver(MarketKey, CostOf) \in Nat
      BY <1>6, DerivedTypes, U64MaxAssumption DEF IInv, U64
    <2> QED
      BY <1>1, <1>2, <1>6, <1>7, <2>1
  <1> QED
    BY <1>1, <1>2, <1>3, <1>4, <1>5, <1>8, BookInv

\* In a roll every row of the replacement's key is itself rolled, so nothing is
\* overwritten: rows of one oracle expire together.
LEMMA RollReplacesRolled ==
    ASSUME IInv, NEW u \in Users, NEW o \in Oracles, NEW b, NEW f, RollExpiring(u, o, b, f)
    PROVE  TargetKey(o) \in MarketKey /\ (TargetKey(o) \in DOMAIN hedges => TargetKey(o) \in ToRoll)
  <1>1. CanMintTarget(o) /\ ToRoll # {} /\ \A k \in ToRoll : k.oracle = o
    BY DEF RollExpiring
  <1>2. TargetKey(o) \in MarketKey /\ TargetKey(o).oracle = o
    BY <1>1, TargetKeyType DEF TargetKey
  <1>3. PICK k \in ToRoll : TRUE
    BY <1>1
  <1>4. ExpiryOf[o] < now + RollTriggerMs
    BY <1>1, <1>3 DEF ToRoll, Expiring
  <1>5. TargetKey(o) \in DOMAIN hedges => hedge_keys[TargetKey(o)] = 1
    BY <1>2 DEF IInv, RegistryIndexed
  <1> QED
    BY <1>2, <1>4, <1>5 DEF ToRoll, Expiring

\* roll_expiring: the rolled rows' cost basis is carried forward in full, and the
\* one row that replaces them never lengthens the registry.
LEMMA RollInv ==
    ASSUME IInv, NEW u \in Users, NEW o \in Oracles, NEW b, NEW f, RollExpiring(u, o, b, f)
    PROVE  IInv'
  <1> DEFINE new == TargetKey(o)
             q == RolledQuantity(o, b, f)
             c == SumOver(ToRoll, CostOf)
             R == ToRoll \cup {new}
             row == [quantity |-> q, cost_basis |-> c]
             kept == [k \in DOMAIN hedges \ ToRoll |-> hedges[k]]
             left == [k \in MarketKey |-> IF k \in ToRoll
                                          THEN positions[u][k] - hedges[k].quantity
                                          ELSE positions[u][k]]
  <1>1. /\ ToRoll # {} /\ q \in U64
        /\ \A k \in ToRoll : hedge_keys[k] = 1 /\ positions[u][k] >= hedges[k].quantity
        /\ left[new] + q \in U64
        /\ positions' = [positions EXCEPT ![u] = IncreasePosition(left, new, q)]
        /\ hedges' = TableAdd(kept, new, row)
        /\ hedge_keys' = [k \in MarketKey |-> IF k = new THEN 1
                                               ELSE IF k \in ToRoll THEN 0 ELSE hedge_keys[k]]
        /\ UNCHANGED <<now, paused, escrow_balance, tunables, oracles, ledger, exits>>
        /\ unwound' = unwound
    BY DEF RollExpiring
  <1>2. new \in MarketKey /\ (new \in DOMAIN hedges => new \in ToRoll)
    BY RollReplacesRolled
  <1>3. /\ ToRoll \subseteq MarketKey /\ R \subseteq MarketKey /\ new \in R
        /\ IsFiniteSet(MarketKey) /\ IsFiniteSet(ToRoll)
    BY <1>2, KeysFinite, FS_Subset DEF ToRoll
  <1>4. /\ DOMAIN hedges \subseteq MarketKey /\ hedges \in [DOMAIN hedges -> HedgeRow]
        /\ hedge_keys \in [MarketKey -> Nat] /\ unwound \in Nat
        /\ positions \in [Users -> [MarketKey -> U64]]
        /\ \A y \in MarketKey : hedge_keys[y] = (IF y \in DOMAIN hedges THEN 1 ELSE 0)
        /\ SumOver(MarketKey, hedge_keys) <= RegistryCap /\ RegistryCap \in Nat
        /\ \A y \in MarketKey : hedge_keys[y] \in U64
    BY Bounds, VaultAssumption DEF IInv, TypeOK, RegistryIndexed
  <1>5. ToRoll \subseteq DOMAIN hedges
    BY <1>1, <1>3, <1>4
  <1>6. \A y \in MarketKey : CostOf[y] \in U64
    BY DerivedTypes DEF IInv
  <1> HIDE DEF new, q
  <1>7. SumOver(R, CostOf) = c
    <2>1. CASE new \in ToRoll
      <3>1. R = ToRoll
        BY <2>1
      <3> QED
        BY <3>1
    <2>2. CASE new \notin ToRoll
      <3>1. CostOf[new] = 0
        BY <1>2, <2>2 DEF CostOf
      <3>2. ToRoll \cap {new} = {} /\ IsFiniteSet({new})
        BY <2>2, FS_Singleton
      <3>3. SumOver(R, CostOf) = c + SumOver({new}, CostOf)
        BY U64Natural, U64Nat, <1>2, <1>3, <1>6, <3>2, SumUnion
      <3>4. SumOver({new}, CostOf) = 0 /\ c \in Nat
        BY U64Natural, U64Nat, <1>2, <1>3, <1>6, <3>1, SumSingle, SumType
      <3> QED
        BY <3>3, <3>4
    <2> QED
      BY <2>1, <2>2
  <1>8. c \in Nat /\ c <= SumOver(MarketKey, CostOf)
    <2> DEFINE T == MarketKey \ R
    <2>1. IsFiniteSet(R) /\ IsFiniteSet(T) /\ R \cup T = MarketKey /\ R \cap T = {}
      BY <1>3, FS_Subset
    <2>2. SumOver(MarketKey, CostOf) = SumOver(R, CostOf) + SumOver(T, CostOf)
      BY U64Natural, U64Nat, <1>6, <2>1, SumUnion
    <2>3. SumOver(R, CostOf) \in Nat /\ SumOver(T, CostOf) \in Nat
      BY U64Natural, U64Nat, <1>3, <1>6, <2>1, SumType
    <2> HIDE DEF T, c, R
    <2> QED
      BY <1>7, <2>2, <2>3
  <1>9. c \in U64
    BY <1>8, Bounds, DerivedTypes, U64MaxAssumption DEF IInv, U64
  <1>10. row \in HedgeRow /\ row.cost_basis = c
    BY <1>1, <1>9 DEF HedgeRow
  <1> HIDE DEF c, row
  <1>11. /\ DOMAIN hedges' = (DOMAIN hedges \ ToRoll) \cup {new}
         /\ hedges' \in [DOMAIN hedges' -> HedgeRow] /\ hedges'[new] = row
         /\ \A y \in DOMAIN hedges \ R : hedges'[y] = hedges[y]
    BY <1>1, <1>4, <1>10 DEF TableAdd
  <1>12. DOMAIN hedges' \subseteq MarketKey
    BY <1>2, <1>4, <1>11
  <1>13. /\ CostOf'[new] = c /\ \A y \in R \ {new} : CostOf'[y] = 0
         /\ \A y \in MarketKey \ R : CostOf'[y] = CostOf[y]
    BY <1>2, <1>3, <1>10, <1>11 DEF CostOf
  <1>14. SumOver(MarketKey, CostOf)' = SumOver(MarketKey, CostOf)
    <2>1. SumOver(MarketKey, CostOf') = SumOver(MarketKey, CostOf) - SumOver(R, CostOf) + c
      <3>1. NatValued(CostOf, MarketKey) /\ CostOf'[new] \in Nat
        BY U64Natural, U64Nat, <1>6, <1>9, <1>13
      <3> QED
        BY <1>3, <1>13, <3>1, SumReplace
    <2>2. SumOver(MarketKey, CostOf) \in Nat
      BY DerivedTypes DEF IInv
    <2> QED
      BY <1>7, <1>8, <2>1, <2>2
  <1>15. positions' \in [Users -> [MarketKey -> U64]]
    <2>1. \A k \in MarketKey : left[k] \in U64
      <3> SUFFICES ASSUME NEW k \in ToRoll PROVE positions[u][k] - hedges[k].quantity \in U64
        BY <1>4
      <3>1. hedges[k].quantity \in U64 /\ positions[u][k] \in U64
        BY <1>3, <1>4, <1>5 DEF HedgeRow
      <3> QED
        BY <1>1, <3>1, U64MaxAssumption DEF U64
    <2>2. left \in [MarketKey -> U64]
      BY <2>1
    <2> HIDE DEF left
    <2>3. IncreasePosition(left, new, q) \in [MarketKey -> U64]
      BY <1>1, <1>2, <2>2 DEF IncreasePosition
    <2> QED
      BY <1>1, <1>4, <2>3
  <1>16. hedge_keys' \in [MarketKey -> Nat] /\ RegistryIndexed'
    <2>1. /\ hedge_keys' \in [MarketKey -> Nat] /\ hedge_keys'[new] = 1
          /\ \A y \in R \ {new} : hedge_keys'[y] = 0
          /\ \A y \in MarketKey \ R : hedge_keys'[y] = hedge_keys[y]
      BY <1>1, <1>2, <1>3, <1>4
    <2>2. \A y \in MarketKey : hedge_keys'[y] = (IF y \in DOMAIN hedges' THEN 1 ELSE 0)
      BY <1>1, <1>2, <1>3, <1>4, <1>11
    <2>3. 1 \in U64
      BY U64MaxAssumption DEF U64
    <2>4. SumOver(MarketKey, hedge_keys) \in Nat
      BY <1>3, <1>4, SumType, U64Natural
    <2>5. SumOver(MarketKey, hedge_keys') <= SumOver(MarketKey, hedge_keys)
      <3>1. PICK z \in ToRoll : hedge_keys[z] = 1
        BY <1>1
      <3>2. z \in R /\ hedge_keys'[new] = hedge_keys[z]
        BY <2>1, <3>1
      <3>3. /\ IsFiniteSet(MarketKey) /\ R \in SUBSET MarketKey /\ new \in R
            /\ \A y \in MarketKey : hedge_keys[y] \in U64
            /\ \A y \in R \ {new} : hedge_keys'[y] = 0
            /\ \A y \in MarketKey \ R : hedge_keys'[y] = hedge_keys[y]
        BY <1>3, <1>4, <2>1
      <3> HIDE DEF R
      <3> QED
        BY U64Natural, U64Nat, <3>2, <3>3, SumReplaceByOne, Zenon
    <2>6. SumOver(MarketKey, hedge_keys') <= RegistryCap
      <3>1. SumOver(MarketKey, hedge_keys') \in Nat
        BY <1>3, <2>2, <2>3, SumType DEF NatValued
      <3> QED
        BY <1>4, <2>4, <2>5, <3>1
    <2> QED
      BY <2>1, <2>2, <2>6 DEF RegistryIndexed
  <1>17. SumOver(MarketKey, CostOf)' \in Nat
    BY <1>14, DerivedTypes DEF IInv
  <1> QED
    BY <1>1, <1>4, <1>11, <1>12, <1>14, <1>15, <1>16, <1>17, BookInv

-----------------------------------------------------------------------------
(* The theorems.                                                             *)

\* create_vault leaves balanced books and an empty registry.
LEMMA InitInv == Init => IInv
  <1> SUFFICES ASSUME Init PROVE IInv
    OBVIOUS
  <1>0. 0 \in U64 /\ SeedQuote \in Nat /\ VirtualShares \in Nat
    BY VaultAssumption, U64MaxAssumption DEF U64
  <1>1. DOMAIN slots = {} /\ DOMAIN limiters = {} /\ DOMAIN hedges = {}
    BY DEF Init, EmptyTable
  <1>2. slots \in [{} -> Slot] /\ limiters \in [{} -> Bucket] /\ hedges \in [{} -> HedgeRow]
    BY DEF Init, EmptyTable
  <1>3. TypeOK
    <2>1. Defaults \in [Params -> U64] /\ SeedQuote \in U64 /\ VirtualShares \in U64
      BY VaultAssumption
    <2>2. /\ wallet \in [Users -> U64] /\ positions \in [Users -> [MarketKey -> U64]]
          /\ hedge_keys \in [MarketKey -> Nat]
      BY <1>0 DEF Init
    <2> QED
      BY <1>0, <1>1, <1>2, <2>1, <2>2, VaultAssumption DEF Init, TypeOK
  <1>4. BookBalanced
    <2>1. \A k \in MarketKey : CostOf[k] = 0
      BY <1>1 DEF CostOf
    <2>2. SumOver(MarketKey, CostOf) = 0
      BY <2>1, SumZero
    <2> QED
      BY <1>0, <2>2 DEF Init, BookBalanced
  <1>5. SharesBacked
    <2>1. \A u \in Users : wallet[u] = 0 /\ EscrowOf[u] = 0
      BY <1>1 DEF Init, EscrowOf
    <2>2. SumOver(Users, wallet) = 0 /\ SumOver(Users, EscrowOf) = 0
      BY <2>1, SumZero
    <2> QED
      BY <1>0, <2>2 DEF Init, SharesBacked
  <1>6. RegistryIndexed
    <2>1. \A k \in MarketKey : hedge_keys[k] = 0
      BY DEF Init
    <2>2. SumOver(MarketKey, hedge_keys) = 0
      BY <2>1, SumZero
    <2> QED
      BY <1>1, <2>1, <2>2, VaultAssumption DEF RegistryIndexed
  <1> QED
    BY <1>3, <1>4, <1>5, <1>6 DEF IInv

\* Every transaction, and every step of the world around the vault, preserves
\* the invariant.
LEMMA NextInv == IInv /\ [Next]_vars => IInv'
  <1> SUFFICES ASSUME IInv, [Next]_vars PROVE IInv'
    OBVIOUS
  <1>1. CASE Tick
    BY <1>1, TickInv
  <1>2. ASSUME NEW u \in Users, NEW o \in Oracles, NEW a \in Deposits, NEW f \in FairValues,
               Supply(u, o, a, f)
        PROVE  IInv'
    BY <1>2, VaultAssumption, U64Nat, SupplyInv
  <1>3. ASSUME NEW u \in Users, NEW n \in RequestAmounts, RedeemRequest(u, n) PROVE IInv'
    BY <1>3, VaultAssumption, U64Nat, RedeemRequestInv
  <1>4. ASSUME NEW u \in Users, RedeemFulfill(u) PROVE IInv'
    BY <1>4, RedeemFulfillInv
  <1>5. ASSUME NEW u \in Users, RedeemCancel(u) PROVE IInv'
    BY <1>5, RedeemCancelInv
  <1>6. ASSUME NEW u \in Users, NEW o \in Oracles, NEW f \in FairValues,
               NEW b \in SUBSET ToRoll, RollExpiring(u, o, b, f)
        PROVE  IInv'
    BY <1>6, RollInv
  <1>7. ASSUME NEW u \in Users, NEW k \in MarketKey, NEW q \in TradeQuantities,
               PredictMint(u, k, q) \/ PredictRedeem(u, k, q)
        PROVE  IInv'
    BY <1>7, PredictMintInv, PredictRedeemInv
  <1>8. ASSUME NEW k \in MarketKey, AdminEmergencyUnwind(k) PROVE IInv'
    BY <1>8, UnwindInv
  <1>9. ASSUME NEW p \in BOOLEAN, AdminPause(p) PROVE IInv'
    BY <1>9, AdminPauseInv
  <1>10. ASSUME NEW key \in TuneKeys, NEW v \in TuneValues[key], AdminTuneStrategy(key, v)
         PROVE  IInv'
    BY <1>10, AdminTuneInv
  <1>11. ASSUME NEW v \in TuneValues["max_staleness"], AdminOracleStalenessOverride(v)
         PROVE  IInv'
    BY <1>11, StalenessInv
  <1>12. ASSUME NEW o \in Oracles, OracleActivate(o) PROVE IInv'
    BY <1>12, ActivateInv
  <1>13. ASSUME NEW o \in Oracles, NEW f \in Forwards, OracleUpdatePrices(o, f) PROVE IInv'
    BY <1>13, UpdatePricesInv
  <1>14. ASSUME NEW u \in Users, NEW v \in Users, NEW n \in TransferAmounts,
                TransferShares(u, v, n)
         PROVE  IInv'
    BY <1>14, TransferSharesInv
  <1>15. CASE UNCHANGED vars
    BY <1>15, FrameInv DEF vars, IInv, TypeOK
  <1> QED
    BY <1>1, <1>2, <1>3, <1>4, <1>5, <1>6, <1>7, <1>8, <1>9, <1>10, <1>11, <1>12, <1>13,
       <1>14, <1>15 DEF Next

\* The joint inductive invariant.
THEOREM VaultInvariant == Spec => []IInv
  BY InitInv, NextInv, PTL DEF Spec

\* No field of the vault leaves its type: no balance, wallet, supply or position
\* wraps, underflows or exceeds a u64 in any accepted transaction.
THEOREM VaultTypes == Spec => []TypeOK
  <1>1. IInv => TypeOK
    BY DEF IInv
  <1> QED
    BY <1>1, VaultInvariant, PTL

\* The cached total_assets is the liquid balance plus the cost basis of the open
\* hedges plus what the admin has unwound.
THEOREM BooksBalance == Spec => []BookBalanced
  <1>1. IInv => BookBalanced
    BY DEF IInv
  <1> QED
    BY <1>1, VaultInvariant, PTL

\* The cached supply is exactly the shares that exist.
THEOREM SharesAreBacked == Spec => []SharesBacked
  <1>1. IInv => SharesBacked
    BY DEF IInv
  <1> QED
    BY <1>1, VaultInvariant, PTL

\* The iteration index is exact, and the registry stays within its cap even
\* though roll_expiring does not check it.
THEOREM RegistryIsIndexed == Spec => []RegistryIndexed
  <1>1. IInv => RegistryIndexed
    BY DEF IInv
  <1> QED
    BY <1>1, VaultInvariant, PTL

\* worst_case_haircut_bps never aborts and is at most 100%.
THEOREM HaircutIsSafe == Spec => []HaircutSafe
  <1>1. ASSUME IInv PROVE HaircutSafe
    <2> DEFINE nav == NavPerShare
               worst == WorstCaseNavPerShare
    <2>1. /\ balance \in Nat /\ total_assets \in Nat /\ total_shares \in Nat \ {0}
          /\ balance <= total_assets /\ NavScale \in Nat /\ BpsScale \in Nat
      BY <1>1, Bounds, DerivedTypes, VaultAssumption DEF IInv
    <2>2. balance * NavScale <= total_assets * NavScale
      BY <2>1, TimesMonotone
    <2>3. balance * NavScale \in Nat /\ total_assets * NavScale \in Nat
      BY <2>1
    <2>4. worst <= nav
      BY <2>1, <2>2, <2>3, DivMonotone DEF NavPerShare, WorstCaseNavPerShare, MulDivDown
    <2>5. nav \in Nat /\ worst \in Nat
      BY <2>1, MulDivRounding DEF NavPerShare, WorstCaseNavPerShare
    <2>6. WorstCaseHaircutBps = IF nav = 0 THEN 0 ELSE MulDivDown(nav - worst, BpsScale, nav)
      BY DEF WorstCaseHaircutBps
    <2> HIDE DEF nav, worst
    <2>7. ASSUME nav # 0 PROVE MulDivDown(nav - worst, BpsScale, nav) \in 0 .. BpsScale
      <3> DEFINE h == MulDivDown(nav - worst, BpsScale, nav)
      <3>1. nav - worst \in Nat /\ nav - worst <= nav /\ nav \in Nat \ {0}
        BY <2>4, <2>5, <2>7
      <3>2. h \in Nat /\ h * nav <= (nav - worst) * BpsScale
        BY <2>1, <3>1, MulDivRounding
      <3>3. (nav - worst) * BpsScale <= nav * BpsScale
        BY <2>1, <3>1, TimesMonotone
      <3> HIDE DEF h
      <3>4. h * nav <= BpsScale * nav
        <4>1. /\ h * nav \in Nat /\ (nav - worst) * BpsScale \in Nat /\ nav * BpsScale \in Nat
              /\ nav * BpsScale = BpsScale * nav
          BY <2>1, <3>1, <3>2
        <4> QED
          BY <3>2, <3>3, <4>1
      <3>5. h <= BpsScale
        BY <2>1, <3>1, <3>2, <3>4, TimesCancel
      <3> QED
        BY <2>1, <3>2, <3>5 DEF h
    <2>8. WorstCaseHaircutBps \in 0 .. BpsScale
      BY <2>1, <2>6, <2>7
    <2> QED
      BY <2>1, <2>4, <2>8 DEF HaircutSafe, nav, worst
  <1> QED
    BY <1>1, VaultInvariant, PTL

\* The arithmetic of a fulfil: with the NAV rounded down and the burn rounded up,
\* the burned part of the supply is worth at least the payout.
LEMMA BurnCoversPayout ==
    ASSUME NEW A \in Nat, NEW T \in Nat, NEW S \in Nat \ {0}, NEW p \in Nat, NEW c \in Nat,
           NEW v \in Nat, v * T <= A * S, p * S <= c * v
    PROVE  p * T <= c * A
  <1>1. (p * S) * T <= (c * v) * T
    <2>1. p * S \in Nat /\ c * v \in Nat
      OBVIOUS
    <2> QED
      BY <2>1, TimesMonotone
  <1>2. c * (v * T) <= c * (A * S)
    <2>1. v * T \in Nat /\ A * S \in Nat
      OBVIOUS
    <2> QED
      BY <2>1, TimesMonotone
  <1>3. /\ (p * S) * T = (p * T) * S /\ (c * v) * T = c * (v * T)
        /\ c * (A * S) = (c * A) * S
    OBVIOUS
  <1>4. p * T \in Nat /\ c * A \in Nat /\ (p * T) * S \in Nat /\ (c * A) * S \in Nat
        /\ c * (v * T) \in Nat
    OBVIOUS
  <1>5. (p * T) * S <= (c * A) * S
    BY <1>1, <1>2, <1>3, <1>4
  <1> QED
    BY <1>4, <1>5, TimesCancel

\* Only redeem_fulfill burns shares or takes from the liquid balance.
LEMMA OnlyFulfillBurns ==
    ASSUME IInv, Next, total_shares' < total_shares \/ balance' < balance
    PROVE  \E u \in Users : RedeemFulfill(u)
  <1>1. total_shares' # total_shares \/ balance' # balance
    BY DEF IInv, TypeOK, U64
  <1>2. ASSUME NEW u \in Users, NEW o \in Oracles, NEW a \in Deposits, NEW f \in FairValues,
               Supply(u, o, a, f)
        PROVE  FALSE
    <2> DEFINE h == MulDivDown(a, Effective("alloc_bps"), BpsScale)
    <2>1. /\ total_shares' = total_shares + SharesToMint(a) /\ SharesToMint(a) \in U64
          /\ balance' = balance + (a - h) /\ h <= a
      BY <1>2 DEF Supply
    <2>2. h \in Nat /\ a \in Nat
      <3>1. Effective("alloc_bps") \in Nat /\ a \in Nat /\ BpsScale \in Nat \ {0}
        BY EffectiveType, VaultAssumption, U64MaxAssumption DEF IInv, Params, TuneKeys, U64
      <3> QED
        BY <3>1, MulDivRounding
    <2> HIDE DEF h
    <2>3. total_shares \in Nat /\ balance \in Nat /\ SharesToMint(a) \in Nat
      BY <2>1, Bounds, U64MaxAssumption DEF U64
    <2> QED
      BY <2>1, <2>2, <2>3
  <1>3. ASSUME NEW u \in Users,
               \/ \E n \in RequestAmounts : RedeemRequest(u, n)
               \/ \E v \in Users, n \in TransferAmounts : TransferShares(u, v, n)
               \/ RedeemCancel(u)
        PROVE  total_shares' = total_shares /\ balance' = balance
    BY <1>3 DEF RedeemRequest, TransferShares, RedeemCancel, ledger
  <1>4. ASSUME NEW u \in Users, NEW o \in Oracles, NEW f \in FairValues,
               NEW b \in SUBSET ToRoll, RollExpiring(u, o, b, f)
        PROVE  total_shares' = total_shares /\ balance' = balance
    BY <1>4 DEF RollExpiring, ledger
  <1>5. ASSUME NEW u \in Users, NEW k \in MarketKey, NEW q \in TradeQuantities,
               PredictMint(u, k, q) \/ PredictRedeem(u, k, q)
        PROVE  total_shares' = total_shares /\ balance' = balance
    BY <1>5 DEF PredictMint, PredictRedeem, ledger
  <1>6. ASSUME \/ Tick
               \/ \E k \in MarketKey : AdminEmergencyUnwind(k)
               \/ \E p \in BOOLEAN : AdminPause(p)
        PROVE  total_shares' = total_shares /\ balance' = balance
    BY <1>6 DEF Tick, AdminEmergencyUnwind, AdminPause, ledger
  <1>7. ASSUME \/ \E key \in TuneKeys : \E v \in TuneValues[key] : AdminTuneStrategy(key, v)
               \/ \E v \in TuneValues["max_staleness"] : AdminOracleStalenessOverride(v)
               \/ \E o \in Oracles : OracleActivate(o)
               \/ \E o \in Oracles, f \in Forwards : OracleUpdatePrices(o, f)
        PROVE  total_shares' = total_shares /\ balance' = balance
    BY <1>7 DEF AdminTuneStrategy, AdminOracleStalenessOverride, OracleActivate,
       OracleUpdatePrices, ledger
  <1> QED
    BY <1>1, <1>2, <1>3, <1>4, <1>5, <1>6, <1>7, Zenon DEF Next

\* A payout never dilutes the holders who stay.
THEOREM ExitNeverDilutes == Spec => NavNeverDropsOnExit
  <1>1. ASSUME IInv, [Next]_vars, total_shares' < total_shares
        PROVE  total_assets' * total_shares >= total_assets * total_shares'
    <2>1. Next
      <3>1. total_shares \in Nat
        BY <1>1, Bounds
      <3> QED
        BY <1>1, <3>1 DEF vars, ledger
    <2>2. PICK u \in Users : RedeemFulfill(u)
      BY <1>1, <2>1, OnlyFulfillBurns
    <2> DEFINE A == total_assets
               T == total_shares
               p == Payout(u)
               c == SharesConsumed(p)
               v == NavPerShare
    <2>3. FulfillDue(u) /\ FulfillSucceeds(u) /\ total_assets' = A - p /\ total_shares' = T - c
      BY <2>2 DEF RedeemFulfill
    <2>4. /\ A \in Nat /\ T \in Nat \ {0} /\ NavScale \in Nat \ {0} /\ p \in Nat /\ c \in Nat
          /\ v \in Nat \ {0} /\ p <= A /\ c <= T
      BY <1>1, <2>3, Bounds, FulfillAmounts, VaultAssumption DEF FulfillSucceeds
    <2>5. v * T <= A * NavScale
      BY <2>4, MulDivRounding DEF NavPerShare
    <2>6. p * NavScale <= c * v
      BY <2>4, MulDivRounding DEF SharesConsumed
    <2> HIDE DEF A, T, p, c, v
    <2>7. p * T <= c * A
      BY <2>4, <2>5, <2>6, BurnCoversPayout
    <2>8. /\ (A - p) * T = A * T - p * T /\ A * (T - c) = A * T - c * A
          /\ A * T \in Nat /\ p * T \in Nat /\ c * A \in Nat
      BY <2>4
    <2>9. (A - p) * T >= A * (T - c)
      BY <2>7, <2>8
    <2> QED
      BY <2>3, <2>9 DEF A, T
  <1> QED
    BY <1>1, VaultInvariant, PTL DEF Spec, NavNeverDropsOnExit

\* A holding of Predict positions grows only on a market that is not over, whoever
\* mints: supply and roll_expiring pass the same check as an owner who trades alone.
THEOREM MintsEndAtExpiry == Spec => NoMintAfterExpiry
  <1> USE MarketAssumption, VaultAssumption
  <1>1. ASSUME IInv, [Next]_vars, NEW w \in Users, NEW j \in MarketKey,
               positions'[w][j] > positions[w][j]
        PROVE  now < ExpiryOf[j.oracle]
    <2>1. /\ positions \in [Users -> [MarketKey -> U64]] /\ positions[w][j] \in Nat
          /\ positions' # positions
      BY <1>1 DEF IInv, TypeOK, U64
    <2>2. Next
      BY <1>1, <2>1 DEF vars, book
    <2>3. ASSUME NEW o \in Oracles, LiveOracle(o, oracles[o], now) PROVE now < ExpiryOf[o]
      <3>1. now \in Nat /\ ExpiryOf[o] \in Nat
        BY <1>1 DEF IInv, TypeOK
      <3> QED
        BY <2>3, <3>1 DEF LiveOracle, Status
    <2>4. ASSUME NEW u \in Users, NEW o \in Oracles, NEW a \in Deposits, NEW f \in FairValues,
                 Supply(u, o, a, f)
          PROVE  now < ExpiryOf[j.oracle]
      <3>1. /\ CanMintTarget(o)
            /\ \E q \in U64 : positions' = [positions EXCEPT ![u] =
                                              IncreasePosition(@, TargetKey(o), q)]
        BY <2>4 DEF Supply, BuyHedgeForDeposit
      <3>2. j = TargetKey(o)
        BY <1>1, <2>1, <3>1 DEF IncreasePosition
      <3> QED
        BY <2>3, <3>1, <3>2 DEF CanMintTarget, TargetKey
    <2>5. ASSUME NEW u \in Users, NEW o \in Oracles, NEW f \in FairValues,
                 NEW b \in SUBSET ToRoll, RollExpiring(u, o, b, f)
          PROVE  now < ExpiryOf[j.oracle]
      <3> DEFINE left == [k \in MarketKey |-> IF k \in ToRoll
                                              THEN positions[u][k] - hedges[k].quantity
                                              ELSE positions[u][k]]
                 q == RolledQuantity(o, b, f)
      <3>1. /\ CanMintTarget(o)
            /\ positions' = [positions EXCEPT ![u] = IncreasePosition(left, TargetKey(o), q)]
            /\ \A k \in ToRoll : k \in DOMAIN hedges /\ positions[u][k] >= hedges[k].quantity
        BY <2>5 DEF RollExpiring, ToRoll, Expiring
      <3>2. \A k \in MarketKey : left[k] \in Int /\ left[k] <= positions[u][k]
        <4>1. \A k \in DOMAIN hedges : hedges[k].quantity \in Nat
          BY <1>1 DEF IInv, TypeOK, HedgeRow, U64
        <4>2. \A k \in MarketKey : positions[u][k] \in Nat
          BY <1>1 DEF IInv, TypeOK, U64
        <4> QED
          BY <3>1, <4>1, <4>2
      <3> HIDE DEF left, q
      <3>3. j = TargetKey(o)
        <4>1. w = u
          BY <1>1, <2>1, <3>1
        <4>2. CASE j # TargetKey(o)
          <5>1. left = [k \in MarketKey |-> left[k]]
            BY DEF left
          <5>2. positions'[w][j] = left[j]
            BY <2>1, <3>1, <4>1, <4>2, <5>1 DEF IncreasePosition
          <5> QED
            BY <1>1, <2>1, <3>2, <4>1, <5>2
        <4> QED
          BY <4>2
      <3> QED
        BY <2>3, <3>1, <3>3 DEF CanMintTarget, TargetKey
    <2>6. ASSUME NEW u \in Users, NEW k \in MarketKey, NEW q \in TradeQuantities,
                 PredictMint(u, k, q)
          PROVE  now < ExpiryOf[j.oracle]
      <3>1. /\ LiveOracle(k.oracle, oracles[k.oracle], now) /\ k.oracle \in Oracles
            /\ positions' = [positions EXCEPT ![u] = IncreasePosition(@, k, q)]
        BY <2>6 DEF PredictMint, MarketKey
      <3>2. j = k
        BY <1>1, <2>1, <3>1 DEF IncreasePosition
      <3> QED
        BY <2>3, <3>1, <3>2
    <2>7. ASSUME NEW u \in Users, NEW k \in MarketKey, NEW q \in Nat,
                 positions' = [positions EXCEPT ![u] = DecreasePosition(@, k, q)]
          PROVE  FALSE
      <3>1. positions[u][k] \in Nat
        BY <2>1 DEF U64
      <3> QED
        BY <1>1, <2>1, <2>7, <3>1 DEF DecreasePosition
    <2>8. ASSUME NEW u \in Users, NEW k \in MarketKey, NEW q \in TradeQuantities,
                 PredictRedeem(u, k, q)
          PROVE  FALSE
      <3>1. q \in Nat
        OBVIOUS
      <3> QED
        BY <2>7, <2>8, <3>1 DEF PredictRedeem
    <2>9. ASSUME NEW k \in MarketKey, AdminEmergencyUnwind(k)
          PROVE  FALSE
      <3>1. Admin \in Users /\ hedges[k].quantity \in Nat
        BY <1>1, <2>9 DEF AdminEmergencyUnwind, IInv, TypeOK, HedgeRow, U64
      <3> QED
        BY <2>7, <2>9, <3>1 DEF AdminEmergencyUnwind
    <2>10. ASSUME NEW u \in Users,
                 \/ \E n \in RequestAmounts : RedeemRequest(u, n)
                 \/ \E v \in Users, n \in TransferAmounts : TransferShares(u, v, n)
                 \/ RedeemCancel(u)
                 \/ RedeemFulfill(u)
           PROVE  FALSE
      BY <2>1, <2>10 DEF RedeemRequest, TransferShares, RedeemCancel, RedeemFulfill, book
    <2>11. ASSUME \/ Tick
                  \/ \E p \in BOOLEAN : AdminPause(p)
                  \/ \E key \in TuneKeys : \E v \in TuneValues[key] : AdminTuneStrategy(key, v)
                  \/ \E v \in TuneValues["max_staleness"] : AdminOracleStalenessOverride(v)
                  \/ \E o \in Oracles : OracleActivate(o)
                  \/ \E o \in Oracles, f \in Forwards : OracleUpdatePrices(o, f)
           PROVE  FALSE
      BY <2>1, <2>11 DEF Tick, AdminPause, AdminTuneStrategy, AdminOracleStalenessOverride,
         OracleActivate, OracleUpdatePrices, book
    <2> QED
      BY <2>2, <2>4, <2>5, <2>6, <2>8, <2>9, <2>10, <2>11, Zenon DEF Next
  <1>2. IInv /\ [Next]_vars =>
            \A u \in Users, k \in MarketKey :
               positions'[u][k] > positions[u][k] => now < ExpiryOf[k.oracle]
    BY <1>1
  <1> QED
    BY <1>2, VaultInvariant, PTL DEF Spec, NoMintAfterExpiry

\* A request slot only drains: while it stays open its timestamp is fixed and its
\* shares do not grow, so no share rides on the cooldown another share has served.
THEOREM SlotsDrain == Spec => SlotOnlyDrains
  <1> DEFINE Drained(u) == /\ slots'[u].timestamp_ms = slots[u].timestamp_ms
                           /\ slots'[u].shares <= slots[u].shares
  <1>1. ASSUME IInv, [Next]_vars, NEW w \in DOMAIN slots \cap DOMAIN slots'
        PROVE  Drained(w)
    <2>1. /\ w \in Users /\ slots \in [DOMAIN slots -> Slot] /\ slots[w].shares \in Nat
          /\ DOMAIN slots \subseteq Users
      BY <1>1 DEF IInv, TypeOK, Slot, U64
    <2>2. slots'[w] = slots[w] => Drained(w)
      BY <2>1
    <2>3. ASSUME NEW u \in Users, NEW n \in RequestAmounts, RedeemRequest(u, n)
          PROVE  Drained(w)
      <3>1. u # w /\ slots'[w] = slots[w]
        BY <1>1, <2>3 DEF RedeemRequest, TableAdd
      <3> QED
        BY <2>2, <3>1
    <2>4. ASSUME NEW u \in Users, RedeemCancel(u) PROVE Drained(w)
      <3>1. slots'[w] = slots[w]
        BY <1>1, <2>4 DEF RedeemCancel, TableRemove
      <3> QED
        BY <2>2, <3>1
    <2>5. ASSUME NEW u \in Users, RedeemFulfill(u) PROVE Drained(w)
      <3>1. /\ slots' = BurnFromSlot(u, SharesConsumed(Payout(u)))
            /\ SharesConsumed(Payout(u)) \in Nat
        BY <1>1, <2>5, FulfillAmounts DEF RedeemFulfill
      <3>2. CASE slots' = TableRemove(slots, u)
        <4>1. slots'[w] = slots[w]
          BY <1>1, <3>2 DEF TableRemove
        <4> QED
          BY <2>2, <4>1
      <3>3. CASE slots' = [slots EXCEPT ![u].shares = @ - SharesConsumed(Payout(u))]
        <4> DEFINE c == SharesConsumed(Payout(u))
        <4>1. c \in Nat /\ slots' = [slots EXCEPT ![u].shares = @ - c]
          BY <3>1, <3>3
        <4> HIDE DEF c
        <4>2. slots[w].timestamp_ms \in Nat /\ slots[w] \in Slot
          BY <1>1, <2>1 DEF Slot
        <4>3. slots'[w] = slots[w] \/ slots'[w] = [slots[w] EXCEPT !.shares = @ - c]
          BY <1>1, <2>1, <4>1
        <4>4. slots[w] = [shares |-> slots[w].shares, timestamp_ms |-> slots[w].timestamp_ms,
                          claimed_so_far |-> slots[w].claimed_so_far]
          BY <4>2 DEF Slot
        <4>5. CASE slots'[w] = [slots[w] EXCEPT !.shares = @ - c]
          <5>1. /\ slots'[w].timestamp_ms = slots[w].timestamp_ms
                /\ slots'[w].shares = slots[w].shares - c
            BY <4>4, <4>5
          <5> QED
            BY <2>1, <4>1, <5>1
        <4> QED
          BY <2>2, <4>3, <4>5
      <3> QED
        BY <3>1, <3>2, <3>3, Zenon DEF BurnFromSlot
    <2>6. ASSUME \/ \E u \in Users, o \in Oracles, a \in Deposits, f \in FairValues :
                      Supply(u, o, a, f)
                 \/ \E u \in Users, v \in Users, n \in TransferAmounts : TransferShares(u, v, n)
                 \/ \E u \in Users, o \in Oracles, f \in FairValues :
                      \E b \in SUBSET ToRoll : RollExpiring(u, o, b, f)
                 \/ \E u \in Users, k \in MarketKey, q \in TradeQuantities :
                      PredictMint(u, k, q) \/ PredictRedeem(u, k, q)
          PROVE  Drained(w)
      <3>1. ASSUME NEW u \in Users, NEW o \in Oracles, NEW a \in Deposits,
                   NEW f \in FairValues, Supply(u, o, a, f)
            PROVE  slots' = slots
        BY <3>1 DEF Supply
      <3>2. ASSUME NEW u \in Users, NEW o \in Oracles, NEW f \in FairValues,
                   NEW b \in SUBSET ToRoll, RollExpiring(u, o, b, f)
            PROVE  slots' = slots
        BY <3>2 DEF RollExpiring, exits
      <3>3. ASSUME NEW u \in Users, NEW k \in MarketKey, NEW q \in TradeQuantities,
                   PredictMint(u, k, q) \/ PredictRedeem(u, k, q)
            PROVE  slots' = slots
        BY <3>3 DEF PredictMint, PredictRedeem, exits
      <3>4. ASSUME NEW u \in Users, NEW v \in Users, NEW n \in TransferAmounts,
                   TransferShares(u, v, n)
            PROVE  slots' = slots
        BY <3>4 DEF TransferShares
      <3>5. slots' = slots
        BY <2>6, <3>1, <3>2, <3>3, <3>4, Zenon
      <3> QED
        BY <2>2, <3>5
    <2>7. ASSUME \/ Tick
                 \/ \E k \in MarketKey : AdminEmergencyUnwind(k)
                 \/ \E p \in BOOLEAN : AdminPause(p)
                 \/ \E key \in TuneKeys : \E v \in TuneValues[key] : AdminTuneStrategy(key, v)
                 \/ \E v \in TuneValues["max_staleness"] : AdminOracleStalenessOverride(v)
                 \/ \E o \in Oracles : OracleActivate(o)
                 \/ \E o \in Oracles, f \in Forwards : OracleUpdatePrices(o, f)
                 \/ UNCHANGED vars
          PROVE  Drained(w)
      <3>1. slots' = slots
        BY <2>7 DEF Tick, AdminEmergencyUnwind, AdminPause, AdminTuneStrategy,
           AdminOracleStalenessOverride, OracleActivate, OracleUpdatePrices, vars, exits
      <3> QED
        BY <2>2, <3>1
    <2> HIDE DEF Drained
    <2> QED
      BY <1>1, <2>3, <2>4, <2>5, <2>6, <2>7, Zenon DEF Next
  <1>2. IInv /\ [Next]_vars =>
            \A u \in DOMAIN slots \cap DOMAIN slots' :
               /\ slots'[u].timestamp_ms = slots[u].timestamp_ms
               /\ slots'[u].shares <= slots[u].shares
    BY <1>1
  <1> QED
    BY <1>2, VaultInvariant, PTL DEF Spec, SlotOnlyDrains

-----------------------------------------------------------------------------
(* Exits.                                                                    *)

\* A payout within a slot's value burns no more shares than the slot holds: both
\* roundings go the vault's way, and the second undoes at most the first.
LEMMA BurnFitsSlot ==
    ASSUME IInv, NEW u \in Users, FulfillDue(u)
    PROVE  SharesConsumed(Payout(u)) <= slots[u].shares
  <1> DEFINE s == slots[u].shares
             v == NavPerShare
             p == Payout(u)
  <1>1. /\ v \in Nat \ {0} /\ p \in Nat /\ p <= ProRata(u) /\ s \in Nat
        /\ NavScale \in Nat \ {0} /\ ProRata(u) = MulDivDown(s, v, NavScale)
        /\ SharesConsumed(p) = MulDivUp(p, NavScale, v)
    BY FulfillAmounts, VaultAssumption, U64MaxAssumption
       DEF IInv, TypeOK, Slot, U64, FulfillDue, ProRata, SharesConsumed
  <1> HIDE DEF s, v, p
  <1>2. ProRata(u) \in Nat /\ ProRata(u) * NavScale <= s * v
    BY <1>1, MulDivRounding
  <1>3. p * NavScale <= ProRata(u) * NavScale
    BY <1>1, <1>2, TimesMonotone
  <1>4. p * NavScale \in Nat /\ ProRata(u) * NavScale \in Nat /\ s * v \in Nat
    BY <1>1, <1>2
  <1>5. p * NavScale <= s * v
    BY <1>2, <1>3, <1>4
  <1>6. MulDivUp(p, NavScale, v) <= s
    BY <1>1, <1>5, MulDivUpLeast
  <1> QED
    BY <1>1, <1>6 DEF s, p

\* redeem_fulfill's own arithmetic never aborts an exit that is due: consume takes what
\* available_withdrawal reported, the burn fits the slot, and slot and balance are parts
\* of the cached totals.
THEOREM ExitsAreNotBlocked == Spec => []ExitNotBlocked
  <1>1. ASSUME IInv, NEW u \in Users, FulfillDue(u) PROVE FulfillSucceeds(u)
    <2> DEFINE p == Payout(u)
               avail == AvailableWithdrawal(UserBucket(u), now)
    <2>1. p \in Nat /\ p <= balance /\ SharesConsumed(p) \in Nat
      BY <1>1, FulfillAmounts
    <2>2. UserBucket(u) \in Bucket /\ now \in Nat
      BY <1>1, UserBucketType DEF IInv, TypeOK
    <2>3. p <= avail
      <3>1. ProRata(u) \in Nat /\ avail \in Nat /\ balance \in Nat
        BY <1>1, <2>2, AvailableType, U64MaxAssumption DEF IInv, TypeOK, FulfillDue, U64
      <3>2. p = MinOf(MinOf(ProRata(u), avail), balance)
        BY DEF Payout
      <3> QED
        BY <3>1, <3>2 DEF MinOf
    <2>4. ConsumeOK(UserBucket(u), p, now)
      BY <2>1, <2>2, <2>3, AvailableIsConsumable
    <2>5. SharesConsumed(p) <= slots[u].shares
      BY <1>1, BurnFitsSlot
    <2>6. /\ slots[u].shares \in Nat /\ SumOver(Users, EscrowOf) \in Nat
          /\ slots[u].shares <= SumOver(Users, EscrowOf)
      <3>1. EscrowOf[u] = slots[u].shares
        BY <1>1 DEF EscrowOf, FulfillDue
      <3>2. IsFiniteSet(Users) /\ \A y \in Users : EscrowOf[y] \in U64
        BY <1>1, DerivedTypes, VaultAssumption DEF IInv
      <3> QED
        BY <1>1, <3>1, <3>2, SumUpdate, U64Natural, U64Nat
    <2>7. /\ balance \in Nat /\ total_assets \in Nat /\ total_shares \in Nat
          /\ SumOver(MarketKey, CostOf) \in Nat /\ SumOver(Users, wallet) \in Nat
          /\ balance + SumOver(MarketKey, CostOf) <= total_assets
          /\ SumOver(Users, wallet) + SumOver(Users, EscrowOf) <= total_shares
      BY <1>1, Bounds, DerivedTypes DEF IInv
    <2>8. p <= total_assets /\ SharesConsumed(p) <= total_shares
      BY <2>1, <2>5, <2>6, <2>7
    <2> QED
      BY <2>4, <2>5, <2>8 DEF FulfillSucceeds
  <1>2. IInv => ExitNotBlocked
    BY <1>1 DEF ExitNotBlocked
  <1> QED
    BY <1>2, VaultInvariant, PTL

\* A slot paid its full value is closed: the floor of the payout loses less than one
\* share's worth while a share is worth at least one unit, so the ceiling of the burn
\* takes every share.
THEOREM FullPayoutCloses == Spec => FullPayoutClosesSlot
  <1>1. ASSUME IInv, [Next]_vars, NEW u \in DOMAIN slots \cap DOMAIN slots',
               balance' < balance, balance - balance' = ProRata(u), NavPerShare >= NavScale
        PROVE  slots'[u] = slots[u]
    <2>1. balance \in Nat /\ balance' # balance
      BY <1>1, U64MaxAssumption DEF IInv, TypeOK, U64
    <2>2. Next
      BY <1>1, <2>1 DEF vars, ledger
    <2>3. PICK w \in Users : RedeemFulfill(w)
      BY <1>1, <2>2, OnlyFulfillBurns
    <2> DEFINE p == Payout(w)
               c == SharesConsumed(p)
    <2>4. /\ FulfillDue(w) /\ FulfillSucceeds(w) /\ w \in DOMAIN slots
          /\ balance' = balance - p /\ slots' = BurnFromSlot(w, c)
      BY <2>3 DEF RedeemFulfill, FulfillDue
    <2>5. CASE w # u
      BY <1>1, <2>4, <2>5 DEF BurnFromSlot, TableRemove
    <2>6. CASE w = u
      <3> DEFINE s == slots[u].shares
                 v == NavPerShare
      <3>1. /\ s \in Nat /\ v \in Nat \ {0} /\ p \in Nat /\ c \in Nat /\ c <= s
            /\ NavScale \in Nat \ {0} /\ v >= NavScale
        BY <1>1, <2>4, <2>6, FulfillAmounts, VaultAssumption, U64MaxAssumption
           DEF IInv, TypeOK, Slot, U64, FulfillSucceeds
      <3>2. /\ p = ProRata(u) /\ ProRata(u) = (s * v) \div NavScale
            /\ c = MulDivUp(p, NavScale, v)
        BY <1>1, <2>1, <2>4, <2>6, <3>1 DEF ProRata, MulDivDown, SharesConsumed
      <3> HIDE DEF p, c, s, v
      <3>3. s * v \in Nat /\ c * v \in Nat /\ p * NavScale \in Nat /\ (c + 1) * v = c * v + v
        BY <3>1
      <3>4. s * v < p * NavScale + NavScale
        BY <3>1, <3>2, <3>3, DivBounds
      <3>5. p * NavScale <= c * v
        BY <3>1, <3>2, MulDivRounding
      <3>6. s * v < (c + 1) * v
        BY <3>1, <3>3, <3>4, <3>5
      <3>7. ~(c + 1 <= s)
        <4> SUFFICES ASSUME c + 1 <= s PROVE FALSE
          OBVIOUS
        <4>1. (c + 1) * v <= s * v
          BY <3>1, TimesMonotone
        <4> QED
          BY <3>1, <3>3, <3>6, <4>1
      <3>8. s = c
        BY <3>1, <3>7
      <3>9. u \notin DOMAIN slots'
        BY <2>4, <2>6, <3>8 DEF s, BurnFromSlot, TableRemove
      <3> QED
        BY <1>1, <3>9
    <2> QED
      BY <2>5, <2>6
  <1>2. IInv /\ [Next]_vars
        => [\A u \in DOMAIN slots \cap DOMAIN slots' :
              /\ balance' < balance
              /\ balance - balance' = ProRata(u)
              /\ NavPerShare >= NavScale
              => slots'[u] = slots[u]]_vars
    BY <1>1
  <1> QED
    BY <1>2, VaultInvariant, PTL DEF Spec, FullPayoutClosesSlot

-----------------------------------------------------------------------------
(* Registry and custody.                                                     *)

\* What all managers hold of a key moves with the one manager that changes.
LEMMA HeldUpdate ==
    ASSUME TypeOK, NEW u \in Users, NEW k \in MarketKey,
           positions' \in [Users -> [MarketKey -> U64]],
           \A w \in Users \ {u} : positions'[w] = positions[w]
    PROVE  /\ HeldOf(k)' = HeldOf(k) - positions[u][k] + positions'[u][k]
           /\ HeldOf(k) \in Nat /\ positions[u][k] \in Nat /\ positions'[u][k] \in Nat
  <1> DEFINE F == [w \in Users |-> positions[w][k]]
             G == [w \in Users |-> positions'[w][k]]
  <1>1. /\ IsFiniteSet(Users) /\ (\A w \in Users : F[w] \in U64)
        /\ (\A w \in Users : G[w] \in U64) /\ (\A w \in Users \ {u} : G[w] = F[w])
        /\ F[u] = positions[u][k] /\ G[u] = positions'[u][k]
    BY VaultAssumption DEF TypeOK
  <1>2. HeldOf(k) = SumOver(Users, F) /\ HeldOf(k)' = SumOver(Users, G)
    BY DEF HeldOf
  <1> HIDE DEF F, G
  <1>3. SumOver(Users, G) = SumOver(Users, F) - F[u] + G[u] /\ SumOver(Users, F) \in Nat
    BY U64Natural, U64Nat, <1>1, SumUpdate
  <1>4. F[u] \in Nat /\ G[u] \in Nat
    BY <1>1, U64MaxAssumption DEF U64
  <1> QED
    BY <1>1, <1>2, <1>3, <1>4

\* So registry and custody move together when one manager's change of each key is
\* the row's.
LEMMA MovesTogether ==
    ASSUME TypeOK, NEW u \in Users,
           positions' \in [Users -> [MarketKey -> U64]],
           \A w \in Users \ {u} : positions'[w] = positions[w],
           NEW k \in MarketKey,
           positions'[u][k] - positions[u][k] = QuantityOf'[k] - QuantityOf[k],
           QuantityOf[k] \in Nat, QuantityOf'[k] \in Nat
    PROVE  HeldOf(k)' - HeldOf(k) = QuantityOf'[k] - QuantityOf[k]
  BY HeldUpdate

\* Quantities of the rows, of either state.
LEMMA QuantityTypes ==
    ASSUME IInv, IInv', NEW k \in MarketKey
    PROVE  QuantityOf[k] \in Nat /\ QuantityOf'[k] \in Nat
  BY U64MaxAssumption DEF IInv, TypeOK, QuantityOf, HedgeRow, U64

\* supply: the minted quantity enters the supplier's manager and the key's row.
LEMMA SupplyMoves ==
    ASSUME IInv, IInv', NEW u \in Users, NEW o \in Oracles, NEW a \in Deposits,
           NEW f \in FairValues, Supply(u, o, a, f), NEW k \in MarketKey
    PROVE  HeldOf(k)' - HeldOf(k) = QuantityOf'[k] - QuantityOf[k]
  <1> DEFINE h == MulDivDown(a, Effective("alloc_bps"), BpsScale)
             q == QuantityFor(h, f)
             key == TargetKey(o)
  <1>1. /\ q \in U64 /\ CanMintTarget(o)
        /\ positions' = [positions EXCEPT ![u] = IncreasePosition(@, key, q)]
        /\ hedges' = InsertRow(hedges, key, q, h)
    BY DEF Supply, BuyHedgeForDeposit
  <1>2. key \in MarketKey
    BY <1>1, TargetKeyType
  <1> HIDE DEF key, q, h
  <1>3. /\ positions \in [Users -> [MarketKey -> U64]]
        /\ positions' \in [Users -> [MarketKey -> U64]]
        /\ DOMAIN hedges \subseteq MarketKey /\ hedges \in [DOMAIN hedges -> HedgeRow]
        /\ q \in Nat /\ TypeOK
    BY <1>1, U64MaxAssumption DEF IInv, TypeOK, U64
  <1>4. \A w \in Users \ {u} : positions'[w] = positions[w]
    BY <1>1, <1>3
  <1>5. positions[u] \in [MarketKey -> U64] /\ positions'[u] = [positions[u] EXCEPT ![key] = @ + q]
    BY <1>1, <1>3 DEF IncreasePosition
  <1>6. QuantityOf[k] \in Nat /\ QuantityOf'[k] \in Nat
    BY QuantityTypes
  <1>7. positions[u][k] \in Nat
    BY <1>5, U64MaxAssumption DEF U64
  <1>8. CASE k # key
    <2>1. positions'[u][k] = positions[u][k]
      BY <1>5, <1>8
    <2>2. (k \in DOMAIN hedges' <=> k \in DOMAIN hedges)
          /\ (k \in DOMAIN hedges => hedges'[k] = hedges[k])
      BY <1>1, <1>3, <1>8 DEF InsertRow, TableAdd
    <2>3. QuantityOf'[k] = QuantityOf[k]
      BY <2>2 DEF QuantityOf
    <2>4. positions'[u][k] - positions[u][k] = QuantityOf'[k] - QuantityOf[k]
      BY <1>6, <1>7, <2>1, <2>3
    <2> QED
      BY <1>3, <1>4, <1>6, <2>4, MovesTogether
  <1>9. CASE k = key
    <2>1. positions'[u][k] = positions[u][k] + q
      BY <1>2, <1>5, <1>9
    <2>2. k \in DOMAIN hedges' /\ hedges'[k].quantity = QuantityOf[k] + q
      <3>1. CASE k \in DOMAIN hedges
        BY <1>1, <1>3, <1>9, <3>1 DEF InsertRow, QuantityOf, HedgeRow
      <3>2. CASE k \notin DOMAIN hedges
        <4>1. QuantityOf[k] = 0
          BY <3>2 DEF QuantityOf
        <4> QED
          BY <1>1, <1>3, <1>9, <3>2, <4>1 DEF InsertRow, TableAdd
      <3> QED
        BY <3>1, <3>2
    <2>3. QuantityOf'[k] = QuantityOf[k] + q
      BY <2>2 DEF QuantityOf
    <2>4. positions'[u][k] - positions[u][k] = QuantityOf'[k] - QuantityOf[k]
      BY <1>3, <1>6, <1>7, <2>1, <2>3
    <2> QED
      BY <1>3, <1>4, <1>6, <2>4, MovesTogether
  <1> QED
    BY <1>8, <1>9

\* roll_expiring: the caller's manager gives up each rolled row's quantity and receives
\* the replacement's, whether or not the replacement's key is one of the rolled ones.
LEMMA RollMoves ==
    ASSUME IInv, IInv', NEW u \in Users, NEW o \in Oracles, NEW b, NEW f,
           RollExpiring(u, o, b, f), NEW k \in MarketKey
    PROVE  HeldOf(k)' - HeldOf(k) = QuantityOf'[k] - QuantityOf[k]
  <1> DEFINE new == TargetKey(o)
             q == RolledQuantity(o, b, f)
             row == [quantity |-> q, cost_basis |-> SumOver(ToRoll, CostOf)]
             left == [j \in MarketKey |-> IF j \in ToRoll
                                          THEN positions[u][j] - hedges[j].quantity
                                          ELSE positions[u][j]]
  <1>1. /\ q \in U64 /\ (\A j \in ToRoll : hedge_keys[j] = 1)
        /\ positions' = [positions EXCEPT ![u] = IncreasePosition(left, new, q)]
        /\ hedges' = TableAdd([j \in DOMAIN hedges \ ToRoll |-> hedges[j]], new, row)
    BY DEF RollExpiring
  <1>2. new \in MarketKey /\ (new \in DOMAIN hedges => new \in ToRoll)
    BY RollReplacesRolled
  <1>3. /\ positions \in [Users -> [MarketKey -> U64]]
        /\ positions' \in [Users -> [MarketKey -> U64]]
        /\ DOMAIN hedges \subseteq MarketKey /\ hedges \in [DOMAIN hedges -> HedgeRow]
        /\ q \in Nat /\ TypeOK
    BY <1>1, U64MaxAssumption DEF IInv, TypeOK, U64
  <1>4. ToRoll \subseteq DOMAIN hedges
    BY <1>1 DEF IInv, RegistryIndexed, ToRoll
  <1>5. row.quantity = q
    OBVIOUS
  <1> HIDE DEF new, q, row
  <1>6. \A w \in Users \ {u} : positions'[w] = positions[w]
    BY <1>1, <1>3
  <1>7. positions'[u] = [left EXCEPT ![new] = @ + q]
    BY <1>1, <1>3 DEF IncreasePosition
  <1>8. QuantityOf[k] \in Nat /\ QuantityOf'[k] \in Nat /\ positions[u][k] \in Nat
    BY <1>3, QuantityTypes, U64MaxAssumption DEF U64
  <1>9. left[k] = IF k \in ToRoll THEN positions[u][k] - QuantityOf[k] ELSE positions[u][k]
    BY <1>4 DEF QuantityOf
  <1>10. positions'[u][k] = IF k = new THEN left[k] + q ELSE left[k]
    BY <1>7
  <1>11. QuantityOf'[k] = IF k = new THEN q ELSE IF k \in ToRoll THEN 0 ELSE QuantityOf[k]
    <2>1. /\ k \in DOMAIN hedges' <=> k = new \/ k \in DOMAIN hedges \ ToRoll
          /\ k = new => hedges'[k] = row
          /\ k # new /\ k \in DOMAIN hedges \ ToRoll => hedges'[k] = hedges[k]
      BY <1>1 DEF TableAdd
    <2> QED
      BY <1>4, <1>5, <2>1 DEF QuantityOf
  <1>12. k = new /\ k \notin ToRoll => QuantityOf[k] = 0
    BY <1>2 DEF QuantityOf
  <1> HIDE DEF left
  <1>13. positions'[u][k] - positions[u][k] = QuantityOf'[k] - QuantityOf[k]
    BY <1>3, <1>8, <1>9, <1>10, <1>11, <1>12
  <1> QED
    BY <1>3, <1>6, <1>8, <1>13, MovesTogether

\* admin_emergency_unwind: the row's quantity leaves the admin's manager with the row.
LEMMA UnwindMoves ==
    ASSUME IInv, IInv', NEW j \in MarketKey, AdminEmergencyUnwind(j), NEW k \in MarketKey
    PROVE  HeldOf(k)' - HeldOf(k) = QuantityOf'[k] - QuantityOf[k]
  <1>1. /\ j \in DOMAIN hedges /\ hedges' = TableRemove(hedges, j) /\ Admin \in Users
        /\ positions' = [positions EXCEPT ![Admin] =
                                DecreasePosition(@, j, hedges[j].quantity)]
    BY VaultAssumption DEF AdminEmergencyUnwind
  <1>2. /\ positions \in [Users -> [MarketKey -> U64]]
        /\ positions' \in [Users -> [MarketKey -> U64]] /\ TypeOK
    BY DEF IInv, TypeOK
  <1>3. \A w \in Users \ {Admin} : positions'[w] = positions[w]
    BY <1>1, <1>2
  <1>4. positions'[Admin] = [positions[Admin] EXCEPT ![j] = @ - hedges[j].quantity]
    BY <1>1, <1>2 DEF DecreasePosition
  <1>5. QuantityOf[k] \in Nat /\ QuantityOf'[k] \in Nat /\ positions[Admin][k] \in Nat
    BY <1>1, <1>2, QuantityTypes, U64MaxAssumption DEF U64
  <1>6. positions'[Admin][k] = IF k = j THEN positions[Admin][k] - QuantityOf[k]
                               ELSE positions[Admin][k]
    BY <1>1, <1>2, <1>4 DEF QuantityOf
  <1>7. QuantityOf'[k] = IF k = j THEN 0 ELSE QuantityOf[k]
    BY <1>1 DEF QuantityOf, TableRemove
  <1>8. positions'[Admin][k] - positions[Admin][k] = QuantityOf'[k] - QuantityOf[k]
    BY <1>5, <1>6, <1>7
  <1> QED
    BY <1>1, <1>2, <1>3, <1>5, <1>8, MovesTogether

\* Whenever a step changes the registry, the change of each row's quantity is the change of
\* the positions held for its key: no handler books a hedge that no manager received,
\* or forgets one that a manager still holds.
THEOREM CustodyFollowsRegistry == Spec => RegistryMovesWithCustody
  <1> DEFINE Together ==
               \A k \in MarketKey : HeldOf(k)' - HeldOf(k) = QuantityOf'[k] - QuantityOf[k]
  <1>1. ASSUME IInv, [Next]_vars, hedges' # hedges PROVE Together
    <2>1. IInv'
      BY <1>1, NextInv
    <2>2. Next
      BY <1>1 DEF vars, book
    <2>3. ASSUME NEW u \in Users, NEW o \in Oracles, NEW a \in Deposits,
                 NEW f \in FairValues, Supply(u, o, a, f)
          PROVE  Together
      BY <1>1, <2>1, <2>3, SupplyMoves
    <2>4. ASSUME NEW u \in Users, NEW o \in Oracles, NEW f \in FairValues,
                 NEW b \in SUBSET ToRoll, RollExpiring(u, o, b, f)
          PROVE  Together
      BY <1>1, <2>1, <2>4, RollMoves
    <2>5. ASSUME NEW j \in MarketKey, AdminEmergencyUnwind(j) PROVE Together
      BY <1>1, <2>1, <2>5, UnwindMoves
    <2> HIDE DEF Together
    <2>6. ASSUME NEW u \in Users,
                 \/ \E n \in RequestAmounts : RedeemRequest(u, n)
                 \/ \E w \in Users, n \in TransferAmounts : TransferShares(u, w, n)
                 \/ RedeemCancel(u) \/ RedeemFulfill(u)
          PROVE  hedges' = hedges
      BY <2>6 DEF RedeemRequest, TransferShares, RedeemCancel, RedeemFulfill, book
    <2>7. ASSUME NEW u \in Users, NEW k \in MarketKey, NEW q \in TradeQuantities,
                 PredictMint(u, k, q) \/ PredictRedeem(u, k, q)
          PROVE  hedges' = hedges
      BY <2>7 DEF PredictMint, PredictRedeem
    <2>8. ASSUME \/ Tick
                 \/ \E p \in BOOLEAN : AdminPause(p)
                 \/ \E key \in TuneKeys : \E v \in TuneValues[key] : AdminTuneStrategy(key, v)
                 \/ \E v \in TuneValues["max_staleness"] : AdminOracleStalenessOverride(v)
                 \/ \E o \in Oracles : OracleActivate(o)
                 \/ \E o \in Oracles, f \in Forwards : OracleUpdatePrices(o, f)
          PROVE  hedges' = hedges
      BY <2>8 DEF Tick, AdminPause, AdminTuneStrategy, AdminOracleStalenessOverride,
         OracleActivate, OracleUpdatePrices, book
    <2> QED
      BY <1>1, <2>2, <2>3, <2>4, <2>5, <2>6, <2>7, <2>8, Zenon DEF Next
  <1>2. IInv /\ [Next]_vars => [hedges' # hedges => Together]_vars
    BY <1>1
  <1> QED
    BY <1>2, VaultInvariant, PTL DEF Spec, RegistryMovesWithCustody

-----------------------------------------------------------------------------
(* Coins.                                                                    *)

\* Coins of one user: their balances, and ids below the next one.
Purse(t, n) ==
    /\ IsFiniteSet(DOMAIN t) /\ NatValued(t, DOMAIN t)
    /\ \A c \in DOMAIN t : c \in Nat /\ c < n

CoinTypes ==
    /\ nextCoin \in Nat
    /\ DOMAIN quoteCoins = Users /\ DOMAIN shareCoins = Users
    /\ \A u \in Users : Purse(quoteCoins[u], nextCoin) /\ Purse(shareCoins[u], nextCoin)

LEMMA TotalType == ASSUME NEW t, NEW n, Purse(t, n) PROVE TotalOf(t) \in Nat
  BY SumType DEF Purse, TotalOf

\* A transaction creates a coin, takes from one, or consumes one.
LEMMA PurseGains ==
    ASSUME NEW n \in Nat, NEW t, Purse(t, n), NEW a \in Nat
    PROVE  /\ Purse(TableAdd(t, n, a), n + 1)
           /\ TotalOf(TableAdd(t, n, a)) = TotalOf(t) + a
  <1> DEFINE s == TableAdd(t, n, a)
  <1>1. DOMAIN s = DOMAIN t \cup {n} /\ s[n] = a /\ n \notin DOMAIN t
        /\ \A c \in DOMAIN t : s[c] = t[c]
    BY DEF TableAdd, Purse
  <1> HIDE DEF s
  <1>2. IsFiniteSet(DOMAIN s) /\ NatValued(s, DOMAIN s)
    BY <1>1, FS_AddElement DEF Purse, NatValued
  <1>3. SumOver(DOMAIN s, s) = SumOver(DOMAIN s \ {n}, s) + a
    BY <1>1, <1>2, SumSplit
  <1>4. DOMAIN s \ {n} = DOMAIN t
    BY <1>1
  <1>5. SumOver(DOMAIN t, s) = SumOver(DOMAIN t, t)
    BY <1>1, SumSame
  <1>6. TotalOf(s) = TotalOf(t) + a
    BY <1>3, <1>4, <1>5 DEF TotalOf
  <1>7. \A c \in DOMAIN s : c \in Nat /\ c < n + 1
    BY <1>1 DEF Purse
  <1> QED
    BY <1>2, <1>6, <1>7 DEF s, Purse

LEMMA PursePays ==
    ASSUME NEW n \in Nat, NEW t, Purse(t, n), NEW c \in DOMAIN t, NEW a \in Nat, t[c] >= a
    PROVE  /\ Purse([t EXCEPT ![c] = @ - a], n)
           /\ TotalOf([t EXCEPT ![c] = @ - a]) = TotalOf(t) - a
  <1> DEFINE s == [t EXCEPT ![c] = @ - a]
  <1>1. DOMAIN s = DOMAIN t /\ s[c] = t[c] - a /\ \A d \in DOMAIN t \ {c} : s[d] = t[d]
    OBVIOUS
  <1> HIDE DEF s
  <1>2. t[c] \in Nat /\ t[c] - a \in Nat /\ IsFiniteSet(DOMAIN t)
    BY DEF Purse, NatValued
  <1>3. NatValued(s, DOMAIN t) /\ NatValued(t, DOMAIN t)
    BY <1>1, <1>2 DEF Purse, NatValued
  <1>4. SumOver(DOMAIN t, s) = SumOver(DOMAIN t, t) - t[c] + s[c] /\ SumOver(DOMAIN t, t) \in Nat
    BY <1>1, <1>2, <1>3, SumUpdate
  <1>5. TotalOf(s) = TotalOf(t) - a
    BY <1>1, <1>2, <1>4 DEF TotalOf
  <1>6. \A d \in DOMAIN s : d \in Nat /\ d < n
    BY <1>1 DEF Purse
  <1> QED
    BY <1>1, <1>2, <1>3, <1>5, <1>6 DEF s, Purse

LEMMA PurseKept ==
    ASSUME NEW n \in Nat, NEW t, Purse(t, n) PROVE Purse(t, n + 1)
  BY DEF Purse

LEMMA PurseLoses == ASSUME NEW n, NEW t, Purse(t, n), NEW c PROVE Purse(TableRemove(t, c), n)
  <1>1. DOMAIN TableRemove(t, c) = DOMAIN t \ {c}
        /\ \A d \in DOMAIN t \ {c} : TableRemove(t, c)[d] = t[d]
    BY DEF TableRemove
  <1> QED
    BY <1>1, FS_RemoveElement DEF Purse, NatValued

\* All purses stay purses when one of them gains a coin, and when none does.
Purses(T, n) == DOMAIN T = Users /\ \A v \in Users : Purse(T[v], n)

LEMMA PursesKept == ASSUME NEW n \in Nat, NEW T, Purses(T, n) PROVE Purses(T, n + 1)
  BY PurseKept DEF Purses

LEMMA PursesGain ==
    ASSUME NEW n \in Nat, NEW T, Purses(T, n), NEW u \in Users, NEW a \in Nat
    PROVE  LET G == [T EXCEPT ![u] = TableAdd(@, n, a)]
           IN  /\ Purses(G, n + 1)
               /\ TotalOf(G[u]) = TotalOf(T[u]) + a
               /\ \A v \in Users \ {u} : G[v] = T[v]
  <1> DEFINE G == [T EXCEPT ![u] = TableAdd(T[u], n, a)]
  <1>1. DOMAIN G = Users /\ G[u] = TableAdd(T[u], n, a) /\ \A v \in Users \ {u} : G[v] = T[v]
    BY DEF Purses
  <1>2. Purse(T[u], n)
    BY DEF Purses
  <1>3. Purse(TableAdd(T[u], n, a), n + 1) /\ TotalOf(TableAdd(T[u], n, a)) = TotalOf(T[u]) + a
    BY <1>2, PurseGains
  <1>4. \A v \in Users \ {u} : Purse(T[v], n + 1)
    BY PurseKept DEF Purses
  <1> HIDE DEF G
  <1>5. Purses(G, n + 1)
    BY <1>1, <1>3, <1>4 DEF Purses
  <1>6. TotalOf(G[u]) = TotalOf(T[u]) + a
    BY <1>1, <1>3
  <1> QED
    BY <1>1, <1>5, <1>6 DEF G

-----------------------------------------------------------------------------
(* What each transaction moves.                                              *)

\* Shares minted for a deposit are a number.
LEMMA MintType == ASSUME IInv, NEW a \in Nat PROVE SharesToMint(a) \in Nat
  <1>1. /\ a \in Nat /\ total_shares + VirtualShares \in Nat /\ total_assets + 1 \in Nat \ {0}
    BY Bounds, VaultAssumption, U64MaxAssumption DEF U64
  <1>2. a * (total_shares + VirtualShares) \in Nat
    BY <1>1, ProductType
  <1> QED
    BY <1>1, <1>2, DivBounds DEF SharesToMint

\* The supply call: the assets grow by the deposit, the sender gains the shares minted.
LEMMA SupplyFromFacts ==
    ASSUME IInv, CoinTypes, NEW u \in Users, NEW a \in Nat, SupplyFromTx(u, a)
    PROVE  /\ IInv'
           /\ total_assets' = total_assets + a
           /\ total_shares' = total_shares + SharesToMint(a)
           /\ nextCoin' = nextCoin + 1 /\ Purses(shareCoins', nextCoin')
           /\ a > 0
  <1>1. PICK o \in Oracles, f \in FairValues : Supply(u, o, a, f)
    BY DEF SupplyFromTx
  <1>2. IInv'
    BY <1>1, SupplyInv
  <1>3. total_assets' = total_assets + a /\ total_shares' = total_shares + SharesToMint(a) /\ a > 0
    BY <1>1 DEF Supply
  <1>4. nextCoin \in Nat /\ Purses(shareCoins, nextCoin) /\ SharesToMint(a) \in Nat
    BY MintType DEF CoinTypes, Purses
  <1>5. nextCoin' = nextCoin + 1 /\ shareCoins' = Created(shareCoins, u, SharesToMint(a))
    BY DEF SupplyFromTx
  <1>6. Purses(Created(shareCoins, u, SharesToMint(a)), nextCoin + 1)
    BY <1>4, PursesGain DEF Created
  <1> QED
    BY <1>2, <1>3, <1>5, <1>6

\* buildSupplyTx: the sender's purse pays the deposit.
LEMMA SupplyFacts ==
    ASSUME IInv, CoinTypes, NEW u \in Users, NEW c, NEW a \in Nat, SupplyTx(u, c, a)
    PROVE  /\ IInv' /\ CoinTypes'
           /\ total_assets' = total_assets + a
           /\ total_shares' = total_shares + SharesToMint(a)
           /\ Wealth(u)' = Wealth(u) - a
           /\ \A v \in Users \ {u} : quoteCoins'[v] = quoteCoins[v]
           /\ a > 0
  <1>1. /\ c \in DOMAIN quoteCoins[u] /\ quoteCoins[u][c] >= a
        /\ quoteCoins' = [quoteCoins EXCEPT ![u][c] = @ - a]
    BY DEF SupplyTx
  <1> DEFINE t == [quoteCoins[u] EXCEPT ![c] = @ - a]
  <1>2. /\ nextCoin \in Nat /\ Purse(quoteCoins[u], nextCoin) /\ DOMAIN quoteCoins = Users
    BY DEF CoinTypes
  <1>3. Purse(t, nextCoin) /\ TotalOf(t) = TotalOf(quoteCoins[u]) - a
    <2>1. PICK p : p = quoteCoins[u]
      OBVIOUS
    <2>2. Purse(p, nextCoin) /\ c \in DOMAIN p /\ p[c] >= a /\ nextCoin \in Nat
      BY <1>1, <1>2, <2>1
    <2>3. Purse([p EXCEPT ![c] = @ - a], nextCoin)
          /\ TotalOf([p EXCEPT ![c] = @ - a]) = TotalOf(p) - a
      BY <2>2, PursePays
    <2> QED
      BY <2>1, <2>3
  <1>4. /\ DOMAIN quoteCoins' = Users /\ quoteCoins'[u] = t
        /\ \A v \in Users \ {u} : quoteCoins'[v] = quoteCoins[v]
    BY <1>1, <1>2
  <1> HIDE DEF t
  <1>5. Purses(quoteCoins', nextCoin)
    BY <1>3, <1>4 DEF CoinTypes, Purses
  <1>6. /\ IInv' /\ total_assets' = total_assets + a
        /\ total_shares' = total_shares + SharesToMint(a)
        /\ nextCoin' = nextCoin + 1 /\ Purses(shareCoins', nextCoin') /\ a > 0
    BY SupplyFromFacts DEF SupplyTx
  <1>7. Purses(quoteCoins', nextCoin')
    BY <1>2, <1>5, <1>6, PursesKept
  <1>8. CoinTypes'
    BY <1>2, <1>6, <1>7 DEF CoinTypes, Purses
  <1>9. Wealth(u)' = Wealth(u) - a
    BY <1>3, <1>4 DEF Wealth, TotalOf
  <1> QED
    BY <1>4, <1>6, <1>8, <1>9

\* buildRedeemRequestTx and buildRedeemCancelTx: no quote moves.
LEMMA RequestFacts ==
    ASSUME IInv, CoinTypes, NEW u \in Users, NEW c, RedeemRequestTx(u, c)
    PROVE  IInv' /\ CoinTypes' /\ UNCHANGED <<ledger, quoteCoins>>
  <1>1. /\ c \in DOMAIN shareCoins[u] /\ RedeemRequest(u, shareCoins[u][c])
        /\ shareCoins' = [shareCoins EXCEPT ![u] = TableRemove(@, c)]
        /\ UNCHANGED <<quoteCoins, nextCoin>>
    BY DEF RedeemRequestTx
  <1>2. DOMAIN shareCoins = Users /\ Purse(shareCoins[u], nextCoin)
    BY DEF CoinTypes
  <1>3. shareCoins[u][c] \in Nat
    BY <1>1, <1>2 DEF Purse, NatValued
  <1>4. IInv'
    BY <1>1, <1>3, RedeemRequestInv
  <1>5. Purse(TableRemove(shareCoins[u], c), nextCoin)
    BY <1>2, PurseLoses
  <1>6. CoinTypes'
    BY <1>1, <1>2, <1>5 DEF CoinTypes
  <1> QED
    BY <1>1, <1>4, <1>6 DEF RedeemRequest

LEMMA CancelFacts ==
    ASSUME IInv, CoinTypes, NEW u \in Users, RedeemCancelTx(u)
    PROVE  IInv' /\ CoinTypes' /\ UNCHANGED <<ledger, quoteCoins>>
  <1>1. /\ RedeemCancel(u) /\ nextCoin' = nextCoin + 1 /\ quoteCoins' = quoteCoins
        /\ shareCoins' = Created(shareCoins, u, slots[u].shares)
    BY DEF RedeemCancelTx
  <1>2. IInv' /\ UNCHANGED ledger
    BY <1>1, RedeemCancelInv DEF RedeemCancel
  <1>3. slots[u].shares \in Nat
    BY <1>1, U64MaxAssumption DEF RedeemCancel, IInv, TypeOK, Slot, U64
  <1>4. nextCoin \in Nat /\ Purses(shareCoins, nextCoin) /\ Purses(quoteCoins, nextCoin)
    BY DEF CoinTypes, Purses
  <1>5. Purses(Created(shareCoins, u, slots[u].shares), nextCoin + 1)
    BY <1>3, <1>4, PursesGain DEF Created
  <1>6. Purses(quoteCoins, nextCoin + 1)
    BY <1>4, PursesKept
  <1>7. CoinTypes'
    BY <1>1, <1>4, <1>5, <1>6 DEF CoinTypes, Purses
  <1> QED
    BY <1>1, <1>2, <1>7

\* buildRedeemFulfillTx: the payout leaves the balance and the assets for the purse.
LEMMA FulfillFacts ==
    ASSUME IInv, CoinTypes, NEW u \in Users, RedeemFulfillTx(u)
    PROVE  /\ IInv' /\ CoinTypes'
           /\ Payout(u) \in Nat /\ Payout(u) > 0
           /\ total_assets' = total_assets - Payout(u) /\ balance' = balance - Payout(u)
           /\ Wealth(u)' = Wealth(u) + Payout(u)
           /\ \A v \in Users \ {u} : quoteCoins'[v] = quoteCoins[v]
  <1>1. /\ RedeemFulfill(u) /\ nextCoin' = nextCoin + 1 /\ shareCoins' = shareCoins
        /\ quoteCoins' = Created(quoteCoins, u, Payout(u))
    BY DEF RedeemFulfillTx
  <1>2. IInv'
    BY <1>1, RedeemFulfillInv
  <1>3. /\ FulfillDue(u)
        /\ total_assets' = total_assets - Payout(u) /\ balance' = balance - Payout(u)
    BY <1>1 DEF RedeemFulfill
  <1>4. Payout(u) \in Nat /\ Payout(u) > 0
    BY <1>3, FulfillAmounts
  <1>5. nextCoin \in Nat /\ Purses(shareCoins, nextCoin) /\ Purses(quoteCoins, nextCoin)
    BY DEF CoinTypes, Purses
  <1> DEFINE G == Created(quoteCoins, u, Payout(u))
  <1>6. /\ Purses(G, nextCoin + 1) /\ TotalOf(G[u]) = TotalOf(quoteCoins[u]) + Payout(u)
        /\ \A v \in Users \ {u} : G[v] = quoteCoins[v]
    BY <1>4, <1>5, PursesGain DEF Created
  <1>7. Purses(shareCoins, nextCoin + 1)
    BY <1>5, PursesKept
  <1> HIDE DEF G
  <1>8. quoteCoins' = G
    BY <1>1 DEF G
  <1>9. CoinTypes'
    BY <1>1, <1>5, <1>6, <1>7, <1>8 DEF CoinTypes, Purses
  <1>10. Wealth(u)' = Wealth(u) + Payout(u)
    BY <1>6, <1>8 DEF Wealth, TotalOf
  <1> QED
    BY <1>2, <1>3, <1>4, <1>6, <1>8, <1>9, <1>10

-----------------------------------------------------------------------------
(* What every step keeps of the vault and the coins.                         *)

Ledgers == IInv /\ CoinTypes

LEMMA WealthType == ASSUME CoinTypes, NEW u \in Users PROVE Wealth(u) \in Nat
  BY TotalType DEF CoinTypes, Wealth

LEMMA AssetsType == ASSUME IInv PROVE total_assets \in Nat /\ balance \in Nat /\ total_shares \in Nat
  BY U64MaxAssumption DEF IInv, TypeOK, U64

\* A step that leaves the chain alone.
LEMMA ChainStays == ASSUME IInv, CoinTypes, UNCHANGED chain PROVE IInv' /\ CoinTypes'
  <1>1. UNCHANGED vars /\ UNCHANGED coins
    BY DEF chain
  <1>2. IInv'
    BY <1>1, NextInv
  <1>3. CoinTypes'
    BY <1>1 DEF coins, CoinTypes
  <1> QED
    BY <1>2, <1>3

LEMMA LedgersQuiet == ASSUME Ledgers, UNCHANGED chain PROVE Ledgers'
  BY ChainStays DEF Ledgers

LEMMA LedgersTick == ASSUME Ledgers, Tick, UNCHANGED coins PROVE Ledgers'
  <1>1. IInv'
    BY TickInv DEF Ledgers
  <1>2. CoinTypes'
    BY DEF Ledgers, CoinTypes, coins
  <1> QED
    BY <1>1, <1>2 DEF Ledgers

-----------------------------------------------------------------------------
(* The panel.                                                                *)

Forms == [tab : {"deposit", "redeem"}, amount : Nat, asked : Nat, waiting : BOOLEAN,
          coinId : Nat, dialog : {"none", "deposit", "request", "fulfill", "cancel"},
          shareCoinId : Nat, discovering : BOOLEAN]
Transactions == [kind : {"none", "deposit", "request", "fulfill", "cancel"}, coin : Nat,
                 amount : Nat, mounted : BOOLEAN]

\* A deposit under way is the one that the confirmed dialog showed.
PanelInv ==
    /\ panel \in [form : Forms, tx : Transactions, shown : Nat]
    /\ panel.tx.kind = "deposit" => panel.tx.amount = panel.shown

\* What the network makes of the panel's transaction.
LEMMA ExecuteFacts ==
    ASSUME IInv, CoinTypes, PanelInv, Executes(panel.tx)
    PROVE  /\ IInv' /\ CoinTypes'
           /\ \A v \in Users \ {PanelUser} : quoteCoins'[v] = quoteCoins[v]
           /\ Wealth(PanelUser)' + total_assets' = Wealth(PanelUser) + total_assets
           /\ panel.tx.kind = "deposit" => Wealth(PanelUser)' = Wealth(PanelUser) - panel.shown
  <1>1. /\ panel.tx.amount \in Nat /\ PanelUser \in Users
        /\ Wealth(PanelUser) \in Nat /\ total_assets \in Nat
    BY PanelAssumption, WealthType, AssetsType DEF PanelInv, Transactions
  <1>2. CASE panel.tx.kind = "deposit" /\ SupplyTx(PanelUser, panel.tx.coin, panel.tx.amount)
    <2>1. /\ IInv' /\ CoinTypes' /\ total_assets' = total_assets + panel.tx.amount
          /\ Wealth(PanelUser)' = Wealth(PanelUser) - panel.tx.amount
          /\ \A v \in Users \ {PanelUser} : quoteCoins'[v] = quoteCoins[v]
      BY <1>1, <1>2, SupplyFacts
    <2> QED
      BY <1>1, <1>2, <2>1 DEF PanelInv
  <1>3. ASSUME UNCHANGED <<ledger, quoteCoins>>
        PROVE  /\ \A v \in Users \ {PanelUser} : quoteCoins'[v] = quoteCoins[v]
               /\ Wealth(PanelUser)' + total_assets' = Wealth(PanelUser) + total_assets
    BY <1>3 DEF ledger, Wealth, TotalOf
  <1>4. CASE panel.tx.kind = "request" /\ RedeemRequestTx(PanelUser, panel.tx.coin)
    <2>1. IInv' /\ CoinTypes' /\ UNCHANGED <<ledger, quoteCoins>>
      BY <1>1, <1>4, RequestFacts
    <2> QED
      BY <1>3, <1>4, <2>1
  <1>5. CASE panel.tx.kind = "fulfill" /\ RedeemFulfillTx(PanelUser)
    <2>1. /\ IInv' /\ CoinTypes' /\ Payout(PanelUser) \in Nat
          /\ total_assets' = total_assets - Payout(PanelUser)
          /\ Wealth(PanelUser)' = Wealth(PanelUser) + Payout(PanelUser)
          /\ \A v \in Users \ {PanelUser} : quoteCoins'[v] = quoteCoins[v]
      BY <1>1, <1>5, FulfillFacts
    <2> QED
      BY <1>1, <1>5, <2>1
  <1>6. CASE panel.tx.kind = "cancel" /\ RedeemCancelTx(PanelUser)
    <2>1. IInv' /\ CoinTypes' /\ UNCHANGED <<ledger, quoteCoins>>
      BY <1>1, <1>6, CancelFacts
    <2> QED
      BY <1>3, <1>6, <2>1
  <1> QED
    BY <1>2, <1>4, <1>5, <1>6 DEF Executes

\* The panel's steps keep a pending deposit and the amount shown together.
LEMMA UserStepPanel ==
    ASSUME CoinTypes, PanelInv, UserStep PROVE PanelInv' /\ UNCHANGED chain
  <1>1. /\ panel \in [form : Forms, tx : Transactions, shown : Nat] /\ form \in Forms
        /\ panel.tx.kind = "deposit" => panel.tx.amount = panel.shown
    BY DEF PanelInv, form
  <1>2. ASSUME NEW f \in Forms, SetForm(f) PROVE PanelInv' /\ UNCHANGED chain
    <2>1. panel' = [panel EXCEPT !.form = f] /\ UNCHANGED chain
      BY <1>2 DEF SetForm
    <2> QED
      BY <1>1, <1>2, <2>1 DEF PanelInv
  <1>3. /\ \A c \in DOMAIN quoteCoins[PanelUser] : c \in Nat
        /\ \A c \in DOMAIN shareCoins[PanelUser] : c \in Nat
    BY PanelAssumption DEF CoinTypes, Purse
  <1>4. ASSUME NEW typed \in Inputs, TypeAmount(typed) PROVE PanelInv' /\ UNCHANGED chain
    <2>1. [form EXCEPT !.amount = ParseDusdcInput(typed)] \in Forms
      <3>1. typed \in Nat
        BY PanelAssumption
      <3>2. ParseDusdcInput(typed) \in Nat
        BY <3>1 DEF ParseDusdcInput
      <3> QED
        BY <1>1, <3>2 DEF Forms
    <2> QED
      BY <1>2, <1>4, <2>1 DEF TypeAmount
  <1>5. CASE ClickDeposit
    <2>1. [form EXCEPT !.asked = form.amount, !.waiting = TRUE] \in Forms
      BY <1>1 DEF Forms
    <2> QED
      BY <1>2, <1>5, <2>1 DEF ClickDeposit
  <1>6. CASE DepositCoinsArrive
    <2> DEFINE found(c) == [form EXCEPT !.waiting = FALSE, !.coinId = c, !.dialog = "deposit"]
               none == [form EXCEPT !.waiting = FALSE, !.asked = 0]
    <2>1. \A c \in DOMAIN quoteCoins[PanelUser] : found(c) \in Forms
      BY <1>1, <1>3 DEF Forms
    <2>2. none \in Forms
      BY <1>1 DEF Forms
    <2>3. (\E c \in DOMAIN quoteCoins[PanelUser] : SetForm(found(c))) \/ SetForm(none)
      BY <1>6, Zenon DEF DepositCoinsArrive
    <2> HIDE DEF found, none
    <2> QED
      BY <1>2, <2>1, <2>2, <2>3
  <1>7. CASE ShareCoinsArrive
    <2> DEFINE found(c) == [form EXCEPT !.discovering = FALSE, !.shareCoinId = c]
               none == [form EXCEPT !.discovering = FALSE]
    <2>1. \A c \in DOMAIN shareCoins[PanelUser] : found(c) \in Forms
      BY <1>1, <1>3 DEF Forms
    <2>2. none \in Forms
      BY <1>1 DEF Forms
    <2>3. (\E c \in DOMAIN shareCoins[PanelUser] : SetForm(found(c))) \/ SetForm(none)
      BY <1>7, Zenon DEF ShareCoinsArrive
    <2> HIDE DEF found, none
    <2> QED
      BY <1>2, <2>1, <2>2, <2>3
  <1>8. ASSUME NEW d \in {"request", "fulfill", "cancel"}, OpenDialog(d)
        PROVE  PanelInv' /\ UNCHANGED chain
    <2>1. [form EXCEPT !.dialog = d] \in Forms
      BY <1>1 DEF Forms
    <2> QED
      BY <1>2, <1>8, <2>1 DEF OpenDialog
  <1>9. CASE Back
    <2>1. Closed(form) \in Forms
      BY <1>1 DEF Forms, Closed, NoCoin
    <2> QED
      BY <1>2, <1>9, <2>1 DEF Back
  <1>10. CASE SwitchTab
    <2>1. DepositMounted \in Forms /\ RedeemMounted \in Forms
      BY DEF DepositMounted, RedeemMounted, Forms, NoCoin
    <2> DEFINE f == IF form.tab = "deposit" THEN RedeemMounted ELSE DepositMounted
    <2>2. f \in Forms
      BY <2>1
    <2>3. panel' = [panel EXCEPT !.form = f, !.tx.mounted = ~isPending] /\ UNCHANGED chain
      BY <1>10 DEF SwitchTab
    <2> HIDE DEF f
    <2>4. isPending \in BOOLEAN
      BY DEF isPending
    <2> QED
      BY <1>1, <2>2, <2>3, <2>4 DEF PanelInv, Transactions
  <1>11. ASSUME NEW d, NEW tx \in Transactions, Confirm(d, tx),
                tx.kind = "deposit" => tx.amount = form.amount
         PROVE  PanelInv' /\ UNCHANGED chain
    <2>1. panel' = [panel EXCEPT !.tx = tx, !.shown = form.amount] /\ UNCHANGED chain
      BY <1>11 DEF Confirm
    <2>2. form.amount \in Nat
      BY <1>1 DEF Forms
    <2> QED
      BY <1>1, <1>11, <2>1, <2>2 DEF PanelInv
  <1>12. /\ DepositTx \in Transactions /\ DepositTx.amount = form.amount
         /\ RequestTx \in Transactions /\ RequestTx.kind = "request"
         /\ FulfillTx \in Transactions /\ FulfillTx.kind = "fulfill"
         /\ CancelTx \in Transactions /\ CancelTx.kind = "cancel"
    BY <1>1 DEF DepositTx, RequestTx, FulfillTx, CancelTx, Tx, NoCoin, Transactions, Forms
  <1>13. CASE ConfirmDeposit \/ ConfirmRequest \/ ConfirmFulfill \/ ConfirmCancel
    BY <1>11, <1>12, <1>13 DEF ConfirmDeposit, ConfirmRequest, ConfirmFulfill, ConfirmCancel
  <1> QED
    BY <1>4, <1>5, <1>6, <1>7, <1>8, <1>9, <1>10, <1>13 DEF UserStep

\* When its transaction has ended, the panel is at rest.
LEMMA TxEndsPanel ==
    ASSUME PanelInv, TxSucceeds \/ TxFails PROVE PanelInv'
  <1>1. /\ panel \in [form : Forms, tx : Transactions, shown : Nat] /\ form \in Forms
    BY DEF PanelInv, form
  <1>2. Settled(TRUE) \in Forms /\ Settled(FALSE) \in Forms
    <2>1. Closed(form) \in Forms
      BY <1>1 DEF Forms, Closed, NoCoin
    <2>2. [Closed(form) EXCEPT !.amount = 0] \in Forms
          /\ [Closed(form) EXCEPT !.amount = @] \in Forms
      BY <2>1 DEF Forms
    <2> QED
      BY <1>1, <2>2 DEF Settled
  <1>3. NoTx \in Transactions /\ NoTx.kind = "none"
    BY DEF NoTx, Tx, NoCoin, Transactions
  <1>4. CASE TxSucceeds
    <2>1. panel' = [panel EXCEPT !.tx = NoTx, !.shown = 0, !.form = Settled(TRUE)]
      BY <1>4 DEF TxSucceeds
    <2> QED
      BY <1>1, <1>2, <1>3, <2>1 DEF PanelInv
  <1>5. CASE TxFails
    <2>1. panel' = [panel EXCEPT !.tx = NoTx, !.shown = 0, !.form = Settled(FALSE)]
      BY <1>5 DEF TxFails
    <2> QED
      BY <1>1, <1>2, <1>3, <2>1 DEF PanelInv
  <1> QED
    BY <1>4, <1>5

\* A step of the panel: the user's purse and the vault share what they had.
LEMMA PanelledFacts ==
    ASSUME IInv, CoinTypes, PanelInv, Panelled
    PROVE  /\ IInv' /\ CoinTypes' /\ PanelInv' /\ UNCHANGED scriptVars
           /\ \A v \in Users \ {PanelUser} : quoteCoins'[v] = quoteCoins[v]
           /\ Wealth(PanelUser)' + total_assets' = Wealth(PanelUser) + total_assets
           /\ panel.tx.kind = "deposit" /\ ledger' # ledger =>
                 Wealth(PanelUser)' = Wealth(PanelUser) - panel.shown
  <1>1. UNCHANGED scriptVars
    BY DEF Panelled
  <1>2. ASSUME UNCHANGED chain
        PROVE  /\ IInv' /\ CoinTypes' /\ ledger' = ledger
               /\ \A v \in Users \ {PanelUser} : quoteCoins'[v] = quoteCoins[v]
               /\ Wealth(PanelUser)' + total_assets' = Wealth(PanelUser) + total_assets
    <2>1. IInv' /\ CoinTypes'
      BY <1>2, ChainStays
    <2>2. UNCHANGED <<quoteCoins, ledger>>
      BY <1>2 DEF chain, coins, vars
    <2> QED
      BY <2>1, <2>2 DEF ledger, Wealth, TotalOf
  <1>3. CASE UserStep
    BY <1>1, <1>2, <1>3, UserStepPanel
  <1>4. CASE TxSucceeds \/ TxFails
    <2>1. PanelInv' /\ (Executes(panel.tx) \/ UNCHANGED chain)
      BY <1>4, TxEndsPanel DEF TxSucceeds, TxFails
    <2> QED
      BY <1>1, <1>2, <2>1, ExecuteFacts
  <1> QED
    BY <1>3, <1>4 DEF Panelled

-----------------------------------------------------------------------------
(* A run of a script.                                                        *)

Runs == [script : {"none", "e2e", "testnet", "mainnet", "ptb"},
         pc : {"idle", "snapshot", "setup", "ptb", "supply", "request", "wait", "fulfill",
               "received", "green", "red", "failed"},
         cash : Nat, nav : Nat, pre : Snapshot, snapped : BOOLEAN, answered : BOOLEAN,
         wakeAt : Nat, attempts : Nat, receipt : Nat]

Smoke == {"testnet", "mainnet"}

\* What a run has been paid, by its place, and what the signer's purse holds.
Paid ==
    /\ payouts \in {0, 1}
    /\ run.script = "e2e" =>
          /\ run.pc \in {"supply", "request", "wait"} => payouts = 0
          /\ run.pc = "fulfill" => payouts = (IF run.answered THEN 1 ELSE 0)
          /\ run.pc = "wait" => ~run.answered
    /\ run.script \in Smoke =>
          /\ run.pc \in {"snapshot", "supply", "request", "wait"} =>
                run.receipt = 0 /\ payouts = 0
          /\ run.pc = "fulfill" => payouts = (IF run.receipt = 0 THEN 0 ELSE 1)
          /\ run.pc \in {"received", "green"} => run.receipt > 0
          /\ run.pc = "supply" => Wealth(Signer) = run.cash
          /\ run.pc \in {"request", "wait", "fulfill", "received", "green"} =>
                Wealth(Signer) = run.cash - SupplyAmount[run.script] + run.receipt
          /\ run.pc = "green" => run.receipt >= MinReceived(SupplyAmount[run.script])

Entries == [kind : E2eSteps, pre : Snapshot, post : Snapshot]
Recording == run.pc \in E2eSteps \cup {"wait"}

\* The trace so far, and the entry under way: while nobody else uses the vault, the
\* vault is as the last entry left it until the next transaction, and that one
\* replays.
TraceJoins ==
    /\ \A i \in DOMAIN trace : Replays(trace[i])
    /\ \A i \in DOMAIN trace \ {1} : trace[i].pre = trace[i - 1].post
    /\ Recording /\ ~run.answered /\ trace # << >> => trace[Len(trace)].post = SnapshotVault
    /\ Recording /\ run.snapped /\ ~run.answered => run.pre = SnapshotVault
    /\ Recording /\ run.answered =>
          /\ trace # << >> => trace[Len(trace)].post = run.pre
          /\ Replays(TraceEntry)

Traced ==
    /\ trace \in Seq(Entries)
    /\ run.script # "e2e" => trace = << >>
    /\ run.script = "e2e" =>
          /\ run.answered => run.snapped
          /\ run.pc = "wait" => ~run.snapped
          /\ Recording => \A i \in DOMAIN trace : trace[i].kind # "fulfill"
          /\ ~foreign => TraceJoins

ScriptInv == run \in Runs /\ Paid /\ Traced

\* A run that ends, or another script's, adds nothing to the trace.
LEMMA FailsInv ==
    ASSUME ScriptInv, run' = [run EXCEPT !.pc = "failed"], payouts' \in {0, 1},
           trace' = trace, foreign' = foreign
    PROVE  ScriptInv'
  <1>1. /\ run' \in Runs /\ run'.pc = "failed" /\ run'.script = run.script
        /\ run'.receipt = run.receipt /\ run'.answered = run.answered
        /\ run'.snapped = run.snapped
    BY DEF ScriptInv, Runs
  <1>2. Paid'
    BY <1>1 DEF Paid
  <1>3. ~Recording'
    BY <1>1 DEF Recording, E2eSteps
  <1>4. \A a : Replays(a)' = Replays(a)
    BY <1>1 DEF Replays
  <1>5. TraceJoins => TraceJoins'
    BY <1>3, <1>4 DEF TraceJoins
  <1>6. Traced'
    BY <1>1, <1>3, <1>5 DEF ScriptInv, Traced
  <1> QED
    BY <1>1, <1>2, <1>6 DEF ScriptInv

LEMMA OtherScript ==
    ASSUME ScriptInv, run.script # "e2e", run'.script = run.script, trace' = trace
    PROVE  Traced'
  BY DEF ScriptInv, Traced

\* The numbers a script reads.
LEMMA SnapshotType == ASSUME IInv PROVE SnapshotVault \in Snapshot
  BY AssetsType DEF SnapshotVault, Snapshot

LEMMA SupplyAmounts == \A s \in {"e2e", "testnet", "mainnet"} : SupplyAmount[s] \in Nat
  BY ScriptsAssumption DEF ScriptsAssumption

LEMMA NavType == ASSUME IInv PROVE NavOf(SnapshotVault) \in Nat
  <1>1. total_assets \in Nat /\ total_shares \in Nat \ {0} /\ NavScale \in Nat
    BY Bounds, VaultAssumption
  <1>2. MulDivDown(total_assets, NavScale, total_shares) \in Nat
    BY <1>1, MulDivRounding
  <1> QED
    BY <1>1, <1>2 DEF NavOf, SnapshotVault

LEMMA WakeType == ASSUME IInv PROVE now + CooldownMs + WaitSlackMs \in Nat
  BY VaultAssumption, ScriptsAssumption DEF IInv, TypeOK

-----------------------------------------------------------------------------
(* e2e-vault-cycle.ts.                                                       *)

\* The vault as the signer's transaction finds it, and as it leaves it.
LEMMA EntryReplays ==
    ASSUME IInv, run \in Runs, run'.pc = run.pc, run'.pre = run.pre, run.pre = SnapshotVault,
           \/ /\ run.pc = "supply"
              /\ total_assets' = total_assets + SupplyAmount["e2e"]
              /\ total_shares' = total_shares + SharesToMint(SupplyAmount["e2e"])
           \/ run.pc = "request" /\ UNCHANGED ledger
           \/ /\ run.pc = "fulfill" /\ run'.receipt = Payout(Signer) /\ Payout(Signer) \in Nat
              /\ total_assets' = total_assets - Payout(Signer)
              /\ balance' = balance - Payout(Signer)
    PROVE  Replays(TraceEntry)'
  <1> DEFINE e == [kind |-> run.pc, pre |-> run.pre, post |-> SnapshotVault']
  <1>1. TraceEntry' = e
    BY DEF TraceEntry
  <1>2. /\ e.kind = run.pc /\ e.pre = SnapshotVault /\ e.post = SnapshotVault'
        /\ e.pre.total_assets = total_assets /\ e.pre.total_shares = total_shares
        /\ e.pre.balance = balance
        /\ e.post.total_assets = total_assets' /\ e.post.total_shares = total_shares'
        /\ e.post.balance = balance'
    BY DEF SnapshotVault
  <1>3. total_assets \in Nat /\ balance \in Nat
    BY AssetsType
  <1> HIDE DEF e
  <1>4. CASE run.pc = "supply"
    <2>1. total_shares' = total_shares
             + (SupplyAmount["e2e"] * (total_shares + VirtualShares)) \div (total_assets + 1)
          /\ total_assets' = total_assets + SupplyAmount["e2e"]
      BY <1>4 DEF SharesToMint
    <2> QED
      BY <1>1, <1>2, <1>4, <2>1 DEF Replays
  <1>5. CASE run.pc = "request"
    BY <1>1, <1>2, <1>5 DEF Replays, ledger, SnapshotVault
  <1>6. CASE run.pc = "fulfill"
    BY <1>1, <1>2, <1>3, <1>6 DEF Replays
  <1> QED
    BY <1>4, <1>5, <1>6

\* A transaction that is answered: what it did is the entry under way.
LEMMA E2eAnswered ==
    ASSUME ScriptInv, IInv, run.script = "e2e", run.pc \in E2eSteps, run.snapped, ~run.answered,
           run' = E2eAnswer \/ run' = [E2eAnswer EXCEPT !.receipt = Payout(Signer)],
           run.pc # "fulfill" => run' = E2eAnswer, Payout(Signer) \in Nat \/ run' = E2eAnswer,
           trace' = trace, foreign' = foreign,
           payouts' = (IF run.pc = "fulfill" THEN 1 ELSE payouts),
           run.pre = SnapshotVault => Replays(TraceEntry)'
    PROVE  ScriptInv'
  <1>1. /\ run' \in Runs /\ run'.pc = run.pc /\ run'.script = run.script
        /\ run'.pre = run.pre /\ run'.snapped /\ run'.answered
        /\ run.pc # "fulfill" => run'.receipt = run.receipt
    BY DEF ScriptInv, Runs, E2eAnswer
  <1>2. Paid'
    BY <1>1 DEF ScriptInv, Paid, Smoke, E2eSteps
  <1>3. /\ Recording /\ Recording' /\ \A i \in DOMAIN trace : trace[i].kind # "fulfill"
        /\ trace \in Seq(Entries) /\ (~foreign => TraceJoins)
    BY <1>1 DEF ScriptInv, Traced, Recording
  <1>4. ASSUME TraceJoins PROVE TraceJoins'
    <2>1. \A i \in DOMAIN trace : Replays(trace[i])'
      <3> TAKE i \in DOMAIN trace
      <3>1. trace[i].kind \in {"supply", "request"}
        <4>1. trace[i] \in Entries
          BY <1>3
        <4>2. trace[i].kind # "fulfill"
          BY <1>3
        <4> QED
          BY <4>1, <4>2 DEF Entries, E2eSteps
      <3>2. Replays(trace[i])
        BY <1>4 DEF TraceJoins
      <3> QED
        BY <3>1, <3>2 DEF Replays
    <2>2. /\ run.pre = SnapshotVault
          /\ trace # << >> => trace[Len(trace)].post = run.pre
          /\ \A i \in DOMAIN trace \ {1} : trace[i].pre = trace[i - 1].post
      BY <1>3, <1>4 DEF TraceJoins
    <2>3. Replays(TraceEntry)'
      BY <2>2
    <2> QED
      BY <1>1, <2>1, <2>2, <2>3 DEF TraceJoins
  <1>5. Traced'
    BY <1>1, <1>3, <1>4 DEF Traced, E2eSteps
  <1> QED
    BY <1>1, <1>2, <1>5 DEF ScriptInv

\* A snapshot before a transaction.
LEMMA SnapshotBefore ==
    ASSUME Ledgers, ScriptInv, E2eSnapshotBefore, foreign' = foreign
    PROVE  Ledgers' /\ ScriptInv'
  <1>1. /\ run.script = "e2e" /\ run.pc \in E2eSteps /\ ~run.snapped
        /\ run' = [run EXCEPT !.pre = SnapshotVault, !.snapped = TRUE]
        /\ UNCHANGED <<chain, trace, margin, started, payouts>>
    BY DEF E2eSnapshotBefore
  <1>2. Ledgers' /\ UNCHANGED ledger
    BY <1>1, LedgersQuiet DEF chain, vars
  <1>3. SnapshotVault \in Snapshot /\ SnapshotVault' = SnapshotVault
    BY <1>2, SnapshotType DEF Ledgers, SnapshotVault, ledger
  <1>4. /\ run' \in Runs /\ run'.pc = run.pc /\ run'.script = run.script
        /\ run'.pre = SnapshotVault /\ run'.snapped /\ run'.answered = run.answered
        /\ run'.receipt = run.receipt
    BY <1>1, <1>3 DEF ScriptInv, Runs
  <1>5. ~run.answered
    BY <1>1 DEF ScriptInv, Traced, Runs
  <1>6. Paid'
    BY <1>1, <1>4 DEF ScriptInv, Paid, Smoke
  <1>7. Recording' = Recording /\ \A a : Replays(a)' = Replays(a)
    BY <1>4 DEF Recording, Replays
  <1>8. TraceJoins => TraceJoins'
    BY <1>1, <1>3, <1>4, <1>5, <1>7 DEF TraceJoins
  <1>9. Traced'
    BY <1>1, <1>4, <1>7, <1>8 DEF ScriptInv, Traced, E2eSteps
  <1> QED
    BY <1>2, <1>4, <1>6, <1>9 DEF ScriptInv

\* The snapshot after it completes an entry.
LEMMA SnapshotAfter ==
    ASSUME Ledgers, ScriptInv, E2eSnapshotAfter, foreign' = foreign
    PROVE  Ledgers' /\ ScriptInv'
  <1>1. /\ run.script = "e2e" /\ run.pc \in E2eSteps /\ run.answered
        /\ trace' = Append(trace, TraceEntry)
        /\ run' = [run EXCEPT !.pc = E2eNext, !.snapped = FALSE, !.answered = FALSE,
                              !.wakeAt = now + CooldownMs + WaitSlackMs]
        /\ UNCHANGED <<chain, margin, started, payouts>>
    BY DEF E2eSnapshotAfter
  <1>2. Ledgers' /\ UNCHANGED ledger
    BY <1>1, LedgersQuiet DEF chain, vars
  <1>3. SnapshotVault \in Snapshot /\ SnapshotVault' = SnapshotVault
    BY <1>2, SnapshotType DEF Ledgers, SnapshotVault, ledger
  <1>4. /\ E2eNext \in {"request", "wait", "green"}
        /\ E2eNext = "green" <=> run.pc = "fulfill"
        /\ E2eNext = "request" <=> run.pc = "supply"
    BY <1>1 DEF E2eNext, E2eSteps
  <1>5. now + CooldownMs + WaitSlackMs \in Nat
    BY WakeType DEF Ledgers
  <1>6. /\ run' \in Runs /\ run'.pc = E2eNext /\ run'.script = run.script
        /\ ~run'.snapped /\ ~run'.answered /\ run'.receipt = run.receipt
    BY <1>1, <1>4, <1>5 DEF ScriptInv, Runs
  <1>7. Paid'
    BY <1>1, <1>4, <1>6 DEF ScriptInv, Paid, Smoke, E2eSteps
  <1> DEFINE e == TraceEntry
  <1>8. /\ e \in Entries /\ e.kind = run.pc /\ e.pre = run.pre /\ e.post = SnapshotVault
    BY <1>1, <1>3 DEF ScriptInv, Runs, Entries, TraceEntry
  <1>9. trace \in Seq(Entries)
    BY DEF ScriptInv, Traced
  <1> HIDE DEF e
  <1>10. trace' \in Seq(Entries) /\ trace' = Append(trace, e)
    BY <1>1, <1>8, <1>9 DEF e
  <1> DEFINE n == Len(trace)
  <1>11. /\ n \in Nat /\ Len(trace') = n + 1 /\ trace'[n + 1] = e
        /\ \A i \in 1 .. n : trace'[i] = trace[i]
        /\ DOMAIN trace = 1 .. n /\ DOMAIN trace' = 1 .. n + 1
        /\ trace # << >> <=> n > 0
    BY <1>9, <1>10
  <1> HIDE DEF n
  <1>12. Recording /\ (~foreign => TraceJoins)
         /\ \A i \in DOMAIN trace : trace[i].kind # "fulfill"
    BY <1>1 DEF ScriptInv, Traced, Recording
  <1>13. ASSUME TraceJoins PROVE TraceJoins'
    <2>1. Replays(e) /\ (n > 0 => trace[n].post = run.pre)
      BY <1>1, <1>11, <1>12, <1>13 DEF TraceJoins, e, n
    <2>2. (\A i \in DOMAIN trace : Replays(trace[i]))'
      <3> TAKE i \in DOMAIN trace'
      <3>1. Replays(trace'[i])
        <4>1. CASE i \in 1 .. n
          BY <1>11, <1>13, <4>1 DEF TraceJoins
        <4>2. CASE i = n + 1
          BY <1>11, <2>1, <4>2
        <4> QED
          BY <1>11, <4>1, <4>2
      <3> QED
        BY <1>6, <3>1 DEF Replays
    <2>3. \A i \in DOMAIN trace' \ {1} : trace'[i].pre = trace'[i - 1].post
      <3> TAKE i \in DOMAIN trace' \ {1}
      <3>1. CASE i \in 1 .. n
        <4>1. i - 1 \in 1 .. n /\ trace'[i] = trace[i] /\ trace'[i - 1] = trace[i - 1]
          BY <1>11, <3>1
        <4> QED
          BY <1>11, <1>13, <3>1, <4>1 DEF TraceJoins
      <3>2. CASE i = n + 1
        <4>1. n > 0 /\ i - 1 = n /\ n \in 1 .. n
          BY <1>11, <3>2
        <4>2. trace'[i] = e /\ trace'[i - 1] = trace[n]
          BY <1>11, <3>2, <4>1
        <4> QED
          BY <1>8, <2>1, <4>1, <4>2
      <3> QED
        BY <1>11, <3>1, <3>2
    <2>4. trace'[Len(trace')].post = SnapshotVault
      BY <1>8, <1>11
    <2> QED
      BY <1>3, <1>6, <2>2, <2>3, <2>4 DEF TraceJoins
  <1>14. Recording' => \A i \in DOMAIN trace' : trace'[i].kind # "fulfill"
    <2>1. Recording' => run.pc # "fulfill"
      BY <1>4, <1>6 DEF Recording, E2eSteps
    <2>2. ASSUME NEW i \in DOMAIN trace', run.pc # "fulfill" PROVE trace'[i].kind # "fulfill"
      <3>1. CASE i \in 1 .. n
        BY <1>11, <1>12, <3>1
      <3>2. CASE i = n + 1
        BY <1>8, <1>11, <2>2, <3>2
      <3> QED
        BY <1>11, <2>2, <3>1, <3>2
    <2> QED
      BY <2>1, <2>2
  <1>15. Traced'
    BY <1>1, <1>6, <1>10, <1>12, <1>13, <1>14 DEF Traced
  <1> QED
    BY <1>2, <1>6, <1>7, <1>15 DEF ScriptInv

\* The end of the wait.
LEMMA WaitEnds ==
    ASSUME Ledgers, ScriptInv, E2eWait, foreign' = foreign
    PROVE  Ledgers' /\ ScriptInv'
  <1>1. /\ run.script = "e2e" /\ run.pc = "wait" /\ run' = [run EXCEPT !.pc = "fulfill"]
        /\ UNCHANGED <<chain, trace, margin, started, payouts>>
    BY DEF E2eWait, At, Waits
  <1>2. Ledgers' /\ UNCHANGED ledger
    BY <1>1, LedgersQuiet DEF chain, vars
  <1>3. SnapshotVault' = SnapshotVault
    BY <1>2 DEF SnapshotVault, ledger
  <1>4. /\ run' \in Runs /\ run'.pc = "fulfill" /\ run'.script = run.script
        /\ run'.pre = run.pre /\ run'.snapped = run.snapped /\ run'.answered = run.answered
        /\ run'.receipt = run.receipt
    BY <1>1 DEF ScriptInv, Runs
  <1>5. ~run.answered /\ ~run.snapped
    BY <1>1 DEF ScriptInv, Traced, Paid
  <1>6. Paid'
    BY <1>1, <1>4, <1>5 DEF ScriptInv, Paid, Smoke
  <1>7. Recording /\ Recording' /\ \A a : Replays(a)' = Replays(a)
    BY <1>1, <1>4 DEF Recording, Replays, E2eSteps
  <1>8. TraceJoins => TraceJoins'
    BY <1>1, <1>3, <1>4, <1>5, <1>7 DEF TraceJoins
  <1>9. Traced'
    BY <1>1, <1>4, <1>5, <1>7, <1>8 DEF ScriptInv, Traced
  <1> QED
    BY <1>2, <1>4, <1>6, <1>9 DEF ScriptInv

\* The deposit, the request and the fulfil, answered or not.
LEMMA E2eSupplyInv ==
    ASSUME Ledgers, ScriptInv, E2eSupply, foreign' = foreign PROVE Ledgers' /\ ScriptInv'
  <1> DEFINE a == SupplyAmount["e2e"]
  <1>1. /\ run.script = "e2e" /\ run.pc = "supply" /\ run.snapped /\ ~run.answered
        /\ run' = E2eAnswer \/ run' = [run EXCEPT !.pc = "failed"]
        /\ UNCHANGED <<trace, margin, started, payouts>>
    BY DEF E2eSupply, E2eSubmits, At, Supplies, Answered
  <1>2. PICK c : SupplyTx(Signer, c, a)
    BY DEF E2eSupply, Supplies
  <1>3. Signer \in Users /\ a \in Nat
    BY ScriptsAssumption, SupplyAmounts
  <1> HIDE DEF a
  <1>4. /\ IInv' /\ CoinTypes' /\ total_assets' = total_assets + a
        /\ total_shares' = total_shares + SharesToMint(a)
        /\ Wealth(Signer)' = Wealth(Signer) - a
        /\ \A v \in Users \ {Signer} : quoteCoins'[v] = quoteCoins[v]
    BY <1>2, <1>3, SupplyFacts DEF Ledgers
  <1>6. Ledgers'
    BY <1>4 DEF Ledgers
  <1>7. payouts \in {0, 1}
    BY DEF ScriptInv, Paid
  <1>8. CASE run' = [run EXCEPT !.pc = "failed"]
    BY <1>1, <1>6, <1>7, <1>8, FailsInv
  <1>9. CASE run' = E2eAnswer
    <2>1. run'.pc = run.pc /\ run'.pre = run.pre
      BY <1>9 DEF ScriptInv, Runs, E2eAnswer
    <2>2. run.pre = SnapshotVault => Replays(TraceEntry)'
      BY <1>1, <1>4, <2>1, EntryReplays DEF Ledgers, ScriptInv, a
    <2>3. ScriptInv'
      BY <1>1, <1>9, <2>2, E2eAnswered DEF Ledgers, E2eSteps
    <2> QED
      BY <1>6, <2>3
  <1> QED
    BY <1>1, <1>8, <1>9

LEMMA E2eRequestInv ==
    ASSUME Ledgers, ScriptInv, E2eRequest, foreign' = foreign PROVE Ledgers' /\ ScriptInv'
  <1>1. /\ run.script = "e2e" /\ run.pc = "request" /\ run.snapped /\ ~run.answered
        /\ run' = E2eAnswer \/ run' = [run EXCEPT !.pc = "failed"]
        /\ UNCHANGED <<trace, margin, started, payouts>>
    BY DEF E2eRequest, E2eSubmits, At, Requests, Answered
  <1>2. PICK c : RedeemRequestTx(Signer, c)
    BY DEF E2eRequest, Requests
  <1>3. IInv' /\ CoinTypes' /\ UNCHANGED <<ledger, quoteCoins>>
    BY <1>2, ScriptsAssumption, RequestFacts DEF Ledgers
  <1>4. Ledgers'
    BY <1>3 DEF Ledgers
  <1>5. payouts \in {0, 1}
    BY DEF ScriptInv, Paid
  <1>6. CASE run' = [run EXCEPT !.pc = "failed"]
    BY <1>1, <1>4, <1>5, <1>6, FailsInv
  <1>7. CASE run' = E2eAnswer
    <2>1. run'.pc = run.pc /\ run'.pre = run.pre
      BY <1>7 DEF ScriptInv, Runs, E2eAnswer
    <2>2. run.pre = SnapshotVault => Replays(TraceEntry)'
      BY <1>1, <1>3, <2>1, EntryReplays DEF Ledgers, ScriptInv
    <2>3. ScriptInv'
      BY <1>1, <1>7, <2>2, E2eAnswered DEF Ledgers, E2eSteps
    <2> QED
      BY <1>4, <2>3
  <1> QED
    BY <1>1, <1>6, <1>7

LEMMA E2eFulfillInv ==
    ASSUME Ledgers, ScriptInv, E2eFulfill, foreign' = foreign PROVE Ledgers' /\ ScriptInv'
  <1> DEFINE p == Payout(Signer)
             next == [E2eAnswer EXCEPT !.receipt = p]
  <1>1. /\ run.script = "e2e" /\ run.pc = "fulfill" /\ run.snapped /\ ~run.answered
        /\ run' = next \/ run' = [run EXCEPT !.pc = "failed"]
        /\ payouts' = payouts + 1
        /\ UNCHANGED <<trace, margin, started>>
    BY DEF E2eFulfill, E2eSubmits, At, Answered
  <1>2. Signer \in Users /\ RedeemFulfillTx(Signer)
    BY ScriptsAssumption DEF E2eFulfill
  <1>3. /\ IInv' /\ CoinTypes' /\ p \in Nat
        /\ total_assets' = total_assets - p /\ balance' = balance - p
        /\ Wealth(Signer)' = Wealth(Signer) + p
        /\ \A v \in Users \ {Signer} : quoteCoins'[v] = quoteCoins[v]
    BY <1>2, FulfillFacts DEF Ledgers
  <1> HIDE DEF p
  <1>5. Ledgers'
    BY <1>3 DEF Ledgers
  <1>6. payouts' = 1
    BY <1>1 DEF ScriptInv, Paid
  <1>7. CASE run' = [run EXCEPT !.pc = "failed"]
    BY <1>1, <1>5, <1>6, <1>7, FailsInv
  <1>8. CASE run' = next
    <2>1. run'.pc = run.pc /\ run'.pre = run.pre /\ run'.receipt = p
      BY <1>3, <1>8 DEF ScriptInv, Runs, E2eAnswer
    <2>2. run.pre = SnapshotVault => Replays(TraceEntry)'
      BY <1>1, <1>3, <2>1, EntryReplays DEF Ledgers, ScriptInv, p
    <2>3. ScriptInv'
      BY <1>1, <1>3, <1>6, <1>8, <2>2, E2eAnswered DEF Ledgers, E2eSteps, p
    <2> QED
      BY <1>5, <2>3
  <1> QED
    BY <1>1, <1>7, <1>8

-----------------------------------------------------------------------------
(* The smoke tests.                                                          *)

\* The signer's purse, when no quote moves.
LEMMA WealthStays == ASSUME NEW u \in Users, quoteCoins' = quoteCoins PROVE Wealth(u)' = Wealth(u)
  BY DEF Wealth, TotalOf

\* Checkpoint 1.
LEMMA SmokeSnapshotInv ==
    ASSUME Ledgers, ScriptInv, SmokeSnapshot PROVE Ledgers' /\ ScriptInv'
  <1>1. /\ run.script \in Smoke /\ run.pc = "snapshot" /\ run' = TestnetSnapshot
        /\ UNCHANGED <<chain, trace, margin, started, payouts>>
    BY DEF SmokeSnapshot, At, MainnetSnapshot, Smoke
  <1>2. Ledgers' /\ UNCHANGED quoteCoins
    BY <1>1, LedgersQuiet DEF chain, coins
  <1>3. /\ Wealth(Signer) \in Nat /\ Wealth(Signer)' = Wealth(Signer)
        /\ Wealth(Signer) = TotalOf(quoteCoins[Signer]) /\ NavOf(SnapshotVault) \in Nat
    BY <1>2, WealthType, WealthStays, NavType, ScriptsAssumption DEF Ledgers, Wealth
  <1>4. /\ run' \in Runs /\ run'.pc = "supply" /\ run'.script = run.script
        /\ run'.cash = Wealth(Signer) /\ run'.receipt = run.receipt
    BY <1>1, <1>3 DEF ScriptInv, Runs, TestnetSnapshot
  <1>5. Paid'
    BY <1>1, <1>3, <1>4 DEF ScriptInv, Paid, Smoke
  <1>6. Traced'
    BY <1>1, <1>4, OtherScript DEF Smoke
  <1> QED
    BY <1>2, <1>4, <1>5, <1>6 DEF ScriptInv

\* Checkpoints 2 and 3.
LEMMA SmokeSupplyInv ==
    ASSUME Ledgers, ScriptInv, TestnetSupply \/ MainnetSupply, foreign' = foreign
    PROVE  Ledgers' /\ ScriptInv'
  <1> DEFINE a == SupplyAmount[run.script]
  <1>1. /\ run.script \in Smoke /\ run.pc = "supply" /\ Supplies(a, SupplyAnswer)
    BY DEF TestnetSupply, MainnetSupply, At, Smoke
  <1>2. /\ run' = SupplyAnswer \/ run' = [run EXCEPT !.pc = "failed"]
        /\ UNCHANGED <<trace, margin, started, payouts>>
    BY <1>1 DEF Supplies, Answered
  <1>3. PICK c : SupplyTx(Signer, c, a)
    BY <1>1 DEF Supplies
  <1>4. Signer \in Users /\ a \in Nat
    BY <1>1, ScriptsAssumption, SupplyAmounts DEF Smoke
  <1> HIDE DEF a
  <1>5. /\ IInv' /\ CoinTypes' /\ total_assets' = total_assets + a
        /\ Wealth(Signer)' = Wealth(Signer) - a
        /\ \A v \in Users \ {Signer} : quoteCoins'[v] = quoteCoins[v]
    BY <1>3, <1>4, SupplyFacts DEF Ledgers
  <1>6. Wealth(Signer) \in Nat
    BY <1>4, WealthType DEF Ledgers
  <1>7. Ledgers'
    BY <1>5 DEF Ledgers
  <1>8. payouts \in {0, 1}
    BY DEF ScriptInv, Paid
  <1>9. CASE run' = [run EXCEPT !.pc = "failed"]
    BY <1>2, <1>7, <1>8, <1>9, FailsInv
  <1>10. CASE run' = SupplyAnswer
    <2>1. /\ run' \in Runs /\ run'.pc = "request" /\ run'.script = run.script
          /\ run'.cash = run.cash /\ run'.receipt = run.receipt
      BY <1>10 DEF ScriptInv, Runs, SupplyAnswer
    <2>2. run.receipt = 0 /\ payouts = 0 /\ Wealth(Signer) = run.cash
      BY <1>1 DEF ScriptInv, Paid
    <2>3. Wealth(Signer)' = run'.cash - SupplyAmount[run'.script] + run'.receipt
      BY <1>4, <1>5, <1>6, <2>1, <2>2 DEF a
    <2>4. Paid'
      BY <1>1, <1>2, <2>1, <2>2, <2>3 DEF Paid, Smoke
    <2>5. Traced'
      BY <1>1, <1>2, <2>1, OtherScript DEF Smoke
    <2> QED
      BY <1>7, <2>1, <2>4, <2>5 DEF ScriptInv
  <1> QED
    BY <1>2, <1>9, <1>10

\* A step of a smoke test after its deposit that moves no quote of the signer's.
LEMMA SmokeMoves ==
    ASSUME Ledgers, ScriptInv, run.script \in Smoke, run' \in Runs, run'.script = run.script,
           run'.cash = run.cash, run'.receipt = run.receipt, quoteCoins' = quoteCoins,
           UNCHANGED <<trace, payouts>>,
           run.pc \in {"request", "wait", "fulfill", "received"},
           <<run.pc, run'.pc>> \in {<<"request", "wait">>, <<"wait", "fulfill">>,
               <<"fulfill", "fulfill">>, <<"received", "red">>, <<"received", "green">>}
             \/ (run.pc = "fulfill" /\ run'.pc = "received" /\ run.receipt > 0),
           run'.pc = "green" => run.receipt >= MinReceived(SupplyAmount[run.script])
    PROVE  ScriptInv'
  <1>1. Wealth(Signer)' = Wealth(Signer)
    BY WealthStays, ScriptsAssumption
  <1>2. Paid'
    BY <1>1 DEF ScriptInv, Paid, Smoke
  <1>3. Traced'
    BY OtherScript DEF Smoke
  <1> QED
    BY <1>2, <1>3 DEF ScriptInv

\* Checkpoint 4.
LEMMA SmokeRequestInv ==
    ASSUME Ledgers, ScriptInv, TestnetRequest \/ MainnetRequest, foreign' = foreign
    PROVE  Ledgers' /\ ScriptInv'
  <1>1. /\ run.script \in Smoke /\ run.pc = "request" /\ Requests(RequestAnswer)
    BY DEF TestnetRequest, MainnetRequest, At, Smoke
  <1>2. /\ run' = RequestAnswer \/ run' = [run EXCEPT !.pc = "failed"]
        /\ UNCHANGED <<trace, margin, started, payouts>>
    BY <1>1 DEF Requests, Answered
  <1>3. PICK c : RedeemRequestTx(Signer, c)
    BY <1>1 DEF Requests
  <1>4. IInv' /\ CoinTypes' /\ UNCHANGED <<ledger, quoteCoins>>
    BY <1>3, ScriptsAssumption, RequestFacts DEF Ledgers
  <1>5. Ledgers'
    BY <1>4 DEF Ledgers
  <1>6. payouts \in {0, 1} /\ now + CooldownMs + WaitSlackMs \in Nat
    BY WakeType DEF ScriptInv, Paid, Ledgers
  <1>7. CASE run' = [run EXCEPT !.pc = "failed"]
    BY <1>2, <1>5, <1>6, <1>7, FailsInv
  <1>8. CASE run' = RequestAnswer
    <2>1. /\ run' \in Runs /\ run'.pc = "wait" /\ run'.script = run.script
          /\ run'.cash = run.cash /\ run'.receipt = run.receipt
      BY <1>6, <1>8 DEF ScriptInv, Runs, RequestAnswer
    <2> QED
      BY <1>1, <1>2, <1>4, <1>5, <2>1, SmokeMoves
  <1> QED
    BY <1>2, <1>7, <1>8

\* Checkpoint 5.
LEMMA SmokeWaitInv ==
    ASSUME Ledgers, ScriptInv, TestnetWait \/ MainnetWait PROVE Ledgers' /\ ScriptInv'
  <1>1. /\ run.script \in Smoke /\ run.pc = "wait" /\ run' = [run EXCEPT !.pc = "fulfill"]
        /\ UNCHANGED <<chain, trace, margin, started, payouts>>
    BY DEF TestnetWait, MainnetWait, At, Waits, Smoke
  <1>2. Ledgers' /\ UNCHANGED quoteCoins
    BY <1>1, LedgersQuiet DEF chain, coins
  <1>3. /\ run' \in Runs /\ run'.pc = "fulfill" /\ run'.script = run.script
        /\ run'.cash = run.cash /\ run'.receipt = run.receipt
    BY <1>1 DEF ScriptInv, Runs
  <1> QED
    BY <1>1, <1>2, <1>3, SmokeMoves

\* Checkpoint 6: a submission that pays, one that is answered with the receipt of an
\* earlier one, and one that takes no effect.
LEMMA SmokeFulfillInv ==
    ASSUME Ledgers, ScriptInv, TestnetFulfill \/ MainnetFulfill PROVE Ledgers' /\ ScriptInv'
  <1>1. /\ run.script \in Smoke /\ run.pc = "fulfill"
        /\ \/ FulfillSubmit
           \/ run' = [run EXCEPT !.attempts = @ + 1] /\ UNCHANGED <<chain, payouts>>
        /\ UNCHANGED <<trace, margin, started>>
    BY DEF TestnetFulfill, MainnetFulfill, At, Smoke
  <1>2. /\ payouts = (IF run.receipt = 0 THEN 0 ELSE 1)
        /\ Wealth(Signer) = run.cash - SupplyAmount[run.script] + run.receipt
    BY <1>1 DEF ScriptInv, Paid
  <1>3. CASE run.receipt = 0 /\ RedeemFulfillTx(Signer) /\ LoopAnswered(Payout(Signer))
             /\ payouts' = payouts + 1
    <2> DEFINE p == Payout(Signer)
    <2>1. Signer \in Users
      BY ScriptsAssumption
    <2>2. /\ IInv' /\ CoinTypes' /\ p \in Nat /\ p > 0 /\ total_assets' = total_assets - p
          /\ Wealth(Signer)' = Wealth(Signer) + p
          /\ \A v \in Users \ {Signer} : quoteCoins'[v] = quoteCoins[v]
      BY <1>3, <2>1, FulfillFacts DEF Ledgers
    <2>3. \/ run' = [run EXCEPT !.pc = "received", !.receipt = p]
          \/ run' = [run EXCEPT !.attempts = @ + 1, !.receipt = p]
      BY <1>3 DEF LoopAnswered
    <2> HIDE DEF p
    <2>4. Wealth(Signer) \in Nat
      BY <2>1, WealthType DEF Ledgers
    <2>5. Ledgers'
      BY <2>2 DEF Ledgers
    <2>6. /\ run' \in Runs /\ run'.pc \in {"received", "fulfill"} /\ run'.script = run.script
          /\ run'.cash = run.cash /\ run'.receipt = p
      <3>1. run \in Runs
        BY DEF ScriptInv
      <3>2. CASE run' = [run EXCEPT !.pc = "received", !.receipt = p]
        BY <2>2, <3>1, <3>2 DEF Runs
      <3>3. CASE run' = [run EXCEPT !.attempts = @ + 1, !.receipt = p]
        <4>1. run.attempts + 1 \in Nat
          BY <3>1 DEF Runs
        <4> QED
          BY <1>1, <2>2, <3>1, <3>3, <4>1 DEF Runs
      <3> QED
        BY <2>3, <3>2, <3>3
    <2>7. Wealth(Signer)' = run'.cash - SupplyAmount[run'.script] + run'.receipt
      <3>1. run.cash \in Nat /\ SupplyAmount[run.script] \in Nat
        BY <1>1, SupplyAmounts DEF ScriptInv, Runs, Smoke
      <3> QED
        BY <1>2, <1>3, <2>2, <2>4, <2>6, <3>1
    <2>8. payouts' = 1
      BY <1>2, <1>3
    <2>9. Paid'
      BY <1>1, <2>2, <2>6, <2>7, <2>8 DEF Paid, Smoke
    <2>10. Traced'
      BY <1>1, <2>6, OtherScript DEF Smoke
    <2> QED
      BY <2>5, <2>6, <2>9, <2>10 DEF ScriptInv
  <1>4. CASE UNCHANGED <<chain, payouts>>
    <2>1. Ledgers' /\ UNCHANGED quoteCoins
      BY <1>1, <1>4, LedgersQuiet DEF chain, coins
    <2>2. \/ run' = [run EXCEPT !.attempts = @ + 1]
          \/ run.receipt > 0 /\ run' = [run EXCEPT !.pc = "received", !.receipt = run.receipt]
          \/ run' = [run EXCEPT !.attempts = @ + 1, !.receipt = run.receipt]
      BY <1>1, <1>2, <1>4 DEF FulfillSubmit, LoopAnswered
    <2>3. /\ run' \in Runs /\ run'.script = run.script
          /\ run'.cash = run.cash /\ run'.receipt = run.receipt
          /\ run'.pc = "fulfill" \/ (run'.pc = "received" /\ run.receipt > 0)
      <3>1. run.receipt \in Nat /\ run \in Runs
        BY DEF ScriptInv, Runs
      <3>2. CASE run' = [run EXCEPT !.attempts = @ + 1]
        BY <1>1, <3>1, <3>2 DEF Runs
      <3>3. CASE run.receipt > 0 /\ run' = [run EXCEPT !.pc = "received", !.receipt = run.receipt]
        BY <1>1, <3>1, <3>3 DEF Runs
      <3>4. CASE run' = [run EXCEPT !.attempts = @ + 1, !.receipt = run.receipt]
        <4>1. run.attempts + 1 \in Nat
          BY <3>1 DEF Runs
        <4> QED
          BY <1>1, <3>1, <3>4, <4>1 DEF Runs
      <3> QED
        BY <2>2, <3>2, <3>3, <3>4
    <2> QED
      BY <1>1, <1>4, <2>1, <2>3, SmokeMoves
  <1> QED
    BY <1>1, <1>3, <1>4 DEF FulfillSubmit

\* Checkpoint 7.
LEMMA SmokeGatesInv ==
    ASSUME Ledgers, ScriptInv, SmokeGates PROVE Ledgers' /\ ScriptInv'
  <1> DEFINE v == IF GateA(SupplyAmount[run.script]) /\ GateB THEN "green" ELSE "red"
  <1>1. /\ run.script \in Smoke /\ run.pc = "received" /\ run' = [run EXCEPT !.pc = v]
        /\ UNCHANGED <<chain, trace, margin, started, payouts>>
    BY DEF SmokeGates, At, Goto, Smoke, TestnetVerdict, MainnetVerdict
  <1>2. Ledgers' /\ UNCHANGED quoteCoins
    BY <1>1, LedgersQuiet DEF chain, coins
  <1>3. run.receipt > 0
    BY <1>1 DEF ScriptInv, Paid
  <1>4. v \in {"green", "red"}
        /\ (v = "green" => run.receipt >= MinReceived(SupplyAmount[run.script]))
    BY <1>3 DEF GateA, ReceivedForGate
  <1> HIDE DEF v
  <1>5. /\ run' \in Runs /\ run'.pc = v /\ run'.script = run.script
        /\ run'.cash = run.cash /\ run'.receipt = run.receipt
    BY <1>1, <1>4 DEF ScriptInv, Runs
  <1> QED
    BY <1>1, <1>2, <1>4, <1>5, SmokeMoves

-----------------------------------------------------------------------------
(* The other steps, and the clients together.                                *)

\* A run that throws, is killed, or gives up.
LEMMA EndsInv ==
    ASSUME Ledgers, ScriptInv, Throws \/ Killed \/ FulfillGivesUp, foreign' = foreign
    PROVE  Ledgers' /\ ScriptInv'
  <1>1. run' = [run EXCEPT !.pc = "failed"] /\ UNCHANGED <<chain, trace, margin, started, payouts>>
    BY DEF Throws, Killed, FulfillGivesUp, Goto
  <1>2. Ledgers'
    BY <1>1, LedgersQuiet
  <1>3. payouts \in {0, 1}
    BY DEF ScriptInv, Paid
  <1> QED
    BY <1>1, <1>2, <1>3, FailsInv

\* The run of two-protocol-ptb-demo.ts is paid nothing and records nothing.
LEMMA PtbRun ==
    ASSUME ScriptInv, run.script = "ptb",
           \E next \in {"ptb", "green", "failed"} : run' = [run EXCEPT !.pc = next],
           UNCHANGED <<trace, payouts>>
    PROVE  ScriptInv'
  <1>1. run' \in Runs /\ run'.script = run.script
    BY DEF ScriptInv, Runs
  <1>2. Paid'
    BY <1>1 DEF ScriptInv, Paid, Smoke
  <1>3. Traced'
    BY <1>1, OtherScript
  <1> QED
    BY <1>1, <1>2, <1>3 DEF ScriptInv

LEMMA PtbSetupInv == ASSUME Ledgers, ScriptInv, PtbSetup PROVE Ledgers' /\ ScriptInv'
  <1>1. /\ run.script = "ptb" /\ \E next \in {"ptb", "failed"} : run' = [run EXCEPT !.pc = next]
        /\ margin' = margin \/ margin' = [margin EXCEPT !.managers = @ + 1]
        /\ UNCHANGED <<chain, trace, started, payouts>>
    BY DEF PtbSetup, At, Answered
  <1>3. Ledgers'
    BY <1>1, LedgersQuiet
  <1> QED
    BY <1>1, <1>3, PtbRun

\* The loan leaves the pool for the vault by way of the manager.
LEMMA PtbExecuteInv == ASSUME Ledgers, ScriptInv, PtbExecute PROVE Ledgers' /\ ScriptInv'
  <1> DEFINE b == BorrowAmount
  <1>1. /\ run.script = "ptb" /\ \E next \in {"green", "failed"} : run' = [run EXCEPT !.pc = next]
        /\ SupplyFromTx(Signer, b)
        /\ UNCHANGED <<quoteCoins, trace, started, payouts>>
    BY DEF PtbExecute, At, Answered
  <1>2. b \in Nat /\ CollateralAmount \in Nat /\ Signer \in Users
    BY ScriptsAssumption, U64MaxAssumption DEF U64
  <1> HIDE DEF b
  <1>3. /\ IInv' /\ total_assets' = total_assets + b
        /\ nextCoin' = nextCoin + 1 /\ Purses(shareCoins', nextCoin')
    BY <1>1, <1>2, SupplyFromFacts DEF Ledgers
  <1>4. CoinTypes'
    <2>1. nextCoin \in Nat /\ Purses(quoteCoins, nextCoin)
      BY DEF Ledgers, CoinTypes, Purses
    <2>2. Purses(quoteCoins', nextCoin')
      BY <1>1, <1>3, <2>1, PursesKept
    <2> QED
      BY <1>3, <2>1, <2>2 DEF CoinTypes, Purses
  <1>5. Ledgers'
    BY <1>3, <1>4 DEF Ledgers
  <1> QED
    BY <1>1, <1>5, PtbRun

\* A new run starts with nothing paid and nothing recorded.
LEMMA LaunchInv ==
    ASSUME Ledgers, ScriptInv, NEW s \in Scripts, Launch(s) PROVE Ledgers' /\ ScriptInv'
  <1>1. /\ run' = [NotRunning EXCEPT !.script = s, !.pc = FirstStep(s)]
        /\ trace' = << >> /\ payouts' = 0 /\ UNCHANGED <<chain, margin>>
    BY DEF Launch
  <1>2. s \in {"e2e", "testnet", "mainnet", "ptb"}
    BY ScriptsAssumption
  <1>3. Ledgers'
    BY <1>1, LedgersQuiet
  <1>4. /\ s = "e2e" => FirstStep(s) = "supply"
        /\ s \in Smoke => FirstStep(s) = "snapshot"
        /\ FirstStep(s) \in {"supply", "setup", "snapshot"}
    BY <1>2 DEF FirstStep, Smoke
  <1>5. /\ run' \in Runs /\ run'.script = s /\ run'.pc = FirstStep(s) /\ run'.receipt = 0
        /\ ~run'.snapped /\ ~run'.answered
    BY <1>1, <1>2, <1>4 DEF Runs, NotRunning, Snapshot, NoSnapshot
  <1>6. Paid'
    BY <1>1, <1>4, <1>5 DEF Paid, Smoke
  <1>7. trace' \in Seq(Entries) /\ DOMAIN trace' = {}
    BY <1>1
  <1>8. TraceJoins'
    BY <1>1, <1>5, <1>7 DEF TraceJoins
  <1>9. Traced'
    BY <1>1, <1>5, <1>7, <1>8 DEF Traced
  <1> QED
    BY <1>3, <1>5, <1>6, <1>9 DEF ScriptInv

\* Every step of a script.
LEMMA ScriptedInv ==
    ASSUME Ledgers, ScriptInv, foreign \in BOOLEAN, Scripted PROVE Ledgers' /\ ScriptInv'
  <1>1. CASE \E s \in Scripts : Launch(s)
    BY <1>1, LaunchInv
  <1>2. CASE ScriptStep \/ Killed
    <2>1. started' = started
      BY <1>2 DEF ScriptStep, Killed, E2eSnapshotBefore, E2eSupply, E2eRequest, E2eFulfill,
         E2eSnapshotAfter, E2eWait, SmokeSnapshot, TestnetSupply, MainnetSupply, TestnetRequest,
         MainnetRequest, TestnetWait, MainnetWait, TestnetFulfill, MainnetFulfill,
         FulfillGivesUp, SmokeGates, PtbSetup, PtbExecute, Throws, Supplies, Requests, Waits
    <2>2. foreign' = foreign
      <3>1. foreign' = (foreign /\ started' = started)
        BY DEF Scripted
      <3>2. foreign' = (foreign /\ TRUE)
        BY <2>1, <3>1
      <3> QED
        BY <3>2, Zenon
    <2> QED
      BY <1>2, <2>2, EndsInv, PtbSetupInv, PtbExecuteInv, SnapshotBefore, SnapshotAfter,
         WaitEnds, E2eSupplyInv, E2eRequestInv, E2eFulfillInv, SmokeSnapshotInv,
         SmokeSupplyInv, SmokeRequestInv, SmokeWaitInv, SmokeFulfillInv, SmokeGatesInv
      DEF ScriptStep
  <1> QED
    BY <1>1, <1>2 DEF Scripted, ScriptsNext

\* What others do keeps a run's facts: the signer's purse is the signer's, and a use
\* of the vault is remembered.
LEMMA ScriptStays ==
    ASSUME ScriptInv, UNCHANGED scriptVars, Wealth(Signer)' = Wealth(Signer),
           ~foreign' => ~foreign /\ UNCHANGED ledger
    PROVE  ScriptInv'
  <1>1. run' = run /\ trace' = trace /\ payouts' = payouts
    BY DEF scriptVars
  <1>2. Paid'
    BY <1>1 DEF ScriptInv, Paid
  <1>3. ASSUME UNCHANGED ledger, TraceJoins PROVE TraceJoins'
    <2>1. SnapshotVault' = SnapshotVault
      BY <1>3 DEF ledger, SnapshotVault
    <2>2. TraceEntry' = TraceEntry
      BY <1>1, <2>1 DEF TraceEntry
    <2>3. \A a : Replays(a)' = Replays(a)
      BY <1>1 DEF Replays
    <2>4. Replays(TraceEntry) => Replays(TraceEntry)'
      BY <1>1, <2>2 DEF Replays
    <2> QED
      BY <1>1, <1>3, <2>1, <2>3, <2>4 DEF TraceJoins, Recording
  <1>4. Traced'
    BY <1>1, <1>3 DEF ScriptInv, Traced, Recording
  <1> QED
    BY <1>1, <1>2, <1>4 DEF ScriptInv

ClientsInv == Ledgers /\ PanelInv /\ ScriptInv /\ foreign \in BOOLEAN

LEMMA PanelledInv == ASSUME ClientsInv, Panelled PROVE ClientsInv'
  <1>1. /\ IInv' /\ CoinTypes' /\ PanelInv' /\ UNCHANGED scriptVars
        /\ \A v \in Users \ {PanelUser} : quoteCoins'[v] = quoteCoins[v]
        /\ Wealth(PanelUser)' + total_assets' = Wealth(PanelUser) + total_assets
    BY PanelledFacts DEF ClientsInv, Ledgers
  <1>2. PanelUser \in Users /\ Signer \in Users \ {PanelUser} /\ margin' = margin
    BY <1>1, PanelAssumption, ScriptsAssumption, ClientsAssumption DEF scriptVars
  <1>3. Ledgers'
    BY <1>1, <1>2 DEF Ledgers
  <1>4. Wealth(Signer)' = Wealth(Signer)
    BY <1>1, <1>2 DEF Wealth, TotalOf
  <1>5. foreign' = (foreign \/ ledger' # ledger)
    BY DEF Panelled
  <1>6. ScriptInv'
    BY <1>1, <1>4, <1>5, ScriptStays DEF ClientsInv
  <1> QED
    BY <1>1, <1>3, <1>5, <1>6 DEF ClientsInv

LEMMA ClockInv == ASSUME ClientsInv, ClockTicks PROVE ClientsInv'
  <1>1. Tick /\ UNCHANGED <<coins, scriptVars, panelVars, foreign>>
    BY DEF ClockTicks
  <1>2. UNCHANGED <<quoteCoins, margin, panel>> /\ UNCHANGED ledger
    BY <1>1 DEF coins, scriptVars, panelVars, Tick
  <1>3. Ledgers'
    BY <1>1, <1>2, LedgersTick DEF ClientsInv
  <1>4. Wealth(Signer)' = Wealth(Signer)
    BY <1>2, WealthStays, ScriptsAssumption
  <1>5. ScriptInv'
    BY <1>1, <1>2, <1>4, ScriptStays DEF ClientsInv
  <1> QED
    BY <1>1, <1>2, <1>3, <1>5 DEF ClientsInv, PanelInv

\* The wallets hold old coins only, and no run has begun.
LEMMA ClientsInitInv == ASSUME ClientsInit PROVE ClientsInv
  <1>1. /\ Init /\ quoteCoins = InitialQuote /\ shareCoins = [u \in Users |-> EmptyTable]
        /\ nextCoin = 100 /\ ScriptsInit /\ PanelInit /\ foreign = FALSE
    BY DEF ClientsInit, WalletsInit
  <1>2. IInv /\ total_assets = SeedQuote /\ SeedQuote \in Nat
    BY <1>1, InitInv, VaultAssumption, U64MaxAssumption DEF Init, U64
  <1>3. CoinTypes
    <2>1. ASSUME NEW u \in Users PROVE Purse(InitialQuote[u], 100)
      <3> DEFINE t == InitialQuote[u]
      <3>1. DOMAIN t \subseteq 1 .. 99 /\ t \in [DOMAIN t -> Nat]
        BY WalletsAssumption DEF OldCoins
      <3>2. IsFiniteSet(DOMAIN t)
        <4>1. 1 \in Int /\ 99 \in Int
          OBVIOUS
        <4>2. IsFiniteSet(1 .. 99)
          BY <4>1, FS_Interval, Zenon
        <4> QED
          BY <3>1, <4>2, FS_Subset
      <3> HIDE DEF t
      <3>3. Purse(t, 100)
        BY <3>1, <3>2 DEF Purse, NatValued
      <3> QED
        BY <3>3 DEF t
    <2>2. Purse(EmptyTable, 100)
      <3>1. DOMAIN EmptyTable = {}
        BY DEF EmptyTable
      <3> QED
        BY <3>1, FS_EmptySet DEF Purse, NatValued
    <2> QED
      BY <1>1, <2>1, <2>2, WalletsAssumption DEF CoinTypes
  <1>6. PanelInv
    BY <1>1 DEF PanelInit, PanelInv, Forms, Transactions, DepositMounted, NoTx, Tx, NoCoin
  <1>7. run \in Runs /\ run.script = "none" /\ trace = << >> /\ payouts = 0
    BY <1>1 DEF ScriptsInit, Runs, NotRunning, Snapshot, NoSnapshot
  <1>8. ScriptInv
    BY <1>7 DEF ScriptInv, Paid, Traced, Smoke
  <1> QED
    BY <1>1, <1>2, <1>3, <1>6, <1>8 DEF ClientsInv, Ledgers

LEMMA ClientsNextInv == ClientsInv /\ [ClientsNext]_clientVars => ClientsInv'
  <1> SUFFICES ASSUME ClientsInv, [ClientsNext]_clientVars PROVE ClientsInv'
    OBVIOUS
  <1>1. CASE Scripted
    <2>1. Ledgers' /\ ScriptInv'
      BY <1>1, ScriptedInv DEF ClientsInv
    <2>2. panel' = panel
      BY <1>1 DEF Scripted, panelVars
    <2>3. foreign' \in BOOLEAN
      BY <1>1 DEF Scripted
    <2> QED
      BY <2>1, <2>2, <2>3 DEF ClientsInv, PanelInv
  <1>2. CASE Panelled
    BY <1>2, PanelledInv
  <1>3. CASE ClockTicks
    BY <1>3, ClockInv
  <1>4. CASE UNCHANGED clientVars
    <2>1. UNCHANGED <<chain, scriptVars, panelVars, foreign>>
      BY <1>4 DEF clientVars
    <2>2. UNCHANGED <<quoteCoins, margin, panel>> /\ UNCHANGED ledger
      BY <2>1 DEF chain, coins, vars, scriptVars, panelVars
    <2>3. Ledgers'
      BY <2>1, <2>2, LedgersQuiet DEF ClientsInv, Ledgers
    <2>4. Wealth(Signer)' = Wealth(Signer)
      BY <2>2, WealthStays, ScriptsAssumption
    <2>5. ScriptInv'
      BY <2>1, <2>2, <2>4, ScriptStays DEF ClientsInv
    <2> QED
      BY <2>1, <2>2, <2>3, <2>5 DEF ClientsInv, PanelInv
  <1> QED
    BY <1>1, <1>2, <1>3, <1>4 DEF ClientsNext

LEMMA ClientsInvariant == ClientsSpec => []ClientsInv
  <1>1. ClientsInit => ClientsInv
    BY ClientsInitInv
  <1> QED
    BY <1>1, ClientsNextInv, PTL DEF ClientsSpec

\* A smoke test that prints GREEN has been paid what its receipt says, and enough.
THEOREM GreenMeansPaid == ClientsSpec => []GreenIsPaid
  <1>1. ClientsInv => GreenIsPaid
    BY DEF ClientsInv, ScriptInv, Paid, GreenIsPaid, Smoke
  <1> QED
    BY <1>1, ClientsInvariant, PTL

\* A run is paid at most once, however often its fulfil is submitted.
THEOREM PaidAtMostOnce == ClientsSpec => []OnePayoutPerRun
  <1>1. ClientsInv => OnePayoutPerRun
    BY DEF ClientsInv, ScriptInv, Paid, OnePayoutPerRun
  <1> QED
    BY <1>1, ClientsInvariant, PTL

\* A recorded trace replays as long as nobody else has used the vault.
THEOREM TracesReplay == ClientsSpec => []TraceReplays
  <1>1. ClientsInv => TraceReplays
    <2> SUFFICES ASSUME ClientsInv, ~foreign PROVE TraceReplays
      BY DEF TraceReplays
    <2>1. CASE run.script = "e2e"
      BY <2>1 DEF ClientsInv, ScriptInv, Traced, TraceJoins, TraceReplays
    <2>2. CASE run.script # "e2e"
      <3>1. trace = << >> /\ DOMAIN trace = {}
        BY <2>2 DEF ClientsInv, ScriptInv, Traced
      <3> QED
        BY <3>1 DEF TraceReplays
    <2> QED
      BY <2>1, <2>2
  <1> QED
    BY <1>1, ClientsInvariant, PTL

\* A script that has moved the ledger is no longer where it was.
LEMMA LedgerMovesRun ==
    ASSUME ScriptInv, ScriptsNext, ledger' # ledger PROVE ~UNCHANGED scriptVars
  <1> SUFFICES ASSUME run' = run, payouts' = payouts PROVE FALSE
    BY DEF scriptVars
  <1>1. run \in Runs /\ payouts \in {0, 1}
    BY DEF ScriptInv, Paid
  <1>2. ~UNCHANGED chain
    BY DEF chain, vars
  <1>3. ASSUME run.pc # "failed" PROVE run' # [run EXCEPT !.pc = "failed"]
    BY <1>1, <1>3 DEF Runs
  <1>4. ASSUME ~run.answered PROVE run' # E2eAnswer
    BY <1>1, <1>4 DEF Runs, E2eAnswer
  <1>5. ASSUME NEW c, RedeemRequestTx(Signer, c) PROVE FALSE
    BY <1>5 DEF RedeemRequestTx, RedeemRequest
  <1>6. CASE E2eSupply
    BY <1>3, <1>4, <1>6 DEF E2eSupply, E2eSubmits, At, Supplies, Answered
  <1>7. CASE TestnetSupply \/ MainnetSupply
    <2>1. run.pc = "supply" /\ (run' = SupplyAnswer \/ run' = [run EXCEPT !.pc = "failed"])
      BY <1>7 DEF TestnetSupply, MainnetSupply, At, Supplies, Answered
    <2>2. run' # SupplyAnswer
      BY <1>1, <2>1 DEF Runs, SupplyAnswer
    <2> QED
      BY <1>3, <2>1, <2>2
  <1>8. CASE E2eRequest \/ TestnetRequest \/ MainnetRequest
    BY <1>5, <1>8 DEF E2eRequest, TestnetRequest, MainnetRequest, Requests
  <1>9. CASE E2eFulfill
    BY <1>1, <1>9 DEF E2eFulfill
  <1>10. CASE TestnetFulfill \/ MainnetFulfill
    BY <1>1, <1>2, <1>10 DEF TestnetFulfill, MainnetFulfill, FulfillSubmit
  <1>11. CASE PtbExecute
    <2>1. run.pc = "ptb" /\ \E next \in {"green", "failed"} : run' = [run EXCEPT !.pc = next]
      BY <1>11 DEF PtbExecute, At, Answered
    <2> QED
      BY <1>1, <2>1 DEF Runs
  <1>12. CASE E2eSnapshotBefore \/ E2eSnapshotAfter \/ E2eWait
    BY <1>2, <1>12 DEF E2eSnapshotBefore, E2eSnapshotAfter, E2eWait, Waits
  <1>13. CASE SmokeSnapshot \/ TestnetWait \/ MainnetWait \/ FulfillGivesUp \/ SmokeGates
    BY <1>2, <1>13 DEF SmokeSnapshot, TestnetWait, MainnetWait, FulfillGivesUp, SmokeGates, Waits
  <1>14. CASE PtbSetup \/ Throws \/ Killed
    BY <1>2, <1>14 DEF PtbSetup, Throws, Killed
  <1>15. CASE \E s \in Scripts : Launch(s)
    <2>1. UNCHANGED <<chain, margin>>
      BY <1>15, Zenon DEF Launch
    <2> QED
      BY <1>2, <2>1
  <1> QED
    BY <1>6, <1>7, <1>8, <1>9, <1>10, <1>11, <1>12, <1>13, <1>14, <1>15
    DEF ScriptsNext, ScriptStep

\* A deposit from the panel takes what the confirmed dialog showed.
THEOREM DepositsAsShown == ClientsSpec => DepositsWhatItShows
  <1>1. ASSUME ClientsInv, [ClientsNext]_clientVars, panel.tx.kind = "deposit",
               ledger' # ledger, UNCHANGED scriptVars
        PROVE  Wealth(PanelUser)' = Wealth(PanelUser) - panel.shown
    <2>1. CASE Scripted
      BY <1>1, <2>1, LedgerMovesRun DEF ClientsInv, Scripted
    <2>2. CASE Panelled
      BY <1>1, <2>2, PanelledFacts DEF ClientsInv, Ledgers
    <2>3. CASE ClockTicks \/ UNCHANGED clientVars
      BY <1>1, <2>3 DEF ClockTicks, Tick, clientVars, chain, vars
    <2> QED
      BY <1>1, <2>1, <2>2, <2>3 DEF ClientsNext
  <1> QED
    BY <1>1, ClientsInvariant, PTL DEF ClientsSpec, DepositsWhatItShows

-----------------------------------------------------------------------------
(* The exposure table, a fold over events.                                   *)

\* The rows that a run of events leaves, expired ones included.
Table(s) == FoldLeft(FoldEvent, <<>>, s)

\* The largest of finitely many positions.
LEMMA MaxIsLargest ==
    ASSUME NEW n \in Nat, NEW T \in SUBSET (1 .. n), T # {}
    PROVE  Max(T) \in T /\ \A y \in T : y <= Max(T)
  <1> DEFINE D == {n - y : y \in T}
  <1>1. D \in SUBSET Nat /\ D # {}
    <2>1. \A y \in T : y \in 1 .. n
      OBVIOUS
    <2>2. \A y \in T : n - y \in Nat
      BY <2>1
    <2> QED
      BY <2>2
  <1>2. PICK d \in D : \A e \in D : d <= e
    BY <1>1, LeastNatural
  <1>3. PICK x \in T : d = n - x
    BY <1>2
  <1>4. \A y \in T : n - x <= n - y
    BY <1>2, <1>3
  <1>5. \A y \in T : x >= y
    BY <1>4
  <1>6. \E m \in T : \A y \in T : m >= y
    BY <1>5
  <1>7. Max(T) \in T /\ \A y \in T : Max(T) >= y
    BY <1>6 DEF Max
  <1> QED
    BY <1>7

\* g is the fold over s, for every set of positions of s up to the m-th.
IsFold(g, s, m) ==
    g = [T \in SUBSET (1 .. m) |->
            IF T = {} THEN <<>> ELSE FoldEvent(g[T \ {Max(T)}], s[Max(T)])]

\* Taking the last of the first m + 1 positions away leaves some of the first m.
LEMMA LastRemoved ==
    ASSUME NEW m \in Nat, NEW T \in SUBSET (1 .. m + 1), T # {}
    PROVE  T \ {Max(T)} \in SUBSET (1 .. m)
  <1>1. Max(T) \in T /\ \A y \in T : y <= Max(T)
    <2>1. m + 1 \in Nat
      OBVIOUS
    <2> QED
      BY <2>1, MaxIsLargest
  <1>2. ASSUME NEW y \in T \ {Max(T)} PROVE y \in 1 .. m
    <2>1. y \in 1 .. m + 1 /\ Max(T) \in 1 .. m + 1 /\ y <= Max(T) /\ y # Max(T)
      BY <1>1
    <2> QED
      BY <2>1
  <1> QED
    BY <1>2

\* A fold over the first m positions extends to the next one.
LEMMA FoldExtends ==
    ASSUME NEW m \in Nat, NEW s, NEW g, IsFold(g, s, m)
    PROVE  \E h : IsFold(h, s, m + 1)
  <1> DEFINE h == [T \in SUBSET (1 .. m + 1) |->
                      IF T = {} THEN <<>> ELSE FoldEvent(g[T \ {Max(T)}], s[Max(T)])]
  <1>1. SUBSET (1 .. m) \subseteq SUBSET (1 .. m + 1)
    OBVIOUS
  <1>2. ASSUME NEW T \in SUBSET (1 .. m) PROVE g[T] = h[T]
    <2>1. g[T] = IF T = {} THEN <<>> ELSE FoldEvent(g[T \ {Max(T)}], s[Max(T)])
      BY Zenon DEF IsFold
    <2>2. T \in SUBSET (1 .. m + 1)
      BY <1>1
    <2> QED
      BY <2>1, <2>2, Zenon
  <1>3. ASSUME NEW T \in SUBSET (1 .. m + 1), T # {}
        PROVE  g[T \ {Max(T)}] = h[T \ {Max(T)}]
    BY <1>2, <1>3, LastRemoved
  <1>4. \A T \in SUBSET (1 .. m + 1) :
            h[T] = IF T = {} THEN <<>> ELSE FoldEvent(h[T \ {Max(T)}], s[Max(T)])
    <2> SUFFICES ASSUME NEW T \in SUBSET (1 .. m + 1)
                 PROVE  h[T] = IF T = {} THEN <<>> ELSE FoldEvent(h[T \ {Max(T)}], s[Max(T)])
      OBVIOUS
    <2>1. h[T] = IF T = {} THEN <<>> ELSE FoldEvent(g[T \ {Max(T)}], s[Max(T)])
      BY Zenon
    <2>2. CASE T = {}
      BY <2>1, <2>2, Zenon
    <2>3. CASE T # {}
      <3>1. g[T \ {Max(T)}] = h[T \ {Max(T)}]
        BY <1>3, <2>3
      <3> HIDE DEF h
      <3> QED
        BY <2>1, <2>3, <3>1, Zenon
    <2> QED
      BY <2>2, <2>3
  <1>5. h = [T \in SUBSET (1 .. m + 1) |-> h[T]]
    OBVIOUS
  <1> HIDE DEF h
  <1>6. IsFold(h, s, m + 1)
    BY <1>4, <1>5, Zenon DEF IsFold
  <1> QED
    BY <1>6

\* There is a fold over any number of events.
LEMMA FoldExists ==
    ASSUME NEW n \in Nat, NEW s
    PROVE  \E g : IsFold(g, s, n)
  <1> DEFINE D == {m \in Nat : ~ \E g : IsFold(g, s, m)}
  <1>1. CASE D = {}
    BY <1>1
  <1>2. CASE D # {}
    <2>1. PICK d \in D : \A e \in D : d <= e
      <3>1. D \in SUBSET Nat
        OBVIOUS
      <3> HIDE DEF D
      <3> QED
        BY <1>2, <3>1, LeastNatural
    <2>2. d \in Nat /\ ~ \E g : IsFold(g, s, d)
      BY <2>1
    <2>3. CASE d = 0
      <3> DEFINE h == [T \in SUBSET (1 .. 0) |-> <<>>]
      <3>1. \A T \in SUBSET (1 .. 0) : T = {}
        OBVIOUS
      <3>2. h = [T \in SUBSET (1 .. 0) |->
                    IF T = {} THEN <<>> ELSE FoldEvent(h[T \ {Max(T)}], s[Max(T)])]
        BY <3>1
      <3> HIDE DEF h
      <3>3. IsFold(h, s, 0)
        BY <3>2, Zenon DEF IsFold
      <3> QED
        BY <2>2, <2>3, <3>3
    <2>4. CASE d # 0
      <3>1. d - 1 \in Nat /\ d = (d - 1) + 1 /\ ~ (d <= d - 1)
        BY <2>2, <2>4
      <3>2. d - 1 \notin D
        BY <2>1, <3>1
      <3>3. PICK g : IsFold(g, s, d - 1)
        BY <3>1, <3>2
      <3>4. \E h : IsFold(h, s, (d - 1) + 1)
        BY <3>1, <3>3, FoldExtends
      <3> QED
        BY <2>2, <3>1, <3>4
    <2> QED
      BY <2>3, <2>4
  <1> QED
    BY <1>1, <1>2

\* The table of n events is the fold over all of their positions.
LEMMA TableIsFold ==
    ASSUME NEW n \in Nat, NEW s, DOMAIN s = 1 .. n
    PROVE  \E g : IsFold(g, s, n) /\ Table(s) = g[1 .. n]
  <1> DEFINE iter == CHOOSE g : g = [T \in SUBSET (DOMAIN s) |->
                        IF T = {} THEN <<>> ELSE FoldEvent(g[T \ {Max(T)}], s[Max(T)])]
  <1>1. Table(s) = iter[DOMAIN s]
    BY Zenon DEF Table, FoldLeft, MapThenFoldSet
  <1>2. PICK g : IsFold(g, s, n)
    BY FoldExists
  <1>3. \E h : h = [T \in SUBSET (DOMAIN s) |->
                        IF T = {} THEN <<>> ELSE FoldEvent(h[T \ {Max(T)}], s[Max(T)])]
    BY <1>2, Zenon DEF IsFold
  <1>4. iter = [T \in SUBSET (DOMAIN s) |->
                        IF T = {} THEN <<>> ELSE FoldEvent(iter[T \ {Max(T)}], s[Max(T)])]
    BY <1>3, Zenon
  <1> HIDE DEF iter
  <1>5. IsFold(iter, s, n)
    BY <1>4, Zenon DEF IsFold
  <1> QED
    BY <1>1, <1>5, Zenon

\* No events leave no rows.
LEMMA TableOfNone == Table(<<>>) = <<>>
  <1>1. DOMAIN <<>> = 1 .. 0
    OBVIOUS
  <1>2. PICK g : IsFold(g, <<>>, 0) /\ Table(<<>>) = g[1 .. 0]
    BY <1>1, TableIsFold
  <1>3. 1 .. 0 = {} /\ {} \in SUBSET (1 .. 0)
    OBVIOUS
  <1>4. g[{}] = <<>>
    BY <1>2, <1>3, Zenon DEF IsFold
  <1> QED
    BY <1>2, <1>3, <1>4, Zenon

\* One more event is one more turn of the loop.
LEMMA TableStep ==
    ASSUME NEW n \in Nat, NEW s, DOMAIN s = 1 .. n + 1,
           NEW t, DOMAIN t = 1 .. n, \A i \in 1 .. n : t[i] = s[i]
    PROVE  Table(s) = FoldEvent(Table(t), s[n + 1])
  <1>1. n + 1 \in Nat
    OBVIOUS
  <1>2. PICK g : IsFold(g, s, n + 1) /\ Table(s) = g[1 .. n + 1]
    BY <1>1, TableIsFold
  <1>3. PICK h : IsFold(h, t, n) /\ Table(t) = h[1 .. n]
    BY TableIsFold
  <1>4. ASSUME NEW m \in Nat, NEW f, NEW r, IsFold(f, r, m), NEW i \in 0 .. m - 1
        PROVE  f[1 .. i + 1] = FoldEvent(f[1 .. i], r[i + 1])
    <2>1. 1 .. i + 1 \in SUBSET (1 .. m) /\ 1 .. i + 1 # {}
      OBVIOUS
    <2>2. Max(1 .. i + 1) = i + 1
      <3>1. i + 1 \in Nat /\ i + 1 \in 1 .. i + 1
        OBVIOUS
      <3>2. Max(1 .. i + 1) \in 1 .. i + 1 /\ i + 1 <= Max(1 .. i + 1)
        BY <2>1, <3>1, MaxIsLargest
      <3> QED
        BY <3>2
    <2>3. (1 .. i + 1) \ {i + 1} = 1 .. i
      OBVIOUS
    <2>4. f[1 .. i + 1] = FoldEvent(f[(1 .. i + 1) \ {Max(1 .. i + 1)}], r[Max(1 .. i + 1)])
      BY <1>4, <2>1, Zenon DEF IsFold
    <2> QED
      BY <2>2, <2>3, <2>4, Zenon
  <1>5. g[1 .. n] = h[1 .. n]
    <2> DEFINE D == {m \in 0 .. n : g[1 .. m] # h[1 .. m]}
    <2>1. SUFFICES ASSUME D # {} PROVE FALSE
      OBVIOUS
    <2>2. D \in SUBSET Nat
      OBVIOUS
    <2>3. PICK d \in D : \A e \in D : d <= e
      <3> HIDE DEF D
      <3> QED
        BY <2>1, <2>2, LeastNatural
    <2>4. d \in 0 .. n /\ g[1 .. d] # h[1 .. d]
      BY <2>3
    <2>5. d # 0
      <3>1. g[{}] = <<>> /\ h[{}] = <<>>
        BY <1>2, <1>3, Zenon DEF IsFold
      <3>2. 1 .. 0 = {}
        OBVIOUS
      <3> QED
        BY <2>4, <3>1, <3>2
    <2>6. d - 1 \in 0 .. n /\ ~ (d <= d - 1) /\ d - 1 \in 0 .. n - 1 /\ d - 1 \in 0 .. (n + 1) - 1
            /\ (d - 1) + 1 = d /\ d \in 1 .. n
      BY <2>4, <2>5
    <2>7. g[1 .. d - 1] = h[1 .. d - 1]
      BY <2>3, <2>6
    <2>8. g[1 .. (d - 1) + 1] = FoldEvent(g[1 .. d - 1], s[(d - 1) + 1])
      BY <1>1, <1>2, <1>4, <2>6
    <2>9. h[1 .. (d - 1) + 1] = FoldEvent(h[1 .. d - 1], t[(d - 1) + 1])
      BY <1>3, <1>4, <2>6
    <2>10. t[d] = s[d]
      BY <2>6
    <2> HIDE DEF D
    <2> QED
      BY <2>4, <2>6, <2>7, <2>8, <2>9, <2>10, Zenon
  <1>6. n \in 0 .. (n + 1) - 1
    OBVIOUS
  <1>7. g[1 .. n + 1] = FoldEvent(g[1 .. n], s[n + 1])
    BY <1>1, <1>2, <1>4, <1>6
  <1> QED
    BY <1>2, <1>3, <1>5, <1>7, Zenon

\* The first m events of t.
Cut(t, m) == [i \in 1 .. m |-> t[i]]

LEMMA CutWhole == ASSUME NEW E, NEW s \in Seq(E) PROVE Cut(s, Len(s)) = s
  BY DEF Cut

LEMMA CutStep ==
    ASSUME NEW t, NEW m \in Nat
    PROVE  Table(Cut(t, m + 1)) = FoldEvent(Table(Cut(t, m)), t[m + 1])
  <1> DEFINE c == Cut(t, m)
             d == Cut(t, m + 1)
  <1>1. DOMAIN c = 1 .. m /\ DOMAIN d = 1 .. m + 1
    BY DEF Cut
  <1>2. \A i \in 1 .. m : c[i] = d[i]
    BY DEF Cut
  <1>3. d[m + 1] = t[m + 1]
    BY DEF Cut
  <1> HIDE DEF c, d
  <1>4. Table(d) = FoldEvent(Table(c), d[m + 1])
    BY <1>1, <1>2, TableStep
  <1> QED
    BY <1>3, <1>4 DEF c, d

\* What an end of a sequence holds.
LEMMA EndOf ==
    ASSUME NEW E, NEW s \in Seq(E), NEW i \in 1 .. Len(s) + 1
    PROVE  LET t == SubSeq(s, i, Len(s))
           IN  /\ t \in Seq(E) /\ Len(t) = Len(s) - i + 1 /\ Len(t) \in Nat
               /\ \A x \in 1 .. Len(t) : t[x] = s[i + x - 1]
  OBVIOUS

\* t is q behind p.
Behind(t, p, q) ==
    /\ Len(t) = Len(p) + Len(q)
    /\ \A i \in 1 .. Len(p) : t[i] = p[i]
    /\ \A i \in 1 .. Len(q) : t[Len(p) + i] = q[i]

\* Row r was not removed by any of the first m rolls, and the rows that were there
\* before are as they were; the last replacement has no notional.
Rolled(T0, T, n, e, m) ==
    /\ DOMAIN T \subseteq DOMAIN T0 \cup {MakeMarketKey(n)}
    /\ \A r \in DOMAIN T \ {MakeMarketKey(n)} :
           T[r] = T0[r] /\ \A i \in 1 .. m : r # MakeMarketKey(e[i])
    /\ m = 0 => T = T0
    /\ m > 0 => T[MakeMarketKey(n)].notional = 0

LEMMA RolledStep ==
    ASSUME NEW T0, NEW T, NEW n, NEW e, NEW m \in Nat, Rolled(T0, T, n, e, m)
    PROVE  Rolled(T0, FoldEvent(T, HedgeRolled(e[m + 1], n)), n, e, m + 1)
  <1> DEFINE x == HedgeRolled(e[m + 1], n)
             D == DeleteRow(T, MakeMarketKey(e[m + 1]))
             U == SetRow(D, MakeMarketKey(n), HedgeFromRolledNew(x))
  <1>1. FoldEvent(T, x) = U
    BY DEF FoldEvent, RollRows, HedgeRolled
  <1>2. /\ DOMAIN D = DOMAIN T \ {MakeMarketKey(e[m + 1])}
        /\ \A r \in DOMAIN D : D[r] = T[r]
    BY DEF DeleteRow
  <1>3. /\ DOMAIN U = DOMAIN D \cup {MakeMarketKey(n)}
        /\ \A r \in DOMAIN D \ {MakeMarketKey(n)} : U[r] = D[r]
        /\ U[MakeMarketKey(n)] = HedgeFromRolledNew(x)
    BY Zenon DEF SetRow
  <1>4. HedgeFromRolledNew(x).notional = 0
    BY DEF HedgeFromRolledNew
  <1> HIDE DEF x, D, U
  <1>5. DOMAIN U \subseteq DOMAIN T0 \cup {MakeMarketKey(n)}
    BY <1>2, <1>3 DEF Rolled
  <1>6. ASSUME NEW r \in DOMAIN U \ {MakeMarketKey(n)}, NEW i \in 1 .. m + 1
        PROVE  U[r] = T0[r] /\ r # MakeMarketKey(e[i])
    <2>1. r \in DOMAIN D \ {MakeMarketKey(n)} /\ r \in DOMAIN T \ {MakeMarketKey(n)}
            /\ r # MakeMarketKey(e[m + 1])
      BY <1>2, <1>3
    <2>2. U[r] = T0[r]
      BY <1>2, <1>3, <2>1 DEF Rolled
    <2>3. CASE i = m + 1
      BY <2>1, <2>2, <2>3
    <2>4. CASE i # m + 1
      <3>1. i \in 1 .. m
        BY <2>4
      <3> QED
        BY <2>1, <2>2, <3>1 DEF Rolled
    <2> QED
      BY <2>3, <2>4
  <1>7. \A r \in DOMAIN U \ {MakeMarketKey(n)} :
            U[r] = T0[r] /\ \A i \in 1 .. m + 1 : r # MakeMarketKey(e[i])
    <2>1. m + 1 \in 1 .. m + 1
      OBVIOUS
    <2> QED
      BY <1>6, <2>1
  <1>8. m + 1 # 0
    OBVIOUS
  <1>9. Rolled(T0, U, n, e, m + 1)
    BY <1>3, <1>4, <1>5, <1>7, <1>8 DEF Rolled
  <1> QED
    BY <1>1, <1>9 DEF x

\* The table after any number of rolls to one key.
LEMMA RollsFold ==
    ASSUME NEW E, NEW p \in Seq(E), NEW q \in Seq(E), NEW t \in Seq(E), Behind(t, p, q),
           NEW n, NEW e, \A i \in 1 .. Len(q) : q[i] = HedgeRolled(e[i], n)
    PROVE  Rolled(Table(p), Table(t), n, e, Len(q))
  <1> DEFINE a == Len(p)
             b == Len(q)
             G(m) == Rolled(Table(p), Table(Cut(t, a + m)), n, e, m)
             D == {m \in 0 .. b : ~ G(m)}
  <1>1. a \in Nat /\ b \in Nat /\ Len(t) = a + b
    BY DEF Behind
  <1>2. G(0)
    <2>1. Cut(t, a) = Cut(p, a)
      BY <1>1 DEF Behind, Cut
    <2>2. Cut(t, a) = p /\ a + 0 = a
      BY <1>1, <2>1, CutWhole
    <2>3. Rolled(Table(p), Table(p), n, e, 0)
      BY DEF Rolled
    <2> QED
      BY <2>2, <2>3
  <1>3. ASSUME NEW m \in 0 .. b - 1, G(m) PROVE G(m + 1)
    <2>1. m \in Nat /\ m + 1 \in 1 .. b /\ a + m \in Nat /\ a + (m + 1) = (a + m) + 1
      BY <1>1
    <2>2. t[a + (m + 1)] = HedgeRolled(e[m + 1], n)
      BY <2>1 DEF Behind
    <2>3. Table(Cut(t, (a + m) + 1)) = FoldEvent(Table(Cut(t, a + m)), t[(a + m) + 1])
      BY <2>1, CutStep
    <2>4. Table(Cut(t, a + (m + 1))) = FoldEvent(Table(Cut(t, a + m)), HedgeRolled(e[m + 1], n))
      BY <2>1, <2>2, <2>3
    <2> HIDE DEF a
    <2>5. Rolled(Table(p), FoldEvent(Table(Cut(t, a + m)), HedgeRolled(e[m + 1], n)), n, e, m + 1)
      BY <1>3, <2>1, RolledStep
    <2> QED
      BY <2>4, <2>5
  <1> HIDE DEF G
  <1>4. D = {}
    <2> SUFFICES ASSUME D # {} PROVE FALSE
      OBVIOUS
    <2>1. D \in SUBSET Nat
      BY <1>1
    <2>2. PICK d \in D : \A x \in D : d <= x
      <3> HIDE DEF D
      <3> QED
        BY <2>1, LeastNatural
    <2>3. d \in 0 .. b /\ ~ G(d) /\ d # 0
      BY <1>2, <2>2
    <2>4. d - 1 \in 0 .. b - 1 /\ d - 1 \in 0 .. b /\ (d - 1) + 1 = d /\ ~ (d <= d - 1)
      BY <1>1, <2>3
    <2>5. G(d - 1)
      BY <2>2, <2>4
    <2>6. G((d - 1) + 1)
      BY <1>3, <2>4, <2>5
    <2> QED
      BY <2>3, <2>4, <2>6
  <1>5. G(b)
    <2>1. b \in 0 .. b
      BY <1>1
    <2> QED
      BY <1>4, <2>1
  <1>6. Cut(t, a + b) = t
    BY <1>1, CutWhole
  <1> QED
    BY <1>5, <1>6 DEF G

\* The log stays a sequence of events.
LEMMA PushedType ==
    ASSUME NEW E, log \in Seq(E), NEW es \in Seq(E)
    PROVE  Pushed(es) \in Seq(E) /\ Len(Pushed(es)) \in Nat
  <1> DEFINE all == log \o es
             n == Len(all)
             f == Max({1, n - RingCap + 1})
  <1>1. all \in Seq(E) /\ n \in Nat
    OBVIOUS
  <1>2. f \in 1 .. n + 1
    <2>1. {1, n - RingCap + 1} \subseteq Int
      BY <1>1, RingCapAssumption
    <2>2. \E x \in {1, n - RingCap + 1} : \A y \in {1, n - RingCap + 1} : x >= y
      BY <1>1, RingCapAssumption
    <2>3. f \in {1, n - RingCap + 1} /\ \A y \in {1, n - RingCap + 1} : f >= y
      BY <2>2 DEF Max
    <2> HIDE DEF f, all
    <2> QED
      BY <1>1, <2>3, RingCapAssumption
  <1> HIDE DEF all, f
  <1>3. SubSeq(all, f, n) \in Seq(E) /\ Len(SubSeq(all, f, n)) \in Nat
    BY <1>1, <1>2, EndOf
  <1> QED
    BY <1>3 DEF Pushed, all, f

\* What a dashboard that joined at the j-th event still held sees: either the new
\* events behind an end of the old log, or an end of the new events.
LEMMA EndsOfPushed ==
    ASSUME NEW E, log \in Seq(E), NEW es \in Seq(E),
           NEW j \in 1 .. Len(Pushed(es)) + 1
    PROVE  /\ Pushed(es) \in Seq(E)
           /\ SubSeq(Pushed(es), j, Len(Pushed(es))) \in Seq(E)
           /\ \E p \in Seq(E), q \in Seq(E) :
                 /\ Behind(SubSeq(Pushed(es), j, Len(Pushed(es))), p, q)
                 /\ \/ q = es /\ \E i \in 1 .. Len(log) + 1 : p = SubSeq(log, i, Len(log))
                    \/ p = <<>> /\ \E i \in 1 .. Len(es) + 1 : q = SubSeq(es, i, Len(es))
  <1> DEFINE all == log \o es
             n == Len(all)
             f == Max({1, n - RingCap + 1})
             P == SubSeq(all, f, n)
             t == SubSeq(P, j, Len(P))
  <1>1. Pushed(es) = P
    BY DEF Pushed
  <1>2. /\ all \in Seq(E) /\ n = Len(log) + Len(es) /\ n \in Nat
        /\ Len(log) \in Nat /\ Len(es) \in Nat
        /\ \A i \in 1 .. Len(log) : all[i] = log[i]
        /\ \A i \in 1 .. Len(es) : all[Len(log) + i] = es[i]
    OBVIOUS
  <1>3. f \in 1 .. n + 1
    <2>1. {1, n - RingCap + 1} \subseteq Int
      BY <1>2, RingCapAssumption
    <2>2. \E x \in {1, n - RingCap + 1} : \A y \in {1, n - RingCap + 1} : x >= y
      BY <1>2, RingCapAssumption
    <2>3. f \in {1, n - RingCap + 1} /\ \A y \in {1, n - RingCap + 1} : f >= y
      BY <2>2 DEF Max
    <2> HIDE DEF f, all
    <2> QED
      BY <1>2, <2>3, RingCapAssumption
  <1> HIDE DEF all, f
  <1>4. /\ P \in Seq(E) /\ Len(P) = n - f + 1 /\ Len(P) \in Nat
        /\ \A i \in 1 .. Len(P) : P[i] = all[f + i - 1]
    BY <1>2, <1>3, EndOf
  <1>5. j \in 1 .. Len(P) + 1
    BY <1>1
  <1> HIDE DEF P
  <1>6. /\ t \in Seq(E) /\ Len(t) = Len(P) - j + 1
        /\ \A i \in 1 .. Len(t) : t[i] = P[j + i - 1]
    BY <1>4, <1>5
  <1> DEFINE s == f + j - 1
  <1>7. /\ s \in 1 .. n + 1 /\ Len(t) = n - s + 1
        /\ \A i \in 1 .. Len(t) : t[i] = all[s + i - 1]
    <2>1. s \in 1 .. n + 1 /\ Len(t) = n - s + 1
      BY <1>2, <1>3, <1>4, <1>5, <1>6
    <2>2. ASSUME NEW i \in 1 .. Len(t) PROVE t[i] = all[s + i - 1]
      <3>1. j + i - 1 \in 1 .. Len(P) /\ f + (j + i - 1) - 1 = s + i - 1
        BY <1>2, <1>3, <1>4, <1>5, <1>6
      <3> HIDE DEF t, s
      <3> QED
        BY <1>4, <1>6, <3>1
    <2> QED
      BY <2>1, <2>2
  <1> HIDE DEF t, s
  <1>8. CASE s <= Len(log) + 1
    <2> DEFINE p == SubSeq(log, s, Len(log))
    <2>1. s \in 1 .. Len(log) + 1
      BY <1>2, <1>7, <1>8
    <2>2. /\ p \in Seq(E) /\ Len(p) = Len(log) - s + 1
          /\ \A i \in 1 .. Len(p) : p[i] = log[s + i - 1]
      BY <2>1
    <2> HIDE DEF p
    <2>3. ASSUME NEW i \in 1 .. Len(p) PROVE t[i] = p[i]
      <3>1. i \in 1 .. Len(t) /\ s + i - 1 \in 1 .. Len(log)
        BY <1>2, <1>7, <2>1, <2>2
      <3> QED
        BY <1>2, <1>7, <2>2, <3>1
    <2>4. ASSUME NEW i \in 1 .. Len(es) PROVE t[Len(p) + i] = es[i]
      <3>1. Len(p) + i \in 1 .. Len(t) /\ s + (Len(p) + i) - 1 = Len(log) + i
        BY <1>2, <1>7, <2>1, <2>2
      <3> QED
        BY <1>2, <1>7, <3>1
    <2>5. Len(t) = Len(p) + Len(es)
      BY <1>2, <1>7, <2>1, <2>2
    <2>6. Behind(t, p, es)
      BY <2>3, <2>4, <2>5 DEF Behind
    <2> QED
      BY <1>1, <1>4, <1>6, <2>1, <2>2, <2>6 DEF p, t
  <1>9. CASE ~ (s <= Len(log) + 1)
    <2> DEFINE k == s - Len(log)
               q == SubSeq(es, k, Len(es))
    <2>1. k \in 1 .. Len(es) + 1
      BY <1>2, <1>7, <1>9
    <2>2. /\ q \in Seq(E) /\ Len(q) = Len(es) - k + 1
          /\ \A i \in 1 .. Len(q) : q[i] = es[k + i - 1]
      <3> HIDE DEF k
      <3> QED
        BY <2>1
    <2> HIDE DEF q
    <2>3. ASSUME NEW i \in 1 .. Len(q) PROVE t[i] = q[i]
      <3>1. /\ i \in 1 .. Len(t) /\ k + i - 1 \in 1 .. Len(es)
            /\ s + i - 1 = Len(log) + (k + i - 1)
        BY <1>2, <1>7, <2>1, <2>2
      <3>2. t[i] = all[Len(log) + (k + i - 1)]
        BY <1>7, <3>1
      <3> HIDE DEF k
      <3> QED
        BY <1>2, <2>2, <3>1, <3>2
    <2>4. Len(t) = Len(q)
      BY <1>2, <1>7, <2>1, <2>2
    <2>5. <<>> \in Seq(E) /\ Len(<<>>) = 0
      OBVIOUS
    <2>6. Behind(t, <<>>, q)
      <3>1. \A i \in 1 .. Len(q) : 0 + i = i
        OBVIOUS
      <3>2. Len(q) \in Nat
        BY <2>2
      <3> QED
        BY <2>3, <2>4, <2>5, <3>1, <3>2 DEF Behind
    <2> QED
      BY <1>1, <1>4, <1>6, <2>1, <2>2, <2>5, <2>6 DEF q, t
  <1> QED
    BY <1>8, <1>9

-----------------------------------------------------------------------------
\* Smaller values, or a part of the set, have a smaller sum.
LEMMA SumMonotone ==
    ASSUME NEW S, IsFiniteSet(S), NEW R \in SUBSET S,
           NEW f, NatValued(f, R), NEW g, NatValued(g, S), \A x \in R : f[x] <= g[x]
    PROVE  SumOver(R, f) <= SumOver(S, g)
  <1>1. \A x \in R : 1 .. f[x] \subseteq 1 .. g[x]
    BY DEF NatValued
  <1>2. Units(R, f) \subseteq Units(S, g)
    BY <1>1, UnitsMember
  <1>3. IsFiniteSet(Units(S, g))
    BY UnitsFinite
  <1> QED
    BY <1>2, <1>3, FS_Subset DEF SumOver

\* The keys of the table's rows.
RowKeys == {MakeMarketKey(k) : k \in MarketKey}

LEMMA RowKeysFinite == IsFiniteSet(RowKeys)
  <1> DEFINE h == [k \in MarketKey |-> MakeMarketKey(k)]
  <1>1. h \in [MarketKey -> RowKeys] /\ \A r \in RowKeys : \E k \in MarketKey : h[k] = r
    BY DEF RowKeys
  <1>2. h \in Surjection(MarketKey, RowKeys)
    BY <1>1 DEF Surjection
  <1> QED
    BY <1>2, KeysFinite, FS_Surjection

LEMMA RowKeyTells ==
    ASSUME NEW k \in MarketKey, NEW y \in MarketKey, MakeMarketKey(k) = MakeMarketKey(y)
    PROVE  k = y
  BY DEF MakeMarketKey, MarketKey

\* The notional that table T shows for each row.
Shown(T) == [r \in RowKeys |-> IF r \in DOMAIN T THEN T[r].notional ELSE 0]

\* Table T, expired rows included, invents nothing: its rows are hedges of H, with
\* no more than their cost, or in D, and they add up to at most b.
Fits(T, H, D, b) ==
    /\ DOMAIN T \subseteq RowKeys
    /\ \A r \in DOMAIN T : T[r].notional \in Nat
    /\ \A k \in MarketKey : MakeMarketKey(k) \in DOMAIN T =>
           \/ k \in D
           \/ k \in DOMAIN H /\ T[MakeMarketKey(k)].notional <= H[k].cost_basis
    /\ SumOver(RowKeys, Shown(T)) <= b

LEMMA ShownType ==
    ASSUME NEW T, \A r \in DOMAIN T : T[r].notional \in Nat
    PROVE  NatValued(Shown(T), RowKeys) /\ SumOver(RowKeys, Shown(T)) \in Nat
  <1>1. NatValued(Shown(T), RowKeys)
    BY DEF Shown, NatValued
  <1> QED
    BY <1>1, RowKeysFinite, SumType

\* An empty table.
LEMMA FitsEmpty == ASSUME NEW H, NEW D, NEW b \in Nat PROVE Fits(<<>>, H, D, b)
  <1>1. DOMAIN <<>> = {}
    OBVIOUS
  <1>2. \A r \in RowKeys : Shown(<<>>)[r] = 0
    BY <1>1 DEF Shown
  <1>3. SumOver(RowKeys, Shown(<<>>)) = 0
    BY <1>2, SumZero
  <1> QED
    BY <1>1, <1>3 DEF Fits

\* A purchase is added to the registry and takes the place of the row's notional.
LEMMA FitsMinted ==
    ASSUME NEW T, NEW H, NEW D, NEW b \in Nat, Fits(T, H, D, b),
           NEW k \in MarketKey, NEW c \in Nat, NEW x,
           NEW G, k \in DOMAIN G, c <= G[k].cost_basis,
           \A y \in DOMAIN H \ {k} : y \in DOMAIN G /\ G[y] = H[y]
    PROVE  Fits(FoldEvent(T, HedgeMinted(k, c, x)), G, D \ {k}, b + c)
  <1> DEFINE e == HedgeMinted(k, c, x)
             r == MakeMarketKey(k)
             U == SetRow(T, r, HedgeFromMint(e))
  <1>1. FoldEvent(T, e) = U /\ HedgeFromMint(e).notional = c
    BY DEF FoldEvent, HedgeMinted, HedgeFromMint
  <1>2. /\ DOMAIN U = DOMAIN T \cup {r} /\ U[r] = HedgeFromMint(e)
        /\ \A y \in DOMAIN T \ {r} : U[y] = T[y]
    BY Zenon DEF SetRow
  <1>3. r \in RowKeys
    BY DEF RowKeys
  <1> HIDE DEF e, U
  <1>4. DOMAIN U \subseteq RowKeys /\ \A y \in DOMAIN U : U[y].notional \in Nat
    BY <1>1, <1>2, <1>3 DEF Fits
  <1>5. ASSUME NEW y \in MarketKey, MakeMarketKey(y) \in DOMAIN U
        PROVE  \/ y \in D \ {k}
               \/ y \in DOMAIN G /\ U[MakeMarketKey(y)].notional <= G[y].cost_basis
    <2>1. CASE y = k
      BY <1>1, <1>2, <2>1
    <2>2. CASE y # k
      <3>1. MakeMarketKey(y) # r
        BY <2>2, RowKeyTells
      <3> HIDE DEF r
      <3>2. MakeMarketKey(y) \in DOMAIN T /\ U[MakeMarketKey(y)] = T[MakeMarketKey(y)]
        BY <1>2, <1>5, <3>1
      <3> QED
        BY <2>2, <3>2 DEF Fits
    <2> QED
      BY <2>1, <2>2
  <1>6. SumOver(RowKeys, Shown(U)) <= b + c
    <2> DEFINE f == Shown(T)
               g == Shown(U)
    <2>1. NatValued(f, RowKeys) /\ NatValued(g, RowKeys)
      BY <1>4, ShownType DEF Fits
    <2>2. g[r] = c /\ \A y \in RowKeys \ {r} : g[y] = f[y]
      BY <1>1, <1>2, <1>3 DEF Shown
    <2>3. f[r] \in Nat
      BY <1>3, <2>1 DEF NatValued
    <2>4. SumOver(RowKeys, f) <= b
      BY DEF Fits
    <2> HIDE DEF f, g, r
    <2>5. SumOver(RowKeys, g) = SumOver(RowKeys, f) - f[r] + g[r] /\ SumOver(RowKeys, f) \in Nat
      BY <1>3, <2>1, <2>2, RowKeysFinite, SumUpdate
    <2>6. SumOver(RowKeys, g) <= b + c
      BY <2>2, <2>3, <2>4, <2>5
    <2> QED
      BY <2>6 DEF g
  <1>7. Fits(U, G, D \ {k}, b + c)
    BY <1>4, <1>5, <1>6 DEF Fits
  <1> QED
    BY <1>1, <1>7, Zenon DEF e

\* Registry G has row n, and every row of H but those in e[1 .. m].
MovedInto(H, G, n, e, m) ==
    /\ n \in DOMAIN G /\ G[n].cost_basis \in Nat
    /\ \A y \in DOMAIN H \ {n} :
           (\E i \in 1 .. m : e[i] = y) \/ (y \in DOMAIN G /\ G[y] = H[y])

\* A roll of the rows e[1], ..., e[m] to n: none of them is left in the table, and the
\* replacement's row shows nothing.
LEMMA FitsRolled ==
    ASSUME NEW T0, NEW T, NEW H, NEW D, NEW b \in Nat, Fits(T0, H, D, b),
           NEW n \in MarketKey, NEW e, NEW m \in Nat \ {0}, Rolled(T0, T, n, e, m),
           NEW G, MovedInto(H, G, n, e, m)
    PROVE  Fits(T, G, D \ {n}, b)
  <1> DEFINE r == MakeMarketKey(n)
  <1>1. r \in RowKeys
    BY DEF RowKeys
  <1>2. /\ DOMAIN T \subseteq DOMAIN T0 \cup {r} /\ T[r].notional = 0
        /\ \A y \in DOMAIN T \ {r} :
               T[y] = T0[y] /\ \A i \in 1 .. m : y # MakeMarketKey(e[i])
    BY DEF Rolled
  <1>3. DOMAIN T \subseteq RowKeys /\ \A y \in DOMAIN T : T[y].notional \in Nat
    BY <1>1, <1>2 DEF Fits
  <1>4. ASSUME NEW y \in MarketKey, MakeMarketKey(y) \in DOMAIN T
        PROVE  \/ y \in D \ {n}
               \/ y \in DOMAIN G /\ T[MakeMarketKey(y)].notional <= G[y].cost_basis
    <2>1. CASE y = n
      BY <1>2, <2>1 DEF MovedInto
    <2>2. CASE y # n
      <3>1. MakeMarketKey(y) # r
        BY <2>2, RowKeyTells
      <3> HIDE DEF r
      <3>2. /\ MakeMarketKey(y) \in DOMAIN T0 /\ T[MakeMarketKey(y)] = T0[MakeMarketKey(y)]
            /\ \A i \in 1 .. m : e[i] # y
        BY <1>2, <1>4, <3>1
      <3> QED
        BY <2>2, <3>2 DEF Fits, MovedInto
    <2> QED
      BY <2>1, <2>2
  <1>5. SumOver(RowKeys, Shown(T)) <= b
    <2> DEFINE f == Shown(T0)
               g == Shown(T)
    <2>1. NatValued(f, RowKeys) /\ NatValued(g, RowKeys)
      BY <1>3, ShownType DEF Fits
    <2>2. \A y \in RowKeys : g[y] <= f[y]
      <3> SUFFICES ASSUME NEW y \in RowKeys PROVE g[y] <= f[y]
        OBVIOUS
      <3>1. f[y] \in Nat
        BY <2>1 DEF NatValued
      <3>2. CASE y \in DOMAIN T \ {r}
        BY <1>2, <3>1, <3>2 DEF Shown
      <3>3. CASE y \notin DOMAIN T \ {r}
        <4>1. g[y] = 0
          BY <1>2, <3>3 DEF Shown
        <4> QED
          BY <3>1, <4>1
      <3> QED
        BY <3>2, <3>3
    <2>3. SumOver(RowKeys, f) <= b /\ RowKeys \in SUBSET RowKeys
      BY DEF Fits
    <2>4. SumOver(RowKeys, f) \in Nat /\ SumOver(RowKeys, g) \in Nat
      BY <1>3, ShownType DEF Fits
    <2> HIDE DEF f, g
    <2>5. SumOver(RowKeys, g) <= SumOver(RowKeys, f)
      BY <2>1, <2>2, <2>3, RowKeysFinite, SumMonotone
    <2>6. SumOver(RowKeys, g) <= b
      BY <2>3, <2>4, <2>5
    <2> QED
      BY <2>6 DEF g
  <1> QED
    BY <1>3, <1>4, <1>5 DEF Fits

\* A row that is unwound joins the dropped ones.
LEMMA FitsDropped ==
    ASSUME NEW T, NEW H, NEW D, NEW b \in Nat, Fits(T, H, D, b), NEW k,
           NEW G, \A y \in DOMAIN H \ {k} : y \in DOMAIN G /\ G[y] = H[y]
    PROVE  Fits(T, G, D \cup {k}, b)
  BY DEF Fits

\* What of a table has not expired shows no more than all of it.
LEMMA UnexpiredFits ==
    ASSUME NEW T, NEW H, NEW D, NEW b \in Nat, Fits(T, H, D, b), NEW R \in SUBSET DOMAIN T
    PROVE  /\ \A row \in R : \E k \in MarketKey :
                 /\ row = MakeMarketKey(k)
                 /\ k \in D \/ (k \in DOMAIN H /\ T[row].notional <= H[k].cost_basis)
           /\ TotalNotional([k \in R |-> T[k]]) <= b
  <1>1. ASSUME NEW row \in R
        PROVE  \E k \in MarketKey :
                 /\ row = MakeMarketKey(k)
                 /\ k \in D \/ (k \in DOMAIN H /\ T[row].notional <= H[k].cost_basis)
    <2>1. row \in DOMAIN T /\ row \in RowKeys
      BY DEF Fits
    <2>2. PICK k \in MarketKey : row = MakeMarketKey(k)
      BY <2>1 DEF RowKeys
    <2> QED
      BY <2>1, <2>2 DEF Fits
  <1>2. TotalNotional([k \in R |-> T[k]]) <= b
    <2> DEFINE f == [k \in R |-> [y \in R |-> T[y]][k].notional]
               g == Shown(T)
    <2>1. TotalNotional([k \in R |-> T[k]]) = SumOver(R, f)
      BY DEF TotalNotional
    <2>2. R \in SUBSET RowKeys /\ \A y \in R : f[y] = g[y]
      BY DEF Fits, Shown
    <2>3. NatValued(g, RowKeys) /\ SumOver(RowKeys, g) \in Nat /\ SumOver(RowKeys, g) <= b
      BY ShownType DEF Fits
    <2> HIDE DEF f, g
    <2>4. NatValued(f, R) /\ \A y \in R : f[y] <= g[y]
      BY <2>2, <2>3 DEF NatValued
    <2>5. SumOver(R, f) <= SumOver(RowKeys, g) /\ SumOver(R, f) \in Nat
      <3>1. IsFiniteSet(R)
        BY <2>2, RowKeysFinite, FS_Subset
      <3> QED
        BY <2>2, <2>3, <2>4, <3>1, RowKeysFinite, SumMonotone, SumType
    <2> QED
      BY <2>1, <2>3, <2>5
  <1> QED
    BY <1>1, <1>2

\* The events of the rebalance module.
Event == {HedgeMinted(k, c, x) : k \in MarketKey, c \in Nat, x \in Nat}
           \cup {HedgeRolled(k, y) : k \in MarketKey, y \in MarketKey}

LEMMA EventTypes ==
    /\ \A k \in MarketKey, c \in Nat, x \in Nat : HedgeMinted(k, c, x) \in Event
    /\ \A k \in MarketKey, y \in MarketKey : HedgeRolled(k, y) \in Event
  BY DEF Event

\* What the vault has paid for hedges and not yet written off, as its books say.
Spent == SumOver(MarketKey, CostOf) + unwound

\* The tables of all ends of the log, before the expired rows are left out.
EndsFit ==
    \A i \in 1 .. Len(log) + 1 :
        Fits(Table(SubSeq(log, i, Len(log))), hedges, dropped, Spent)

EventInv == IInv /\ log \in Seq(Event) /\ EndsFit

\* It is the part of the assets that is not liquid.
LEMMA SpentIs == IInv => Spent \in Nat /\ Spent = total_assets - balance
  <1> SUFFICES ASSUME IInv PROVE Spent \in Nat /\ Spent = total_assets - balance
    OBVIOUS
  <1>1. /\ total_assets = balance + SumOver(MarketKey, CostOf) + unwound /\ unwound \in Nat
        /\ SumOver(MarketKey, CostOf) \in Nat /\ balance \in Nat
    BY Bounds, DerivedTypes DEF IInv, TypeOK, BookBalanced
  <1> QED
    BY <1>1 DEF Spent

LEMMA SpentWillBe == IInv' => (Spent \in Nat /\ Spent = total_assets - balance)'
  BY SpentIs, PTL

\* A transaction that emits nothing here and leaves the registry as it is.
LEMMA EventsStay ==
    ASSUME EventInv, IInv', UNCHANGED <<hedges, unwound, log, dropped>>
    PROVE  EventInv'
  <1>1. CostOf' = CostOf
    BY DEF CostOf
  <1>2. Spent' = Spent
    BY <1>1 DEF Spent
  <1>3. EndsFit'
    BY <1>2 DEF EventInv, EndsFit
  <1> QED
    BY <1>3 DEF EventInv

\* buy_hedge_for_deposit emits its purchase.
LEMMA SupplyEmitsInv ==
    ASSUME EventInv, NEW u \in Users, NEW o \in Oracles, NEW a \in Deposits,
           NEW f \in FairValues, SupplyEmits(u, o, a, f)
    PROVE  EventInv'
  <1> DEFINE k == TargetKey(o)
             c == MulDivDown(a, Effective("alloc_bps"), BpsScale)
             q == QuantityFor(c, f)
             x == TargetExpiry
             e == HedgeMinted(k, c, x)
  <1>1. /\ Supply(u, o, a, f) /\ log' = Pushed(<<e>>) /\ dropped' = dropped \ {k}
        /\ IInv /\ log \in Seq(Event) /\ a \in Nat
    BY VaultAssumption, U64Nat DEF SupplyEmits, EventInv
  <1>2. IInv'
    BY <1>1, SupplyInv
  <1>3. /\ c <= a /\ balance' = balance + (a - c) /\ total_assets' = total_assets + a
        /\ BuyHedgeForDeposit(u, o, c, f)
    BY <1>1 DEF Supply
  <1>4. c \in Nat /\ x \in Nat
    <2>1. Effective("alloc_bps") \in Nat /\ Effective("tenor") \in Nat /\ now \in Nat
      <3>1. "alloc_bps" \in Params /\ "tenor" \in Params
        BY DEF Params, TuneKeys
      <3> QED
        BY <1>1, <3>1, EffectiveType, U64Nat DEF IInv, TypeOK
    <2>2. c \in Nat
      BY <1>1, <2>1, VaultAssumption, MulDivRounding
    <2> QED
      BY <2>1, <2>2 DEF TargetExpiry
  <1>5. Spent \in Nat /\ Spent' = Spent + c
    <2>1. Spent \in Nat /\ Spent = total_assets - balance /\ Spent' = total_assets' - balance'
      BY <1>1, <1>2, SpentIs, SpentWillBe
    <2>2. balance \in Nat /\ total_assets \in Nat
      BY <1>1, Bounds
    <2> HIDE DEF c
    <2> QED
      BY <1>1, <1>3, <1>4, <2>1, <2>2
  <1>6. /\ k \in MarketKey /\ q \in U64 /\ hedges' = InsertRow(hedges, k, q, c)
        /\ k \in DOMAIN hedges => hedges[k].quantity + q \in U64
    BY <1>3, TargetKeyType DEF BuyHedgeForDeposit
  <1>7. /\ k \in DOMAIN hedges' /\ c <= hedges'[k].cost_basis
        /\ \A y \in DOMAIN hedges \ {k} : y \in DOMAIN hedges' /\ hedges'[y] = hedges[y]
    <2>1. CostOf[k] \in Nat /\ CostOf[k] + c \in U64
      <3>1. /\ balance + SumOver(MarketKey, CostOf) <= total_assets
            /\ CostOf[k] <= SumOver(MarketKey, CostOf) /\ CostOf[k] \in Nat
            /\ SumOver(MarketKey, CostOf) \in Nat /\ balance \in Nat
            /\ total_assets \in Nat
        <4>1. \A y \in MarketKey : CostOf[y] \in U64
          BY <1>1, DerivedTypes DEF IInv
        <4>2. NatValued(CostOf, MarketKey)
          BY <4>1, U64Natural
        <4>3. CostOf[k] <= SumOver(MarketKey, CostOf)
          BY <1>6, <4>2, KeysFinite, SumUpdate
        <4> QED
          BY <1>1, <1>6, <4>2, <4>3, Bounds, DerivedTypes DEF IInv, NatValued
      <3>2. total_assets + a <= U64Max
        BY <1>1 DEF Supply, U64
      <3>3. c \in Nat /\ a \in Nat /\ c <= a
        BY <1>1, <1>3, <1>4
      <3> HIDE DEF c, k
      <3>4. CostOf[k] + c \in Nat /\ CostOf[k] + c <= U64Max
        BY <3>1, <3>2, <3>3, U64MaxAssumption
      <3> QED
        BY <3>1, <3>4 DEF U64
    <2>2. TypeOK
      BY <1>1 DEF IInv
    <2> HIDE DEF c, k, q
    <2>3. /\ DOMAIN hedges' = DOMAIN hedges \cup {k} /\ hedges'[k].cost_basis = CostOf[k] + c
          /\ \A y \in DOMAIN hedges \ {k} : hedges'[y] = hedges[y]
      <3>1. k \in MarketKey /\ q \in U64 /\ c \in Nat
        BY <1>4, <1>6
      <3>2. LET rows == InsertRow(hedges, k, q, c)
            IN  /\ DOMAIN rows = DOMAIN hedges \cup {k}
                /\ rows[k].cost_basis = CostOf[k] + c
                /\ \A y \in DOMAIN hedges \ {k} : rows[y] = hedges[y]
        BY <1>6, <2>1, <2>2, <3>1, InsertRowFacts
      <3> QED
        BY <1>6, <3>2, Zenon
    <2> QED
      BY <1>4, <2>1, <2>3
  <1>8. e \in Event /\ <<e>> \in Seq(Event) /\ Len(<<e>>) = 1 /\ <<e>>[1] = e
    BY <1>4, <1>6, EventTypes
  <1> HIDE DEF e, c, k, x
  <1>9. log' \in Seq(Event)
    BY <1>1, <1>8, PushedType
  <1>10. ASSUME NEW j \in 1 .. Len(Pushed(<<e>>)) + 1
         PROVE  Fits(Table(SubSeq(Pushed(<<e>>), j, Len(Pushed(<<e>>)))), hedges', dropped', Spent')
    <2> DEFINE t == SubSeq(Pushed(<<e>>), j, Len(Pushed(<<e>>)))
    <2> SUFFICES Fits(Table(t), hedges', dropped', Spent')
      OBVIOUS
    <2>1. PICK p \in Seq(Event), r \in Seq(Event) :
              /\ Behind(t, p, r)
              /\ \/ r = <<e>> /\ \E i \in 1 .. Len(log) + 1 : p = SubSeq(log, i, Len(log))
                 \/ p = <<>> /\ \E i \in 1 .. Len(<<e>>) + 1 : r = SubSeq(<<e>>, i, Len(<<e>>))
      BY <1>1, <1>8, EndsOfPushed
    <2>2. t \in Seq(Event)
      BY <1>1, <1>8, EndsOfPushed
    <2> HIDE DEF t
    <2>3. ASSUME Len(r) = 1, r[1] = e, Fits(Table(p), hedges, dropped, Spent)
          PROVE  Fits(Table(t), hedges', dropped', Spent')
      <3>1. Len(t) = Len(p) + 1 /\ Len(p) \in Nat /\ t[Len(p) + 1] = e
        BY <1>8, <2>1, <2>3 DEF Behind
      <3>2. Cut(t, Len(p)) = p /\ Cut(t, Len(p) + 1) = t
        <4>1. Cut(t, Len(p)) = Cut(p, Len(p))
          BY <2>1 DEF Behind, Cut
        <4> QED
          BY <2>2, <3>1, <4>1, CutWhole
      <3>3. Table(t) = FoldEvent(Table(p), e)
        BY <3>1, <3>2, CutStep
      <3>4. Fits(FoldEvent(Table(p), e), hedges', dropped \ {k}, Spent + c)
        <4>1. k \in MarketKey /\ c \in Nat /\ Spent \in Nat /\ Fits(Table(p), hedges, dropped, Spent)
          BY <1>4, <1>5, <1>6, <2>3
        <4>2. Fits(FoldEvent(Table(p), HedgeMinted(k, c, x)), hedges', dropped \ {k}, Spent + c)
          BY <1>7, <4>1, FitsMinted, Zenon
        <4> QED
          BY <4>2, Zenon DEF e
      <3> QED
        BY <1>1, <1>5, <3>3, <3>4
    <2>4. Spent' \in Nat
      BY <1>4, <1>5
    <2>5. CASE r = <<e>> /\ \E i \in 1 .. Len(log) + 1 : p = SubSeq(log, i, Len(log))
      <3>1. Len(r) = 1 /\ r[1] = e
        BY <1>8, <2>5
      <3>2. Fits(Table(p), hedges, dropped, Spent)
        BY <2>5, Zenon DEF EventInv, EndsFit
      <3> QED
        BY <2>3, <3>1, <3>2
    <2>6. CASE p = <<>> /\ \E i \in 1 .. Len(<<e>>) + 1 : r = SubSeq(<<e>>, i, Len(<<e>>))
      <3>1. PICK i \in 1 .. Len(<<e>>) + 1 : r = SubSeq(<<e>>, i, Len(<<e>>))
        BY <2>6
      <3>4. /\ Len(r) = Len(<<e>>) - i + 1
            /\ \A y \in 1 .. Len(r) : r[y] = <<e>>[i + y - 1]
        BY <1>8, <3>1, EndOf
      <3>5. i \in {1, 2}
        BY <1>8
      <3>2. CASE i = 1
        <4>1. Len(r) = 1 /\ r[1] = e
          BY <1>8, <3>2, <3>4
        <4>2. Fits(Table(p), hedges, dropped, Spent)
          BY <1>5, <2>6, TableOfNone, FitsEmpty
        <4> QED
          BY <2>3, <4>1, <4>2
      <3>3. CASE i = 2
        <4>1. Len(r) = 0
          BY <1>8, <3>3, <3>4
        <4>2. Len(t) = 0
          BY <2>1, <2>6, <4>1 DEF Behind
        <4>3. t = <<>>
          BY <2>2, <4>2
        <4> QED
          BY <2>4, <4>3, TableOfNone, FitsEmpty
      <3> QED
        BY <3>2, <3>3, <3>5
    <2> QED
      BY <2>1, <2>5, <2>6
  <1>11. EndsFit'
    BY <1>1, <1>10 DEF EndsFit
  <1> QED
    BY <1>2, <1>9, <1>11 DEF EventInv

\* An arbitrary listing of a finite set has all of its members.
LEMMA SetToSeqLists ==
    ASSUME NEW S, IsFiniteSet(S)
    PROVE  /\ SetToSeq(S) \in [1 .. Cardinality(S) -> S] /\ Cardinality(S) \in Nat
           /\ \A x \in S : \E i \in 1 .. Cardinality(S) : SetToSeq(S)[i] = x
  <1> DEFINE n == Cardinality(S)
             s == SetToSeq(S)
  <1>1. n \in Nat /\ ExistsBijection(1 .. n, S)
    BY FS_CardinalityType
  <1>2. \E f \in [1 .. n -> S] : IsInjective(f)
    BY <1>1 DEF ExistsBijection, Bijection, Injection
  <1>3. s \in [1 .. n -> S] /\ IsInjective(s)
    BY <1>2, Zenon DEF SetToSeq
  <1> HIDE DEF s
  <1>4. s \in Injection(1 .. n, S)
    BY <1>3 DEF Injection
  <1>5. IsFiniteSet(1 .. n) /\ Cardinality(1 .. n) = n
    BY <1>1, FS_Interval
  <1>6. s \in Surjection(1 .. n, S)
    BY <1>4, <1>5, FS_Injection
  <1> QED
    BY <1>1, <1>3, <1>6 DEF Surjection, s

\* roll_expiring emits one event for each row that it rolls.
LEMMA RollEmitsInv ==
    ASSUME EventInv, NEW u \in Users, NEW o \in Oracles, NEW b \in SUBSET ToRoll,
           NEW f \in FairValues, RollEmits(u, o, b, f)
    PROVE  EventInv'
  <1> DEFINE n == TargetKey(o)
             each == SetToSeq(ToRoll)
             m == Cardinality(ToRoll)
             es == [i \in DOMAIN each |-> HedgeRolled(each[i], n)]
  <1>1. /\ RollExpiring(u, o, b, f) /\ log' = Pushed(es) /\ dropped' = dropped \ {n}
        /\ IInv /\ log \in Seq(Event)
    BY DEF RollEmits, EventInv
  <1>2. IInv' /\ n \in MarketKey
    BY <1>1, RollInv, RollReplacesRolled
  <1>3. Spent \in Nat /\ Spent' = Spent
    <2>1. UNCHANGED <<balance, total_assets>>
      BY <1>1 DEF RollExpiring, ledger
    <2> QED
      BY <1>1, <1>2, <2>1, SpentIs, SpentWillBe
  <1>4. ToRoll \in SUBSET MarketKey /\ ToRoll # {} /\ IsFiniteSet(ToRoll)
    BY <1>1, KeysFinite, FS_Subset DEF RollExpiring, ToRoll
  <1>5. /\ each \in [1 .. m -> ToRoll] /\ m \in Nat
        /\ \A x \in ToRoll : \E i \in 1 .. m : each[i] = x
    BY <1>4, SetToSeqLists
  <1>6. m # 0
    BY <1>4, <1>5
  <1>7. MovedInto(hedges, hedges', n, each, m)
    <2> DEFINE kept == [k \in DOMAIN hedges \ ToRoll |-> hedges[k]]
               row == [quantity |-> RolledQuantity(o, b, f), cost_basis |-> SumOver(ToRoll, CostOf)]
    <2>1. hedges' = TableAdd(kept, n, row)
      BY <1>1 DEF RollExpiring
    <2>2. DOMAIN kept = DOMAIN hedges \ ToRoll /\ \A y \in DOMAIN kept : kept[y] = hedges[y]
      OBVIOUS
    <2>3. row.cost_basis \in Nat
      <3>1. \A k \in MarketKey : CostOf[k] \in U64
        BY <1>1, DerivedTypes DEF IInv
      <3>2. SumOver(ToRoll, CostOf) \in Nat
        BY <1>4, <3>1, U64Natural, SumType
      <3> QED
        BY <3>2
    <2> HIDE DEF kept, row, each, n
    <2>4. DOMAIN hedges' = DOMAIN kept \cup {n} /\ hedges'[n] = row
            /\ \A y \in DOMAIN kept \ {n} : hedges'[y] = kept[y]
      BY <2>1, Zenon DEF TableAdd
    <2>5. ASSUME NEW y \in DOMAIN hedges \ {n}
          PROVE  (\E i \in 1 .. m : each[i] = y) \/ (y \in DOMAIN hedges' /\ hedges'[y] = hedges[y])
      <3>1. CASE y \in ToRoll
        BY <1>5, <3>1
      <3>2. CASE y \notin ToRoll
        BY <2>2, <2>4, <3>2
      <3> QED
        BY <3>1, <3>2
    <2> QED
      BY <2>3, <2>4, <2>5 DEF MovedInto
  <1>8. /\ es \in Seq(Event) /\ Len(es) = m
        /\ \A i \in 1 .. m : es[i] = HedgeRolled(each[i], n)
    <2>1. DOMAIN es = 1 .. m /\ \A i \in 1 .. m : es[i] = HedgeRolled(each[i], n)
      BY <1>5
    <2>2. \A i \in 1 .. m : es[i] \in Event
      <3>1. \A i \in 1 .. m : each[i] \in MarketKey
        BY <1>4, <1>5
      <3> HIDE DEF es, each
      <3>2. \A y \in MarketKey : HedgeRolled(y, n) \in Event
        BY <1>2, EventTypes
      <3> HIDE DEF n
      <3> QED
        BY <2>1, <3>1, <3>2, Zenon
    <2>3. es = [i \in 1 .. m |-> es[i]]
      BY <2>1
    <2> HIDE DEF es
    <2> QED
      BY <1>5, <2>1, <2>2, <2>3
  <1> HIDE DEF es, each, n, m
  <1>9. log' \in Seq(Event)
    BY <1>1, <1>8, PushedType
  <1>10. ASSUME NEW j \in 1 .. Len(Pushed(es)) + 1
         PROVE  Fits(Table(SubSeq(Pushed(es), j, Len(Pushed(es)))), hedges', dropped', Spent')
    <2> DEFINE t == SubSeq(Pushed(es), j, Len(Pushed(es)))
    <2> SUFFICES Fits(Table(t), hedges', dropped', Spent')
      OBVIOUS
    <2>1. PICK p \in Seq(Event), q \in Seq(Event) :
              /\ Behind(t, p, q)
              /\ \/ q = es /\ \E i \in 1 .. Len(log) + 1 : p = SubSeq(log, i, Len(log))
                 \/ p = <<>> /\ \E i \in 1 .. Len(es) + 1 : q = SubSeq(es, i, Len(es))
      <3>1. log \in Seq(Event) /\ es \in Seq(Event)
        BY <1>1, <1>8
      <3> QED
        BY <3>1, EndsOfPushed
    <2>2. t \in Seq(Event)
      BY <1>1, <1>8, EndsOfPushed
    <2> HIDE DEF t
    <2>3. CASE q = es /\ \E i \in 1 .. Len(log) + 1 : p = SubSeq(log, i, Len(log))
      <3>1. Fits(Table(p), hedges, dropped, Spent)
        BY <2>3, Zenon DEF EventInv, EndsFit
      <3>2. Rolled(Table(p), Table(t), n, each, m)
        BY <1>8, <2>1, <2>2, <2>3, RollsFold
      <3>3. m \in Nat \ {0}
        BY <1>5, <1>6
      <3>4. Fits(Table(t), hedges', dropped \ {n}, Spent)
        BY <1>2, <1>3, <1>7, <3>1, <3>2, <3>3, FitsRolled, Zenon
      <3> QED
        BY <1>1, <1>3, <3>4
    <2>4. CASE p = <<>> /\ \E i \in 1 .. Len(es) + 1 : q = SubSeq(es, i, Len(es))
      <3>1. PICK i \in 1 .. Len(es) + 1 : q = SubSeq(es, i, Len(es))
        BY <2>4
      <3>2. /\ Len(q) = m - i + 1 /\ Len(q) \in Nat
            /\ \A x \in 1 .. Len(q) : q[x] = es[i + x - 1]
        BY <1>8, <3>1, EndOf
      <3> DEFINE tail == [x \in 1 .. Len(q) |-> each[i + x - 1]]
      <3>3. \A x \in 1 .. Len(q) : q[x] = HedgeRolled(tail[x], n)
        <4> SUFFICES ASSUME NEW x \in 1 .. Len(q) PROVE q[x] = HedgeRolled(tail[x], n)
          OBVIOUS
        <4>1. i + x - 1 \in 1 .. m
          BY <1>5, <1>8, <3>2
        <4> QED
          BY <1>8, <3>2, <4>1
      <3> HIDE DEF tail
      <3>4. Rolled(<<>>, Table(t), n, tail, Len(q))
        BY <2>1, <2>2, <2>4, <3>3, RollsFold, TableOfNone
      <3>5. Fits(<<>>, hedges', dropped', Spent')
        BY <1>3, FitsEmpty
      <3>6. CASE Len(q) = 0
        <4>1. Table(t) = <<>>
          BY <3>4, <3>6 DEF Rolled
        <4> QED
          BY <3>5, <4>1
      <3>7. CASE Len(q) # 0
        <4>1. Len(q) \in Nat \ {0} /\ Spent' \in Nat
          BY <1>3, <3>2, <3>7
        <4>2. MovedInto(hedges', hedges', n, tail, Len(q))
          BY <1>7 DEF MovedInto
        <4>3. Fits(Table(t), hedges', dropped' \ {n}, Spent')
          BY <1>2, <1>7, <3>4, <3>5, <4>1, <4>2, FitsRolled
        <4>4. dropped' \ {n} = dropped'
          BY <1>1
        <4> QED
          BY <4>3, <4>4
      <3> QED
        BY <3>6, <3>7
    <2> QED
      BY <2>1, <2>3, <2>4
  <1>11. EndsFit'
    BY <1>1, <1>10 DEF EndsFit
  <1> QED
    BY <1>2, <1>9, <1>11 DEF EventInv

\* An emergency unwind emits nothing here: its row stays in the tables.
LEMMA UnwindEmitsInv ==
    ASSUME EventInv, NEW k \in MarketKey, UnwindEmits(k)
    PROVE  EventInv'
  <1>1. AdminEmergencyUnwind(k) /\ dropped' = dropped \cup {k} /\ log' = log /\ IInv
    BY DEF UnwindEmits, EventInv
  <1>2. IInv'
    BY <1>1, UnwindInv
  <1>3. Spent \in Nat /\ Spent' = Spent
    <2>1. UNCHANGED <<balance, total_assets>>
      BY <1>1 DEF AdminEmergencyUnwind, ledger
    <2> QED
      BY <1>1, <1>2, <2>1, SpentIs, SpentWillBe
  <1>4. \A y \in DOMAIN hedges \ {k} : y \in DOMAIN hedges' /\ hedges'[y] = hedges[y]
    <2>1. hedges' = TableRemove(hedges, k)
      BY <1>1 DEF AdminEmergencyUnwind
    <2> QED
      BY <2>1 DEF TableRemove
  <1>5. ASSUME NEW i \in 1 .. Len(log) + 1
        PROVE  Fits(Table(SubSeq(log, i, Len(log))), hedges', dropped', Spent')
    <2>1. Fits(Table(SubSeq(log, i, Len(log))), hedges, dropped, Spent)
      BY Zenon DEF EventInv, EndsFit
    <2> QED
      BY <1>1, <1>3, <1>4, <2>1, FitsDropped
  <1>6. EndsFit'
    BY <1>1, <1>5 DEF EndsFit
  <1> QED
    BY <1>1, <1>2, <1>6 DEF EventInv

LEMMA EventInitInv == ASSUME EventInit PROVE EventInv
  <1>1. IInv /\ log = <<>>
    BY InitInv DEF EventInit
  <1>2. log \in Seq(Event) /\ Len(log) = 0
    BY <1>1
  <1>3. ASSUME NEW i \in 1 .. Len(log) + 1
        PROVE  Fits(Table(SubSeq(log, i, Len(log))), hedges, dropped, Spent)
    <2>1. SubSeq(log, i, Len(log)) = <<>>
      <3>1. Len(SubSeq(log, i, Len(log))) = 0 /\ SubSeq(log, i, Len(log)) \in Seq(Event)
        BY <1>2, EndOf
      <3> QED
        BY <3>1
    <2>2. Spent \in Nat
      BY <1>1, SpentIs
    <2> QED
      BY <2>1, <2>2, TableOfNone, FitsEmpty
  <1> QED
    BY <1>1, <1>2, <1>3 DEF EventInv, EndsFit

LEMMA EventNextInv == EventInv /\ [EventNext]_eventVars => EventInv'
  <1> SUFFICES ASSUME EventInv, [EventNext]_eventVars PROVE EventInv'
    OBVIOUS
  <1>1. ASSUME NEW u \in Users, NEW o \in Oracles, NEW f \in FairValues, NEW a \in Deposits,
               SupplyEmits(u, o, a, f)
        PROVE  EventInv'
    BY <1>1, SupplyEmitsInv
  <1>2. ASSUME NEW u \in Users, NEW o \in Oracles, NEW f \in FairValues,
               NEW b \in SUBSET ToRoll, RollEmits(u, o, b, f)
        PROVE  EventInv'
    BY <1>2, RollEmitsInv
  <1>3. ASSUME NEW k \in MarketKey, UnwindEmits(k) PROVE EventInv'
    BY <1>3, UnwindEmitsInv
  <1>4. IInv
    BY DEF EventInv
  <1>5. CASE Tick /\ UNCHANGED <<log, dropped>>
    <2>1. IInv'
      BY <1>4, <1>5, TickInv
    <2> QED
      BY <1>5, <2>1, EventsStay DEF Tick, book
  <1>6. ASSUME NEW p \in BOOLEAN, AdminPause(p), UNCHANGED <<log, dropped>> PROVE EventInv'
    <2>1. IInv'
      BY <1>4, <1>6, AdminPauseInv
    <2> QED
      BY <1>6, <2>1, EventsStay DEF AdminPause, book
  <1>7. ASSUME NEW key \in TuneKeys, NEW v \in TuneValues[key], AdminTuneStrategy(key, v),
               UNCHANGED <<log, dropped>>
        PROVE  EventInv'
    <2>1. IInv'
      BY <1>4, <1>7, AdminTuneInv
    <2> QED
      BY <1>7, <2>1, EventsStay DEF AdminTuneStrategy, book
  <1>8. ASSUME NEW v \in TuneValues["max_staleness"], AdminOracleStalenessOverride(v),
               UNCHANGED <<log, dropped>>
        PROVE  EventInv'
    <2>1. IInv'
      BY <1>4, <1>8, StalenessInv
    <2> QED
      BY <1>8, <2>1, EventsStay DEF AdminOracleStalenessOverride, book
  <1>9. ASSUME NEW o \in Oracles, NEW f \in Forwards, OracleUpdatePrices(o, f),
               UNCHANGED <<log, dropped>>
        PROVE  EventInv'
    <2>1. IInv'
      BY <1>4, <1>9, UpdatePricesInv
    <2> QED
      BY <1>9, <2>1, EventsStay DEF OracleUpdatePrices, book
  <1>10. CASE UNCHANGED eventVars
    <2>1. UNCHANGED vars /\ UNCHANGED <<log, dropped>>
      BY <1>10 DEF eventVars
    <2>2. IInv'
      BY <1>4, <2>1, NextInv
    <2> QED
      BY <2>1, <2>2, EventsStay DEF vars, book
  <1> QED
    BY <1>1, <1>2, <1>3, <1>5, <1>6, <1>7, <1>8, <1>9, <1>10 DEF EventNext

\* The hedges that a dashboard shows, from however short an end of the rebalance events
\* (hooks/useExposure.ts), are hedges of the registry or ones that the admin has unwound,
\* and show in total no more than the vault has paid for them.
THEOREM ExposureIsSound == EventSpec => []ExposureSound
  <1>1. EventInv => ExposureSound
    <2> SUFFICES ASSUME EventInv, NEW i \in 1 .. Len(log) + 1
                 PROVE  LET rows == UseExposure(SubSeq(log, i, Len(log)), now)
                        IN  /\ \A row \in DOMAIN rows : \E k \in MarketKey :
                                  /\ row = MakeMarketKey(k)
                                  /\ \/ k \in dropped
                                     \/ /\ k \in DOMAIN hedges
                                        /\ rows[row].notional <= hedges[k].cost_basis
                            /\ TotalNotional(rows) <= SumOver(MarketKey, CostOf) + unwound
      BY DEF ExposureSound
    <2> DEFINE T == Table(SubSeq(log, i, Len(log)))
               R == {x \in DOMAIN T : T[x].expiry >= now}
               rows == [k \in R |-> T[k]]
    <2>1. UseExposure(SubSeq(log, i, Len(log)), now) = rows
      BY DEF UseExposure, Table
    <2>2. Fits(T, hedges, dropped, Spent) /\ Spent \in Nat
      BY SpentIs DEF EventInv, EndsFit
    <2>3. R \in SUBSET DOMAIN T /\ DOMAIN rows = R /\ \A r \in R : rows[r] = T[r]
      OBVIOUS
    <2> HIDE DEF T, R
    <2>4. /\ \A row \in R : \E k \in MarketKey :
                 /\ row = MakeMarketKey(k)
                 /\ k \in dropped \/ (k \in DOMAIN hedges /\ T[row].notional <= hedges[k].cost_basis)
          /\ TotalNotional(rows) <= Spent
      BY <2>2, <2>3, UnexpiredFits
    <2> HIDE DEF rows
    <2> QED
      BY <2>1, <2>3, <2>4 DEF Spent
  <1>2. EventSpec => []EventInv
    BY EventInitInv, EventNextInv, PTL DEF EventSpec
  <1> QED
    BY <1>1, <1>2, PTL

-----------------------------------------------------------------------------
(* The vault implements the share ledger.                                    *)

\* No slot is empty: a fulfilment that burns the last share destroys its slot.
SlotsHold == \A u \in DOMAIN slots : slots[u].shares > 0

\* One holder's slot changes, and the queue with it.
OthersWait(u) ==
    \A y \in Users \ {u} :
        /\ y \in DOMAIN slots' <=> y \in DOMAIN slots
        /\ y \in DOMAIN slots => slots'[y] = slots[y]

LEMMA OneSlotMoves ==
    ASSUME NEW u \in Users, NEW q, NEW t, OthersWait(u),
           EscrowOf'[u] = q, SinceOf'[u] = t
    PROVE  EscrowOf' = [EscrowOf EXCEPT ![u] = q] /\ SinceOf' = [SinceOf EXCEPT ![u] = t]
  <1>1. \A y \in Users \ {u} : EscrowOf'[y] = EscrowOf[y] /\ SinceOf'[y] = SinceOf[y]
    BY DEF OthersWait, EscrowOf, SinceOf
  <1>2. /\ DOMAIN EscrowOf = Users /\ DOMAIN SinceOf = Users
        /\ EscrowOf' = [y \in Users |-> EscrowOf'[y]] /\ SinceOf' = [y \in Users |-> SinceOf'[y]]
    BY DEF EscrowOf, SinceOf
  <1> QED
    BY <1>1, <1>2

\* A request joins the queue.
LEMMA RequestQueues ==
    ASSUME IInv, SlotsHold, NEW u \in Users, NEW n \in Nat, RedeemRequest(u, n)
    PROVE  Ledger!Queue(u) /\ SlotsHold'
  <1> DEFINE s == [shares |-> n, timestamp_ms |-> now, claimed_so_far |-> 0]
  <1>1. /\ n > 0 /\ n <= wallet[u] /\ u \notin DOMAIN slots
        /\ slots' = TableAdd(slots, u, s) /\ wallet' = [wallet EXCEPT ![u] = @ - n]
        /\ UNCHANGED <<now, total_assets, total_shares>>
    BY DEF RedeemRequest, ledger
  <1>2. n \in 1 .. wallet[u]
    BY <1>1, U64MaxAssumption DEF IInv, TypeOK, U64
  <1>3. /\ DOMAIN slots' = DOMAIN slots \cup {u} /\ slots'[u] = s
        /\ \A y \in DOMAIN slots \ {u} : slots'[y] = slots[y]
    BY <1>1, Zenon DEF TableAdd
  <1>4. s.shares = n /\ s.timestamp_ms = now
    OBVIOUS
  <1> HIDE DEF s
  <1>5. EscrowOf[u] = 0 /\ EscrowOf'[u] = n /\ SinceOf'[u] = now
    BY <1>1, <1>3, <1>4 DEF EscrowOf, SinceOf
  <1>6. OthersWait(u)
    BY <1>3 DEF OthersWait
  <1>7. EscrowOf' = [EscrowOf EXCEPT ![u] = n] /\ SinceOf' = [SinceOf EXCEPT ![u] = now]
    BY <1>5, <1>6, OneSlotMoves
  <1>8. Ledger!Queue(u)
    BY <1>1, <1>2, <1>5, <1>7, Zenon DEF Ledger!Queue
  <1>9. SlotsHold'
    BY <1>1, <1>3, <1>4 DEF SlotsHold
  <1> QED
    BY <1>8, <1>9

\* A cancel leaves it with every share.
LEMMA CancelUnqueues ==
    ASSUME IInv, SlotsHold, NEW u \in Users, RedeemCancel(u)
    PROVE  Ledger!Unqueue(u) /\ SlotsHold'
  <1>1. /\ u \in DOMAIN slots /\ slots' = TableRemove(slots, u)
        /\ wallet' = [wallet EXCEPT ![u] = @ + slots[u].shares]
        /\ UNCHANGED <<now, total_assets, total_shares>>
    BY DEF RedeemCancel, ledger
  <1>2. DOMAIN slots' = DOMAIN slots \ {u} /\ \A y \in DOMAIN slots' : slots'[y] = slots[y]
    BY <1>1, Zenon DEF TableRemove
  <1>3. EscrowOf[u] = slots[u].shares /\ EscrowOf'[u] = 0 /\ SinceOf'[u] = 0
    BY <1>1, <1>2 DEF EscrowOf, SinceOf
  <1>4. OthersWait(u)
    BY <1>2 DEF OthersWait
  <1>5. EscrowOf' = [EscrowOf EXCEPT ![u] = 0] /\ SinceOf' = [SinceOf EXCEPT ![u] = 0]
    BY <1>3, <1>4, OneSlotMoves
  <1>6. EscrowOf[u] > 0 /\ wallet' = [wallet EXCEPT ![u] = @ + EscrowOf[u]]
    BY <1>1, <1>3 DEF SlotsHold
  <1>7. Ledger!Unqueue(u)
    BY <1>1, <1>5, <1>6, Zenon DEF Ledger!Unqueue
  <1>8. SlotsHold'
    BY <1>2 DEF SlotsHold
  <1> QED
    BY <1>7, <1>8

\* A fulfilment burns shares that have waited, for at most their part.
LEMMA FulfilLeaves ==
    ASSUME IInv, SlotsHold, NEW u \in Users, RedeemFulfill(u)
    PROVE  Ledger!Leave(u) /\ SlotsHold'
  <1> DEFINE p == Payout(u)
             c == SharesConsumed(p)
             left == [slots[u] EXCEPT !.shares = slots[u].shares - c]
  <1>1. /\ FulfillDue(u) /\ FulfillSucceeds(u) /\ slots' = BurnFromSlot(u, c)
        /\ total_assets' = total_assets - p /\ total_shares' = total_shares - c
        /\ UNCHANGED <<now, wallet>>
    BY DEF RedeemFulfill
  <1>2. /\ p \in Nat /\ p > 0 /\ p <= total_assets /\ c \in Nat /\ c <= slots[u].shares
        /\ NavPerShare \in Nat \ {0} /\ NavScale \in Nat \ {0}
        /\ total_assets \in Nat /\ total_shares \in Nat \ {0}
    BY <1>1, FulfillAmounts, Bounds, VaultAssumption DEF FulfillSucceeds
  <1>3. p * total_shares <= c * total_assets /\ c > 0
    <2> DEFINE v == NavPerShare
    <2>1. v * total_shares <= total_assets * NavScale
      BY <1>2, MulDivRounding DEF NavPerShare
    <2>2. p * NavScale <= c * v
      BY <1>2, MulDivRounding DEF SharesConsumed
    <2> HIDE DEF p, c, v
    <2>3. v \in Nat
      BY <1>2 DEF v
    <2>4. p * total_shares <= c * total_assets
      BY <1>2, <2>1, <2>2, <2>3, BurnCoversPayout
    <2>5. c # 0
      <3>1. p * NavScale \in Nat /\ p * NavScale # 0
        BY <1>2
      <3> QED
        BY <2>2, <2>3, <3>1
    <2> QED
      BY <1>2, <2>4, <2>5
  <1>4. /\ u \in DOMAIN slots /\ slots[u] \in Slot /\ now >= slots[u].timestamp_ms + CooldownMs
        /\ EscrowOf[u] = slots[u].shares /\ SinceOf[u] = slots[u].timestamp_ms
        /\ DOMAIN slots \subseteq Users
    BY <1>1 DEF FulfillDue, IInv, TypeOK, EscrowOf, SinceOf
  <1>5. left.shares = slots[u].shares - c /\ left.timestamp_ms = slots[u].timestamp_ms
    BY <1>4 DEF Slot
  <1>6. slots[u].shares \in Nat
    BY <1>4, U64MaxAssumption DEF Slot, U64
  <1> HIDE DEF left
  <1>7. /\ OthersWait(u) /\ SlotsHold'
        /\ EscrowOf'[u] = EscrowOf[u] - c
        /\ SinceOf'[u] = IF c = EscrowOf[u] THEN 0 ELSE SinceOf[u]
    <2> HIDE DEF c
    <2>1. CASE slots[u].shares = c
      <3>1. slots' = TableRemove(slots, u)
        BY <1>1, <2>1 DEF BurnFromSlot
      <3>2. DOMAIN slots' = DOMAIN slots \ {u} /\ \A y \in DOMAIN slots' : slots'[y] = slots[y]
        BY <3>1, Zenon DEF TableRemove
      <3>3. EscrowOf'[u] = 0 /\ SinceOf'[u] = 0 /\ EscrowOf[u] - c = 0
        BY <1>2, <1>4, <2>1, <3>2 DEF EscrowOf, SinceOf
      <3> QED
        BY <1>4, <2>1, <3>2, <3>3 DEF OthersWait, SlotsHold
    <2>2. CASE slots[u].shares # c
      <3>1. slots' = [slots EXCEPT ![u] = left]
        BY <1>1, <2>2 DEF BurnFromSlot, left
      <3>2. /\ DOMAIN slots' = DOMAIN slots /\ slots'[u] = left
            /\ \A y \in DOMAIN slots \ {u} : slots'[y] = slots[y]
        BY <1>4, <3>1
      <3>3. EscrowOf'[u] = EscrowOf[u] - c /\ SinceOf'[u] = SinceOf[u] /\ c # EscrowOf[u]
        BY <1>4, <1>5, <2>2, <3>2 DEF EscrowOf, SinceOf
      <3>4. left.shares > 0
        BY <1>2, <1>5, <1>6, <2>2
      <3> QED
        BY <3>2, <3>3, <3>4 DEF OthersWait, SlotsHold
    <2> QED
      BY <2>1, <2>2
  <1>8. /\ EscrowOf' = [EscrowOf EXCEPT ![u] = EscrowOf[u] - c]
        /\ SinceOf' = [SinceOf EXCEPT ![u] = IF c = EscrowOf[u] THEN 0 ELSE SinceOf[u]]
    BY <1>7, OneSlotMoves
  <1>9. /\ c \in 1 .. EscrowOf[u] /\ now >= SinceOf[u] + CooldownMs
        /\ total_assets' \in 0 .. total_assets - 1
        /\ (total_assets - total_assets') * total_shares <= c * total_assets
    <2>1. total_assets - total_assets' = p
      BY <1>1, <1>2
    <2> QED
      BY <1>1, <1>2, <1>3, <1>4, <1>6, <2>1
  <1> HIDE DEF c, p
  <1>10. Ledger!Leave(u)
    BY <1>1, <1>8, <1>9, Zenon DEF Ledger!Leave
  <1> QED
    BY <1>7, <1>10

\* Where no slot changes, neither does the queue.
LEMMA QueueStays ==
    ASSUME slots' = slots
    PROVE  EscrowOf' = EscrowOf /\ SinceOf' = SinceOf /\ (SlotsHold => SlotsHold')
  BY DEF EscrowOf, SinceOf, SlotsHold

\* A deposit buys shares at the price of compute_shares_to_mint, rounded down.
LEMMA SupplyBuys ==
    ASSUME IInv, NEW u \in Users, NEW o \in Oracles, NEW a \in Nat, NEW f \in FairValues,
           Supply(u, o, a, f)
    PROVE  Ledger!Buy(u) /\ slots' = slots
  <1> DEFINE n == SharesToMint(a)
  <1>1. /\ a > 0 /\ n \in U64 \ {0} /\ total_assets' = total_assets + a
        /\ total_shares' = total_shares + n /\ wallet' = [wallet EXCEPT ![u] = @ + n]
        /\ UNCHANGED <<now, slots>>
    BY DEF Supply
  <1>2. /\ a \in Nat /\ total_assets \in Nat /\ total_shares \in Nat /\ VirtualShares \in Nat
        /\ n \in Nat /\ n > 0
    BY <1>1, Bounds, VaultAssumption, U64MaxAssumption DEF U64
  <1>3. n * (total_assets + 1) <= a * (total_shares + VirtualShares)
    <2>1. /\ total_assets + 1 \in Nat \ {0} /\ total_shares + VirtualShares \in Nat
      BY <1>2
    <2>2. a * (total_shares + VirtualShares) \in Nat
      BY <1>2, <2>1, ProductType
    <2> QED
      BY <2>1, <2>2, DivBounds DEF SharesToMint
  <1> HIDE DEF n
  <1>4. total_shares' - total_shares = n /\ total_assets' - total_assets = a
    BY <1>1, <1>2
  <1>5. total_assets' > total_assets /\ total_shares' > total_shares
    BY <1>1, <1>2
  <1>6. EscrowOf' = EscrowOf /\ SinceOf' = SinceOf
    BY <1>1, QueueStays
  <1> QED
    BY <1>1, <1>3, <1>4, <1>5, <1>6, Zenon DEF Ledger!Buy

LEMMA TransferSends ==
    ASSUME IInv, NEW u \in Users, NEW v \in Users, NEW n \in U64, TransferShares(u, v, n)
    PROVE  Ledger!Send(u, v) /\ slots' = slots
  <1>1. /\ u # v /\ n > 0 /\ n <= wallet[u]
        /\ wallet' = [wallet EXCEPT ![u] = @ - n, ![v] = @ + n]
        /\ UNCHANGED <<now, total_assets, total_shares, slots>>
    BY DEF TransferShares, ledger
  <1>2. n \in 1 .. wallet[u]
    BY <1>1, U64MaxAssumption DEF IInv, TypeOK, U64
  <1>3. EscrowOf' = EscrowOf /\ SinceOf' = SinceOf
    BY <1>1, QueueStays
  <1> QED
    BY <1>1, <1>2, <1>3, Zenon DEF Ledger!Send

\* Every other transaction leaves the ledger alone, and so does a stutter.
LEMMA LedgerStays ==
    ASSUME UNCHANGED <<now, total_assets, total_shares, wallet, slots>>
    PROVE  UNCHANGED Ledger!shares
  BY QueueStays DEF Ledger!shares

LedgerStep == [Ledger!Next]_(Ledger!shares)

LEMMA LedgerNext == IInv /\ SlotsHold /\ [Next]_vars => LedgerStep /\ SlotsHold'
  <1> SUFFICES ASSUME IInv, SlotsHold, [Next]_vars PROVE LedgerStep /\ SlotsHold'
    OBVIOUS
  <1>1. ASSUME UNCHANGED <<now, total_assets, total_shares, wallet, slots>>
        PROVE  LedgerStep /\ SlotsHold'
    BY <1>1, LedgerStays, QueueStays DEF LedgerStep
  <1>2. ASSUME Tick PROVE LedgerStep /\ SlotsHold'
    <2>1. now' = now + 1 /\ UNCHANGED <<total_assets, total_shares, wallet, slots>>
      BY <1>2 DEF Tick, ledger, exits
    <2>2. Ledger!Pass
      BY <2>1, QueueStays DEF Ledger!Pass
    <2> QED
      BY <2>1, <2>2, QueueStays DEF LedgerStep, Ledger!Next
  <1>3. ASSUME NEW u \in Users, NEW o \in Oracles, NEW a \in Deposits, NEW f \in FairValues,
               Supply(u, o, a, f)
        PROVE  LedgerStep /\ SlotsHold'
    <2>1. a \in Nat
      BY VaultAssumption, U64Nat
    <2> QED
      BY <1>3, <2>1, SupplyBuys, QueueStays DEF LedgerStep, Ledger!Next
  <1>4. ASSUME NEW u \in Users, NEW n \in RequestAmounts, RedeemRequest(u, n)
        PROVE  LedgerStep /\ SlotsHold'
    <2>1. n \in Nat
      BY VaultAssumption, U64Nat
    <2> QED
      BY <1>4, <2>1, RequestQueues DEF LedgerStep, Ledger!Next
  <1>5. ASSUME NEW u \in Users, RedeemFulfill(u) PROVE LedgerStep /\ SlotsHold'
    BY <1>5, FulfilLeaves DEF LedgerStep, Ledger!Next
  <1>6. ASSUME NEW u \in Users, RedeemCancel(u) PROVE LedgerStep /\ SlotsHold'
    BY <1>6, CancelUnqueues DEF LedgerStep, Ledger!Next
  <1>7. ASSUME NEW u \in Users, NEW v \in Users, NEW n \in TransferAmounts,
               TransferShares(u, v, n)
        PROVE  LedgerStep /\ SlotsHold'
    <2>1. n \in U64
      BY VaultAssumption
    <2> QED
      BY <1>7, <2>1, TransferSends, QueueStays DEF LedgerStep, Ledger!Next
  <1>8. ASSUME NEW u \in Users, NEW o \in Oracles, NEW f \in FairValues, NEW b \in SUBSET ToRoll,
               RollExpiring(u, o, b, f)
        PROVE  LedgerStep /\ SlotsHold'
    BY <1>1, <1>8 DEF RollExpiring, ledger, exits
  <1>9. ASSUME NEW u \in Users, NEW k \in MarketKey, NEW q \in TradeQuantities,
               PredictMint(u, k, q) \/ PredictRedeem(u, k, q)
        PROVE  LedgerStep /\ SlotsHold'
    BY <1>1, <1>9 DEF PredictMint, PredictRedeem, ledger, exits
  <1>10. ASSUME \/ \E k \in MarketKey : AdminEmergencyUnwind(k)
                \/ \E p \in BOOLEAN : AdminPause(p)
                \/ \E key \in TuneKeys : \E v \in TuneValues[key] : AdminTuneStrategy(key, v)
                \/ \E v \in TuneValues["max_staleness"] : AdminOracleStalenessOverride(v)
                \/ \E o \in Oracles : OracleActivate(o)
                \/ \E o \in Oracles, f \in Forwards : OracleUpdatePrices(o, f)
                \/ UNCHANGED vars
         PROVE  LedgerStep /\ SlotsHold'
    <2>1. UNCHANGED <<now, total_assets, total_shares, wallet, slots>>
      BY <1>10 DEF AdminEmergencyUnwind, AdminPause, AdminTuneStrategy,
         AdminOracleStalenessOverride, OracleActivate, OracleUpdatePrices, vars, ledger, exits
    <2> QED
      BY <1>1, <2>1
  <1> QED
    BY <1>2, <1>3, <1>4, <1>5, <1>6, <1>7, <1>8, <1>9, <1>10, Zenon DEF Next

LEMMA LedgerInit == Init => Ledger!Init /\ SlotsHold
  <1> SUFFICES ASSUME Init PROVE Ledger!Init /\ SlotsHold
    OBVIOUS
  <1>1. DOMAIN slots = {}
    BY DEF Init, EmptyTable
  <1>2. EscrowOf = [u \in Users |-> 0] /\ SinceOf = [u \in Users |-> 0]
    BY <1>1 DEF EscrowOf, SinceOf
  <1> QED
    BY <1>1, <1>2 DEF Init, Ledger!Init, SlotsHold

\* Whatever the admin, the oracles, the rolls and the traders do around it, the vault is to
\* its holders the ledger of ShareLedger.
THEOREM LedgerImplemented == Spec => ImplementsShareLedger
  <1>1. IInv /\ SlotsHold /\ [Next]_vars => [Ledger!Next]_(Ledger!shares) /\ SlotsHold'
    BY LedgerNext DEF LedgerStep
  <1> QED
    BY <1>1, LedgerInit, VaultInvariant, PTL DEF Spec, ImplementsShareLedger, Ledger!Spec

-----------------------------------------------------------------------------
(* The clients of the vault are users of the ledger.                         *)

\* What the network executes for a client.
Transacted ==
    \E u \in Users :
        \/ \E a \in Nat : SupplyFromTx(u, a)
        \/ \E c \in DOMAIN shareCoins[u] : RedeemRequestTx(u, c)
        \/ RedeemFulfillTx(u)
        \/ RedeemCancelTx(u)

LEMMA ScriptsTransact == ASSUME ScriptsNext PROVE Transacted \/ UNCHANGED chain
  <1>1. Signer \in Users /\ BorrowAmount \in Nat
        /\ \A s \in {"e2e", "testnet", "mainnet"} : SupplyAmount[s] \in Nat
    BY ScriptsAssumption, U64Nat
  <1>2. ASSUME NEW a \in Nat, NEW next, Supplies(a, next) PROVE Transacted
    BY <1>1, <1>2 DEF Supplies, SupplyTx, Transacted
  <1>3. ASSUME NEW next, Requests(next) PROVE Transacted
    BY <1>1, <1>3 DEF Requests, Transacted
  <1>4. ASSUME RedeemFulfillTx(Signer) PROVE Transacted
    BY <1>1, <1>4 DEF Transacted
  <1>5. ASSUME FulfillSubmit PROVE Transacted \/ UNCHANGED chain
    BY <1>4, <1>5 DEF FulfillSubmit
  <1>6. CASE E2eSupply \/ TestnetSupply \/ MainnetSupply
    BY <1>1, <1>2, <1>6 DEF E2eSupply, TestnetSupply, MainnetSupply
  <1>7. CASE E2eRequest \/ TestnetRequest \/ MainnetRequest
    BY <1>3, <1>7 DEF E2eRequest, TestnetRequest, MainnetRequest
  <1>8. CASE E2eFulfill
    BY <1>4, <1>8 DEF E2eFulfill
  <1>9. CASE TestnetFulfill \/ MainnetFulfill
    BY <1>5, <1>9 DEF TestnetFulfill, MainnetFulfill
  <1>10. CASE PtbExecute
    <2>1. SupplyFromTx(Signer, BorrowAmount)
      BY <1>10 DEF PtbExecute
    <2> QED
      BY <1>1, <2>1 DEF Transacted
  <1>11. CASE \/ E2eSnapshotBefore \/ E2eSnapshotAfter \/ SmokeSnapshot \/ FulfillGivesUp
              \/ SmokeGates \/ PtbSetup \/ Throws \/ Killed
    BY <1>11 DEF E2eSnapshotBefore, E2eSnapshotAfter, SmokeSnapshot, FulfillGivesUp, SmokeGates,
       PtbSetup, Throws, Killed
  <1>12. CASE E2eWait \/ TestnetWait \/ MainnetWait \/ \E s \in Scripts : Launch(s)
    BY <1>12 DEF E2eWait, TestnetWait, MainnetWait, Waits, Launch
  <1> QED
    BY <1>6, <1>7, <1>8, <1>9, <1>10, <1>11, <1>12, Zenon DEF ScriptsNext, ScriptStep

LEMMA PanelTransacts ==
    ASSUME CoinTypes, PanelInv, UserStep \/ TxSucceeds \/ TxFails
    PROVE  Transacted \/ UNCHANGED chain
  <1>1. ASSUME UserStep PROVE UNCHANGED chain
    BY <1>1, UserStepPanel
  <1>2. ASSUME Executes(panel.tx) PROVE Transacted
    <2>1. panel.tx.amount \in Nat /\ PanelUser \in Users
      BY PanelAssumption DEF PanelInv, Transactions
    <2> QED
      BY <1>2, <2>1 DEF Executes, SupplyTx, RedeemRequestTx, Transacted
  <1> QED
    BY <1>1, <1>2 DEF TxSucceeds, TxFails

LEMMA ClientsTransact ==
    ASSUME ClientsInv, [ClientsNext]_clientVars
    PROVE  Transacted \/ UNCHANGED chain \/ (Tick /\ UNCHANGED coins)
  <1>1. CASE Scripted
    BY <1>1, ScriptsTransact DEF Scripted
  <1>2. CASE Panelled
    BY <1>2, PanelTransacts DEF Panelled, ClientsInv, Ledgers
  <1>3. CASE ClockTicks
    BY <1>3 DEF ClockTicks
  <1>4. CASE UNCHANGED clientVars
    BY <1>4 DEF clientVars
  <1> QED
    BY <1>1, <1>2, <1>3, <1>4 DEF ClientsNext

\* The vault's number of a user's shares is what the user's SHARE coins add up to.
CoinsCounted == \A u \in Users : wallet[u] = TotalOf(shareCoins[u])

\* One user's number and coins move, by as much.
LEMMA CountMoves ==
    ASSUME CoinsCounted, NEW u \in Users, wallet'[u] = TotalOf(shareCoins'[u]),
           \A v \in Users \ {u} : wallet'[v] = wallet[v] /\ shareCoins'[v] = shareCoins[v]
    PROVE  CoinsCounted'
  <1>1. \A v \in Users : wallet'[v] = TotalOf(shareCoins'[v])
    BY DEF CoinsCounted
  <1> QED
    BY <1>1 DEF CoinsCounted, TotalOf

LEMMA PurseTakesOut ==
    ASSUME NEW n \in Nat, NEW t, Purse(t, n), NEW c \in DOMAIN t
    PROVE  TotalOf(TableRemove(t, c)) = TotalOf(t) - t[c]
  <1> DEFINE s == TableRemove(t, c)
  <1>1. DOMAIN s = DOMAIN t \ {c} /\ \A d \in DOMAIN s : s[d] = t[d]
    BY DEF TableRemove
  <1> HIDE DEF s
  <1>2. IsFiniteSet(DOMAIN t) /\ NatValued(t, DOMAIN t) /\ t[c] \in Nat
    BY DEF Purse, NatValued
  <1>3. SumOver(DOMAIN t, t) = SumOver(DOMAIN t \ {c}, t) + t[c]
        /\ SumOver(DOMAIN t \ {c}, t) \in Nat
    BY <1>2, SumSplit
  <1>4. SumOver(DOMAIN s, s) = SumOver(DOMAIN t \ {c}, t)
    BY <1>1, SumSame
  <1> QED
    BY <1>2, <1>3, <1>4 DEF TotalOf, s

\* What a transaction does to the ledger, and to the coins that its shares are.
LEMMA SupplyCounted ==
    ASSUME IInv, CoinTypes, SlotsHold, CoinsCounted,
           NEW u \in Users, NEW a \in Nat, SupplyFromTx(u, a)
    PROVE  LedgerStep /\ SlotsHold' /\ CoinsCounted'
  <1> DEFINE n == SharesToMint(a)
  <1>1. PICK o \in Oracles, f \in FairValues : Supply(u, o, a, f)
    BY DEF SupplyFromTx
  <1>2. LedgerStep /\ SlotsHold'
    BY <1>1, SupplyBuys, QueueStays DEF LedgerStep, Ledger!Next
  <1>3. n \in Nat /\ wallet' = [wallet EXCEPT ![u] = @ + n]
    BY <1>1, U64MaxAssumption DEF Supply, U64
  <1>4. shareCoins' = [shareCoins EXCEPT ![u] = TableAdd(@, nextCoin, n)]
    BY DEF SupplyFromTx, Created
  <1>5. DOMAIN wallet = Users /\ Purses(shareCoins, nextCoin) /\ nextCoin \in Nat
    BY DEF IInv, TypeOK, CoinTypes, Purses
  <1> HIDE DEF n
  <1>6. /\ TotalOf(shareCoins'[u]) = TotalOf(shareCoins[u]) + n
        /\ \A v \in Users \ {u} : shareCoins'[v] = shareCoins[v]
    BY <1>3, <1>4, <1>5, PursesGain
  <1>7. wallet'[u] = wallet[u] + n /\ \A v \in Users \ {u} : wallet'[v] = wallet[v]
    BY <1>3, <1>5
  <1>8. wallet'[u] = TotalOf(shareCoins'[u])
    BY <1>6, <1>7 DEF CoinsCounted
  <1>9. CoinsCounted'
    BY <1>6, <1>7, <1>8, CountMoves
  <1> QED
    BY <1>2, <1>9

LEMMA RequestCounted ==
    ASSUME IInv, CoinTypes, SlotsHold, CoinsCounted,
           NEW u \in Users, NEW c \in DOMAIN shareCoins[u], RedeemRequestTx(u, c)
    PROVE  LedgerStep /\ SlotsHold' /\ CoinsCounted'
  <1> DEFINE n == shareCoins[u][c]
  <1>1. RedeemRequest(u, n) /\ shareCoins' = [shareCoins EXCEPT ![u] = TableRemove(@, c)]
    BY DEF RedeemRequestTx
  <1>2. /\ DOMAIN wallet = Users /\ DOMAIN shareCoins = Users
        /\ Purse(shareCoins[u], nextCoin) /\ nextCoin \in Nat
    BY DEF IInv, TypeOK, CoinTypes
  <1>3. n \in Nat
    BY <1>2 DEF Purse, NatValued
  <1>4. wallet' = [wallet EXCEPT ![u] = @ - n]
    BY <1>1 DEF RedeemRequest
  <1>5. TotalOf(TableRemove(shareCoins[u], c)) = TotalOf(shareCoins[u]) - n
    BY <1>2, PurseTakesOut
  <1> HIDE DEF n
  <1>6. Ledger!Queue(u) /\ SlotsHold'
    BY <1>1, <1>3, RequestQueues
  <1>7. LedgerStep
    BY <1>6 DEF LedgerStep, Ledger!Next
  <1>8. /\ wallet'[u] = wallet[u] - n /\ shareCoins'[u] = TableRemove(shareCoins[u], c)
        /\ \A v \in Users \ {u} : wallet'[v] = wallet[v] /\ shareCoins'[v] = shareCoins[v]
    BY <1>1, <1>2, <1>4
  <1>9. wallet'[u] = TotalOf(shareCoins'[u])
    BY <1>5, <1>8 DEF CoinsCounted
  <1>10. CoinsCounted'
    BY <1>8, <1>9, CountMoves
  <1> QED
    BY <1>6, <1>7, <1>10

LEMMA CancelCounted ==
    ASSUME IInv, CoinTypes, SlotsHold, CoinsCounted, NEW u \in Users, RedeemCancelTx(u)
    PROVE  LedgerStep /\ SlotsHold' /\ CoinsCounted'
  <1> DEFINE n == slots[u].shares
  <1>1. /\ RedeemCancel(u) /\ u \in DOMAIN slots /\ wallet' = [wallet EXCEPT ![u] = @ + n]
        /\ shareCoins' = [shareCoins EXCEPT ![u] = TableAdd(@, nextCoin, n)]
    BY DEF RedeemCancelTx, RedeemCancel, Created
  <1>2. /\ DOMAIN wallet = Users /\ Purses(shareCoins, nextCoin) /\ nextCoin \in Nat
        /\ slots[u] \in Slot
    BY <1>1 DEF IInv, TypeOK, CoinTypes, Purses
  <1>3. n \in Nat
    BY <1>2, U64MaxAssumption DEF Slot, U64
  <1>4. LedgerStep /\ SlotsHold'
    BY <1>1, CancelUnqueues DEF LedgerStep, Ledger!Next
  <1> HIDE DEF n
  <1>5. /\ TotalOf(shareCoins'[u]) = TotalOf(shareCoins[u]) + n
        /\ \A v \in Users \ {u} : shareCoins'[v] = shareCoins[v]
    BY <1>1, <1>2, <1>3, PursesGain
  <1>6. wallet'[u] = wallet[u] + n /\ \A v \in Users \ {u} : wallet'[v] = wallet[v]
    BY <1>1, <1>2
  <1>7. wallet'[u] = TotalOf(shareCoins'[u])
    BY <1>5, <1>6 DEF CoinsCounted
  <1>8. CoinsCounted'
    BY <1>5, <1>6, <1>7, CountMoves
  <1> QED
    BY <1>4, <1>8

LEMMA FulfilCounted ==
    ASSUME IInv, SlotsHold, CoinsCounted, NEW u \in Users, RedeemFulfillTx(u)
    PROVE  LedgerStep /\ SlotsHold' /\ CoinsCounted'
  <1>1. RedeemFulfill(u) /\ wallet' = wallet /\ shareCoins' = shareCoins
    BY DEF RedeemFulfillTx, RedeemFulfill
  <1>2. LedgerStep /\ SlotsHold'
    BY <1>1, FulfilLeaves DEF LedgerStep, Ledger!Next
  <1>3. CoinsCounted'
    BY <1>1 DEF CoinsCounted, TotalOf
  <1> QED
    BY <1>2, <1>3

LEMMA ClientsLedger ==
    ASSUME ClientsInv, SlotsHold, CoinsCounted, [ClientsNext]_clientVars
    PROVE  LedgerStep /\ SlotsHold' /\ CoinsCounted'
  <1>1. IInv /\ CoinTypes
    BY DEF ClientsInv, Ledgers
  <1>2. CASE Transacted
    BY <1>1, <1>2, SupplyCounted, RequestCounted, CancelCounted, FulfilCounted DEF Transacted
  <1>3. CASE UNCHANGED chain
    <2>1. /\ UNCHANGED <<now, total_assets, total_shares, wallet, slots>>
          /\ shareCoins' = shareCoins
      BY <1>3 DEF chain, vars, ledger, exits, coins
    <2> QED
      BY <2>1, LedgerStays, QueueStays DEF LedgerStep, CoinsCounted, TotalOf
  <1>4. CASE Tick /\ UNCHANGED coins
    <2>1. LedgerStep /\ SlotsHold'
      BY <1>1, <1>4, LedgerNext DEF Next
    <2>2. wallet' = wallet /\ shareCoins' = shareCoins
      BY <1>4 DEF Tick, ledger, exits, coins
    <2> QED
      BY <2>1, <2>2 DEF CoinsCounted, TotalOf
  <1> QED
    BY <1>2, <1>3, <1>4, ClientsTransact

LEMMA ClientsLedgerInit == ClientsInit => Ledger!Init /\ SlotsHold /\ CoinsCounted
  <1> SUFFICES ASSUME ClientsInit PROVE Ledger!Init /\ SlotsHold /\ CoinsCounted
    OBVIOUS
  <1>1. Init /\ shareCoins = [u \in Users |-> EmptyTable]
    BY DEF ClientsInit, WalletsInit
  <1>2. DOMAIN EmptyTable = {}
    BY DEF EmptyTable
  <1>3. TotalOf(EmptyTable) = 0
    BY <1>2, SumEmpty DEF TotalOf
  <1>4. \A u \in Users : wallet[u] = 0
    BY <1>1 DEF Init
  <1> QED
    BY <1>1, <1>3, <1>4, LedgerInit DEF CoinsCounted

\* The scripts and the panel, their crashes and their repeated submissions included, use
\* the vault as holders of the ledger of ShareLedger.
THEOREM ClientsUseLedger == ClientsSpec => ImplementsShareLedger
  <1>1. /\ ClientsInv /\ SlotsHold /\ CoinsCounted /\ [ClientsNext]_clientVars
        => [Ledger!Next]_(Ledger!shares) /\ SlotsHold' /\ CoinsCounted'
    BY ClientsLedger DEF LedgerStep
  <1> QED
    BY <1>1, ClientsLedgerInit, ClientsInvariant, PTL
       DEF ClientsSpec, ImplementsShareLedger, Ledger!Spec

\* The number that the vault's model keeps for a holder is at all times what the holder's
\* SHARE coins add up to, whichever coins the clients picked.
THEOREM CoinsAreTheShares == ClientsSpec => []CoinsCounted
  <1>1. /\ ClientsInv /\ SlotsHold /\ CoinsCounted /\ [ClientsNext]_clientVars
        => SlotsHold' /\ CoinsCounted'
    BY ClientsLedger
  <1> QED
    BY <1>1, ClientsLedgerInit, ClientsInvariant, PTL DEF ClientsSpec
=============================================================================
