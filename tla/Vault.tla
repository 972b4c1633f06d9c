------------------------------- MODULE Vault --------------------------------
(***************************************************************************)
(* The DeepVault Move package: the shared Vault<Quote> object and every    *)
(* entry point that changes it (vault.move, supply.move, redeem.move,      *)
(* rebalance.move, ltv.move), over the Predict market it trades on.        *)
(*                                                                         *)
(* A Sui transaction on the shared vault is atomic, so each entry point is *)
(* one action; its guard is the conjunction of the assertions of the whole *)
(* call tree, and an aborted transaction is no step.  Interleavings are    *)
(* those of the transactions of different senders, of the clock and of the *)
(* oracles.                                                                *)
(***************************************************************************)
EXTENDS TokenBucket, PredictMarket

CONSTANTS
    Users,             \* addresses that call the vault
    Admin,             \* the holder of the AdminCap (key-only: never moves)
    SeedQuote,         \* strategy_constants::seed_quote_micro_units
    VirtualShares,     \* strategy_constants::virtual_shares
    NavScale,          \* strategy_constants::nav_scale
    BpsScale,          \* 10_000
    FloatScaling,      \* 1e9, the scale of a fair value
    CooldownMs,        \* strategy_constants::redemption_cooldown_ms
    RollTriggerMs,     \* strategy_constants::roll_trigger_seconds * 1000
    RegistryCap,       \* rebalance::HEDGE_REGISTRY_CAP
    Defaults,          \* strategy_constants defaults of the tunables
    InitialOracles,    \* the oracles as the vault is created
    \* Inputs and bounds
    Deposits,          \* amounts passed to supply
    RequestAmounts,    \* share amounts passed to redeem_request
    TransferAmounts,   \* share amounts sent from one user to another
    FairValues,        \* values svi_view::binary_price may return
    Forwards,          \* forward prices an oracle may publish
    TuneValues,        \* for each parameter, the values the admin may set
    TradeQuantities,   \* quantities of trades made on Predict directly
    MaxTime            \* bound on the clock, for TLC

\* The five parameters admin_tune_strategy accepts, and the display-only sixth.
TuneKeys == {"capacity", "refill_rate", "alloc_bps", "strike_otm_bps", "tenor"}
Params == TuneKeys \cup {"max_staleness"}

ASSUME VaultAssumption ==
    /\ IsFiniteSet(Users) /\ Admin \in Users
    /\ SeedQuote \in U64 \ {0} /\ VirtualShares \in U64 \ {0}
    /\ NavScale \in Nat \ {0} /\ BpsScale \in Nat \ {0} /\ FloatScaling \in Nat \ {0}
    /\ CooldownMs \in Nat /\ RollTriggerMs \in Nat /\ RegistryCap \in Nat
    /\ Defaults \in [Params -> U64 \ {0}]
    /\ InitialOracles \in [Oracles -> Oracle]
    /\ Deposits \subseteq U64 /\ RequestAmounts \subseteq U64
    /\ TransferAmounts \subseteq U64
    /\ FairValues \subseteq Nat /\ Forwards \subseteq Nat
    /\ TuneValues \in [Params -> SUBSET U64]
    /\ TradeQuantities \subseteq Nat \ {0}
    /\ MaxTime \in Nat

VARIABLES
    now,             \* the shared Clock
    paused,          \* Vault.paused
    balance,         \* Vault.balance: liquid quote
    escrow_balance,  \* Vault.escrow_balance
    total_assets,    \* Vault.total_assets
    total_shares,    \* Vault.total_shares_supply
    tunables,        \* Vault.tunable_*
    slots,           \* Vault.request_slots
    limiters,        \* Vault.rate_limiters
    hedges,          \* Vault.hedges
    hedge_keys,      \* Vault.hedge_keys: how often each key occurs in the vector
    wallet,          \* SHARE coins held by each user
    positions,       \* positions of each user's PredictManager
    oracles,         \* OracleSVI objects
    unwound          \* history: cost basis of the hedges the admin has unwound

ledger == <<balance, total_assets, total_shares>>
book == <<hedges, hedge_keys, positions, unwound>>
exits == <<slots, limiters, wallet>>
vars == <<now, paused, escrow_balance, tunables, oracles, ledger, book, exits>>

\* RequestSlot and HedgePosition.  A hedge row repeats its key's oracle, strike
\* and expiry, and its notional always equals its quantity: those are left out.
Slot == [shares : U64, timestamp_ms : Nat, claimed_so_far : U64]
HedgeRow == [quantity : U64, cost_basis : U64]

TypeOK ==
    /\ now \in Nat
    /\ paused \in BOOLEAN
    /\ balance \in U64 /\ total_assets \in U64 /\ total_shares \in U64
    /\ escrow_balance \in U64
    /\ tunables \in [Params -> U64]
    /\ DOMAIN slots \subseteq Users /\ slots \in [DOMAIN slots -> Slot]
    /\ DOMAIN limiters \subseteq Users /\ limiters \in [DOMAIN limiters -> Bucket]
    /\ DOMAIN hedges \subseteq MarketKey /\ hedges \in [DOMAIN hedges -> HedgeRow]
    /\ hedge_keys \in [MarketKey -> Nat]
    /\ wallet \in [Users -> U64]
    /\ positions \in [Users -> [MarketKey -> U64]]
    /\ oracles \in [Oracles -> Oracle]
    /\ unwound \in Nat

-----------------------------------------------------------------------------
\* vault::effective_*: zero falls back to the compiled-in default.
Effective(key) == IF tunables[key] = 0 THEN Defaults[key] ELSE tunables[key]

\* ltv::nav_per_share and ltv::worst_case_nav_per_share.
NavPerShare == MulDivDown(total_assets, NavScale, total_shares)
WorstCaseNavPerShare == MulDivDown(balance, NavScale, total_shares)

\* ltv::worst_case_haircut_bps
WorstCaseHaircutBps ==
    IF NavPerShare = 0 THEN 0
    ELSE MulDivDown(NavPerShare - WorstCaseNavPerShare, BpsScale, NavPerShare)

\* supply::compute_shares_to_mint
SharesToMint(deposit) ==
    (deposit * (total_shares + VirtualShares)) \div (total_assets + 1)

\* The strike offset from the oracle's forward, and the expiry, that
\* buy_hedge_for_deposit and roll_expiring compute.
TargetStrike(o) ==
    MulDivDown(oracles[o].forward, BpsScale - Effective("strike_otm_bps"), BpsScale)
TargetExpiry == now + Effective("tenor")
TargetKey(o) == [oracle |-> o, strike |-> TargetStrike(o)]

\* The quantity bought for "alloc" quote at a fair value.
QuantityFor(alloc, fair) == MulDivDown(alloc, FloatScaling, fair)

\* What predict::mint needs of the target key.  The subtraction in the strike
\* aborts when the admin has tuned the offset above 100%.
CanMintTarget(o) ==
    /\ Effective("strike_otm_bps") <= BpsScale
    /\ KeyMatches(o, TargetExpiry, TargetStrike(o))
    /\ LiveOracle(o, oracles[o], now)

\* rebalance::insert_or_consolidate_hedge: a row with the same key absorbs the
\* quantity and the cost; a new key also enters the iteration index.
InsertRow(rows, k, q, cost) ==
    IF k \in DOMAIN rows
    THEN [rows EXCEPT ![k] = [quantity |-> @.quantity + q,
                              cost_basis |-> @.cost_basis + cost]]
    ELSE TableAdd(rows, k, [quantity |-> q, cost_basis |-> cost])

\* Mutant: the key is pushed again when its row is consolidated.
InsertKeyAlways(keys, rows, k) == [keys EXCEPT ![k] = @ + 1]

InsertKey(keys, rows, k) ==
    IF k \in DOMAIN rows THEN keys ELSE [keys EXCEPT ![k] = @ + 1]

\* vector::index_of followed by vector::remove on the iteration index.
RemoveKey(keys, k) == IF keys[k] > 0 THEN [keys EXCEPT ![k] = @ - 1] ELSE keys

-----------------------------------------------------------------------------
\* vault::create_vault: the seed is locked in the balance and VirtualShares are
\* minted to the dead address; they count in total_shares but in no wallet.
Init ==
    /\ now = 0
    /\ paused = FALSE
    /\ balance = SeedQuote /\ total_assets = SeedQuote
    /\ total_shares = VirtualShares
    /\ escrow_balance = 0
    /\ tunables = Defaults
    /\ slots = EmptyTable /\ limiters = EmptyTable /\ hedges = EmptyTable
    /\ hedge_keys = [k \in MarketKey |-> 0]
    /\ wallet = [u \in Users |-> 0]
    /\ positions = [u \in Users |-> [k \in MarketKey |-> 0]]
    /\ oracles = InitialOracles
    /\ unwound = 0

\* rebalance::buy_hedge_for_deposit by user u, spending alloc quote at a fair
\* value.  The registry cap is checked before consolidation is considered.
\* EPredictMisquote compares the ask for ONE micro-unit, floor(ask / 1e9), with
\* a fair value of at least one, and never fires.
BuyHedgeForDeposit(u, o, alloc, fair) ==
    LET q == QuantityFor(alloc, fair)
        k == TargetKey(o)
    IN  /\ alloc > 0
        /\ SumOver(MarketKey, hedge_keys) < RegistryCap
        /\ fair > 0
        /\ q \in U64 \ {0}
        /\ CanMintTarget(o)
        /\ positions[u][k] + q \in U64
        /\ k \in DOMAIN hedges => hedges[k].quantity + q \in U64
        /\ positions' = [positions EXCEPT ![u] = IncreasePosition(@, k, q)]
        /\ hedges' = InsertRow(hedges, k, q, alloc)
        /\ hedge_keys' = InsertKey(hedge_keys, hedges, k)
        /\ UNCHANGED unwound

\* Mutant: supply without add_total_assets.
SupplySkipsAssets(u, o, amount, fair) ==
    LET shares == SharesToMint(amount)
        hedge_amount == MulDivDown(amount, Effective("alloc_bps"), BpsScale)
    IN  /\ ~paused
        /\ amount > 0
        /\ shares \in U64 \ {0}
        /\ hedge_amount <= amount
        /\ BuyHedgeForDeposit(u, o, hedge_amount, fair)
        /\ balance + amount \in U64
        /\ total_shares + shares \in U64
        /\ balance' = balance + (amount - hedge_amount)
        /\ total_shares' = total_shares + shares
        /\ wallet' = [wallet EXCEPT ![u] = @ + shares]
        /\ UNCHANGED <<now, paused, escrow_balance, tunables, oracles, slots, limiters,
                       total_assets>>

\* supply::supply: the hedge leg leaves the deposit, the rest joins the balance,
\* and both legs count as assets.
Supply(u, o, amount, fair) ==
    LET shares == SharesToMint(amount)
        hedge_amount == MulDivDown(amount, Effective("alloc_bps"), BpsScale)
    IN  /\ ~paused
        /\ amount > 0
        /\ shares \in U64 \ {0}
        /\ hedge_amount <= amount
        /\ BuyHedgeForDeposit(u, o, hedge_amount, fair)
        /\ total_assets + amount \in U64
        /\ total_shares + shares \in U64
        /\ balance' = balance + (amount - hedge_amount)
        /\ total_assets' = total_assets + amount
        /\ total_shares' = total_shares + shares
        /\ wallet' = [wallet EXCEPT ![u] = @ + shares]
        /\ UNCHANGED <<now, paused, escrow_balance, tunables, oracles, slots, limiters>>

\* Mutant: the request is not limited to the coins the user holds.
RedeemRequestUnchecked(u, amount) ==
    /\ amount > 0
    /\ u \notin DOMAIN slots
    /\ slots' = TableAdd(slots, u, [shares |-> amount, timestamp_ms |-> now,
                                    claimed_so_far |-> 0])
    /\ wallet' = [wallet EXCEPT ![u] = @ - amount]
    /\ UNCHANGED <<now, paused, escrow_balance, tunables, oracles, ledger, book, limiters>>

\* redeem::redeem_request: one slot per user; the shares move into the slot.
RedeemRequest(u, amount) ==
    /\ amount > 0
    /\ amount <= wallet[u]
    /\ u \notin DOMAIN slots
    /\ slots' = TableAdd(slots, u, [shares |-> amount, timestamp_ms |-> now,
                                    claimed_so_far |-> 0])
    /\ wallet' = [wallet EXCEPT ![u] = @ - amount]
    /\ UNCHANGED <<now, paused, escrow_balance, tunables, oracles, ledger, book, limiters>>

\* redeem::redeem_cancel: allowed at any time; every escrowed share goes back.
RedeemCancel(u) ==
    /\ u \in DOMAIN slots
    /\ slots' = TableRemove(slots, u)
    /\ wallet' = [wallet EXCEPT ![u] = @ + slots[u].shares]
    /\ UNCHANGED <<now, paused, escrow_balance, tunables, oracles, ledger, book, limiters>>

\* redeem::get_or_init_user_bucket: a first-time user's bucket is configured from
\* the tunables, enabled, and filled to its capacity; later calls reuse it.
FullBucket ==
    RecordDeposit(Enable(UpdateConfig(NewBucket(now), Effective("capacity"),
                                      Effective("refill_rate"), now), now),
                  Effective("capacity"), now)

UserBucket(u) == IF u \in DOMAIN limiters THEN limiters[u] ELSE FullBucket

BucketReady(u) ==
    u \in DOMAIN limiters \/ ConfigOK(Effective("capacity"), Effective("refill_rate"))

\* The amounts redeem_fulfill computes: the slot's value at the current NAV, the
\* payout that the bucket and the liquid balance allow, and the shares burned
\* for it, rounded up in the vault's favour.
ProRata(u) == MulDivDown(slots[u].shares, NavPerShare, NavScale)

\* Mutant: the payout is not capped by the user's bucket.
PayoutSkipsBucket(u) == MinOf(ProRata(u), balance)

Payout(u) ==
    MinOf(MinOf(ProRata(u), AvailableWithdrawal(UserBucket(u), now)), balance)

\* Mutant: the burn is rounded in the leaver's favour.
SharesConsumedDown(payout) == MulDivDown(payout, NavScale, NavPerShare)

SharesConsumed(payout) == MulDivUp(payout, NavScale, NavPerShare)

\* Mutants: a partial fulfil closes the slot; a partial fulfil restarts its cooldown.
BurnFromSlotCloses(u, consumed) == TableRemove(slots, u)

BurnFromSlotRestarts(u, consumed) ==
    IF slots[u].shares = consumed
    THEN TableRemove(slots, u)
    ELSE [slots EXCEPT ![u].shares = @ - consumed, ![u].timestamp_ms = now]

\* Slots after "consumed" shares of u's slot are burned: an emptied slot is
\* destroyed; otherwise its timestamp stays, so the cooldown stays met.
BurnFromSlot(u, consumed) ==
    IF slots[u].shares = consumed
    THEN TableRemove(slots, u)
    ELSE [slots EXCEPT ![u].shares = @ - consumed]

\* The assertions of redeem_fulfill up to the payout: a request exists, its
\* cooldown is over, the bucket can be set up, and something can be paid.
FulfillDue(u) ==
    /\ u \in DOMAIN slots
    /\ now >= slots[u].timestamp_ms + CooldownMs
    /\ slots[u].shares > 0
    /\ total_shares > 0
    /\ NavPerShare \in U64 /\ ProRata(u) \in U64
    /\ BucketReady(u)
    /\ Payout(u) > 0

\* Its checked operations after that: consume on the bucket, the split of the
\* slot's shares, and the two cached totals.
FulfillSucceeds(u) ==
    /\ ConsumeOK(UserBucket(u), Payout(u), now)
    /\ SharesConsumed(Payout(u)) <= slots[u].shares
    /\ Payout(u) <= total_assets
    /\ SharesConsumed(Payout(u)) <= total_shares

\* redeem::redeem_fulfill
RedeemFulfill(u) ==
    /\ FulfillDue(u)
    /\ FulfillSucceeds(u)
    /\ LET payout == Payout(u)
           consumed == SharesConsumed(payout)
       IN  /\ limiters' = TableAdd(limiters, u, Consume(UserBucket(u), payout, now))
           /\ balance' = balance - payout
           /\ total_assets' = total_assets - payout
           /\ total_shares' = total_shares - consumed
           /\ slots' = BurnFromSlot(u, consumed)
    /\ UNCHANGED <<now, paused, escrow_balance, tunables, oracles, book, wallet>>

\* Share coins have the store ability: their owner may send them to anyone, who can
\* then request a redemption with them.
TransferShares(u, v, amount) ==
    /\ u # v
    /\ amount > 0
    /\ amount <= wallet[u]
    /\ wallet' = [wallet EXCEPT ![u] = @ - amount, ![v] = @ + amount]
    /\ UNCHANGED <<now, paused, escrow_balance, tunables, oracles, ledger, book, slots,
                   limiters>>

-----------------------------------------------------------------------------
\* rebalance::roll_expiring by "caller" with one oracle.  The loop redeems each
\* expiring key and mints its cost basis anew.  Every key must belong to the
\* passed oracle, and the replacement key is the same for all of them, so the
\* loop's outcome is one row holding the summed cost basis.  "before" is the set
\* of expiring keys that precede the replacement key in the vector: their cost
\* was consolidated into its old row when that row itself was rolled.
Expiring(k) == hedge_keys[k] > 0 /\ ExpiryOf[k.oracle] < now + RollTriggerMs
ToRoll == {k \in MarketKey : Expiring(k)}
CostOf == [k \in MarketKey |-> IF k \in DOMAIN hedges THEN hedges[k].cost_basis ELSE 0]

EachQuantity(fair) == [k \in MarketKey |-> QuantityFor(CostOf[k], fair)]

RolledQuantity(o, before, fair) ==
    LET merged == IF TargetKey(o) \in ToRoll THEN before \cup {TargetKey(o)} ELSE {}
    IN  QuantityFor(SumOver(merged, CostOf), fair)
          + SumOver(ToRoll \ merged, EachQuantity(fair))

RollExpiring(caller, o, before, fair) ==
    LET new == TargetKey(o)
        q == RolledQuantity(o, before, fair)
    IN  /\ ToRoll # {}
        /\ fair > 0
        /\ \A k \in MarketKey : hedge_keys[k] > 0 => k \in DOMAIN hedges
        /\ \A k \in ToRoll :
               /\ k.oracle = o /\ hedge_keys[k] = 1
               /\ positions[caller][k] >= hedges[k].quantity
               /\ QuantityFor(hedges[k].cost_basis, fair) \in U64 \ {0}
        /\ before \subseteq ToRoll \ {new}
        /\ new \in ToRoll =>
               positions[caller][new] + SumOver(before, EachQuantity(fair)) \in U64
        /\ CanMintTarget(o)
        /\ q \in U64
        /\ LET left == [k \in MarketKey |-> IF k \in ToRoll
                                            THEN positions[caller][k] - hedges[k].quantity
                                            ELSE positions[caller][k]]
           IN  /\ left[new] + q \in U64
               /\ positions' = [positions EXCEPT ![caller] = IncreasePosition(left, new, q)]
        /\ hedges' = TableAdd([k \in DOMAIN hedges \ ToRoll |-> hedges[k]], new,
                              [quantity |-> q, cost_basis |-> SumOver(ToRoll, CostOf)])
        /\ hedge_keys' = [k \in MarketKey |-> IF k = new THEN 1
                                               ELSE IF k \in ToRoll THEN 0 ELSE hedge_keys[k]]
    /\ UNCHANGED <<now, paused, escrow_balance, tunables, oracles, ledger, unwound, exits>>

\* vault::admin_emergency_unwind: the row and its index entry go, the position is
\* redeemed, and the payout stays in the manager: total_assets keeps the cost
\* basis, which the history variable "unwound" adds up.  The sender holds the
\* AdminCap and must own the manager that holds the position.
AdminEmergencyUnwind(k) ==
    /\ k \in DOMAIN hedges
    /\ QuoteableOracle(k.oracle, oracles[k.oracle], now)
    /\ positions[Admin][k] >= hedges[k].quantity
    /\ hedges' = TableRemove(hedges, k)
    /\ hedge_keys' = RemoveKey(hedge_keys, k)
    /\ positions' = [positions EXCEPT ![Admin] = DecreasePosition(@, k, hedges[k].quantity)]
    /\ unwound' = unwound + hedges[k].cost_basis
    /\ UNCHANGED <<now, paused, escrow_balance, tunables, oracles, ledger, exits>>

\* vault::admin_pause
AdminPause(p) ==
    /\ paused' = p
    /\ UNCHANGED <<now, escrow_balance, tunables, oracles, ledger, book, exits>>

\* vault::admin_tune_strategy: any value, for the five recognised keys.
AdminTuneStrategy(key, value) ==
    /\ tunables' = [tunables EXCEPT ![key] = value]
    /\ UNCHANGED <<now, paused, escrow_balance, oracles, ledger, book, exits>>

\* vault::admin_oracle_staleness_override: shown on the dashboard, read by no check.
AdminOracleStalenessOverride(seconds) ==
    /\ tunables' = [tunables EXCEPT !["max_staleness"] = seconds]
    /\ UNCHANGED <<now, paused, escrow_balance, oracles, ledger, book, exits>>

-----------------------------------------------------------------------------
\* The Predict market around the vault: oracle operators, and manager owners
\* trading on Predict without going through the vault.
OracleActivate(o) ==
    /\ ActivateOK(o, oracles[o], now)
    /\ oracles' = [oracles EXCEPT ![o].active = TRUE]
    /\ UNCHANGED <<now, paused, escrow_balance, tunables, ledger, book, exits>>

OracleUpdatePrices(o, forward) ==
    /\ Status(o, oracles[o], now) # "settled"
    /\ oracles' = [oracles EXCEPT ![o] = UpdatePrices(o, @, forward, now)]
    /\ UNCHANGED <<now, paused, escrow_balance, tunables, ledger, book, exits>>

\* predict::mint by the owner of a manager.
PredictMint(u, k, q) ==
    /\ LiveOracle(k.oracle, oracles[k.oracle], now)
    /\ positions[u][k] + q \in U64
    /\ positions' = [positions EXCEPT ![u] = IncreasePosition(@, k, q)]
    /\ UNCHANGED <<now, paused, escrow_balance, tunables, oracles, ledger, exits,
                   hedges, hedge_keys, unwound>>

\* predict::redeem by the owner of a manager, or predict::redeem_permissionless by
\* anyone once the oracle has settled: the vault's registry is not told.
PredictRedeem(u, k, q) ==
    /\ QuoteableOracle(k.oracle, oracles[k.oracle], now)
    /\ positions[u][k] >= q
    /\ positions' = [positions EXCEPT ![u] = DecreasePosition(@, k, q)]
    /\ UNCHANGED <<now, paused, escrow_balance, tunables, oracles, ledger, exits,
                   hedges, hedge_keys, unwound>>

Tick ==
    /\ now < MaxTime
    /\ now' = now + 1
    /\ UNCHANGED <<paused, escrow_balance, tunables, oracles, ledger, book, exits>>

Next ==
    \/ Tick
    \/ \E u \in Users :
          \/ \E o \in Oracles, a \in Deposits, f \in FairValues : Supply(u, o, a, f)
          \/ \E n \in RequestAmounts : RedeemRequest(u, n)
          \/ RedeemFulfill(u)
          \/ RedeemCancel(u)
          \/ \E v \in Users, n \in TransferAmounts : TransferShares(u, v, n)
          \/ \E o \in Oracles, f \in FairValues :
                \E b \in SUBSET ToRoll : RollExpiring(u, o, b, f)
          \/ \E k \in MarketKey, q \in TradeQuantities : PredictMint(u, k, q)
          \/ \E k \in MarketKey, q \in TradeQuantities : PredictRedeem(u, k, q)
    \/ \E k \in MarketKey : AdminEmergencyUnwind(k)
    \/ \E p \in BOOLEAN : AdminPause(p)
    \/ \E key \in TuneKeys : \E v \in TuneValues[key] : AdminTuneStrategy(key, v)
    \/ \E v \in TuneValues["max_staleness"] : AdminOracleStalenessOverride(v)
    \/ \E o \in Oracles : OracleActivate(o)
    \/ \E o \in Oracles, f \in Forwards : OracleUpdatePrices(o, f)

Spec == Init /\ [][Next]_vars

-----------------------------------------------------------------------------
EscrowOf == [u \in Users |-> IF u \in DOMAIN slots THEN slots[u].shares ELSE 0]

\* The cached total_assets of vault.move is the liquid balance plus the cost
\* basis of the open hedges plus the cost basis of the hedges the admin has
\* unwound: supply and roll keep both legs in the books, and only
\* admin_emergency_unwind leaves quote in the books that the vault has lost.
BookBalanced == total_assets = balance + SumOver(MarketKey, CostOf) + unwound

\* The cached total_shares_supply mirrors the SHARE coins that exist: those at
\* the dead address, in wallets, and escrowed in request slots.  No share is
\* burned twice, lost on a cancel or left out of a partial fulfil.
SharesBacked ==
    total_shares = VirtualShares + SumOver(Users, wallet) + SumOver(Users, EscrowOf)

\* The iteration index lists every registered hedge exactly once and nothing
\* else, and the registry never exceeds HEDGE_REGISTRY_CAP, although
\* roll_expiring inserts without the check that buy_hedge_for_deposit makes.
RegistryIndexed ==
    /\ \A k \in MarketKey : hedge_keys[k] = (IF k \in DOMAIN hedges THEN 1 ELSE 0)
    /\ SumOver(MarketKey, hedge_keys) <= RegistryCap

\* redeem_fulfill's own arithmetic never stops an exit: once the cooldown is
\* over, the bucket can be set up, and the slot, the bucket and the liquid
\* balance leave a positive payout, no checked subtraction, split or consume
\* aborts it, whatever has happened to the NAV since the request.
ExitNotBlocked == \A u \in Users : FulfillDue(u) => FulfillSucceeds(u)

\* A payout never dilutes the holders who stay: redeem_fulfill rounds the payout
\* down and the shares up, so assets per share do not fall in any step that
\* burns shares.
NavNeverDropsOnExit ==
    [][total_shares' < total_shares =>
         total_assets' * total_shares >= total_assets * total_shares']_vars

\* A request slot only drains.  While a slot stays open its timestamp is fixed
\* and its shares do not grow, so no share rides on the cooldown another share
\* has served; a new cooldown starts only with a new slot.
SlotOnlyDrains ==
    [][\A u \in DOMAIN slots \cap DOMAIN slots' :
         /\ slots'[u].timestamp_ms = slots[u].timestamp_ms
         /\ slots'[u].shares <= slots[u].shares]_vars

\* A slot paid its full value is gone: with a NAV of at least one quote unit per
\* share, the floor of the payout and the ceiling of the burn cancel out and no
\* share is stranded in a slot that could never be fulfilled again.
FullPayoutClosesSlot ==
    [][\A u \in DOMAIN slots \cap DOMAIN slots' :
         /\ balance' < balance
         /\ balance - balance' = ProRata(u)
         /\ NavPerShare >= NavScale
         => slots'[u] = slots[u]]_vars

\* The vault's handlers move the registry and the PredictManagers in step: in
\* any step that changes the registry, the change of each row's quantity is the
\* change of the positions held for that key over all managers.
QuantityOf == [k \in MarketKey |-> IF k \in DOMAIN hedges THEN hedges[k].quantity ELSE 0]
HeldOf(k) == SumOver(Users, [u \in Users |-> positions[u][k]])

RegistryMovesWithCustody ==
    [][hedges' # hedges =>
         \A k \in MarketKey : HeldOf(k)' - HeldOf(k) = QuantityOf'[k] - QuantityOf[k]]_vars

\* No position is opened on a market that is over, even while its price is still
\* fresh and its oracle not yet settled: whoever mints, the vault through supply
\* or roll_expiring or an owner directly, a manager's holding of a key grows only
\* before that key's expiry.
NoMintAfterExpiry ==
    [][\A u \in Users, k \in MarketKey :
         positions'[u][k] > positions[u][k] => now < ExpiryOf[k.oracle]]_vars

\* worst_case_haircut_bps never aborts: there are always shares to divide by, and
\* the pessimistic NAV never exceeds the NAV, whatever has been paid out,
\* rolled or unwound since; the haircut is at most 100%.
HaircutSafe ==
    /\ total_shares > 0
    /\ WorstCaseNavPerShare <= NavPerShare
    /\ WorstCaseHaircutBps \in 0 .. BpsScale

\* To its holders the vault is the ledger of ShareLedger, whatever else happens to it:
\* supply, the redemption queue and transfers are the ledger's steps, paused or
\* not, retuned, rate-limited or short of liquidity, and rolls, unwinds, other
\* settings and trades on Predict leave every holder's shares, place and part alone.
SinceOf == [u \in Users |-> IF u \in DOMAIN slots THEN slots[u].timestamp_ms ELSE 0]
Ledger == INSTANCE ShareLedger WITH
              Holders <- Users, Cooldown <- CooldownMs,
              Seed <- SeedQuote, Locked <- VirtualShares,
              clock <- now, assets <- total_assets, supply <- total_shares,
              held <- wallet, queued <- EscrowOf, since <- SinceOf
ImplementsShareLedger == Ledger!Spec
=============================================================================
