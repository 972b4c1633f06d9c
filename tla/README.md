# DeepVault in TLA+

A model of DeepVault: the Move vault package (`contracts/`), the event relay
(`indexer/`), the dashboard's stateful parts (`dashboard/`), the scripts that use and
deploy the vault (`scripts/`) and the vendored oracle feed and Predict tooling they
depend on; with TLC configurations for small instances and TLAPS proofs for every
value of the constants.

## The system

| Component | State | Operations | Interacts with |
|---|---|---|---|
| Vault (`vault.move`) | liquid balance, cached `total_assets` and `total_shares_supply`, request slots, per-user rate limiters, hedge table and its iteration index, six tunables, pause flag | create, pause, tune, staleness override, emergency unwind | everything below calls its mutators |
| Supply (`supply.move`) | none of its own | `supply`: mint shares, buy a hedge, keep the rest | rebalance, Predict |
| Redemption (`redeem.move`) | one slot per user: escrowed shares, timestamp | request, fulfil (partly or fully), cancel | rate limiter, NAV |
| Rate limiter (`helpers/rate_limiter.move`) | level, last update, capacity, rate, enabled | consume, record deposit, enable, disable, configure | redemption |
| Hedge registry (`rebalance.move`) | rows keyed by market, vector of keys | buy for a deposit, consolidate, roll what expires | Predict, suppliers' PredictManagers |
| NAV and LTV (`ltv.move`) | none | NAV, worst-case NAV, haircut | redemption, margin |
| DeepBook Predict (vendored) | oracles (inactive, active, pending settlement, settled), managers' positions | activate, push prices, settle, mint, redeem | called by the vault and, directly, by the managers' owners |
| Oracle feed (vendored service) | lanes (a gas coin and a cap each), price cache, oracle registry, manager phase, transactions in flight | push tick, manager window (drain, discover, create, bootstrap, settle, compact, refresh), boot, death | price feed, chain, operator |
| Feed subscriber | socket, authentication, chunks of subscriptions, backoff timer | connect, authenticate, sync, reconnect, stop | price feed, manager window |
| Gas lanes and caps (`bootstrap.ts`) | coins and caps of the signer | create caps, merge and split coins, refresh | chain |
| Relay (`indexer/src`) | per stream a cursor in memory and on disk; a ring of events; connected sockets | poll, apply, persist, fan out, crash, restart | Sui RPC, dashboards |
| Dashboard client and hook (`wsClient.ts`, `useWebSocket.ts`) | socket, reconnect timer, last snapshot, relay state, interval | connect, receive, close, tick, reconnect, dispose | relay |
| Dashboard derived state (`useExposure.ts`, `useBucketState.ts`) | exposure rows folded from the ring; a copy of a bucket | fold, query, refill | relay's ring, RPC |
| Deposit and redeem forms (`DepositWithdrawPanel.tsx`) | typed amount, coins read, dialogs, pending mutation | type, check balance, confirm, sign, switch tab | wallet, vault |
| Smoke tests, e2e cycle, two-protocol demo | the step of the run, what it read, its trace file | deposit, wait, request, fulfil with retries, judge | RPC, vault, margin pool |
| Predict deployment scripts (vendored) | `constants.ts`, `predict-oracles.ts`, indexer configuration and database | publish, init, redeploy, publish DUSDC, create caps and oracles, deposit | chain, files |
| Predict simulation (vendored) | `.env.localnet`, `state.json`, `results.json` | set up, replay with retries, resume | local network, files |
| SVI evaluator, numeric library, backtest, code generation, margin mock | none that persists | pure arithmetic, simulations, text | |

What is hard about it:

* a transaction on the shared vault is atomic, but the NAV, the liquidity, the
  bucket and the hedge rows a user relies on are moved by other users, the admin,
  the clock and the oracle between the user's own transactions;
* caches (`total_assets`, `total_shares_supply`, `hedge_keys`) must move with the
  balances, coins and table rows they mirror on every path, partial ones included;
* hedges are registered in the vault but held in the suppliers' own managers;
* rounding has a direction, and repeated calls add up;
* the relay has five pollers on one event loop, each of which can fail between
  applying an event, advancing its cursor in memory and writing it to disk;
* the feed's push loop and manager window share lanes whose coin versions admit
  one transaction at a time, and an answer that is lost says nothing of the
  transaction;
* the dashboard judges from a clock, frames and renders that are each late in
  their own way;
* scripts and forms read, wait for a human or a cooldown, and then act on what
  they read; a kill leaves the chain ahead of the files.

The hazards, each at its line, are listed in `PROJECT.json`.

## Modules

| Module | Models |
|---|---|
| `Collections` | finite sums and listings, without recursion |
| `MoveMath` | `helpers/math.move`, the u64 range, `sui::table` |
| `TokenBucket` | `helpers/rate_limiter.move` as operators on a bucket record |
| `RateLimiter` | one limiter under every call, in any order, with an observer that measures a window of time |
| `BucketGauge` | `RateLimiter` and the dashboard's gauge of it |
| `PredictMarket` | what the vault uses of Predict: oracle life cycle, checks of mint and redeem, positions |
| `Vault` | the vault and every entry point of the package, one action each, over `TokenBucket` and `PredictMarket` |
| `ShareLedger` | the abstract specification of the vault for its holders: shares bought, sent, queued, burned |
| `VaultClaims` | what a comment of the package says and the code does not do |
| `Exposure`, `VaultEvents` | the dashboard's hedge table as a fold over events; the vault composed with the events it emits |
| `Wallets` | coin objects and the four transactions that clients of the vault build |
| `SmokeScripts`, `DepositPanel`, `VaultClients` | the scripts of one signer, the forms of one user, and both on one vault |
| `Relay` | the event relay: pollers, cursors, ring, fan-out, sockets, crash and restart |
| `Dashboard` | the WebSocket client and its hook against the relay's server |
| `FeedSchedule` | the calendar of expiries (`expiry.ts`) |
| `LaneGate` | the abstract specification of the feed's lanes: readers and a writer |
| `OracleFeed` | the feed's push loop and manager window against the chain |
| `Subscriber` | the feed's WebSocket subscriber |
| `Terminal` | a script that runs step by step and may be killed between two of them |
| `PredictDeploy`, `PredictSim`, `FeedPool`, `OperatorScripts` | deployment, simulation, the feed's start-up and gas lanes, and the choice among them |
| `MC...` | values of the constants for TLC |
| `...Proofs` | lemmas and theorems |

### The vault

Each variable of `Vault` is a field of the Move object, or the part of the world
the object depends on: `wallet` (share coins of each address), `positions` (one
PredictManager per user), `oracles`, `now`. `unwound` is a history variable: the
cost basis of the hedges the admin has unwound.

A Sui transaction is atomic and an abort changes nothing, so an action's guard
is the conjunction of every assertion of its call tree, checked arithmetic
included (a u64 sum that would overflow, a split larger than the balance, an EInvalidConfig of a
fresh bucket). Three things are computed in closed form:

* the while loop of `roll_expiring`. Predict accepts only keys of the oracle that
  was passed, and all replacements have the same key, so the loop ends with one
  row that carries the summed cost basis. The parameter `before` says which keys
  preceded the replacement's key in the vector, which decides the rounding of
  its quantity;
* `hedge_keys`, a vector whose order matters to nothing else, as the number of
  times each key occurs;
* the misquote check, which compares the ask for one micro-unit with a fair value
  of at least one and never fires.

`ImplementsShareLedger` maps this state to `ShareLedger`: wallets to what is held, slots to the queue
with the time of joining it, the two cached totals to assets and supply. Balance, buckets,
tunables, hedges, managers and oracles have no counterpart; what they decide is which of the ledger's
steps are possible, never what a step does to a holder. The ledger says what a deposit may mint (at
most the deposit's worth at the price of `compute_shares_to_mint` without its rounding), that shares leave a wallet only
by its owner's call, that a place in the queue keeps its time until it is empty, and that a payment
is at most the burned shares' part of the assets. It lets NAV fall at a deposit, since the virtual
shares count twice in the mint price: the code does too.

Prices are data: a fair value or a forward is any value of a small set. Aborts
inside Predict for want of funds, exposure or ask bounds are the action not
being taken. A user has one PredictManager; balances inside managers are not
modelled, as the vault never reads them.

### The relay

The relay is one Node process, so the code between two awaits is atomic. An
action of `Relay` is such a segment: a `queryEvents` call that returns (`Fetch`) or
rejects (`FetchFails`); applying one event and the synchronous part of `Cursor.set`
(`Apply`), or failing to decode it (`ApplyFails`); the cursor file renamed
(`WriteDone`) or not (`WriteFails`); the end of a sleep (`Wake`). `poller[s]` is the
await at which the loop of stream `s` is. Other loops, connecting and closing
clients, SIGTERM (`Stop`, `ExitLoop`, `Halt`), a crash and the clock come in between.

`mem` and `disk` are the two copies of a cursor: `set` assigns the first before it
writes the second, and a failed write does not take it back. The chain is the
variable `log`; an event is its stream, its position and its timestamp, and an
undecodable payload is a position in the constant `Unparsable`. A restart loads
`disk`, which is null if the host lost the data directory (`Wipes`); the
ring, the surface and the sockets start empty. `served` is a history variable: what any run
of the process has applied. `pollVaultEvents` and `pollOracleSVI` are the same loop,
which differs in whether the oracle surface is replaced. A backoff is a sleep of any
length. One oracle stands for the map of surfaces. A torn cursor file is not
modelled: the rename is taken to be atomic, as `cursor.ts` says.

### The dashboard

`Dashboard` has the browser's callbacks as actions and a clock that counts
seconds, the period of the hook's interval. A state update is seen by the interval
only after React has committed it and restarted the effect, which is an action of its
own (`Commit`): between the two the old interval may fire with old values. The relay
appears as what `Relay` shows of one stream: a ring of consecutive positions, cut at
the head, that is empty and not ahead of its last position after a restart. A
connection may break without the browser noticing; frames arrive any number of seconds
late, up to `MaxQueue` of them in flight, and stay in order, as TCP keeps them.

`Exposure` is the fold of `useExposure`, field names as the hook spells them;
`VaultEvents` adds to each action of `Vault` the rebalance events it emits.
`BucketGauge` adds to `RateLimiter` a query that reads the bucket at one moment and
refills the copy at a later one.

### The clients of the vault

`Vault` counts a user's shares as one number. The clients choose among coin objects,
so `Wallets` keeps them apart and conjoins the vault's actions with what happens to
the coins. A script (`SmokeScripts`) is a program counter and what it has read; each
RPC call is a step, `signAndExecuteTransaction` may throw although the transaction
took effect, a process may be killed anywhere, and a new run starts on what the last
one left. `DepositPanel` is the two forms with their dialogs: what a form read stays in its
state until it is confirmed, while the amount can be edited and others use the vault.
`VaultClients` composes them. Typing and reading in the panel concerns only its own
user's coins and commutes with the scripts, so it is done without a break at a few
points of a run; its transactions land at any time.

### The oracle feed

The feed is one Node process: the code between two awaits is one action of
`OracleFeed`. A transaction is submitted by one action, executed by the chain in
another and answered in a third. An answer may be lost (`AnswerLost`) and the transaction
executed later; the process may die with transactions in flight and boot again, when
it discovers what the chain has. `txs` holds what is in flight, each with its lane and
whether anybody awaits it. The manager window is a phase machine: drain the lanes
(or time out), discover, create, bootstrap and activate, settle and compact, refresh gas.

`LaneGate` says what the lanes promise: pushes on distinct lanes, and the
manager alone. `LanesGated` is the refinement, with the lanes that have an awaited push as
`pushing` and a phase past the drain as `exclusive`. A push whose answer was lost is
no longer awaited and may still execute: hence `PushNeverSettles`, which says that
the safety window keeps even those away from an expiry, if execution takes at most
`LatencyMs <= SafetyWindowMs`.

`Subscriber` treats forward and SVI subscriptions, which the same code sends from the
same list, as one set of chunks. The server keeps one list per `client_id` for
the life of a connection. `syncOracles` schedules a microtask, which is an action of its own.

### The operator's scripts

`Terminal` runs one script at a time, step by step, with kills. In `PredictDeploy` an object is
named by the generation of the package it belongs to, which is all that decides
whether a transaction type-checks; a script imports the constants once, at its start, and
rewrites single constants afterwards. `PredictSim` is `run.sh` and `sim.ts`: what a
resumed instance trusts, and which rejected transactions are retried. `FeedPool` has the
balances behind the refresh that `OracleFeed` takes as a choice; nodes list coins and caps in the order of
their identifiers, which is any order. `OperatorScripts` joins them: nothing is written by one
and read by another, so each behaviour keeps to one.

## Runs

| Run | Shows |
|---|---|
| `limiter` | over any window the limiter lets through at most capacity + rate x time + deposits (`WindowBound`); the gauge, read at any moment and shown late, differs from the bucket by no more than what was withdrawn, refilled and deposited since (`GaugeHonest`) |
| `exit` | two users, two supply instants, partial and full requests, transfers, cancels, a retuned bucket, liquidity that runs short: caches stay exact (`BookBalanced`, `SharesBacked`), a due fulfil never aborts (`ExitNotBlocked`), the vault is `ShareLedger` to its holders (`ImplementsShareLedger`), so no exit dilutes those who stay, a slot paid its full value is gone (`FullPayoutClosesSlot`) |
| `hedge` | two strikes on one oracle; rows added, consolidated, rolled together, unwound: `RegistryIndexed`; whatever end of the event stream it is folded from, the exposure table shows no more than the vault holds or the admin has unwound (`ExposureSound`) |
| `market` | a second oracle that is activated, priced, expires and settles; owners trade directly: `RegistryMovesWithCustody` |
| `roll_possible` | a comment that the code contradicts; see `findings` in `PROJECT.json` |
| `relay` | two streams, a client, failures everywhere, one crash or stop and a restart: the cursors never pass an event that was not applied (`NoEventSkipped`), the ring has neither gap nor repetition within a run (`RingFaithful`), and a client's replay and live events join up (`FeedJoinsUp`) |
| `relay_live` | every event is eventually applied while the process is up, even next to a stream stuck on a bad event (`EventuallyServed`) |
| `dashboard` | relay restarts, silent disconnections, failed attempts, delayed frames, late commits: "live" ends within a second of the socket (`LiveEndsWithSocket`) and within two of the threshold on a silent one (`LiveIsRecent`), a caught-up client's ring joins the relay's (`ClientCoversRelay`), there is one attempt at a time (`OneAttempt`), and the view recovers (`EventuallyLive`) |
| `clients` | lost answers, kills, reruns, edited amounts, another user: GREEN means paid (`GreenIsPaid`), once (`OnePayoutPerRun`), a recorded trace is one the replay can follow (`TraceReplays`), and the panel deposits what its dialog showed (`DepositsWhatItShows`) |
| `feed` | an expiry with two lanes and one fault: `LanesGated`; a sample marked as pushed is on chain (`SviMarkHonest`); no push settles an oracle (`PushNeverSettles`); a second oracle for an expiry costs a fault (`OneOraclePerExpiry`); every expired oracle is compacted (`EventuallyCompacted`) and the push path gets its lanes back (`PushNotStarved`) |
| `subscriber` | drops, syncs at any moment, batches that grow and shrink, expiries, a stop: `AllSubscribed`, `EventuallyQuoted` |
| `deploy` | kills between any two steps: files name only what exists (`NamesExist`), a completed redeploy is consistent (`AnnouncedIsDeployed`) and possible from any wreck (`RedeployNeverRefused`), `results.json` is one replay (`ResultsAreOneReplay`), a restarted feed has a cap of its own for each lane and no surplus but what late transactions of its own and others' caps account for (`LanesKeepTheirCaps`), its lanes can pay (`LanesPayable`), and a refresh is not followed by another (`RefreshSettles`) |

### Bounds

Vault. Amounts are a few units, scales are powers of two small enough that
every rounding case occurs (basis points are quarters, the NAV has two fractional
bits), and `U64Max` is low enough that overflow guards fire. `MaxTime` covers a
cooldown, a refill and an expiry. Deposits mint several shares, so slots can be
fulfilled partly; the capacity can be retuned to one unit, so several fulfils are
needed. Two users suffice for every property stated of pairs of holders, and the
proofs remove the bound where there is one. `RegistryCap` is two, so that the cap is reached;
in `hedge` the ring holds three events, fewer than a behaviour emits.
`CHECK_DEADLOCK FALSE` is used because the bounded clock and the exhausted
inputs stop a model that the real system would keep running.

Relay. Pages of two and three oracle events give a full page followed by a
second one; the other stream has one good event to interleave and one bad event to
be stuck on. The ring holds two events, so it overflows, and its age limit is zero
with a clock that ticks once, so eviction by age happens as well. One restart
suffices for safety, since nothing but `disk` and the chain survives it. The
liveness run has no client and no restart: neither appears in a poller's guards.

Gauge. One query: a later one replaces the view and starts the same argument anew.

Dashboard. A ring of two with three events overflows and is replayed in part;
heartbeats every two seconds, thresholds at three and five and a reconnect delay of up to two keep the code's
order of the four, so that a late heartbeat crosses the first threshold. Two faults cover a second one during recovery.

Clients. Amounts are those of the scripts divided by a million and a basis point is
one part in 200. At that scale a deposit dilutes the NAV, and rounding moves it,
further than the scripts' tolerance of 10 in 10000, so `NavToleranceBps` is 8 of 200: both verdicts of gate B occur. Two runs, three runs and signed transactions together: a run, the run that
inherits its wreck and one transaction of the panel. `MCFollows` names the pairs
that share what the first leaves behind.

Feed. Two lanes, two tiers whose next expiry coincides, two oracles. The
clock visits the instants where a guard changes: just before the safety window, the last
millisecond, the expiry, and ten seconds later. One fault anywhere.
Subscriber: three oracles and batches of two, so that a sync can add or
remove a chunk; two drops, three syncs.

Scripts. Two kills give a wreck and a wreck of the recovery; two
generations tell old from new; five attempts are the code's; the pool has two lanes, four coins and
four caps, so that every lane's cap can be created twice. A fee of two and a minimum of five in a pool of sixteen leave a lane
below its floored share of the pool right after a refresh, which is the case `RefreshSettles` is about.

### Fairness

Vault, limiter, clients and scripts have safety properties and assume none.

* `relay_live`: weak fairness of applying, of a write settling either
  way and of timers (the event loop runs what is ready), and strong fairness of
  `Fetch`, as the RPC node answers infinitely often if it is asked infinitely often.
* `feed`: weak fairness of boot, the clock, the price feed, both timers, the
  manager's steps, and of each lane: a submitted transaction is executed and
  answered, or its answer is lost, or it is dropped.
* `subscriber`: weak fairness of the socket opening and authenticating, of the reconnect
  timer, of microtasks and of the server's samples.
* `dashboard`: weak fairness of the clock, commits, the interval, timers, of a
  socket opening or closing, of frames arriving, and of the relay being restarted (Render starts the service again, and the keepalive cron wakes it).

Nothing is assumed of faults, crashes, signals or the disk; their number is bounded, and the
liveness properties speak of what follows the last one.

## Proofs

The lemmas about operators are in `HelperProofs`: floor and ceiling division, the laws of
`SumOver` for values in Nat (defined through cardinality, so that they follow from the
library's theorems on finite sets), the listing `InOrder` of a finite set, which contains each
member once and in order, and one call of the limiter.

### The vault and its limiter

`RateLimiterProofs`: `WindowBound` is not inductive, since it does not say what is
left in the bucket. `WindowInv` adds that what was spent plus the level refilled to
the present still fits the allowance; consume moves one into the other, a tick
raises the level by at most the rate, and opening a window leaves at most the
capacity. `RateLimit` and `QuotedIsConsumed` follow. For `GaugeIsHonest` the same bounds are kept
for a reading in flight and for the view that it becomes (`GaugeInv`), and the hook's
own refill is shown to be the contract's.

`VaultProofs`: `IInv` is `TypeOK`, `BookBalanced`, `SharesBacked` and
`RegistryIndexed` together. They need each other: that a cancelled slot's shares fit
the wallet follows from both being part of a supply that fits u64; that a roll
overwrites nothing follows from rows of one oracle expiring together; that the cap
survives a roll follows from the index being exact. There is one lemma per action.
What follows from `IInv`:

* `HaircutIsSafe`, as the liquid balance is part of the total;
* `ExitNeverDilutes`: with v the floored NAV, v T <= A S and p S <= c v give
  p T <= c A, so the payout p is at most the burned shares' part of the assets;
* `ExitsAreNotBlocked`: a payout is at most the value of the slot's shares, so the shares
  it consumes, rounded up, are at most the slot's; slot and liquid balance are parts
  of the cached totals, and the bucket's quote is consumable;
* `FullPayoutCloses`: flooring the value loses less than one share's worth when a share is worth
  a unit, so rounding the burn up takes every share;
* `MintsEndAtExpiry`: supply, roll and the owners' own mints all need a live oracle,
  which is one before its expiry, and the other steps only shrink a holding;
* `SlotsDrain`: a second request aborts, a fulfilment only shrinks, a cancel closes;
* `CustodyFollowsRegistry`: a deposit, a consolidation and a roll move a row and the
  suppliers' positions by the same quantity; for the roll the sums over all
  managers are compared before and after.

For `VaultClients` the same module adds what each transaction does to the ledger and the coins,
from the lemmas on the vault's actions, and three invariants (`ClientsInv`) on top of `IInv`:

* `Ledgers`: coins are finite tables with ids below the next one, so that a created coin is a
  new one, and the vault keeps `IInv`, so that each transaction changes a purse by what it says;
* `PanelInv`: a deposit under way has the amount that was shown (`DepositsAsShown`; that the
  step is the panel's follows from every script step on the ledger leaving its place in the run);
* `ScriptInv`: `Paid` says at each step of a run what it has been paid and what the signer's
  purse holds, which gives `GreenMeansPaid` and `PaidAtMostOnce`; `Traced` says that the vault
  is as the last entry left it, and that the entry under way replays, which
  gives `TracesReplay`.

`LedgerImplemented` proves the refinement, one lemma for each step of the ledger on top of `IInv` and
of `SlotsHold`: no slot is empty, as a fulfilment that burns the last share destroys its slot (else a
cancel would be a step that the ledger has not). `ExitNeverDilutes` is its part about payments, read on the vault's own totals.
`ClientsUseLedger` says the same of `VaultClients`, whose transactions are the vault's actions with
coins attached; with it, `CoinsAreTheShares` proves that the number by which `Vault` counts a holder's shares
is the sum of the holder's SHARE coins (`CoinsCounted`), so that counting them as a number loses nothing.
Both rest on `ClientsInv`; no run checks them, and `CoinsCounted` is stated in `VaultProofs` only.

For `VaultEvents`, `ExposureIsSound` is about a fold, whose defining recursion the provers cannot
reach by induction over data. What is proved of it is its own equation, `TableStep` (the table after a run of events and
one more is the last event applied to the table before it): the fold exists because there is no
least number of events without one, which is a choice of a natural number and needs no induction. A
ring's end after a push is then an end of the old ring followed by the new events, or an end of the new events
alone (`EndsOfPushed`). `EventInv` adds to `IInv` that the table of every end, expired rows
included, `Fits`: its rows are keys of the registry with no more than their cost, or unwound, and
they add up to at most the assets that are not liquid. The filter on expiry comes last because a
row that it hides now must still be counted when an event refers to it. A roll is where it is delicate: the rows
rolled are gone only if an event for each of them follows, and the replacement shows
nothing.

### The relay and the dashboard

`RelayProofs`: `NoEventSkipped` alone is not inductive. The event applied next comes
from a page fetched some awaits ago; `PageFollows` says that what is left of the page
still continues the cursor in memory, and `WithinLog` that page and cursors lie on the
chain. `RelayInv` joins them with the types. A failed write keeps `PageFollows`
because the page is dropped; a restart keeps it because the page is empty. That
`pushRing`'s loop ends is a lemma on least naturals. `RingIsFaithful` and `FeedsJoinUp`
rest on `RingInv`: ring and feeds reach up to the cursor in memory (`UpTo`: each stream's positions
ascend and nothing up to the cursor is missing behind the first), and the ring is
what is left of a client's feed after dropping a prefix. Without the cursor the next event
might repeat the last one or leave a gap.

`DashboardProofs`: `OneAttempt` is inductive with what the handlers may do in
each state of the socket; `DisposedStaysQuiet` adds that every callback checks the flag.
`LiveEnds` and `LiveRecent` need `LiveInv`: the interval's values are behind the hook's only
until the next commit, and "live" is no older than the threshold plus a second if
the interval is due and one more if a reconnection has restarted it. `ClientCovers` needs
`WireInv`: the events held, the frames in flight and what the relay has yet to send are
one run of consecutive positions.

### The oracle feed

`OracleFeedProofs` has four invariants, each on top of the ones before:

* `Inv`, for the refinement `LanesAreGated` (`Spec => LanesGated`): an awaited
  transaction is alone on its lane, no push is awaited once the manager is past the
  drain, the manager's own transactions are awaited only in the phases that send them, and a
  process that is down has no window. That a push takes an idle lane is a fact on the
  first lane of the rotation, by the well-ordering of the naturals.
* `Types` (`FeedTypes`), where the work is in the calendar, whose expiries are naturals,
  and in discovery, which builds the registry out of what the chain has.
* `Sound`, for `MarksAreHonest` and `PushesNeverSettle`: a transaction in flight names only oracles
  on the chain, with samples that the chain has or that it brings, and a push was quoted in
  time for the oracles it names; the service's oracles mirror the chain's.
* `Settling` and `Counted`, for `OneOracleEach`: only an oracle whose expiry is past is settled or
  compacted, so that an expiry the loop still wants is one whose oracle the service knows
  or has lost to a fault; every creation out of the window's sight cost a fault, and
  where the loop may create there is room for one more.

`SubscriberProofs`: `stop` clears the timer before it closes the
socket, and the close handler that runs afterwards must not arm another; the invariant
relates the flag, the timer and the socket. For `WantedIsSubscribed`, `SubsInv` says that what is tracked is what was
wanted last and, on an open and authenticated socket with no microtask due, subscribed;
that a resubscription reaches everything is a count: an oracle's chunk is told by how many are sent
before it, and there are as many `client_id`s as oracles.

### The operator's scripts

`OperatorProofs` proves one invariant for each activity and `Programs`, which keeps them
apart. `DeployInv`: the files, and the constants a running script imported, name objects of the chain,
and at each step of a script what it holds was made by the steps before; what was announced
is untouched until a publication. `SimInv`: the objects in use are a complete setup, the rows behind
the current one have landed once each, and a `results.json` was written at the end of such a replay.
`PoolInv`: the wallet has no duplicate coins, caps read and created are the signer's and distinct, the lanes' coins
are known and exist, and coins that were just made even are worth their share of the total. For the
number of caps, `CapsBounded` counts a createCaps under way as if it had landed, and says that
a start about to create the missing caps has read all but the surplus: so a late one of its predecessor
costs one cap for each lane and no more (`CapsAreKept`). The
arithmetic of `RefreshesSettle` is that a share of the pool, a fee short, is at least the minimum when
the pool holds the minimum and a fee for each lane.

### What the proofs assume, and what they leave to TLC

Assumptions are the ASSUMEs of the modules: the constants' types,
finiteness of users, oracles, strikes and coins, non-zero seed, virtual shares, scales, lanes and pages, at least one
coin, thresholds and delays in the order of the code's values, `LatencyMs <= SafetyWindowMs`, and that the markers for
"no view" and "no snapshot" differ from a bucket and a ring, and that the key of the scripts is not the wallet
connected to the dashboard (else the user's own deposits would move the balance that a smoke test compares). The clocks' bounds, the numbers of faults, kills, drops and
windows, and the input sets are arbitrary.

Only model-checked:

* liveness (`EventuallyServed`, `EventuallyLive`, `EventuallyCompacted`, `PushNotStarved`,
  `EventuallyQuoted`), which with ENABLED is outside the prover's reach;
* `RollPossible`, which a run refutes.

Type invariants are proved for the limiter, the vault, the relay and the feed, and as parts of the other
components' inductive invariants.

## What the code does that a reader may not expect

Visible while modelling, in one definition or in the states of a run, and kept out of the
properties:

* Vault. `total_assets` keeps the cost basis of a hedge the admin has unwound
  (`vault.move:121`, `720`). A supply dilutes the NAV by its rounding and its hedge
  (`nav_monotone.move:6` allows a basis point, `supply.move:151`). The admin can
  remove a supplier's hedge from the registry but not redeem it from the supplier's manager (`vault.move:701`, `728`).
  `admin_tune_strategy` accepts a rate at or above the capacity, which makes the bucket of a
  first-time redeemer abort (`redeem.move:240`). `escrow_balance` is called a mirror of
  the request slots (`vault.move:102`) and `claimed_so_far` the sum of partial payouts
  (`vault.move:78`), but no code adds to either.
* Relay. A crash between applying and writing applies events again
  (`pollOracleSVI.ts:103`). A client that connects just after a restart may get an empty
  ring (`relay.ts:61`). `pushRing` looks at the age of the head only, and streams
  that catch up at different times push older events behind newer ones
  (`snapshot.ts:11`). After a failed write the log says "cursor NOT advanced"
  (`pollOracleSVI.ts:109`), but the cursor in memory has advanced (`cursor.ts:55`).
* Dashboard. Live events extend the ring but leave the oracle surface at the last snapshot
  (`useWebSocket.ts:102`). A half-open socket stays 'down' until the browser closes it:
  there is no watchdog. Frames more often than once a second restart the interval
  before it fires. Rolled hedges lose their expiry in the table (`useExposure.ts:116`
  reads `expiry_ms`, the chain says `expiry`), and `HedgeUnwound`, which removes rows, is never
  emitted. `snapshot.vault` is always null. `findMatchingMint` may attribute a mint to the wrong
  deposit (`usePositions.ts:80`). The gauge ignores `enabled`.
* Forms and scripts. The redeem form keeps the share coin it found, which may be gone when it
  is used (`DepositWithdrawPanel.tsx:341`), and offers the first coin only. Gate B
  of the smoke tests fails on a freshly seeded vault and is skipped when the NAV before is 0
  (`testnet-smoke-test.ts:505`). A demo run leaves a manager behind. The coin redeemed
  may be an older one than the run's own.
* Feed. Overlapping pushes of different lanes may land out of order. A throw of the
  first window ends the process (`index.ts:67`). A refused authentication leaves an open
  socket without subscriptions (`subscriber.ts:319`). A merge that lands late leaves
  fewer coins than lanes (`bootstrap.ts:71`). `ensureCapsAndCoins` says that the signer then "owns
exactly `laneCount` OracleSVICaps" (`bootstrap.ts:13`), but it only adds caps: a feed killed with
createCaps submitted, whose transaction lands after the next start has read the caps
(`bootstrap.ts:28`) and before that start's own createCaps (`bootstrap.ts:32`), leaves two caps for every lane that
had none, for good. The `deploy` run reaches this state, a serving feed with four caps
for two lanes; `LanesKeepTheirCaps` does not excuse it but counts it (`overtaken`), and says
that there is no other such path. Later starts then sign with the first of the caps
as the node lists them, which need not be those of the start before. `createCaps` ignores the status of its effects.
* Deployment. `redeploy` reports the indexer as updated when its pattern did not match
  (`redeploy.ts:208`, `286`), where `publish` throws. `deployOracles` exits without writing
  the oracles already created (`deployOracles.ts:107`). A kill of `dusdcPublish` between its
  transactions leaves a package nobody names. `run.sh` cannot resume an instance
  that has `.env.localnet` and no `state.json`. Errors taken as retryable are assumed not to have
  landed (`runtime.ts:438`).

## Not modelled

* The SVI evaluator and its fixed-point helpers, the dashboard's port of them and the panels
  computed from it: 64-bit fixed-point arithmetic without state, whose result is
  an arbitrary input of the vault.
* Predict's pricing, PLP book, ranges and manager balances: the vault sees only their outcome.
* The backtest: a sequential simulation in floating point over recorded prices.
* Code generation, logging, configuration files, the relay's decoding of fields: functions
  from text to text.
* Of the relay the snapshot-only mode, heartbeats (they are in `Dashboard`) and
  `/healthz`; of the feed its health endpoint; of the dashboard the hooks that
  format a single read.
* The ownership spike, the margin mock, and the vendored scripts of DeepBook margin and governance,
  which no part of DeepVault calls.

`PROJECT.json` gives the reason for each component.

## Plan

1. Vault core, rate limiter, hedge registry over Predict; their invariants proved (done).
2. Relay: pollers, cursors, crash and restart, ring, fan-out (done).
3. Dashboard client, derived state, clients of the vault (done).
4. Oracle feed and subscriber, with the lanes' abstract specification, refinement and proof (done).
5. Deployment, simulation, gas lanes (done).
6. Proofs of the safety properties of the vault and its clients, relay, dashboard, feed and
   operator's scripts (done).
7. A share ledger (mint, escrow, burn) that `Vault` implements, checked and proved, and that the
   clients use (done).
8. Fixed-point helpers: `isqrt` against the integer square root on bounded inputs (open).
