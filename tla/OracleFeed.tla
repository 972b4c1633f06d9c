----------------------------- MODULE OracleFeed -----------------------------
(***************************************************************************)
(* The oracle-feed service: a push loop that batches price and SVI updates *)
(* over parallel gas lanes, and a manager window that creates, activates,  *)
(* settles and compacts the oracles, against the chain it writes to.       *)
(*                                                                         *)
(* JavaScript runs one callback at a time, so a stretch of code between    *)
(* two awaits is one action.  A transaction is submitted by one action,    *)
(* executed by the chain in another and answered in a third; an answer may *)
(* be lost, and a transaction whose answer was lost may still execute.     *)
(***************************************************************************)
EXTENDS FeedSchedule, FiniteSets, FiniteSetsExt

CONSTANTS
    LaneCount,          \* config.laneCount
    TiersEnabled,       \* config.tiersEnabled, in order
    ExpiriesPerTier,    \* config.expiriesPerTier
    MinLookaheadMs,     \* config.minLookaheadMs
    PriceCacheStaleMs,  \* config.priceCacheStaleMs
    SafetyWindowMs,     \* config.safetyWindowMs
    DrainTimeoutMs,     \* waitForAllLanesIdle's timeoutMs
    LatencyMs,          \* environment: a submitted push executes within this time
    DelayMs,            \* environment: how late a feed sample may arrive
    \* Bounds
    Instants,           \* the times the clock takes
    Horizon,            \* latest expiry the manager creates
    MaxOracles,         \* oracles on chain
    FaultBudget         \* RPC calls that fail or lose their answer, process deaths

Lanes == 0 .. LaneCount - 1
OracleIds == 1 .. MaxOracles
None == -1
Times == Instants \cup {None}

ASSUME FeedAssumption ==
    /\ LaneCount \in Nat \ {0}
    /\ TiersEnabled \in Seq(AllTiers)
    /\ ExpiriesPerTier \in Nat /\ MinLookaheadMs \in Nat /\ PriceCacheStaleMs \in Nat
    /\ SafetyWindowMs \in Nat /\ DrainTimeoutMs \in Nat
    /\ DelayMs \in Nat
    /\ LatencyMs \in Nat /\ LatencyMs <= SafetyWindowMs
    /\ Instants \subseteq Nat \ {0} /\ IsFiniteSet(Instants) /\ Instants # {}
    /\ Horizon \in Nat /\ MaxOracles \in Nat
    /\ FaultBudget \in Nat

VARIABLES
    now,       \* Date.now(), and the chain's clock
    chain,     \* the OracleSVI objects, in order of creation
    txs,       \* transactions submitted and not yet answered, or never answered
    mode,      \* "down", "booting" until main's own window ends, or "running"
    oracles,   \* state.oracles
    spot,      \* state.priceCache.spot: its receivedAtMs
    forwards,  \* state.priceCache.forwards: their receivedAtMs
    svi,       \* state.sviCache: receivedAtMs and lastPushedAtMs
    gasRef,    \* what each lane's gas coin reference is worth
    laneHint,  \* state.laneHint
    mgr,       \* the manager window: managerInFlight is phase # "idle"
    targets,   \* oracles the subscriber was last told of
    faults     \* history: RPC faults and process deaths so far

caches == <<spot, forwards, svi>>
lanes == <<gasRef, laneHint>>
service == <<mode, oracles, caches, lanes, mgr, targets>>
vars == <<now, chain, txs, service, faults>>

OnChain == [expiry : Nat, active : BOOLEAN, settled : BOOLEAN, compacted : BOOLEAN,
            caps : SUBSET Lanes, landed : SUBSET Instants]
Statuses == {"inactive", "active", "pending_settlement", "settled", "compacted"}
OracleState == [expiry : Nat, tier : AllTiers, status : Statuses, caps : SUBSET Lanes]
SviSample == [at : Times, pushed : Times]
Kinds == {"push", "create", "bootstrap", "settle", "compact"}
Phases == {"idle", "drain", "refresh", "discover", "create", "bootstrap", "settle", "compact"}

\* A transaction: the oracles it touches, the SVI samples it carries, the caps it
\* registers, the expiry and tier of an oracle it creates, when a push that has not
\* executed was sent; whether its gas reference is current, what became of it,
\* whether the service still awaits it, and whether the cache entry its SVI sample
\* came from is still in place.
Tx == [lane : Lanes, kind : Kinds, ids : SUBSET OracleIds, svis : [OracleIds -> Times],
       caps : SUBSET Lanes, expiry : Nat, tier : AllTiers \cup {NoTier},
       sentAt : Instants \cup {0}, valid : BOOLEAN, state : {"sent", "ok", "aborted"},
       awaited : BOOLEAN, mark : BOOLEAN]

TypeOK ==
    /\ now \in Instants
    /\ chain \in Seq(OnChain) /\ Len(chain) <= MaxOracles
    /\ txs \subseteq Tx
    /\ mode \in {"down", "booting", "running"}
    /\ DOMAIN oracles \subseteq OracleIds /\ oracles \in [DOMAIN oracles -> OracleState]
    /\ spot \in Times /\ forwards \in [OracleIds -> Times] /\ svi \in [OracleIds -> SviSample]
    /\ gasRef \in [Lanes -> {"fresh", "stale", "gone"}]
    /\ laneHint \in Lanes
    /\ mgr.phase \in Phases /\ mgr.at \in Instants \cup {0}
    /\ mgr.todo \in Seq(AllTiers \X Nat)
    /\ mgr.ids \subseteq OracleIds
    /\ targets \subseteq OracleIds
    /\ faults \in 0 .. FaultBudget

-----------------------------------------------------------------------------
\* hasFreshPriceSample
Fresh(at) == at # None /\ now - at <= PriceCacheStaleMs

Awaited(kinds) == {x \in txs : x.awaited /\ x.kind \in kinds}
Available(l) == \A x \in txs : x.awaited => x.lane # l
\* ensureCapsAndCoins pairs every cap with a coin it has just read.
FreshLanes == [l \in Lanes |-> "fresh"]
ManagerInFlight == mgr.phase # "idle"

\* nextAvailableLane: the first idle lane in round-robin order from laneHint.
IdleLanes == {l \in Lanes : Available(l)}
Distance(l) == (l - laneHint + LaneCount) % LaneCount
NextLane == CHOOSE l \in IdleLanes : \A k \in IdleLanes : Distance(l) <= Distance(k)

AdvanceHint == laneHint' = (NextLane + 1) % LaneCount

\* What makes the push timer start a manager window instead of a push.
ShouldRunManagerWindowNow ==
    \E i \in DOMAIN oracles :
        LET o == oracles[i]
        IN  \/ o.status = "inactive" /\ svi[i].at # None
            \/ o.status = "active" /\ now >= o.expiry
            \/ o.status = "pending_settlement" /\ Fresh(spot)
            \/ o.status = "settled"

\* newLaneTx: a transaction that pays with the lane's cached gas reference.
NewLaneTx(l, kind) ==
    [lane |-> l, kind |-> kind, ids |-> {}, svis |-> [i \in OracleIds |-> None],
     caps |-> {}, expiry |-> 0, tier |-> NoTier, sentAt |-> 0,
     valid |-> gasRef[l] = "fresh", state |-> "sent", awaited |-> TRUE, mark |-> TRUE]

-----------------------------------------------------------------------------
\* Mutant: the safety window is not applied.
PushableToExpiry(i) ==
    /\ oracles[i].status = "active"
    /\ now < oracles[i].expiry
    /\ Fresh(forwards[i])

\* The push loop.  Oracles close to their expiry are left out of the batch.
Pushable(i) ==
    /\ oracles[i].status = "active"
    /\ now < oracles[i].expiry - SafetyWindowMs
    /\ Fresh(forwards[i])

SviDue(i) == svi[i].at # None /\ (svi[i].pushed = None \/ svi[i].at > svi[i].pushed)

Batch == {i \in DOMAIN oracles : Pushable(i)}

\* The transaction a push tick submits.
PushTx ==
    [NewLaneTx(NextLane, "push") EXCEPT
        !.ids = Batch, !.sentAt = now,
        !.svis = [i \in OracleIds |->
                    IF i \in Batch /\ SviDue(i) THEN svi[i].at ELSE None]]

\* Mutant: the tick does not look at managerInFlight.
TickRunsDuringWindow == mode = "running" /\ ~ShouldRunManagerWindowNow /\ IdleLanes # {}

\* What stops a tick before it builds a batch.
TickRuns == mode = "running" /\ ~ManagerInFlight /\ ~ShouldRunManagerWindowNow /\ IdleLanes # {}

\* pushTick that submits a batch.
PushTick ==
    /\ TickRuns
    /\ Fresh(spot)
    /\ Batch # {}
    /\ AdvanceHint
    /\ txs' = txs \cup {PushTx}
    /\ UNCHANGED <<now, chain, mode, oracles, caches, gasRef, mgr, targets,
                   faults>>

\* pushTick that finds nothing to push has still taken its turn at a lane.
PushTickSkipped ==
    /\ TickRuns
    /\ ~Fresh(spot) \/ Batch = {}
    /\ AdvanceHint
    /\ UNCHANGED <<now, chain, txs, mode, oracles, caches, gasRef, mgr,
                   targets, faults>>

-----------------------------------------------------------------------------
\* The manager window.  The push timer opens it when there is lifecycle work,
\* the manager timer at any time.
\* at is when it opened, while it drains, and the time it read, while it discovers.
NoWindow == [phase |-> "idle", at |-> 0, todo |-> <<>>, ids |-> {}]
OpenWindow ==
    mgr' = [NoWindow EXCEPT !.phase = IF IdleLanes = Lanes THEN "refresh" ELSE "drain",
                            !.at = now]
Phase(p) == mgr' = [mgr EXCEPT !.phase = p, !.at = 0, !.ids = DOMAIN oracles]
CloseWindow == mgr' = NoWindow
OnlyWindow == UNCHANGED <<now, chain, txs, mode, oracles, caches, lanes,
                          targets, faults>>

\* A window that throws: a timer logs it, but main's own window ends the process.
WindowThrows ==
    /\ CloseWindow
    /\ mode' = IF mode = "booting" THEN "down" ELSE mode
    /\ UNCHANGED <<now, chain, oracles, caches, laneHint, targets>>

PushTimerOpensWindow ==
    /\ mode = "running" /\ ~ManagerInFlight /\ ShouldRunManagerWindowNow
    /\ OpenWindow
    /\ OnlyWindow

ManagerTimer ==
    /\ mode = "running" /\ ~ManagerInFlight
    /\ OpenWindow
    /\ OnlyWindow

\* waitForAllLanesIdle
LanesDrained ==
    /\ mgr.phase = "drain"
    /\ IdleLanes = Lanes
    /\ now < mgr.at + DrainTimeoutMs
    /\ Phase("refresh")
    /\ OnlyWindow

DrainTimedOut ==
    /\ mgr.phase = "drain"
    /\ now >= mgr.at + DrainTimeoutMs
    /\ WindowThrows
    /\ UNCHANGED <<txs, gasRef, faults>>

\* refreshGasLanesIfNeeded.  The balances that decide whether a refresh is needed
\* are abstracted to a choice, but a lane whose coin is gone always needs one.
\* The refresh merges every coin and splits it again, so the gas reference of a
\* transaction nobody awaits any more is void.
Refreshed == mgr' = [mgr EXCEPT !.phase = "discover", !.at = now]

GasRefreshNoop ==
    /\ mgr.phase = "refresh"
    /\ \A l \in Lanes : gasRef[l] # "gone"
    /\ Refreshed
    /\ OnlyWindow

GasRefreshed ==
    /\ mgr.phase = "refresh"
    /\ txs' = {}
    /\ gasRef' = FreshLanes
    /\ Refreshed
    /\ UNCHANGED <<now, chain, mode, oracles, caches, laneHint, targets,
                   faults>>

\* The refresh throws and ends the window: before its transaction executed, or
\* after, when only the coin it paid with still exists.
GasRefreshThrows ==
    /\ mgr.phase = "refresh"
    /\ faults < FaultBudget
    /\ faults' = faults + 1
    /\ \/ UNCHANGED <<txs, gasRef>>
       \/ \E p \in Lanes : /\ gasRef' = [l \in Lanes |-> IF l = p THEN "stale" ELSE "gone"]
                           /\ txs' = {}
    /\ WindowThrows

\* Mutant: an unsettled check comes before the settled one.
ClassifyStatusPendingFirst(c, isCompacted, at) ==
    IF isCompacted THEN "compacted"
    ELSE IF at >= c.expiry THEN "pending_settlement"
    ELSE IF c.settled THEN "settled"
    ELSE IF ~c.active THEN "inactive" ELSE "active"

\* classifyStatus
ClassifyStatus(c, isCompacted, at) ==
    IF isCompacted THEN "compacted"
    ELSE IF c.settled THEN "settled"
    ELSE IF at >= c.expiry THEN "pending_settlement"
    ELSE IF ~c.active THEN "inactive" ELSE "active"

TierSet == {TiersEnabled[k] : k \in DOMAIN TiersEnabled}

\* oracleIdsForCap over the service's caps: every oracle was created with lane 0's
\* cap, and a failed devInspect reads as an empty list.
DiscoveredIds(idsRead) ==
    IF idsRead
    THEN {i \in 1 .. Len(chain) : InferTier(chain[i].expiry, TierSet) # NoTier}
    ELSE {}

\* fetchCompactedOracleIds: a failed read of settled_oracles reads as an empty set.
CompactedIds(settledRead) == {i \in DOMAIN chain : settledRead /\ chain[i].compacted}

\* parseOracleObject, and what discoverOracles makes of it.
Discovered(c, status) ==
    [expiry |-> c.expiry, tier |-> InferTier(c.expiry, TierSet), status |-> status,
     caps |-> c.caps]

DiscoverOracles(idsRead, settledRead, at) ==
    [i \in DiscoveredIds(idsRead) |->
        Discovered(chain[i], ClassifyStatus(chain[i], i \in CompactedIds(settledRead), at))]

\* reconcileLocalOracles: known oracles keep their tier, undiscovered and compacted
\* ones are dropped.
ReconcileLocalOracles(found) ==
    [i \in {j \in DOMAIN found : found[j].status # "compacted"} |->
        IF i \in DOMAIN oracles
        THEN [oracles[i] EXCEPT !.status = found[i].status, !.caps = found[i].caps]
        ELSE found[i]]

\* The (tier, expiry) pairs the create loop visits, tier by tier.
WantedOf(k) ==
    LET tier == TiersEnabled[k]
        expiries == ExpectedExpiriesForTier(tier, mgr.at, ExpiriesPerTier, MinLookaheadMs)
    IN  [n \in 1 .. ExpiriesPerTier |-> <<tier, expiries[n]>>]

Wanted ==
    [n \in 1 .. Len(TiersEnabled) * ExpiriesPerTier |->
        WantedOf((n - 1) \div ExpiriesPerTier + 1)[((n - 1) % ExpiriesPerTier) + 1]]

FaultCost(idsRead, settledRead) == (IF idsRead THEN 0 ELSE 1) + (IF settledRead THEN 0 ELSE 1)

ManagerDiscovers ==
    /\ mgr.phase = "discover"
    /\ \E idsRead, settledRead \in BOOLEAN :
        /\ faults' = faults + FaultCost(idsRead, settledRead)
        /\ faults' <= FaultBudget
        /\ oracles' = ReconcileLocalOracles(DiscoverOracles(idsRead, settledRead, mgr.at))
    /\ mgr' = [mgr EXCEPT !.phase = "create", !.at = 0, !.todo = Wanted]
    /\ UNCHANGED <<now, chain, txs, mode, caches, lanes, targets>>

\* multiGetObjects throws and ends the window.
DiscoveryThrows ==
    /\ mgr.phase = "discover"
    /\ faults < FaultBudget
    /\ faults' = faults + 1
    /\ WindowThrows
    /\ UNCHANGED <<txs, gasRef>>

\* A lifecycle step awaits its transaction before the next one is considered.
NoStepInFlight == Awaited(Kinds \ {"push"}) = {}

\* The manager submits a step on lane 0.
SubmitStep(x) ==
    /\ txs' = txs \cup {x}
    /\ UNCHANGED <<now, chain, mode, oracles, caches, lanes, targets,
                   faults>>

\* Mutant: deduplication by tier and expiry.
HaveInTier(tier, e) == \E i \in DOMAIN oracles : oracles[i].expiry = e /\ oracles[i].tier = tier

\* Deduplication in the create loop is by expiry, across tiers.
Have(tier, e) == \E i \in DOMAIN oracles : oracles[i].expiry = e

\* The wanted pairs the loop passes over; the Horizon is TLC's bound.
PassesOver(want) == Have(want[1], want[2]) \/ want[2] > Horizon

\* createOracleStep for the first wanted expiry that no local oracle has.
CreateOracleStep ==
    /\ mgr.phase = "create" /\ NoStepInFlight
    /\ \E k \in DOMAIN mgr.todo :
        LET want == mgr.todo[k]
        IN  /\ ~PassesOver(want)
            /\ \A j \in 1 .. k - 1 : PassesOver(mgr.todo[j])
            /\ mgr' = [mgr EXCEPT !.todo = SubSeq(@, k + 1, Len(@))]
            /\ SubmitStep([NewLaneTx(0, "create") EXCEPT !.tier = want[1],
                                                         !.expiry = want[2]])

CreateLoopDone ==
    /\ mgr.phase = "create" /\ NoStepInFlight
    /\ \A k \in DOMAIN mgr.todo : PassesOver(mgr.todo[k])
    /\ mgr' = [mgr EXCEPT !.phase = "bootstrap", !.todo = <<>>, !.ids = DOMAIN oracles]
    /\ OnlyWindow

\* The oracles a lifecycle loop still has work on.
Due(phase) ==
    {i \in mgr.ids \cap DOMAIN oracles :
        \/ phase = "bootstrap" /\ oracles[i].status = "inactive" /\ svi[i].at # None
        \/ phase = "settle" /\ oracles[i].status = "pending_settlement" /\ Fresh(spot)
        \/ phase = "compact" /\ oracles[i].status = "settled"}

\* The loops visit a snapshot of the oracles in insertion order.
Visit(phase, i) ==
    /\ mgr.phase = phase /\ NoStepInFlight
    /\ i \in Due(phase)
    /\ \A j \in Due(phase) : i <= j
    /\ mgr' = [mgr EXCEPT !.ids = {j \in @ : j > i}]

LoopDone(phase, next) ==
    /\ mgr.phase = phase /\ NoStepInFlight
    /\ Due(phase) = {}
    /\ Phase(next)
    /\ OnlyWindow

\* bootstrapOracleStep: register the missing caps, activate, push the SVI sample.
BootstrapOracleStep(i) ==
    /\ Visit("bootstrap", i)
    /\ SubmitStep([NewLaneTx(0, "bootstrap") EXCEPT
                      !.ids = {i}, !.caps = Lanes \ oracles[i].caps,
                      !.svis = [@ EXCEPT ![i] = svi[i].at]])

\* settleOracleStep: a price update on an expired oracle freezes its settlement.
SettleOracleStep(i) ==
    /\ Visit("settle", i)
    /\ SubmitStep([NewLaneTx(0, "settle") EXCEPT !.ids = {i}, !.caps = {0} \ oracles[i].caps])

CompactOracleStep(i) ==
    /\ Visit("compact", i)
    /\ SubmitStep([NewLaneTx(0, "compact") EXCEPT !.ids = {i}, !.caps = {0} \ oracles[i].caps])

\* The end of a window that threw nothing: the subscriber learns the oracles.
WindowDone ==
    /\ mgr.phase = "compact" /\ NoStepInFlight
    /\ Due("compact") = {}
    /\ targets' = DOMAIN oracles
    /\ mode' = "running"
    /\ CloseWindow
    /\ UNCHANGED <<now, chain, txs, oracles, caches, lanes, faults>>

-----------------------------------------------------------------------------
\* The chain.  Registering a cap twice aborts; a price update at or after expiry
\* settles the oracle; an SVI update after it aborts.
CapsOK(x, c) == x.caps \cap c.caps = {} /\ x.lane \in c.caps \cup x.caps

Executes(x) ==
    /\ \A i \in x.ids :
        LET c == chain[i]
        IN  /\ CapsOK(x, c)
            /\ x.kind \in {"push", "settle"} => ~c.settled
            /\ x.svis[i] # None => now < c.expiry
            /\ x.kind = "bootstrap" => ~c.active /\ now < c.expiry
            /\ x.kind = "compact" => c.settled

Effect(x, c, i) ==
    [c EXCEPT
        !.caps = @ \cup x.caps,
        !.active = IF x.kind = "bootstrap" THEN TRUE
                   ELSE IF x.kind \in {"push", "settle"} /\ now >= c.expiry THEN FALSE ELSE @,
        !.settled = @ \/ (x.kind \in {"push", "settle"} /\ now >= c.expiry),
        !.compacted = @ \/ x.kind = "compact",
        !.landed = @ \cup ({x.svis[i]} \ {None})]

NewOracle(e) ==
    [expiry |-> e, active |-> FALSE, settled |-> FALSE, compacted |-> FALSE,
     caps |-> {}, landed |-> {}]

\* The chain after x: its writes, or an oracle more.
ChainAfter(x) ==
    IF x.kind = "create"
    THEN Append(chain, NewOracle(x.expiry))
    ELSE [i \in DOMAIN chain |-> IF i \in x.ids THEN Effect(x, chain[i], i) ELSE chain[i]]

\* Execution takes the lane's gas coin to a new version, so whatever else paid with
\* the old one can no longer execute and the cached reference is stale.
Execute(x) ==
    /\ x.state = "sent" /\ x.valid
    /\ x.kind = "create" => Len(chain) < MaxOracles
    /\ chain' = IF Executes(x) THEN ChainAfter(x) ELSE chain
    /\ LET done == [x EXCEPT !.state = IF Executes(x) THEN "ok" ELSE "aborted",
                             !.ids = IF x.kind = "create" THEN {Len(chain) + 1} ELSE @,
                             !.sentAt = 0, !.valid = FALSE]
           others == {y \in txs \ {x} : y.lane # x.lane}
           rivals == {[y EXCEPT !.valid = FALSE] : y \in {z \in txs \ {x} : z.lane = x.lane
                                                                            /\ z.awaited}}
       IN  txs' = others \cup rivals \cup (IF x.awaited THEN {done} ELSE {})
    /\ gasRef' = [gasRef EXCEPT ![x.lane] = "stale"]
    /\ UNCHANGED <<now, mode, oracles, caches, laneHint, mgr, targets,
                   faults>>

\* A transaction nobody awaits may also never execute.
Drop(x) ==
    /\ ~x.awaited
    /\ txs' = txs \ {x}
    /\ UNCHANGED <<now, chain, service, faults>>

-----------------------------------------------------------------------------
\* executeLaneTx, after a success: the lane adopts the coin version in the effects.
LaneFreed(x) == gasRef' = [gasRef EXCEPT ![x.lane] = "fresh"]

\* Mutant: the sample is marked with the time of the newest one.
PushedMarksNewest(x) ==
    [i \in OracleIds |-> IF x.svis[i] # None THEN [svi[i] EXCEPT !.pushed = svi[i].at]
                         ELSE svi[i]]

\* lastPushedAtMs becomes the time of the sample that was sent, on whichever
\* sample is cached by now.
PushedMarks(x) ==
    [i \in OracleIds |-> IF x.svis[i] # None THEN [svi[i] EXCEPT !.pushed = x.svis[i]]
                         ELSE svi[i]]

PushAnswered(x) ==
    /\ x \in Awaited({"push"}) /\ x.state = "ok"
    /\ txs' = txs \ {x}
    /\ LaneFreed(x)
    /\ svi' = PushedMarks(x)
    /\ UNCHANGED <<now, chain, mode, oracles, spot, forwards, laneHint, mgr, targets,
                   faults>>

StepAnswered(x) ==
    /\ x.awaited /\ x.state = "ok"
    /\ txs' = txs \ {x}
    /\ LaneFreed(x)
    /\ UNCHANGED <<now, chain, mode, spot, forwards, laneHint, mgr, targets,
                   faults>>

\* parseOracleEvents: the oracles that OracleCreated or OracleSettled events name.
EventOf(x) == IF x.kind \in {"create", "settle"} THEN x.ids ELSE {}

\* createOracleStep after its answer: the OracleCreated event names the oracle.
CreateAnswered(x) ==
    /\ x.kind = "create" /\ StepAnswered(x)
    /\ oracles' = [i \in DOMAIN oracles \cup EventOf(x) |->
                     IF i \in EventOf(x)
                     THEN [expiry |-> x.expiry, tier |-> x.tier, status |-> "inactive",
                           caps |-> {}]
                     ELSE oracles[i]]
    /\ UNCHANGED svi

\* bootstrapOracleStep after its answer.  It marks the sample object it captured:
\* if a newer sample replaced it in the cache, the mark is lost with it.
BootstrapAnswered(x) ==
    /\ x.kind = "bootstrap" /\ StepAnswered(x)
    /\ oracles' = [i \in DOMAIN oracles |->
                     IF i \in x.ids
                     THEN [oracles[i] EXCEPT !.caps = Lanes, !.status = "active"]
                     ELSE oracles[i]]
    /\ svi' = IF x.mark THEN PushedMarks(x) ELSE svi

\* settleOracleStep after its answer, which carries the OracleSettled event.
SettleAnswered(x) ==
    /\ x.kind = "settle" /\ StepAnswered(x)
    /\ oracles' = [i \in DOMAIN oracles |->
                     IF i \in EventOf(x)
                     THEN [oracles[i] EXCEPT !.caps = @ \cup x.caps, !.status = "settled"]
                     ELSE oracles[i]]
    /\ UNCHANGED svi

CompactAnswered(x) ==
    /\ x.kind = "compact" /\ StepAnswered(x)
    /\ oracles' = [i \in DOMAIN oracles \ x.ids |-> oracles[i]]
    /\ UNCHANGED svi

\* Effects that are not a success: the version moved, the lane's reference did not.
AbortAnswered(x) ==
    /\ x.awaited /\ x.state = "aborted"
    /\ txs' = txs \ {x}
    /\ UNCHANGED <<now, chain, service, faults>>

\* Mutant: the reference is not refreshed.
RefreshLaneGasRefSkipped(l) == gasRef

\* refreshLaneGasRef: a coin that is gone cannot be re-read.
RefreshLaneGasRef(l) == IF gasRef[l] = "gone" THEN gasRef ELSE [gasRef EXCEPT ![l] = "fresh"]

\* The node refuses a stale gas reference, and the lane re-reads it.
StaleGasAnswered(x) ==
    /\ x.awaited /\ x.state = "sent" /\ ~x.valid
    /\ txs' = txs \ {x}
    /\ gasRef' = RefreshLaneGasRef(x.lane)
    /\ UNCHANGED <<now, chain, mode, oracles, caches, laneHint, mgr, targets,
                   faults>>

\* An RPC error: the lane is freed and nothing else happens, whatever became of
\* the transaction.  This also stands for a failed refreshLaneGasRef.
AnswerLost(x) ==
    /\ x.awaited
    /\ faults < FaultBudget
    /\ faults' = faults + 1
    /\ txs' = (txs \ {x}) \cup
              (IF x.state = "sent" /\ x.valid THEN {[x EXCEPT !.awaited = FALSE]} ELSE {})
    /\ UNCHANGED <<now, chain, service>>

-----------------------------------------------------------------------------
\* applyValue.  A frame holds the values of one batch of subscriptions (spot, forwards
\* or SVI), stamped by the server, and may be late.  The server quotes no expired
\* oracle.
SampleTimes == {t \in Instants : t <= now /\ now - t <= DelayMs}
Quoted == {i \in targets : now < chain[i].expiry}

SpotArrives ==
    /\ mode # "down" /\ targets # {}
    /\ \E t \in SampleTimes \ {spot} : spot' = t
    /\ UNCHANGED <<now, chain, txs, mode, oracles, forwards, svi, lanes, mgr,
                   targets, faults>>

ForwardsArrive ==
    /\ mode # "down"
    /\ \E t \in SampleTimes :
        forwards' = [i \in OracleIds |-> IF i \in Quoted THEN t ELSE forwards[i]]
    /\ forwards' # forwards
    /\ UNCHANGED <<now, chain, txs, mode, oracles, spot, svi, lanes, mgr,
                   targets, faults>>

\* A new sample object inherits the mark of the one it replaces; a bootstrap in
\* flight keeps hold of the old object.
SviArrive ==
    /\ mode # "down"
    /\ \E t \in SampleTimes :
        svi' = [i \in OracleIds |-> IF i \in Quoted THEN [svi[i] EXCEPT !.at = t] ELSE svi[i]]
    /\ svi' # svi
    /\ txs' = {IF x.kind = "bootstrap" /\ x.ids \subseteq Quoted THEN [x EXCEPT !.mark = FALSE]
               ELSE x : x \in txs}
    /\ UNCHANGED <<now, chain, mode, oracles, spot, forwards, lanes, mgr,
                   targets, faults>>

\* Time passes no further than a push's execution or the drain deadline allow.  A
\* price that has gone stale is dropped here: hasFreshPriceSample treats it as none.
StillFresh(at, t) == IF at # None /\ t - at <= PriceCacheStaleMs THEN at ELSE None

Tick ==
    /\ \E t \in Instants :
        /\ t > now /\ \A u \in Instants : u > now => t <= u
        /\ \A x \in txs : x.kind = "push" /\ x.state = "sent" => t <= x.sentAt + LatencyMs
        /\ mgr.phase = "drain" => t <= mgr.at + DrainTimeoutMs
        /\ now' = t
        /\ spot' = StillFresh(spot, t)
        /\ forwards' = [i \in OracleIds |-> StillFresh(forwards[i], t)]
    /\ UNCHANGED <<chain, txs, mode, oracles, svi, lanes, mgr, targets,
                   faults>>

\* The state main() builds: lanes on freshly read coins, empty caches.
Booted(found) ==
    /\ oracles' = found
    /\ spot' = None /\ forwards' = [i \in OracleIds |-> None]
    /\ svi' = [i \in OracleIds |-> [at |-> None, pushed |-> None]]
    /\ gasRef' = FreshLanes /\ laneHint' = 0
    /\ targets' = DOMAIN found

\* The process dies, or is told to shut down: what it awaited may still execute.
ProcessDies ==
    /\ mode # "down"
    /\ faults < FaultBudget
    /\ faults' = faults + 1
    /\ mode' = "down"
    /\ txs' = {[x EXCEPT !.awaited = FALSE] : x \in {y \in txs : y.state = "sent" /\ y.valid}}
    /\ Booted(<<>>)
    /\ CloseWindow
    /\ UNCHANGED <<now, chain>>

\* main(): discover, start the subscriber, and run the first manager window.
Boot ==
    /\ mode = "down"
    /\ mode' = "booting"
    /\ \E idsRead, settledRead \in BOOLEAN :
        /\ faults' = faults + FaultCost(idsRead, settledRead)
        /\ faults' <= FaultBudget
        /\ Booted(DiscoverOracles(idsRead, settledRead, now))
    /\ OpenWindow
    /\ UNCHANGED <<now, chain, txs>>

Init ==
    /\ now = Min(Instants)
    /\ chain = <<>> /\ txs = {}
    /\ mode = "down"
    /\ oracles = <<>>
    /\ spot = None /\ forwards = [i \in OracleIds |-> None]
    /\ svi = [i \in OracleIds |-> [at |-> None, pushed |-> None]]
    /\ gasRef = FreshLanes /\ laneHint = 0
    /\ mgr = NoWindow
    /\ targets = {}
    /\ faults = 0

\* What the manager does between two awaits.
ManagerStep ==
    \/ LanesDrained \/ GasRefreshNoop \/ GasRefreshed \/ ManagerDiscovers
    \/ CreateOracleStep \/ CreateLoopDone
    \/ \E i \in OracleIds :
        BootstrapOracleStep(i) \/ SettleOracleStep(i) \/ CompactOracleStep(i)
    \/ LoopDone("bootstrap", "settle") \/ LoopDone("settle", "compact")
    \/ WindowDone

Answered(x) ==
    \/ PushAnswered(x) \/ CreateAnswered(x) \/ BootstrapAnswered(x) \/ SettleAnswered(x)
    \/ CompactAnswered(x) \/ AbortAnswered(x) \/ StaleGasAnswered(x)

LaneStep(l) == \E x \in txs : x.lane = l /\ (Execute(x) \/ Answered(x))

Fault ==
    \/ DrainTimedOut \/ GasRefreshThrows \/ DiscoveryThrows \/ ProcessDies
    \/ \E x \in txs : AnswerLost(x) \/ Drop(x)

Next ==
    \/ PushTick \/ PushTickSkipped \/ PushTimerOpensWindow \/ ManagerTimer
    \/ ManagerStep
    \/ \E l \in Lanes : LaneStep(l)
    \/ SpotArrives \/ ForwardsArrive \/ SviArrive
    \/ Tick \/ Boot
    \/ Fault

\* Timers keep firing, the event loop runs what is ready, the chain and the feed
\* make progress; faults need not happen.  A transaction nobody awaits is
\* eventually executed or dropped.
Fairness ==
    /\ WF_vars(Boot) /\ WF_vars(Tick)
    /\ WF_vars(SpotArrives) /\ WF_vars(ForwardsArrive) /\ WF_vars(SviArrive)
    /\ WF_vars(PushTick) /\ WF_vars(PushTimerOpensWindow) /\ WF_vars(ManagerTimer)
    /\ WF_vars(ManagerStep) /\ WF_vars(DrainTimedOut)
    /\ \A l \in Lanes : WF_vars(LaneStep(l))
    /\ WF_vars(\E x \in txs : Drop(x))

Spec == Init /\ [][Next]_vars
FairSpec == Spec /\ Fairness

-----------------------------------------------------------------------------
\* The push loop and the manager share the lanes as readers and a writer share a
\* lock: a push is never awaited while the manager signs with a lane, however
\* timers, late answers, faults and restarts interleave.
Gate == INSTANCE LaneGate WITH
            pushing <- {x.lane : x \in Awaited({"push"})},
            exclusive <- mgr.phase \notin {"idle", "drain"}
LanesGated == Gate!Spec

\* Never two awaited transactions on one lane: they would pay with one coin version
\* and the second would fail.
OneTxPerLane ==
    \A x, y \in txs : x.awaited /\ y.awaited /\ x.lane = y.lane => x = y

\* What the service marks as pushed is on chain: a sample is not skipped because an
\* earlier answer was attributed to it.
SviMarkHonest ==
    \A i \in OracleIds :
        svi[i].pushed # None => i \in DOMAIN chain /\ svi[i].pushed \in chain[i].landed

\* The safety window does what its comment says: a push in flight, even one whose
\* answer was lost or whose process died, cannot reach an oracle at its expiry and
\* settle it at a price meant as a quote.
PushNeverSettles ==
    \A x \in txs : x.kind = "push" /\ x.state = "sent" =>
        \A i \in x.ids : now < chain[i].expiry

\* One oracle per expiry, but for one more per fault: a failed read hides the oracles
\* there are, and a creation nobody awaits any more may execute after the discovery
\* that missed it.
OneOraclePerExpiry ==
    \A i \in DOMAIN chain :
        Cardinality({j \in DOMAIN chain : chain[j].expiry = chain[i].expiry})
            <= 1 + faults

\* Every oracle whose expiry has come is settled and compacted in the end.
EventuallyCompacted ==
    \A i \in OracleIds :
        [](i \in DOMAIN chain /\ now >= chain[i].expiry
            => <>(i \in DOMAIN chain /\ chain[i].compacted))

\* Lifecycle work runs out: the push path is not starved by windows that the push
\* timer keeps opening.
PushNotStarved == <>[]~ShouldRunManagerWindowNow
=============================================================================
