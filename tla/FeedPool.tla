------------------------------ MODULE FeedPool ------------------------------
(***************************************************************************)
(* The start-up of the oracle feed and the upkeep of its gas lanes         *)
(* (bootstrap.ts): the OracleSVICaps and the SUI coins of the signer, from *)
(* which ensureCapsAndCoins makes the lanes, and the merging and splitting *)
(* with which refreshGasLanesIfNeeded keeps every lane able to pay.        *)
(* OracleFeed takes the refresh as a choice; here are the balances.        *)
(*                                                                         *)
(* The feed is a program of the terminal.  Its transactions between two    *)
(* windows are abstracted to the fees its lanes pay.  A coin or a cap is a *)
(* number, and nodes list objects in the order of their identifiers, which *)
(* is not the order they were created in.                                  *)
(***************************************************************************)
EXTENDS Terminal, Collections, FiniteSetsExt, Sequences, SequencesExt

CONSTANTS PoolLanes,     \* config.laneCount
          GasLaneMin,    \* config.gasLaneMinSui, in mist
          GasPoolFloor,  \* config.gasPoolFloorSui, in mist
          Fee,           \* environment: what a transaction costs
          Funding,       \* environment: the balance of the signer's first coin
          TopUps,        \* environment: the balances of coins sent to the signer, in order
          \* Bounds
          CoinIds, CapIds,
          MaxThrows      \* windows whose refresh throws

ASSUME PoolAssumption ==
    /\ PoolLanes \in Nat \ {0} /\ Fee \in Nat \ {0}
    /\ GasLaneMin \in Nat /\ GasPoolFloor \in Nat /\ Funding \in Nat /\ TopUps \in Seq(Nat)
    /\ CoinIds \subseteq Nat /\ IsFiniteSet(CoinIds) /\ CoinIds # {}
    /\ CapIds \subseteq Nat /\ IsFiniteSet(CapIds)
    /\ MaxThrows \in Nat

VARIABLES
    adminCap,   \* whether the signer owns the AdminCap
    ownedCaps,  \* the signer's OracleSVICaps
    sui,        \* the signer's SUI coins and their balances
    pending,    \* caps that a createCaps without a process may still create
    topUps,     \* history: coins sent to the signer so far
    knownCaps,  \* caps of ensureCapsAndCoins, then the capId of each lane
    laneCoin,   \* gasCoinId of each lane
    throws,     \* history: refreshes that threw in a window
    orphaned,   \* history: coins were merged behind the back of the lanes: by a refresh
                \* whose answer was lost, or by a late createCaps
    even,       \* history: no coin has changed since a refresh
    overtaken,  \* history: createCaps that landed when a later start had read the caps
    foreign     \* history: caps that others created beyond those of the lanes

wallet == <<adminCap, ownedCaps, sui, pending, topUps>>
process == <<knownCaps, laneCoin>>
surplus == <<overtaken, foreign>>
poolHistory == <<throws, orphaned, even, surplus>>
poolVars == <<wallet, process, poolHistory>>

PoolInit ==
    /\ adminCap = TRUE /\ ownedCaps = {} /\ pending = 0 /\ topUps = 0
    /\ sui = [c \in {Min(CoinIds)} |-> Funding]
    /\ knownCaps = <<>> /\ laneCoin = <<>>
    /\ throws = 0 /\ orphaned = FALSE /\ even = FALSE
    /\ overtaken = 0 /\ foreign = 0

PoolForget == knownCaps' = <<>> /\ laneCoin' = <<>>

-----------------------------------------------------------------------------
\* sumCoinBalances
SumCoinBalances == SumOver(DOMAIN sui, sui)

\* sortCoinsByBalanceDesc: equal balances by identifier.
ByBalanceDesc ==
    {p \in (DOMAIN sui) \X (DOMAIN sui) :
        sui[p[1]] > sui[p[2]] \/ (sui[p[1]] = sui[p[2]] /\ p[1] < p[2])}
SortCoinsByBalanceDesc == InOrder(DOMAIN sui, ByBalanceDesc)

FirstOf(s, n) == SubSeq(s, 1, IF n < Len(s) THEN n ELSE Len(s))

\* getOwnedCaps, in the order in which the node lists them.
GetOwnedCaps == InOrder(ownedCaps, Ascending(ownedCaps))

\* What a lane must hold: an equal share if the pool cannot give every lane the minimum.
MinBigInt(a, b) == IF a < b THEN a ELSE b
EffectiveMin == MinBigInt(GasLaneMin, SumCoinBalances \div PoolLanes)

\* needsRefresh, for the coins that a lane has or would get.
NeedsRefresh(selected) ==
    \/ Cardinality(DOMAIN sui) < PoolLanes
    \/ Len(selected) < PoolLanes
    \/ \E i \in DOMAIN selected :
        selected[i] \in DOMAIN sui => sui[selected[i]] < EffectiveMin

\* Mutant: one part too many.
AmountPerLaneShort == SumCoinBalances \div (PoolLanes + 1)

AmountPerLane == SumCoinBalances \div PoolLanes

\* What stays in the coin that pays, once everything is merged into it and the other
\* lanes' parts are split off.
PrimaryKeeps == SumCoinBalances - (PoolLanes - 1) * AmountPerLane

\* The transaction can be built and executes.
CanRefresh ==
    /\ DOMAIN sui # {}
    /\ PoolLanes > 1 => AmountPerLane > 0
    /\ PrimaryKeeps >= Fee /\ sui[SortCoinsByBalanceDesc[1]] >= Fee

\* New objects get identifiers that nothing has had.
FreshCoins == CoinIds \ (DOMAIN sui \cup ToSet(laneCoin))

\* Its effect.  A createCaps in flight paid with a coin version that is gone.
RefreshTx ==
    /\ CanRefresh
    /\ \E new \in kSubset(PoolLanes - 1, FreshCoins) :
        sui' = [c \in new \cup {SortCoinsByBalanceDesc[1]} |->
                  IF c \in new THEN AmountPerLane ELSE PrimaryKeeps - Fee]
    /\ pending' = 0
    /\ UNCHANGED <<adminCap, ownedCaps, topUps>>

-----------------------------------------------------------------------------
(* ensureCapsAndCoins *)
StartFeed ==
    /\ Starts("feed")
    /\ UNCHANGED poolVars

\* assertSignerOwnsAdminCap throws, and the process ends.
NotAdmin ==
    /\ At("feed", "start") /\ ~adminCap
    /\ Exits
    /\ UNCHANGED poolVars

ReadCaps ==
    /\ At("feed", "start") /\ adminCap
    /\ knownCaps' = GetOwnedCaps
    /\ Goto(IF Cardinality(ownedCaps) < PoolLanes THEN "createCaps" ELSE "coins")
    /\ UNCHANGED <<wallet, laneCoin, poolHistory>>

\* Mutant: as many as there are lanes, whatever the signer has.
MissingAll == PoolLanes

Missing == PoolLanes - Len(knownCaps)

\* A transaction whose gas the SDK chooses takes all coins, smashed into one.
SmashedCoins ==
    LET kept == SortCoinsByBalanceDesc[1]
    IN  [c \in {kept} |-> SumCoinBalances - Fee]

CanCreateCaps ==
    adminCap /\ SumCoinBalances >= Fee /\ Missing <= Cardinality(CapIds \ ownedCaps)

\* createCaps.  The new caps go behind those that were read.
CreateCaps ==
    /\ At("feed", "createCaps") /\ CanCreateCaps
    /\ \E new \in kSubset(Missing, CapIds \ ownedCaps) :
        /\ ownedCaps' = ownedCaps \cup new
        /\ \E order \in SetToSeqs(new) : knownCaps' = knownCaps \o order
    /\ sui' = SmashedCoins /\ pending' = 0
    /\ Goto("coins")
    /\ UNCHANGED <<adminCap, topUps, laneCoin, poolHistory>>

\* The process ends with the transaction submitted.  It may execute later, unless
\* another one takes its gas.
CreateCapsLost ==
    /\ At("feed", "createCaps") /\ CanCreateCaps
    /\ Dies
    /\ pending' = Missing
    /\ PoolForget
    /\ UNCHANGED <<adminCap, ownedCaps, sui, topUps, poolHistory>>

LateCaps ==
    /\ pending # 0
    /\ \E new \in kSubset(pending, CapIds \ ownedCaps) : ownedCaps' = ownedCaps \cup new
    /\ sui' = SmashedCoins /\ pending' = 0
    /\ overtaken' = IF At("feed", "createCaps") THEN overtaken + 1 ELSE overtaken
    /\ even' = FALSE /\ orphaned' = TRUE
    /\ UNCHANGED <<terminal, adminCap, topUps, process, throws, foreign>>

CreateCapsRefused ==
    /\ At("feed", "createCaps") /\ ~CanCreateCaps
    /\ Exits
    /\ PoolForget
    /\ UNCHANGED <<wallet, poolHistory>>

\* caps.slice, and the floor of the pool.
CheckFloor ==
    /\ At("feed", "coins")
    /\ IF SumCoinBalances < GasPoolFloor
       THEN Exits /\ PoolForget
       ELSE /\ knownCaps' = FirstOf(knownCaps, PoolLanes)
            /\ Goto("refresh") /\ UNCHANGED laneCoin
    /\ UNCHANGED <<wallet, poolHistory>>

FirstRefreshNoop ==
    /\ At("feed", "refresh") /\ ~NeedsRefresh(FirstOf(SortCoinsByBalanceDesc, PoolLanes))
    /\ orphaned' = FALSE
    /\ Goto("lanes")
    /\ UNCHANGED <<wallet, process, throws, even, surplus>>

FirstRefresh ==
    /\ At("feed", "refresh") /\ NeedsRefresh(FirstOf(SortCoinsByBalanceDesc, PoolLanes))
    /\ IF CanRefresh
       THEN /\ RefreshTx /\ Goto("lanes")
            /\ even' = TRUE /\ orphaned' = FALSE
            /\ UNCHANGED process
       ELSE Exits /\ PoolForget /\ UNCHANGED <<wallet, even, orphaned>>
    /\ UNCHANGED <<throws, surplus>>

\* The lanes are the coins with the largest balances, as they are read now.
LanesReady ==
    /\ At("feed", "lanes")
    /\ laneCoin' = FirstOf(SortCoinsByBalanceDesc, PoolLanes)
    /\ Goto("serving")
    /\ UNCHANGED <<wallet, knownCaps, poolHistory>>

-----------------------------------------------------------------------------
(* Serving, and the refresh at the start of a manager window *)
LaneSpends(i) ==
    /\ At("feed", "serving") /\ i \in DOMAIN laneCoin
    /\ laneCoin[i] \in DOMAIN sui /\ sui[laneCoin[i]] >= Fee
    /\ sui' = [sui EXCEPT ![laneCoin[i]] = @ - Fee]
    /\ pending' = 0 /\ even' = FALSE
    /\ UNCHANGED <<terminal, adminCap, ownedCaps, topUps, process, throws, orphaned, surplus>>

\* refreshGasLanesIfNeeded, when it neither returns false nor throws before its
\* transaction lands.
WindowRefresh ==
    /\ At("feed", "serving") /\ Len(laneCoin) = PoolLanes /\ NeedsRefresh(laneCoin)
    /\ RefreshTx
    /\ Goto("reread")
    /\ even' = TRUE /\ orphaned' = FALSE
    /\ UNCHANGED <<process, throws, surplus>>

\* Mutant: the lanes keep the coins that they had.
RefreshedLaneCoinsKept == laneCoin

\* refreshedLaneCoins
RefreshedLaneCoins == FirstOf(SortCoinsByBalanceDesc, PoolLanes)

WindowRereads ==
    /\ At("feed", "reread")
    /\ laneCoin' = RefreshedLaneCoins
    /\ Goto("serving")
    /\ UNCHANGED <<wallet, knownCaps, poolHistory>>

\* The answer or the read after it is lost: the window ends, the lanes keep coins
\* that were merged away.
WindowThrows ==
    /\ At("feed", "reread") /\ throws < MaxThrows
    /\ throws' = throws + 1 /\ orphaned' = TRUE
    /\ Goto("serving")
    /\ UNCHANGED <<wallet, process, even, surplus>>

-----------------------------------------------------------------------------
(* The operator *)
TopUp ==
    /\ topUps < Len(TopUps) /\ FreshCoins # {}
    /\ topUps' = topUps + 1
    /\ sui' = [c \in DOMAIN sui \cup {Min(FreshCoins)} |->
                 IF c \in DOMAIN sui THEN sui[c] ELSE TopUps[topUps + 1]]
    /\ even' = FALSE
    /\ UNCHANGED <<terminal, adminCap, ownedCaps, pending, process, throws, orphaned, surplus>>

\* createOracleCap.ts, run between two starts of the feed, makes a cap for the same
\* signer.
OperatorCreatesCap ==
    /\ Idle /\ adminCap /\ SumCoinBalances >= Fee
    /\ \E new \in CapIds \ ownedCaps : ownedCaps' = ownedCaps \cup {new}
    /\ sui' = SmashedCoins /\ pending' = 0
    /\ foreign' = IF Cardinality(ownedCaps) >= PoolLanes THEN foreign + 1 ELSE foreign
    /\ even' = FALSE
    /\ UNCHANGED <<terminal, adminCap, topUps, process, throws, orphaned, overtaken>>

\* A serving feed does not look at it.
AdminCapMoves ==
    /\ adminCap /\ (Idle \/ At("feed", "createCaps"))
    /\ adminCap' = FALSE
    /\ UNCHANGED <<terminal, ownedCaps, sui, pending, topUps, process, poolHistory>>

PoolNext ==
    \/ StartFeed \/ NotAdmin \/ ReadCaps
    \/ CreateCaps \/ CreateCapsLost \/ LateCaps \/ CreateCapsRefused
    \/ CheckFloor \/ FirstRefreshNoop \/ FirstRefresh \/ LanesReady
    \/ \E i \in 1 .. PoolLanes : LaneSpends(i)
    \/ WindowRefresh \/ WindowRereads \/ WindowThrows
    \/ TopUp \/ OperatorCreatesCap \/ AdminCapMoves

-----------------------------------------------------------------------------
\* Every lane of a serving feed signs with a cap of its own that the signer owns, however
\* often the feed was killed and started again.  The signer may own more caps than there
\* are lanes, which the comment of ensureCapsAndCoins ("exactly `laneCount`") denies: a
\* createCaps that was given up may land after the next start has read the caps and before
\* it creates the missing ones again, and nothing takes the surplus back.  Each time that
\* happens costs at most one cap for each lane, and there is no other way to a surplus
\* but the caps that others create for the signer.
LanesKeepTheirCaps ==
    /\ Cardinality(ownedCaps) <= PoolLanes * (1 + overtaken) + foreign
    /\ At("feed", "serving") =>
          /\ Len(knownCaps) = PoolLanes /\ IsInjective(knownCaps)
          /\ ToSet(knownCaps) \subseteq ownedCaps

\* Every lane of a serving feed pays with a coin of its own that exists, unless coins
\* were merged since the lanes were made by a transaction whose answer was lost.
LanesPayable ==
    At("feed", "serving") /\ ~orphaned =>
        /\ Len(laneCoin) = PoolLanes /\ IsInjective(laneCoin)
        /\ ToSet(laneCoin) \subseteq DOMAIN sui

\* A refresh ends the need for one: the window after it does not merge and split the
\* same coins again, unless the pool had less than the minimum and a fee for each lane.
RefreshSettles ==
    At("feed", "serving") /\ ~orphaned /\ even /\ NeedsRefresh(laneCoin)
        => SumCoinBalances + Fee < PoolLanes * (GasLaneMin + Fee)
=============================================================================
