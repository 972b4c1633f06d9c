---------------------------- MODULE SmokeScripts ----------------------------
(***************************************************************************)
(* The scripts that exercise a deployed vault with one signer's wallet:    *)
(* e2e-vault-cycle.ts (records a trace for the replay), the two smoke      *)
(* tests testnet-smoke-test.ts and mainnet-smoke-test.ts (deposit, redeem  *)
(* and judge the outcome by two gates) and two-protocol-ptb-demo.ts        *)
(* (borrows the deposit from a margin pool in the same transaction).       *)
(*                                                                         *)
(* A script is a sequence of RPC calls; between any two of them others use *)
(* the vault.  signAndExecuteTransaction may throw although the            *)
(* transaction took effect, the process may be killed at any point, and    *)
(* the operator may start a script again.  A transaction that aborts, is   *)
(* refused or never arrives makes the call throw and changes nothing.      *)
(***************************************************************************)
EXTENDS Wallets, Sequences

CONSTANTS
    Signer,            \* the address of SUI_PRIVATE_KEY
    Scripts,           \* the scripts the operator runs
    Deploy,            \* what the deploy file of each script says
    SupplyAmount,      \* SUPPLY_AMOUNT_MICRO of each script that deposits
    WaitSlackMs,       \* what the scripts add to the cooldown
    SlackBps,          \* PER_DEPOSITOR_SLACK_BPS
    NavToleranceBps,   \* NAV_TOLERANCE_BPS
    CollateralAmount,  \* COLLATERAL_AMOUNT_MICRO
    BorrowAmount,      \* BORROW_AMOUNT_MICRO
    PoolLiquidity,     \* what the DUSDC margin pool can lend
    MaxAttempts,       \* submissions of redeem_fulfill: 3
    MaxRuns,           \* bound on the runs started, for TLC
    Follows            \* bound, for TLC: pairs of a run's script and the next run's

ASSUME ScriptsAssumption ==
    /\ Signer \in Users
    /\ Scripts \subseteq {"e2e", "testnet", "mainnet", "ptb"}
    /\ WaitSlackMs \in Nat /\ MaxAttempts \in Nat \ {0}
    /\ SlackBps + Defaults["alloc_bps"] <= BpsScale
    /\ \A s \in {"e2e", "testnet", "mainnet"} : SupplyAmount[s] \in Nat
    /\ BorrowAmount \in U64 /\ CollateralAmount \in Nat /\ PoolLiquidity \in Nat

VARIABLES
    run,      \* the running script: its program counter and local variables
    trace,    \* trace.actions of the run
    margin,   \* the signer's MarginManager, its wallet's BTC and the pool's liquidity
    started,  \* number of runs started
    payouts   \* history: redeem_fulfill transactions of this run that took effect

scriptVars == <<run, trace, margin, started, payouts>>

Snapshot == [balance : Nat, total_assets : Nat, total_shares : Nat]
NoSnapshot == [balance |-> 0, total_assets |-> 0, total_shares |-> 0]

\* The local variables of main(): balance and NAV before the deposit, the snapshot
\* taken before the transaction under way, whether that one has been answered,
\* the end of the wait, the attempts made and what the receipt says was paid.
NotRunning ==
    [script |-> "none", pc |-> "idle", cash |-> 0, nav |-> 0, pre |-> NoSnapshot,
     snapped |-> FALSE, answered |-> FALSE, wakeAt |-> 0, attempts |-> 0,
     receipt |-> 0]

ScriptsInit ==
    /\ run = NotRunning
    /\ trace = << >>
    /\ margin = [managers |-> 0, wallet |-> 2 * CollateralAmount, base |-> 0,
                 quote |-> 0, debt |-> 0, pool |-> PoolLiquidity]
    /\ started = 0
    /\ payouts = 0

At(script, pc) == run.script = script /\ run.pc = pc
Goto(pc) == run' = [run EXCEPT !.pc = pc]
Ended == {"idle", "green", "red", "failed"}

-----------------------------------------------------------------------------
(* Helpers the scripts repeat.                                                *)

\* snapshotVault
SnapshotVault ==
    [balance |-> balance, total_assets |-> total_assets, total_shares |-> total_shares]

\* navPerShareScaled1e9
NavOf(snap) ==
    IF snap.total_shares = 0 THEN 0
    ELSE MulDivDown(snap.total_assets, NavScale, snap.total_shares)

\* findDepositCoin, findCollateralCoin: one coin that covers the amount.
DepositCoins(amount) ==
    {c \in DOMAIN quoteCoins[Signer] : quoteCoins[Signer][c] >= amount}

\* The answer to a submission: received, or lost although the transaction took effect.
Answered(next) == run' = next \/ run' = [run EXCEPT !.pc = "failed"]

\* A submission that took no effect, or a check on its answer that throws: main()
\* rejects and the process exits.  Only the smoke tests' fulfil is tried again.
Throws ==
    /\ \/ run.pc \in {"supply", "request", "ptb", "setup"}
       \/ At("e2e", "fulfill")
    /\ ~run.answered
    /\ Goto("failed")
    /\ UNCHANGED <<chain, trace, margin, started, payouts>>

\* redeem_request takes the first coin that getCoins lists, whichever it is.
Requests(next) ==
    /\ \E c \in DOMAIN shareCoins[Signer] : RedeemRequestTx(Signer, c)
    /\ Answered(next)
    /\ UNCHANGED <<trace, margin, started, payouts>>

Supplies(amount, next) ==
    /\ \E c \in DepositCoins(amount) : SupplyTx(Signer, c, amount)
    /\ Answered(next)
    /\ UNCHANGED <<trace, margin, started, payouts>>

\* setTimeout for the cooldown, counted from the answer to the request.
Waits(next) ==
    /\ now >= run.wakeAt
    /\ run' = next
    /\ UNCHANGED <<chain, trace, margin, started, payouts>>

-----------------------------------------------------------------------------
(* Start-up checks: what main() reads from the deploy file and environment.   *)
E2eReady == Deploy["e2e"].status = "deployed"
TestnetReady == Deploy["testnet"].status = "deployed"
MainnetReady == Deploy["mainnet"].status = "deployed" /\ Deploy["mainnet"].network = "mainnet"
PtbReady == Deploy["ptb"].status = "deployed" /\ Deploy["ptb"].margin

Ready(script) ==
    CASE script = "e2e" -> E2eReady
      [] script = "testnet" -> TestnetReady
      [] script = "mainnet" -> MainnetReady
      [] script = "ptb" -> PtbReady

FirstStep(script) ==
    CASE script = "e2e" -> "supply" [] script = "ptb" -> "setup" [] OTHER -> "snapshot"

\* The operator starts a script.  Nothing of an earlier run is remembered except
\* what it left on the chain.
Launch(script) ==
    /\ run.pc \in Ended
    /\ started < MaxRuns
    /\ run.script # "none" => <<run.script, script>> \in Follows
    /\ Ready(script)
    /\ run' = [NotRunning EXCEPT !.script = script, !.pc = FirstStep(script)]
    /\ trace' = << >>
    /\ started' = started + 1
    /\ payouts' = 0
    /\ UNCHANGED <<chain, margin>>

\* The process is killed.
Killed ==
    /\ run.pc \notin Ended
    /\ Goto("failed")
    /\ UNCHANGED <<chain, trace, margin, started, payouts>>

-----------------------------------------------------------------------------
(* e2e-vault-cycle.ts: every transaction between two snapshots of the vault.  *)

E2eSteps == {"supply", "request", "fulfill"}

\* preSupply, preRequest, preFulfill
E2eSnapshotBefore ==
    /\ run.script = "e2e" /\ run.pc \in E2eSteps
    /\ ~run.snapped
    /\ run' = [run EXCEPT !.pre = SnapshotVault, !.snapped = TRUE]
    /\ UNCHANGED <<chain, trace, margin, started, payouts>>

E2eSubmits(step) == At("e2e", step) /\ run.snapped /\ ~run.answered
E2eAnswer == [run EXCEPT !.answered = TRUE]

E2eSupply == E2eSubmits("supply") /\ Supplies(SupplyAmount["e2e"], E2eAnswer)
E2eRequest == E2eSubmits("request") /\ Requests(E2eAnswer)

E2eFulfill ==
    /\ E2eSubmits("fulfill")
    /\ RedeemFulfillTx(Signer)
    /\ Answered([E2eAnswer EXCEPT !.receipt = Payout(Signer)])
    /\ payouts' = payouts + 1
    /\ UNCHANGED <<trace, margin, started>>

E2eNext ==
    CASE run.pc = "supply" -> "request" [] run.pc = "request" -> "wait"
      [] run.pc = "fulfill" -> "green"

\* Mutant: the snapshot before the transaction is recorded as the one after it too.
TraceEntryStale == [kind |-> run.pc, pre |-> run.pre, post |-> run.pre]

\* One element of trace.actions.
TraceEntry == [kind |-> run.pc, pre |-> run.pre, post |-> SnapshotVault]

\* postSupply, postRequest, postFulfill and trace.actions.push; after the request
\* the wait begins, after the fulfil the trace is written.
E2eSnapshotAfter ==
    /\ run.script = "e2e" /\ run.pc \in E2eSteps
    /\ run.answered
    /\ trace' = Append(trace, TraceEntry)
    /\ run' = [run EXCEPT !.pc = E2eNext, !.snapped = FALSE, !.answered = FALSE,
                          !.wakeAt = now + CooldownMs + WaitSlackMs]
    /\ UNCHANGED <<chain, margin, started, payouts>>

E2eWait == At("e2e", "wait") /\ Waits([run EXCEPT !.pc = "fulfill"])

-----------------------------------------------------------------------------
(* The smoke tests: seven checkpoints.                                        *)

\* preSupplyQuoteBalance and checkpoint 1.
TestnetSnapshot ==
    [run EXCEPT !.pc = "supply", !.cash = TotalOf(quoteCoins[Signer]),
                !.nav = NavOf(SnapshotVault)]
MainnetSnapshot == TestnetSnapshot

SmokeSnapshot ==
    /\ \/ At("testnet", "snapshot") /\ run' = TestnetSnapshot
       \/ At("mainnet", "snapshot") /\ run' = MainnetSnapshot
    /\ UNCHANGED <<chain, trace, margin, started, payouts>>

\* Checkpoints 2 and 3: the supply, and the two events in its answer.
SupplyAnswer == [run EXCEPT !.pc = "request"]
TestnetSupply == At("testnet", "supply") /\ Supplies(SupplyAmount["testnet"], SupplyAnswer)
MainnetSupply == At("mainnet", "supply") /\ Supplies(SupplyAmount["mainnet"], SupplyAnswer)

\* Checkpoint 4, and the deadline of checkpoint 5.
RequestAnswer == [run EXCEPT !.pc = "wait", !.wakeAt = now + CooldownMs + WaitSlackMs]
TestnetRequest == At("testnet", "request") /\ Requests(RequestAnswer)
MainnetRequest == At("mainnet", "request") /\ Requests(RequestAnswer)

\* Checkpoint 5
TestnetWait == At("testnet", "wait") /\ Waits([run EXCEPT !.pc = "fulfill"])
MainnetWait == At("mainnet", "wait") /\ Waits([run EXCEPT !.pc = "fulfill"])

-----------------------------------------------------------------------------
(* Checkpoint 6: the transaction is built once and submitted up to            *)
(* MaxAttempts times; as its bytes are the same, the network executes it once *)
(* and answers a later submission with the receipt of the first.              *)

\* The answer arrives, or the call throws and the loop goes round.
LoopAnswered(paid) ==
    \/ run' = [run EXCEPT !.pc = "received", !.receipt = paid]
    \/ run' = [run EXCEPT !.attempts = @ + 1, !.receipt = paid]

\* Mutant: the loop builds a new transaction for every attempt.
FulfillSubmitRebuilds ==
    /\ RedeemFulfillTx(Signer)
    /\ LoopAnswered(Payout(Signer))
    /\ payouts' = payouts + 1

FulfillSubmit ==
    \/ /\ run.receipt = 0
       /\ RedeemFulfillTx(Signer)
       /\ LoopAnswered(Payout(Signer))
       /\ payouts' = payouts + 1
    \/ /\ run.receipt > 0
       /\ LoopAnswered(run.receipt)
       /\ UNCHANGED <<chain, payouts>>

\* One round of the loop; a submission may also take no effect and throw.
TestnetFulfill ==
    /\ At("testnet", "fulfill") /\ run.attempts < MaxAttempts
    /\ \/ FulfillSubmit
       \/ run' = [run EXCEPT !.attempts = @ + 1] /\ UNCHANGED <<chain, payouts>>
    /\ UNCHANGED <<trace, margin, started>>
MainnetFulfill ==
    /\ At("mainnet", "fulfill") /\ run.attempts < MaxAttempts
    /\ \/ FulfillSubmit
       \/ run' = [run EXCEPT !.attempts = @ + 1] /\ UNCHANGED <<chain, payouts>>
    /\ UNCHANGED <<trace, margin, started>>

FulfillGivesUp ==
    /\ run.pc = "fulfill" /\ run.attempts = MaxAttempts
    /\ Goto("failed")
    /\ UNCHANGED <<chain, trace, margin, started, payouts>>

-----------------------------------------------------------------------------
(* Checkpoint 7: what was received, and the two gates.                        *)

\* received_quote: the event's value unless it is zero, else the balance delta.
ReceivedForGate(amount) ==
    IF run.receipt > 0 THEN run.receipt
    ELSE TotalOf(quoteCoins[Signer]) - (run.cash - amount)

\* Gate A
MinReceived(amount) ==
    (amount * (BpsScale - Defaults["alloc_bps"] - SlackBps)) \div BpsScale
GateA(amount) == ReceivedForGate(amount) >= MinReceived(amount)

\* Gate B
Drift(a, b) == IF a > b THEN a - b ELSE b - a
GateB ==
    run.nav = 0 \/ (Drift(NavOf(SnapshotVault), run.nav) * BpsScale) \div run.nav
                   <= NavToleranceBps

\* Mutant: the depositor's gate is not evaluated.
TestnetVerdictSkipsA == IF GateB THEN "green" ELSE "red"

TestnetVerdict == IF GateA(SupplyAmount["testnet"]) /\ GateB THEN "green" ELSE "red"
MainnetVerdict == IF GateA(SupplyAmount["mainnet"]) /\ GateB THEN "green" ELSE "red"

SmokeGates ==
    /\ \/ At("testnet", "received") /\ Goto(TestnetVerdict)
       \/ At("mainnet", "received") /\ Goto(MainnetVerdict)
    /\ UNCHANGED <<chain, trace, margin, started, payouts>>

-----------------------------------------------------------------------------
(* two-protocol-ptb-demo.ts                                                   *)

\* setupBalanceManagerWithTradeCap: without MARGIN_MANAGER_ID every run makes a
\* manager of its own; with it the known one is used.
PtbSetup ==
    /\ At("ptb", "setup")
    /\ margin' = IF Deploy["ptb"].envManager THEN margin
                 ELSE [margin EXCEPT !.managers = @ + 1]
    /\ Answered([run EXCEPT !.pc = "ptb"])
    /\ UNCHANGED <<chain, trace, started, payouts>>

\* The margin calls of buildPtb: collateral in, the loan into the manager, the loan
\* out of it as a coin.
DepositCollateral(m) ==
    [m EXCEPT !.wallet = @ - CollateralAmount, !.base = @ + CollateralAmount]
BorrowQuote(m) ==
    [m EXCEPT !.pool = @ - BorrowAmount, !.debt = @ + BorrowAmount,
              !.quote = @ + BorrowAmount]
WithdrawQuote(m) == [m EXCEPT !.quote = @ - BorrowAmount]

\* buildPtb, signAndExecute, extractAndAssertEvents, dumpTrace: one transaction, in
\* which the withdrawn coin is what the vault is supplied with.
PtbExecute ==
    /\ At("ptb", "ptb")
    /\ margin.wallet >= CollateralAmount /\ margin.pool >= BorrowAmount
    /\ margin' = WithdrawQuote(BorrowQuote(DepositCollateral(margin)))
    /\ SupplyFromTx(Signer, BorrowAmount)
    /\ Answered([run EXCEPT !.pc = "green"])
    /\ UNCHANGED <<quoteCoins, trace, started, payouts>>

-----------------------------------------------------------------------------
ScriptStep ==
    \/ E2eSnapshotBefore \/ E2eSupply \/ E2eRequest \/ E2eFulfill
    \/ E2eSnapshotAfter \/ E2eWait
    \/ SmokeSnapshot \/ TestnetSupply \/ MainnetSupply \/ TestnetRequest
    \/ MainnetRequest \/ TestnetWait \/ MainnetWait \/ TestnetFulfill
    \/ MainnetFulfill \/ FulfillGivesUp \/ SmokeGates
    \/ PtbSetup \/ PtbExecute \/ Throws

ScriptsNext == ScriptStep \/ Killed \/ \E s \in Scripts : Launch(s)
=============================================================================
