---------------------------- MODULE VaultClients ----------------------------
(***************************************************************************)
(* The clients of one vault together: the signer's scripts and a user of   *)
(* the dashboard's panel, each with a wallet, and the clock.               *)
(***************************************************************************)
EXTENDS SmokeScripts, DepositPanel

CONSTANTS UserSteps,  \* bounds, for TLC: the points of a run at which the panel is operated,
          MaxActs     \* and the runs started and transactions signed, together

\* The scripts' key is not the wallet that the dashboard is connected to.
ASSUME ClientsAssumption == PanelUser # Signer

VARIABLE foreign   \* history: the panel's wallet has used the vault during this run

clientVars == <<chain, scriptVars, panelVars, foreign>>

ClientsInit == WalletsInit /\ ScriptsInit /\ PanelInit /\ foreign = FALSE

\* Operating the panel reads only the user's own coins, which no script touches: it
\* commutes with the scripts' steps and with the clock.  So it is done at a few points
\* of a run and without a break; its transactions land at any time.
PanelAtRest ==
    isPending \/ (form.dialog = "none" /\ ~form.waiting /\ ~form.discovering
                  /\ form.amount = 0)

Scripted ==
    /\ PanelAtRest
    /\ ScriptsNext
    /\ started' + signed <= MaxActs
    /\ foreign' = (foreign /\ started' = started)
    /\ UNCHANGED panelVars

Panelled ==
    /\ (run.pc \in UserSteps /\ UserStep) \/ TxSucceeds \/ TxFails
    /\ started + signed' <= MaxActs
    /\ foreign' = (foreign \/ ledger' # ledger)
    /\ UNCHANGED scriptVars

ClockTicks == PanelAtRest /\ Tick /\ UNCHANGED <<coins, scriptVars, panelVars, foreign>>

ClientsNext == Scripted \/ Panelled \/ ClockTicks

ClientsSpec == ClientsInit /\ [][ClientsNext]_clientVars

-----------------------------------------------------------------------------
Wealth(u) == TotalOf(quoteCoins[u])

\* When a smoke test prints GREEN, the wallet holds the balance it had before the
\* deposit, less the deposit, plus what the receipt says, and the receipt is within
\* the allocation and the slack of the deposit.  In between others have used the
\* vault, and submissions of the fulfil may have gone unanswered.
GreenIsPaid ==
    run.pc = "green" /\ run.script \in {"testnet", "mainnet"} =>
        LET amount == SupplyAmount[run.script]
        IN  /\ Wealth(Signer) = run.cash - amount + run.receipt
            /\ run.receipt >= MinReceived(amount)

\* However often redeem_fulfill is submitted, a run is paid at most once, also when
\* the first payout was a partial one and the slot would pay again.
OnePayoutPerRun == payouts <= 1

\* The recorded trace is what the replay expects as long as nobody else used the
\* vault: each action starts where the one before ended, a supply adds its deposit
\* and the shares of the virtual-share formula, a request moves nothing, and a fulfil
\* takes its payout from the balance and the assets alike.
Replays(a) ==
    CASE a.kind = "supply" ->
            /\ a.post.total_assets = a.pre.total_assets + SupplyAmount["e2e"]
            /\ a.post.total_shares = a.pre.total_shares
                 + (SupplyAmount["e2e"] * (a.pre.total_shares + VirtualShares))
                     \div (a.pre.total_assets + 1)
      [] a.kind = "request" -> a.post = a.pre
      [] a.kind = "fulfill" ->
            /\ a.pre.total_assets - a.post.total_assets = run.receipt
            /\ a.pre.balance - a.post.balance = run.receipt
TraceReplays ==
    ~foreign =>
        /\ \A i \in DOMAIN trace : Replays(trace[i])
        /\ \A i \in DOMAIN trace \ {1} : trace[i].pre = trace[i - 1].post

\* A deposit made from the panel takes from the wallet what the confirmed dialog
\* showed, even when the amount was edited while the balance check was under way.
DepositsWhatItShows ==
    [][ panel.tx.kind = "deposit" /\ ledger' # ledger /\ UNCHANGED scriptVars
          => Wealth(PanelUser)' = Wealth(PanelUser) - panel.shown ]_clientVars

=============================================================================
