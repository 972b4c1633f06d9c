----------------------------- MODULE PredictSim -----------------------------
(***************************************************************************)
(* The Predict simulation (packages/predict/simulations): run.sh, which    *)
(* decides what to run in an instance, and src/sim.ts, which sets up the   *)
(* objects on a local network and then replays a scenario of price         *)
(* updates and mints, retrying transactions that the network rejects.      *)
(*                                                                         *)
(* A setup publishes the packages anew, so an instance can hold several    *)
(* generations of them; .env.localnet and artifacts/state.json each name   *)
(* one.  The amounts, strikes and curves of the rows are left out.         *)
(***************************************************************************)
EXTENDS Terminal, FiniteSets, Sequences

CONSTANTS Rows,          \* loadScenario: the actions of the scenario
          MaxAttempts,   \* EXECUTE_MAX_ATTEMPTS
          MaxSimGen      \* bound on setups, for TLC

ASSUME SimAssumption ==
    /\ Rows \in Seq({"update_prices", "update_svi", "mint"})
    /\ MaxAttempts \in Nat \ {0} /\ MaxSimGen \in Nat \ {0}

SimGens == 1 .. MaxSimGen

VARIABLES
    \* The local network
    simGen,      \* setups that have published their packages
    setUp,       \* what the setup transactions have made of each generation
    \* The files of the instance, 0 when missing
    env,         \* .env.localnet: the generation of its package
    state,       \* artifacts/state.json: the generation of its objects
    results,     \* artifacts/results.json: the mints it reports, and the calls that
                 \* reached the chain in the run that wrote it
    \* The memory of sim.ts
    both,        \* neither --setup-only nor --execute-only
    objects,     \* the SimState in use
    row,         \* i, from 1
    attempt,     \* attempts of the current transaction
    mints,       \* byAction.mint.length
    landed       \* history: the calls that reached the chain in this run

instance == <<simGen, setUp, env, state, results>>
simMemory == <<both, objects, row, attempt, mints, landed>>
simVars == <<instance, simMemory>>

SimForget ==
    /\ both' = FALSE /\ objects' = 0
    /\ row' = 1 /\ attempt' = 0 /\ mints' = 0 /\ landed' = <<>>
SimReturns == Exits /\ SimForget
SimGoesOn(to) == Goto(to) /\ UNCHANGED simMemory

NoResults == [gen |-> 0, mints |-> 0, rows |-> <<>>]

SimInit ==
    /\ simGen = 0 /\ setUp = [g \in SimGens |-> {}]
    /\ env = 0 /\ state = 0 /\ results = NoResults
    /\ both = FALSE /\ objects = 0 /\ row = 1 /\ attempt = 0 /\ mints = 0 /\ landed = <<>>

-----------------------------------------------------------------------------
\* run.sh: with no phase given, a resumed instance runs what it has no file of.
Phases == {<<env = 0, results = NoResults>>, <<TRUE, FALSE>>, <<FALSE, TRUE>>, <<TRUE, TRUE>>}

RunSh(setup, sim) ==
    /\ setup \/ sim
    /\ ~setup => state # 0
    /\ setup => simGen < MaxSimGen
    /\ Starts(IF setup THEN "setup" ELSE "execute")
    /\ both' = (setup /\ sim)
    /\ UNCHANGED <<instance, objects, row, attempt, mints, landed>>

\* The packages are published, then .env.localnet is written.
PublishPackages ==
    /\ At("setup", "start")
    /\ simGen' = simGen + 1 /\ env' = simGen + 1
    /\ SimGoesOn("objects")
    /\ UNCHANGED <<setUp, state, results>>

\* The setup transactions: what each takes, next to what the packages were published
\* with, and what it makes.
FinalizeDusdcCurrencyRegistrationTx == [takes |-> {}, makes |-> "currency"]
CreatePredictTx == [takes |-> {"currency"}, makes |-> "predict"]
CreateOracleCapTx == [takes |-> {}, makes |-> "cap"]
CreateOracleTx == [takes |-> {"predict", "cap"}, makes |-> "oracle"]
RegisterOracleCapTx == [takes |-> {"oracle", "cap"}, makes |-> "registered"]
ActivateOracleTx == [takes |-> {"oracle", "cap", "registered"}, makes |-> "active"]
SupplyTx == [takes |-> {"predict"}, makes |-> "funded"]
CreateManagerTx == [takes |-> {}, makes |-> "manager"]
DepositToManagerTx == [takes |-> {"manager"}, makes |-> "deposit"]

SetupSimulation ==
    <<FinalizeDusdcCurrencyRegistrationTx, CreatePredictTx, CreateOracleCapTx,
      CreateOracleTx, RegisterOracleCapTx, ActivateOracleTx, SupplyTx,
      CreateManagerTx, DepositToManagerTx>>

Complete == {SetupSimulation[i].makes : i \in DOMAIN SetupSimulation}
NextTx(done) ==
    SetupSimulation[CHOOSE i \in DOMAIN SetupSimulation :
                        /\ SetupSimulation[i].makes \notin done
                        /\ \A j \in 1 .. i - 1 : SetupSimulation[j].makes \in done]

\* executeAndWait of the next transaction.  It throws unless the chain says success,
\* which to the instance is a kill before it.
SetupTx ==
    /\ At("setup", "objects") /\ setUp[env] # Complete
    /\ LET tx == NextTx(setUp[env])
       IN  /\ tx.takes \subseteq setUp[env]
           /\ setUp' = [setUp EXCEPT ![env] = @ \cup {tx.makes}]
    /\ SimGoesOn("objects")
    /\ UNCHANGED <<simGen, env, state, results>>

ReadyToSave == setUp[env] = Complete

WriteState ==
    /\ At("setup", "objects") /\ ReadyToSave
    /\ state' = env
    /\ IF both THEN script' = "execute" /\ pc' = "start" /\ UNCHANGED <<kills, simMemory>>
               ELSE SimReturns
    /\ UNCHANGED <<simGen, setUp, env, results>>

ReadState ==
    /\ At("execute", "start")
    /\ objects' = state
    /\ Goto("rows")
    /\ UNCHANGED <<instance, both, row, attempt, mints, landed>>

-----------------------------------------------------------------------------
\* The transactions of the replay: the calls each makes, in order.
UpdatePricesTx == <<"update_prices">>
UpdateSviTx == <<"update_svi">>
MintTx == <<"mint">>
RefreshOracleAndMintTx == <<"update_prices", "update_svi", "mint">>

\* A price update, a surface update and a mint in a row are one transaction.
Fused(i) ==
    /\ i + 2 <= Len(Rows)
    /\ Rows[i] = "update_prices" /\ Rows[i + 1] = "update_svi" /\ Rows[i + 2] = "mint"

TxOf(i) ==
    CASE Fused(i)                    -> RefreshOracleAndMintTx
      [] Rows[i] = "update_svi"      -> UpdateSviTx
      [] Rows[i] = "mint"            -> MintTx
      [] OTHER                       -> UpdatePricesTx

\* Mutant: a fused transaction moves on as a plain one does.
RowsOfOne(i) == 1

RowsOf(i) == IF Fused(i) THEN 3 ELSE 1

InRows == At("execute", "rows") /\ row <= Len(Rows)

\* execute: the transaction lands, all its calls at once.
RowLands ==
    /\ InRows /\ objects = env
    /\ landed' = landed \o TxOf(row)
    /\ mints' = mints + (IF "mint" \in {TxOf(row)[k] : k \in DOMAIN TxOf(row)} THEN 1 ELSE 0)
    /\ row' = row + RowsOf(row)
    /\ attempt' = 0
    /\ Goto("rows")
    /\ UNCHANGED <<instance, both, objects>>

\* The network rejects the transaction for an object version that has moved on: it is
\* built anew and sent again, up to EXECUTE_MAX_ATTEMPTS times, then execute throws.
RowRejected ==
    /\ InRows /\ objects = env
    /\ IF attempt + 1 < MaxAttempts
       THEN /\ attempt' = attempt + 1
            /\ Goto("rows") /\ UNCHANGED <<both, objects, row, mints, landed>>
       ELSE SimReturns
    /\ UNCHANGED instance

\* The transaction aborts, for its amounts or because the objects are of another
\* generation than .env.localnet's package: execute throws at once.
RowAborts ==
    /\ InRows
    /\ SimReturns
    /\ UNCHANGED instance

BuildResultsFile == [gen |-> objects, mints |-> mints, rows |-> landed]

\* After the last row.
WriteResults ==
    /\ At("execute", "rows") /\ row > Len(Rows)
    /\ results' = BuildResultsFile
    /\ SimReturns
    /\ UNCHANGED <<simGen, setUp, env, state>>

SimNext ==
    \/ \E phase \in Phases : RunSh(phase[1], phase[2])
    \/ PublishPackages \/ SetupTx \/ WriteState \/ ReadState
    \/ RowLands \/ RowRejected \/ RowAborts \/ WriteResults

-----------------------------------------------------------------------------
\* A results.json reports one run: the calls of the scenario reached the chain in it
\* exactly once and in order, on objects of one complete setup, and the mints it
\* reports are the mints of the scenario, whatever was fused, rejected and retried.
ResultsAreOneReplay ==
    results # NoResults =>
        /\ results.rows = Rows
        /\ results.mints = Cardinality({i \in DOMAIN Rows : Rows[i] = "mint"})
        /\ setUp[results.gen] = Complete
=============================================================================
