--------------------------- MODULE MCVaultClients ---------------------------
(***************************************************************************)
(* Values for VaultClients: the amounts and parameters of the repository   *)
(* divided by a million, so that a clock unit is the cooldown.  Two        *)
(* oracles give two instants at which a supply finds its expiry.           *)
(***************************************************************************)
EXTENDS VaultClients, TLC

CONSTANTS signer, user, o1, o2

MCUsers == {signer, user}
MCOracles == {o1, o2}
MCExpiry == o1 :> 3 @@ o2 :> 4
MCInitialOracles ==
    [o \in MCOracles |-> [active |-> TRUE, settled |-> FALSE, timestamp |-> 0,
                          forward |-> 4]]
MCGrid == {3}
MCFair == {1}
MCDefaults == [capacity |-> 60, refill_rate |-> 30, alloc_bps |-> 20,
               strike_otm_bps |-> 50, tenor |-> 3, max_staleness |-> 1]
NoTuning == [p \in Params |-> {}]
None == {}

\* Two coins of the user: one covers a deposit, the other does not.
MCQuote == signer :> (1 :> 120) @@ user :> (1 :> 60 @@ 2 :> 20)
MCDeposits == {30, 50}

\* 50.9 loses its last digit; zero stands for an empty field.
MCInputs == {0, 300, 509}

MCAllScripts == {"e2e", "testnet", "mainnet", "ptb"}
MCFollows == {<<"e2e", "e2e">>, <<"testnet", "testnet">>, <<"ptb", "testnet">>}
MCUserSteps == {"idle", "wait"}
MCSupplyAmount == [e2e |-> 100, testnet |-> 50, mainnet |-> 50]
MCDeploy ==
    [s \in MCAllScripts |->
        [status |-> "deployed", network |-> IF s = "mainnet" THEN "mainnet" ELSE "testnet",
         margin |-> TRUE, envManager |-> FALSE]]
=============================================================================
