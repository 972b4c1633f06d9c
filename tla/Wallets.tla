------------------------------ MODULE Wallets -------------------------------
(***************************************************************************)
(* What the clients of the vault see and sign: coin objects and the four   *)
(* transactions that the scripts and the dashboard build.  Vault counts a  *)
(* user's SHARE coins as one number; here they are objects, because the    *)
(* clients pick one of them, and so are the quote coins a deposit is split *)
(* from.                                                                   *)
(*                                                                         *)
(* A programmable transaction is atomic: it takes effect as one step or    *)
(* not at all.  What its sender learns of that is the client's business.   *)
(***************************************************************************)
EXTENDS Vault

CONSTANTS InitialQuote      \* for each user, its quote coins: a table from coin to balance

\* Object ids at the start; those of the coins that transactions create come after.
OldCoins == 1 .. 99

ASSUME WalletsAssumption ==
    /\ DOMAIN InitialQuote = Users
    /\ \A u \in Users : /\ DOMAIN InitialQuote[u] \subseteq OldCoins
                        /\ InitialQuote[u] \in [DOMAIN InitialQuote[u] -> Nat]

VARIABLES
    quoteCoins,   \* for each user, a table from coin object to balance
    shareCoins,   \* the same for SHARE coins
    nextCoin      \* the next object id

coins == <<quoteCoins, shareCoins, nextCoin>>
chain == <<vars, coins>>

WalletsInit ==
    /\ Init
    /\ quoteCoins = InitialQuote
    /\ shareCoins = [u \in Users |-> EmptyTable]
    /\ nextCoin = 100

\* client.getCoins, summed: what the clients compare an amount with.
TotalOf(table) == SumOver(DOMAIN table, table)

\* The change a transaction makes to a user's coins: a new object.
Created(table, u, value) == [table EXCEPT ![u] = TableAdd(@, nextCoin, value)]

\* The supply call with a deposit that is not one of the sender's coins, as when
\* another call of the same transaction returned it.
SupplyFromTx(u, amount) ==
    /\ \E o \in Oracles, fair \in FairValues : Supply(u, o, amount, fair)
    /\ shareCoins' = Created(shareCoins, u, SharesToMint(amount))
    /\ nextCoin' = nextCoin + 1

\* buildSupplyTx: exactly the amount is split off the coin, which stays.
SupplyTx(u, c, amount) ==
    /\ c \in DOMAIN quoteCoins[u]
    /\ quoteCoins[u][c] >= amount
    /\ SupplyFromTx(u, amount)
    /\ quoteCoins' = [quoteCoins EXCEPT ![u][c] = @ - amount]

\* buildRedeemRequestTx: the whole coin moves into the slot.
RedeemRequestTx(u, c) ==
    /\ c \in DOMAIN shareCoins[u]
    /\ RedeemRequest(u, shareCoins[u][c])
    /\ shareCoins' = [shareCoins EXCEPT ![u] = TableRemove(@, c)]
    /\ UNCHANGED <<quoteCoins, nextCoin>>

\* buildRedeemFulfillTx: the payout arrives as a new coin.
RedeemFulfillTx(u) ==
    /\ RedeemFulfill(u)
    /\ quoteCoins' = Created(quoteCoins, u, Payout(u))
    /\ nextCoin' = nextCoin + 1
    /\ UNCHANGED shareCoins

\* buildRedeemCancelTx: what is left in the slot comes back as a new coin.
RedeemCancelTx(u) ==
    /\ RedeemCancel(u)
    /\ shareCoins' = Created(shareCoins, u, slots[u].shares)
    /\ nextCoin' = nextCoin + 1
    /\ UNCHANGED quoteCoins
=============================================================================
