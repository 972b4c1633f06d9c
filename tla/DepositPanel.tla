---------------------------- MODULE DepositPanel ----------------------------
(***************************************************************************)
(* The dashboard's DepositWithdrawPanel: two forms of one connected wallet *)
(* that share one transaction mutation.                                    *)
(*                                                                         *)
(* A form reads coins with getCoins, keeps what it read in its state and   *)
(* builds the transaction later, when a dialog is confirmed; the wallet    *)
(* signs later still.  In between the user may edit the amount, and others *)
(* use the vault.  Switching tabs unmounts a form, and its state is lost.  *)
(***************************************************************************)
EXTENDS Wallets

CONSTANTS
    PanelUser,     \* the connected account
    Inputs,        \* what may be typed, in tenths of a micro-unit; 0: not a number
    MaxSigned      \* bound on the transactions confirmed, for TLC

ASSUME PanelAssumption == PanelUser \in Users /\ Inputs \subseteq Nat

VARIABLES panel, signed

panelVars == <<panel, signed>>

NoCoin == 0
Tx(kind, coin, amount) ==
    [kind |-> kind, coin |-> coin, amount |-> amount, mounted |-> TRUE]
NoTx == Tx("none", NoCoin, 0)

\* The state of a form that has just been mounted.
DepositMounted ==
    [tab |-> "deposit", amount |-> 0, asked |-> 0, waiting |-> FALSE, coinId |-> NoCoin,
     dialog |-> "none", shareCoinId |-> NoCoin, discovering |-> FALSE]
RedeemMounted ==
    [DepositMounted EXCEPT !.tab = "redeem", !.discovering = TRUE]

PanelInit ==
    /\ panel = [form |-> DepositMounted, tx |-> NoTx, shown |-> 0]
    /\ signed = 0

form == panel.form
isPending == panel.tx.kind # "none"
SetForm(f) == panel' = [panel EXCEPT !.form = f] /\ UNCHANGED <<chain, signed>>

-----------------------------------------------------------------------------
\* parseDusdcInput: decimals past the sixth are cut off; what is no number is null,
\* which every use treats like zero.
ParseDusdcInput(typed) == typed \div 10

\* The amount's field; a dialog is modal, so it cannot be edited under one.
TypeAmount(typed) ==
    /\ form.tab = "deposit" /\ form.dialog = "none"
    /\ SetForm([form EXCEPT !.amount = ParseDusdcInput(typed)])

\* onClickDeposit up to its await: the amount to compare with is the one of now.
ClickDeposit ==
    /\ form.tab = "deposit" /\ form.dialog = "none" /\ ~isPending
    /\ form.amount > 0
    /\ SetForm([form EXCEPT !.asked = form.amount, !.waiting = TRUE])

\* onClickDeposit after its await: the total must cover the amount asked about, and
\* the first coin listed is the one kept.  Otherwise, or when getCoins throws, no
\* dialog opens.
DepositCoinsArrive ==
    /\ form.waiting
    /\ \/ /\ TotalOf(quoteCoins[PanelUser]) >= form.asked
          /\ \E c \in DOMAIN quoteCoins[PanelUser] :
                SetForm([form EXCEPT !.waiting = FALSE, !.coinId = c,
                                     !.dialog = "deposit"])
       \/ SetForm([form EXCEPT !.waiting = FALSE, !.asked = 0])

\* The discovery effect of RedeemForm, run once per mount; it is best effort.
ShareCoinsArrive ==
    /\ form.discovering
    /\ \/ \E c \in DOMAIN shareCoins[PanelUser] :
             SetForm([form EXCEPT !.discovering = FALSE, !.shareCoinId = c])
       \/ SetForm([form EXCEPT !.discovering = FALSE])

\* The buttons of RedeemForm and the Back buttons of the dialogs.
OpenDialog(d) ==
    /\ form.tab = "redeem" /\ form.dialog = "none" /\ ~isPending
    /\ d = "request" => form.shareCoinId # NoCoin
    /\ SetForm([form EXCEPT !.dialog = d])

\* A closed dialog forgets its coin: the next one to open is given another.
Closed(f) == [f EXCEPT !.dialog = "none", !.coinId = NoCoin, !.asked = 0]

Back == form.dialog # "none" /\ SetForm(Closed(form))

SwitchTab ==
    /\ form.dialog = "none"
    /\ panel' = [panel EXCEPT
                    !.form = IF form.tab = "deposit" THEN RedeemMounted ELSE DepositMounted,
                    !.tx.mounted = ~isPending]
    /\ UNCHANGED <<chain, signed>>

-----------------------------------------------------------------------------
\* Mutant: the amount that was compared with the balance is deposited, not the one
\* the dialog shows.
DepositTxChecked == Tx("deposit", form.coinId, form.asked)

\* onConfirmDeposit, onConfirmRequestRedeem, onConfirmFulfill, onConfirmCancel: the
\* transaction handed to the wallet.
DepositTx == Tx("deposit", form.coinId, form.amount)
RequestTx == Tx("request", form.shareCoinId, 0)
FulfillTx == Tx("fulfill", NoCoin, 0)
CancelTx == Tx("cancel", NoCoin, 0)

\* A dialog is confirmed; every confirm button is disabled while a transaction is
\* pending.
Confirm(d, tx) ==
    /\ form.dialog = d /\ ~isPending
    /\ signed < MaxSigned
    /\ signed' = signed + 1
    /\ panel' = [panel EXCEPT !.tx = tx, !.shown = form.amount]
    /\ UNCHANGED chain

ConfirmDeposit == form.amount > 0 /\ form.coinId # NoCoin /\ Confirm("deposit", DepositTx)
ConfirmRequest == form.shareCoinId # NoCoin /\ Confirm("request", RequestTx)
ConfirmFulfill == Confirm("fulfill", FulfillTx)
ConfirmCancel == Confirm("cancel", CancelTx)

\* What the network makes of the pending transaction.
Executes(tx) ==
    \/ tx.kind = "deposit" /\ SupplyTx(PanelUser, tx.coin, tx.amount)
    \/ tx.kind = "request" /\ RedeemRequestTx(PanelUser, tx.coin)
    \/ tx.kind = "fulfill" /\ RedeemFulfillTx(PanelUser)
    \/ tx.kind = "cancel" /\ RedeemCancelTx(PanelUser)

\* The form after its transaction ended: the dialog closes, and a deposit that
\* succeeded clears the amount.  The share coin it remembers stays.  A form
\* that was unmounted meanwhile is gone.
Settled(succeeded) ==
    IF ~panel.tx.mounted THEN form
    ELSE [Closed(form) EXCEPT
             !.amount = IF succeeded /\ panel.tx.kind = "deposit" THEN 0 ELSE @]

\* onSuccess
TxSucceeds ==
    /\ isPending
    /\ Executes(panel.tx)
    /\ panel' = [panel EXCEPT !.tx = NoTx, !.shown = 0, !.form = Settled(TRUE)]
    /\ UNCHANGED signed

\* onError: the user rejects, the transaction aborts or the answer is lost.
TxFails ==
    /\ isPending
    /\ panel' = [panel EXCEPT !.tx = NoTx, !.shown = 0, !.form = Settled(FALSE)]
    /\ UNCHANGED signed
    /\ Executes(panel.tx) \/ UNCHANGED chain

\* What the user does; the network's part comes on its own.
UserStep ==
    \/ \E typed \in Inputs : TypeAmount(typed)
    \/ ClickDeposit \/ DepositCoinsArrive \/ ShareCoinsArrive
    \/ \E d \in {"request", "fulfill", "cancel"} : OpenDialog(d)
    \/ Back \/ SwitchTab
    \/ ConfirmDeposit \/ ConfirmRequest \/ ConfirmFulfill \/ ConfirmCancel
=============================================================================
