---------------------------- MODULE ShareLedger -----------------------------
(***************************************************************************)
(* What the vault promises to whoever holds its shares, with nothing of    *)
(* hedges, buckets, tunables or rounding: a share is bought at the price   *)
(* that the virtual shares and the virtual unit set, moves only by its     *)
(* holder's hand, and leaves through a queue of one place for each holder, *)
(* after the cooldown, for at most its part of the assets.                 *)
(***************************************************************************)
EXTENDS Integers

CONSTANTS
    Holders,
    Cooldown,
    Seed,      \* the assets that nobody's deposit brought
    Locked     \* the shares that nobody holds

VARIABLES
    clock,
    assets,
    supply,
    held,      \* the shares that each holder can send or queue
    queued,    \* the shares that each holder has in the queue
    since      \* when they joined it; 0 for a holder with none

shares == <<clock, assets, supply, held, queued, since>>

Init ==
    /\ clock = 0 /\ assets = Seed /\ supply = Locked
    /\ held = [u \in Holders |-> 0]
    /\ queued = [u \in Holders |-> 0] /\ since = [u \in Holders |-> 0]

Pass == clock' = clock + 1 /\ UNCHANGED <<assets, supply, held, queued, since>>

\* A deposit buys its sender new shares, not more than it pays for.
Buy(u) ==
    /\ assets' > assets /\ supply' > supply
    /\ (supply' - supply) * (assets + 1) <= (assets' - assets) * (supply + Locked)
    /\ held' = [held EXCEPT ![u] = @ + (supply' - supply)]
    /\ UNCHANGED <<clock, queued, since>>

Send(u, v) ==
    \E n \in 1 .. held[u] :
        /\ u # v
        /\ held' = [held EXCEPT ![u] = @ - n, ![v] = @ + n]
        /\ UNCHANGED <<clock, assets, supply, queued, since>>

Queue(u) ==
    \E n \in 1 .. held[u] :
        /\ queued[u] = 0
        /\ held' = [held EXCEPT ![u] = @ - n]
        /\ queued' = [queued EXCEPT ![u] = n]
        /\ since' = [since EXCEPT ![u] = clock]
        /\ UNCHANGED <<clock, assets, supply>>

Unqueue(u) ==
    /\ queued[u] > 0
    /\ held' = [held EXCEPT ![u] = @ + queued[u]]
    /\ queued' = [queued EXCEPT ![u] = 0]
    /\ since' = [since EXCEPT ![u] = 0]
    /\ UNCHANGED <<clock, assets, supply>>

\* Shares that have waited are burned for a payment of at most their part of the
\* assets, so those that stay are worth no less; the rest keeps its place.
Leave(u) ==
    \E n \in 1 .. queued[u] :
        /\ clock >= since[u] + Cooldown
        /\ assets' \in 0 .. assets - 1
        /\ (assets - assets') * supply <= n * assets
        /\ supply' = supply - n
        /\ queued' = [queued EXCEPT ![u] = @ - n]
        /\ since' = [since EXCEPT ![u] = IF n = queued[u] THEN 0 ELSE @]
        /\ UNCHANGED <<clock, held>>

Next ==
    \/ Pass
    \/ \E u \in Holders :
          Buy(u) \/ Queue(u) \/ Unqueue(u) \/ Leave(u) \/ \E v \in Holders : Send(u, v)

Spec == Init /\ [][Next]_shares
=============================================================================
