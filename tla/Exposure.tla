------------------------------ MODULE Exposure ------------------------------
(***************************************************************************)
(* The open-hedge table of the dashboard, hooks/useExposure.ts: a fold     *)
(* over the events of the ring, and what the panels sum up from it.        *)
(*                                                                         *)
(* The hook reads fields named expiry_ms and is_down of a market key; the  *)
(* chain spells them expiry and direction (market_key.move).  It falls     *)
(* back to '0' and 'up': its row key is the oracle and the strike, and the *)
(* expiry of a rolled hedge is unknown to it.                              *)
(***************************************************************************)
EXTENDS Collections, Sequences, SequencesExt

\* rebalance::HedgeMinted carries the key, the cost basis and, next to the key, the
\* expiry; rebalance::HedgeRolled carries the two keys.
HedgeMinted(k, cost, expiry) ==
    [name |-> "HedgeMinted", key |-> k, cost |-> cost, expiry |-> expiry]
HedgeRolled(old, new) == [name |-> "HedgeRolled", old |-> old, new |-> new]

-----------------------------------------------------------------------------
\* makeMarketKey, of a key as the chain spells it.
MakeMarketKey(k) == <<k.oracle, k.strike>>

\* hedgeFromMint
HedgeFromMint(e) == [notional |-> e.cost, expiry |-> e.expiry]

\* hedgeFromRolledNew: the event has no amount, and no expiry_ms to read.
HedgeFromRolledNew(e) == [notional |-> 0, expiry |-> 0]

SetRow(open, k, row) == [x \in DOMAIN open \cup {k} |-> IF x = k THEN row ELSE open[x]]
DeleteRow(open, k) == [x \in DOMAIN open \ {k} |-> open[x]]

\* Mutant: a roll adds the new row and leaves the old one.
RollRowsKeepsOld(open, e) == SetRow(open, MakeMarketKey(e.new), HedgeFromRolledNew(e))

\* A roll deletes the old row, then sets the new one.
RollRows(open, e) ==
    SetRow(DeleteRow(open, MakeMarketKey(e.old)), MakeMarketKey(e.new), HedgeFromRolledNew(e))

\* The body of the loop.  A HedgeUnwound would delete a row, and nothing emits it.
FoldEvent(open, e) ==
    IF e.name = "HedgeMinted"
    THEN SetRow(open, MakeMarketKey(e.key), HedgeFromMint(e))
    ELSE RollRows(open, e)

\* useExposure: the rows that have not expired.
UseExposure(events, now) ==
    LET open == FoldLeft(FoldEvent, <<>>, events)
    IN  [k \in {x \in DOMAIN open : open[x].expiry >= now} |-> open[k]]

\* The total notional of ExposurePanel and of the hedge ratio in the headline.
TotalNotional(rows) == SumOver(DOMAIN rows, [k \in DOMAIN rows |-> rows[k].notional])
=============================================================================
