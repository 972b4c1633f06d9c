---------------------------- MODULE VaultEvents -----------------------------
(***************************************************************************)
(* The vault composed with what a dashboard shows of its hedges: the       *)
(* rebalance events that its transactions emit, in order, and the exposure *)
(* table folded from them.  Relay and Dashboard show that a dashboard      *)
(* which has caught up holds the last events of the stream, however many;  *)
(* here the log itself is that ring, and any end of it may be all there is.  *)
(***************************************************************************)
EXTENDS Vault, Exposure

CONSTANT RingCap      \* MAX_RING_EVENTS of the ring the table is folded from

ASSUME RingCapAssumption == RingCap \in Nat \ {0}

VARIABLES log,       \* the last RingCap events of the rebalance module
          dropped    \* the keys an emergency unwind removed: AdminUnwind is an event
                     \* of another stream, and the table ignores it

eventVars == <<vars, log, dropped>>

\* The ring drops its oldest events beyond the cap.
Pushed(es) == LET all == log \o es IN SubSeq(all, Max({1, Len(all) - RingCap + 1}), Len(all))

EventInit == Init /\ log = <<>> /\ dropped = {}

\* supply, through rebalance::buy_hedge_for_deposit.
SupplyEmits(u, o, amount, fair) ==
    /\ Supply(u, o, amount, fair)
    /\ log' = Pushed(<<HedgeMinted(TargetKey(o),
                                   MulDivDown(amount, Effective("alloc_bps"), BpsScale),
                                   TargetExpiry)>>)
    /\ dropped' = dropped \ {TargetKey(o)}

\* rebalance::roll_expiring emits one event for each row; their order makes no
\* difference to the rows that are left.
RollEmits(caller, o, before, fair) ==
    /\ RollExpiring(caller, o, before, fair)
    /\ LET each == SetToSeq(ToRoll)
       IN  log' = Pushed([i \in DOMAIN each |-> HedgeRolled(each[i], TargetKey(o))])
    /\ dropped' = dropped \ {TargetKey(o)}

UnwindEmits(k) ==
    /\ AdminEmergencyUnwind(k)
    /\ dropped' = dropped \cup {k}
    /\ UNCHANGED log

\* Every other transaction emits nothing in this stream.  Exits and trades made on
\* Predict directly do not touch the registry: they are left to Vault.
EventNext ==
    \/ \E u \in Users, o \in Oracles, f \in FairValues :
          \/ \E a \in Deposits : SupplyEmits(u, o, a, f)
          \/ \E b \in SUBSET ToRoll : RollEmits(u, o, b, f)
    \/ \E k \in MarketKey : UnwindEmits(k)
    \/ /\ \/ Tick
          \/ \E p \in BOOLEAN : AdminPause(p)
          \/ \E key \in TuneKeys : \E v \in TuneValues[key] : AdminTuneStrategy(key, v)
          \/ \E v \in TuneValues["max_staleness"] : AdminOracleStalenessOverride(v)
          \/ \E o \in Oracles, f \in Forwards : OracleUpdatePrices(o, f)
       /\ UNCHANGED <<log, dropped>>

EventSpec == EventInit /\ [][EventNext]_eventVars

-----------------------------------------------------------------------------
\* From however short an end of the stream it is folded, the exposure table invents
\* nothing: each row is a hedge of the registry, or one the admin has unwound, with
\* no more than its cost basis; so the total shown is at most what the vault paid.
ExposureSound ==
    \A i \in 1 .. Len(log) + 1 :
        LET rows == UseExposure(SubSeq(log, i, Len(log)), now)
        IN  /\ \A row \in DOMAIN rows : \E k \in MarketKey :
                  /\ row = MakeMarketKey(k)
                  /\ \/ k \in dropped
                     \/ k \in DOMAIN hedges /\ rows[row].notional <= hedges[k].cost_basis
            /\ TotalNotional(rows) <= SumOver(MarketKey, CostOf) + unwound
=============================================================================
