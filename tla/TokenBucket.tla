---------------------------- MODULE TokenBucket -----------------------------
(***************************************************************************)
(* contracts/sources/helpers/rate_limiter.move as operators on a bucket    *)
(* record.  "t" is the clock's timestamp in milliseconds.  A function that *)
(* may abort has a companion predicate (ConsumeOK, ConfigOK) which the     *)
(* calling action uses as its guard.                                       *)
(***************************************************************************)
EXTENDS MoveMath

Bucket == [available : U64, last_updated_ms : Nat, capacity : U64,
           refill_rate_per_ms : U64, enabled : BOOLEAN]

\* elapsed_ms: zero when the clock is not past the last update.
ElapsedMs(last, t) == IF t > last THEN t - last ELSE 0

\* The refilled level, capped at the capacity.
Level(b, t) ==
    MinOf(b.available + ElapsedMs(b.last_updated_ms, t) * b.refill_rate_per_ms,
          b.capacity)

\* available_withdrawal: unlimited while the limiter is disabled.
AvailableWithdrawal(b, t) == IF b.enabled THEN Level(b, t) ELSE U64Max

\* Mutant: the refill leaves its timestamp behind, so elapsed time counts twice.
RefillKeepsTimestamp(b, t) ==
    IF ElapsedMs(b.last_updated_ms, t) > 0
    THEN [b EXCEPT !.available = Level(b, t)]
    ELSE b

\* refill: the level is only recomputed when time has passed.
Refill(b, t) ==
    IF ElapsedMs(b.last_updated_ms, t) > 0
    THEN [b EXCEPT !.available = Level(b, t), !.last_updated_ms = t]
    ELSE b

\* new: disabled, with zero capacity.
NewBucket(t) == [available |-> 0, last_updated_ms |-> t, capacity |-> 0,
                 refill_rate_per_ms |-> 0, enabled |-> FALSE]

\* EInvalidConfig, asserted by enable and update_config.
ConfigOK(capacity, rate) == rate > 0 /\ rate < capacity

\* update_config: refill at the old rate, then clamp to the new capacity.
UpdateConfig(b, capacity, rate, t) ==
    LET r == Refill(b, t)
    IN  [r EXCEPT !.capacity = capacity,
                  !.refill_rate_per_ms = rate,
                  !.available = MinOf(r.available, capacity)]

\* enable: refills before it switches the limiter on.
Enable(b, t) == [Refill(b, t) EXCEPT !.enabled = TRUE]

\* disable
Disable(b) == [b EXCEPT !.enabled = FALSE]

\* EExceedsCapacity and EInsufficientWithdrawalBudget, checked after the refill.
ConsumeOK(b, amount, t) ==
    b.enabled /\ amount # 0 => /\ amount <= b.capacity
                               /\ amount <= Refill(b, t).available

\* consume: a disabled limiter and a zero amount leave the bucket alone.
Consume(b, amount, t) ==
    IF b.enabled /\ amount # 0
    THEN [Refill(b, t) EXCEPT !.available = @ - amount]
    ELSE b

\* record_deposit: replenishes, capped at the capacity.
RecordDeposit(b, amount, t) ==
    IF b.enabled
    THEN [Refill(b, t) EXCEPT !.available = MinOf(@ + amount, b.capacity)]
    ELSE b
=============================================================================
