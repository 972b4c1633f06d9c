---------------------------- MODULE RateLimiter -----------------------------
(***************************************************************************)
(* One RateLimiter object under every call helpers/rate_limiter.move       *)
(* offers, in any order and at any time.  The variable "window" belongs to *)
(* an observer: it may open a measuring window at any moment, after which  *)
(* it counts the quote that consume charged to the bucket and the quote    *)
(* record_deposit credited.  A new configuration opens a new window.       *)
(***************************************************************************)
EXTENDS TokenBucket

CONSTANTS Amounts,      \* amounts passed to consume and record_deposit
          Capacities,   \* capacities passed to update_config
          Rates,        \* refill rates passed to update_config
          MaxTime       \* bound on the clock, for TLC

ASSUME LimiterAssumption ==
    /\ Amounts \subseteq U64
    /\ Capacities \subseteq U64
    /\ Rates \subseteq U64
    /\ MaxTime \in Nat

VARIABLES now,      \* the shared Clock, in milliseconds
          bucket,   \* the RateLimiter
          window    \* observer: start of the window, quote spent and credited in it

vars == <<now, bucket, window>>

Window == [start : Nat, spent : Nat, credit : Nat]

TypeOK ==
    /\ now \in Nat
    /\ bucket \in Bucket
    /\ window \in Window

NewWindow == [start |-> now, spent |-> 0, credit |-> 0]

Init ==
    /\ now = 0
    /\ bucket = NewBucket(0)
    /\ window = [start |-> 0, spent |-> 0, credit |-> 0]

Tick ==
    /\ now < MaxTime
    /\ now' = now + 1
    /\ UNCHANGED <<bucket, window>>

DoConsume(amount) ==
    /\ ConsumeOK(bucket, amount, now)
    /\ bucket' = Consume(bucket, amount, now)
    /\ window' = IF bucket.enabled THEN [window EXCEPT !.spent = @ + amount]
                                   ELSE window
    /\ UNCHANGED now

DoRecordDeposit(amount) ==
    /\ bucket' = RecordDeposit(bucket, amount, now)
    /\ window' = IF bucket.enabled THEN [window EXCEPT !.credit = @ + amount]
                                   ELSE window
    /\ UNCHANGED now

DoEnable ==
    /\ ConfigOK(bucket.capacity, bucket.refill_rate_per_ms)
    /\ bucket' = Enable(bucket, now)
    /\ UNCHANGED <<now, window>>

DoDisable ==
    /\ bucket' = Disable(bucket)
    /\ UNCHANGED <<now, window>>

DoUpdateConfig(capacity, rate) ==
    /\ ConfigOK(capacity, rate)
    /\ bucket' = UpdateConfig(bucket, capacity, rate, now)
    /\ window' = NewWindow
    /\ UNCHANGED now

OpenWindow ==
    /\ window' = NewWindow
    /\ UNCHANGED <<now, bucket>>

Next ==
    \/ Tick
    \/ \E a \in Amounts : DoConsume(a)
    \/ \E a \in Amounts : DoRecordDeposit(a)
    \/ DoEnable
    \/ DoDisable
    \/ \E c \in Capacities, r \in Rates : DoUpdateConfig(c, r)
    \/ OpenWindow

Spec == Init /\ [][Next]_vars

-----------------------------------------------------------------------------
\* What the configured capacity, the refill since the window opened and the
\* recorded deposits allow.
Allowance ==
    bucket.capacity + bucket.refill_rate_per_ms * (now - window.start) + window.credit

\* The rate limit: over ANY window of time, wherever it starts, the quote that
\* consume lets through is at most one burst (capacity) plus the refill
\* accumulated since the window opened plus recorded deposits.
WindowBound == window.spent <= Allowance

\* The reading and the writing path of the limiter agree: any positive amount
\* up to what available_withdrawal reports is accepted by consume at the same
\* clock reading.  redeem_fulfill relies on it: it caps the payout at
\* available_withdrawal and then calls consume, which must not abort.
QuotedIsConsumable ==
    bucket.enabled =>
        \A a \in 1 .. AvailableWithdrawal(bucket, now) : ConsumeOK(bucket, a, now)

\* The inductive strengthening of WindowBound: what is left in the bucket,
\* refilled to the present, still fits the allowance next to what was spent.
WindowInv ==
    /\ window.start <= now
    /\ bucket.last_updated_ms <= now
    /\ bucket.available <= bucket.capacity
    /\ window.spent + Level(bucket, now) <= Allowance
=============================================================================
