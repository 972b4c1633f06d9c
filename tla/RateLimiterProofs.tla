------------------------- MODULE RateLimiterProofs --------------------------
(***************************************************************************)
(* Proofs about RateLimiter, for every width of u64, every amount,         *)
(* capacity and rate, and a clock without bound on its steps.  WindowBound *)
(* is not inductive: the next consume is bounded by what the bucket holds, *)
(* so WindowInv adds what is left in the bucket to what was spent.         *)
(*                                                                         *)
(* GaugeHonest is not inductive either: while a query is in flight nothing *)
(* is shown.  GaugeInv says that the copy it has read, refilled to the     *)
(* present, is as far from the bucket as withdrawals and deposits explain. *)
(***************************************************************************)
EXTENDS BucketGauge, HelperProofs

\* What is inductive: the types and WindowInv together.
Inv == TypeOK /\ WindowInv

\* A step that keeps the configuration lowers the level by no more than was spent
\* in it, and raises it by no more than was credited.
Accounted ==
    /\ now' = now
    /\ bucket'.capacity = bucket.capacity
    /\ bucket'.refill_rate_per_ms = bucket.refill_rate_per_ms
    /\ Level(bucket, now) + window.spent <= Level(bucket, now)' + window'.spent
    /\ Level(bucket, now)' + window.credit <= Level(bucket, now) + window'.credit

\* A new bucket is empty and nothing has been counted.
LEMMA InitInv == Init => Inv
  <1> SUFFICES ASSUME Init PROVE Inv
    OBVIOUS
  <1> USE U64MaxAssumption
  <1>1. TypeOK
    BY DEF Init, TypeOK, NewBucket, Bucket, Window, U64
  <1>2. Level(bucket, now) \in U64 /\ Level(bucket, now) <= bucket.capacity
    BY <1>1, LevelType DEF TypeOK
  <1>3. WindowInv
    BY <1>1, <1>2 DEF Init, WindowInv, NewBucket, Allowance, U64
  <1> QED
    BY <1>1, <1>3 DEF Inv

\* Facts every action's proof starts from.
LEMMA InvFacts ==
    ASSUME Inv
    PROVE  /\ now \in Nat /\ bucket \in Bucket /\ window \in Window
           /\ window.start \in Nat /\ window.spent \in Nat /\ window.credit \in Nat
           /\ bucket.available \in Nat /\ bucket.capacity \in Nat
           /\ bucket.refill_rate_per_ms \in Nat /\ bucket.last_updated_ms \in Nat
           /\ bucket.enabled \in BOOLEAN
           /\ Level(bucket, now) \in Nat /\ Level(bucket, now) <= bucket.capacity
           /\ bucket.refill_rate_per_ms * (now - window.start) \in Nat
           /\ WindowInv
  <1>1. now \in Nat /\ bucket \in Bucket /\ window \in Window /\ WindowInv
    BY DEF Inv, TypeOK
  <1>2. Level(bucket, now) \in U64 /\ Level(bucket, now) <= bucket.capacity
    BY <1>1, LevelType
  <1>3. bucket.refill_rate_per_ms \in Nat /\ now - window.start \in Nat
    BY <1>1, U64MaxAssumption DEF Bucket, Window, WindowInv, U64
  <1>4. bucket.refill_rate_per_ms * (now - window.start) \in Nat
    BY <1>3, ProductType
  <1> QED
    BY <1>1, <1>2, <1>4, U64MaxAssumption DEF Bucket, Window, U64

\* A millisecond adds the refill rate to the allowance, and no more to the level.
LEMMA TickInv == ASSUME Inv, Tick PROVE Inv'
  <1> DEFINE r == bucket.refill_rate_per_ms
             e == now - window.start
  <1>1. /\ now \in Nat /\ now' = now + 1 /\ bucket' = bucket /\ window' = window
    BY InvFacts DEF Tick
  <1>2. TypeOK'
    BY <1>1 DEF Inv, TypeOK
  <1>3. Level(bucket, now + 1) <= Level(bucket, now) + r
    BY InvFacts, LevelStep DEF WindowInv
  <1>4. Level(bucket, now + 1) \in Nat
    BY InvFacts, <1>1, LevelType, U64MaxAssumption DEF U64
  <1>5. r * (now + 1 - window.start) = r * e + r
    BY InvFacts
  <1>6. Allowance' = Allowance + r
    BY <1>1, <1>5, InvFacts DEF Allowance
  <1>7. Allowance \in Nat
    BY InvFacts DEF Allowance
  <1>8. window.spent + Level(bucket, now + 1) <= Allowance + r
    BY <1>3, <1>4, <1>7, InvFacts DEF WindowInv
  <1>9. WindowInv'
    BY <1>1, <1>6, <1>8, InvFacts DEF WindowInv
  <1> QED
    BY <1>2, <1>9 DEF Inv

\* A bucket that has just been refilled and then changed, under an unchanged
\* configuration, satisfies the invariant if its new level fits.
LEMMA RefilledInv ==
    ASSUME Inv, now' = now, bucket' \in Bucket, window' \in Window,
           bucket'.last_updated_ms = now,
           bucket'.capacity = bucket.capacity,
           bucket'.refill_rate_per_ms = bucket.refill_rate_per_ms,
           bucket'.available <= bucket.capacity,
           window'.start = window.start,
           window'.spent + bucket'.available
             <= window.spent + Level(bucket, now) + (window'.credit - window.credit),
           Level(bucket, now) + window.spent <= bucket'.available + window'.spent,
           bucket'.available + window.credit <= Level(bucket, now) + window'.credit
    PROVE  Inv' /\ Accounted
  <1>1. TypeOK'
    BY InvFacts DEF TypeOK
  <1>2. Level(bucket', now) = bucket'.available
    BY LevelNow
  <1>3. Level(bucket, now)' = bucket'.available
    BY <1>2
  <1>4. window'.credit \in Nat /\ window'.spent \in Nat /\ bucket'.available \in Nat
    BY U64MaxAssumption DEF Window, Bucket, U64
  <1>5. Allowance' = Allowance + (window'.credit - window.credit) /\ Allowance \in Nat
    BY InvFacts, <1>4 DEF Allowance
  <1>6. WindowInv'
    BY <1>3, <1>4, <1>5, InvFacts DEF WindowInv
  <1> QED
    BY <1>1, <1>3, <1>6 DEF Inv, Accounted

\* consume moves quote from the level to what was spent.
LEMMA ConsumeInv == ASSUME Inv, NEW a \in Amounts, DoConsume(a) PROVE Inv' /\ Accounted
  <1> DEFINE r == Refill(bucket, now)
  <1>0. a \in Nat /\ bucket.last_updated_ms <= now /\ bucket.available <= bucket.capacity
    BY InvFacts, LimiterAssumption, U64MaxAssumption DEF U64, WindowInv
  <1>1. /\ r \in Bucket /\ r.available = Level(bucket, now) /\ r.last_updated_ms = now
        /\ r.capacity = bucket.capacity
        /\ r.refill_rate_per_ms = bucket.refill_rate_per_ms
    BY <1>0, InvFacts, RefillFacts
  <1>2. CASE bucket.enabled /\ a # 0
    <2>1. a <= r.available /\ bucket' = [r EXCEPT !.available = @ - a] /\ now' = now
      BY <1>2 DEF DoConsume, ConsumeOK, Consume
    <2>2. r.available - a \in U64
      BY <1>0, <1>1, <2>1, U64MaxAssumption DEF Bucket, U64
    <2> HIDE DEF r
    <2>3. /\ bucket' \in Bucket /\ bucket'.available = r.available - a
          /\ bucket'.last_updated_ms = now /\ bucket'.capacity = bucket.capacity
          /\ bucket'.refill_rate_per_ms = bucket.refill_rate_per_ms
      BY <1>1, <2>1, <2>2 DEF Bucket
    <2>4. /\ window' = [window EXCEPT !.spent = @ + a]
      BY <1>2 DEF DoConsume
    <2>5. /\ window' \in Window /\ window'.start = window.start
          /\ window'.spent = window.spent + a /\ window'.credit = window.credit
      BY <2>4, <1>0, InvFacts DEF Window
    <2> QED
      BY <1>0, <1>1, <2>1, <2>3, <2>5, InvFacts, RefilledInv
  <1>3. CASE ~(bucket.enabled /\ a # 0)
    <2>1. bucket' = bucket /\ now' = now /\ window' = window
      BY <1>3, <1>0, InvFacts DEF DoConsume, Consume, Window
    <2>2. Inv'
      BY <2>1 DEF Inv, TypeOK, WindowInv, Allowance
    <2> QED
      BY <2>1, <2>2, InvFacts DEF Accounted
  <1> QED
    BY <1>2, <1>3

\* record_deposit raises the level by no more than it credits.
LEMMA RecordDepositInv == ASSUME Inv, NEW a \in Amounts, DoRecordDeposit(a) PROVE Inv' /\ Accounted
  <1> DEFINE r == Refill(bucket, now)
  <1>0. a \in Nat /\ bucket.last_updated_ms <= now /\ bucket.available <= bucket.capacity
    BY InvFacts, LimiterAssumption, U64MaxAssumption DEF U64, WindowInv
  <1>1. /\ r \in Bucket /\ r.available = Level(bucket, now) /\ r.last_updated_ms = now
        /\ r.capacity = bucket.capacity
        /\ r.refill_rate_per_ms = bucket.refill_rate_per_ms
    BY <1>0, InvFacts, RefillFacts
  <1>2. CASE bucket.enabled
    <2> DEFINE v == MinOf(r.available + a, bucket.capacity)
    <2>1. bucket' = [r EXCEPT !.available = v] /\ now' = now
      BY <1>2, <1>1 DEF DoRecordDeposit, RecordDeposit, Bucket
    <2>2. v \in U64 /\ v <= bucket.capacity /\ v <= r.available + a
      <3>1. r.available \in Nat /\ bucket.capacity \in U64
        BY <1>1, InvFacts, U64MaxAssumption DEF Bucket, U64
      <3> HIDE DEF r
      <3> QED
        BY <1>0, <3>1, U64MaxAssumption DEF MinOf, U64
    <2> HIDE DEF r, v
    <2>3. /\ bucket' \in Bucket /\ bucket'.available = v
          /\ bucket'.last_updated_ms = now /\ bucket'.capacity = bucket.capacity
          /\ bucket'.refill_rate_per_ms = bucket.refill_rate_per_ms
      BY <1>1, <2>1, <2>2 DEF Bucket
    <2>4. window' = [window EXCEPT !.credit = @ + a]
      BY <1>2 DEF DoRecordDeposit
    <2>5. /\ window' \in Window /\ window'.start = window.start
          /\ window'.spent = window.spent /\ window'.credit = window.credit + a
      BY <2>4, <1>0, InvFacts DEF Window
    <2>6. window'.spent + v <= window.spent + Level(bucket, now) + (window'.credit - window.credit)
      BY <1>0, <1>1, <2>2, <2>5, InvFacts, U64MaxAssumption DEF U64
    <2>7. Level(bucket, now) + window.spent <= v + window'.spent
      <3>1. r.available <= v
        <4>1. r.available \in Nat /\ r.available <= bucket.capacity /\ bucket.capacity \in Nat
          BY <1>1, InvFacts
        <4> QED
          BY <1>0, <4>1 DEF v, MinOf
      <3> QED
        BY <1>1, <2>2, <2>5, <3>1, InvFacts, U64MaxAssumption DEF U64
    <2>8. v + window.credit <= Level(bucket, now) + window'.credit
      BY <1>0, <1>1, <2>2, <2>5, InvFacts, U64MaxAssumption DEF U64
    <2> QED
      BY <2>1, <2>2, <2>3, <2>5, <2>6, <2>7, <2>8, RefilledInv
  <1>3. CASE ~bucket.enabled
    <2>1. bucket' = bucket /\ now' = now /\ window' = window
      BY <1>3 DEF DoRecordDeposit, RecordDeposit
    <2>2. Inv'
      BY <2>1 DEF Inv, TypeOK, WindowInv, Allowance
    <2> QED
      BY <2>1, <2>2, InvFacts DEF Accounted
  <1> QED
    BY <1>2, <1>3

\* enable only refills.
LEMMA EnableInv == ASSUME Inv, DoEnable PROVE Inv' /\ Accounted
  <1> DEFINE r == Refill(bucket, now)
  <1>0. bucket.last_updated_ms <= now /\ bucket.available <= bucket.capacity
    BY InvFacts DEF WindowInv
  <1>1. /\ r \in Bucket /\ r.available = Level(bucket, now) /\ r.last_updated_ms = now
        /\ r.capacity = bucket.capacity
        /\ r.refill_rate_per_ms = bucket.refill_rate_per_ms
    BY <1>0, InvFacts, RefillFacts
  <1>2. bucket' = [r EXCEPT !.enabled = TRUE] /\ now' = now /\ window' = window
    BY DEF DoEnable, Enable
  <1> HIDE DEF r
  <1>3. /\ bucket' \in Bucket /\ bucket'.available = r.available
        /\ bucket'.last_updated_ms = now /\ bucket'.capacity = bucket.capacity
        /\ bucket'.refill_rate_per_ms = bucket.refill_rate_per_ms
    BY <1>1, <1>2 DEF Bucket
  <1> QED
    BY <1>1, <1>2, <1>3, InvFacts, RefilledInv

\* disable touches nothing the bound speaks of.
LEMMA DisableInv == ASSUME Inv, DoDisable PROVE Inv' /\ Accounted
  <1>1. bucket' = [bucket EXCEPT !.enabled = FALSE] /\ now' = now /\ window' = window
    BY DEF DoDisable, Disable
  <1>2. /\ bucket' \in Bucket /\ bucket'.available = bucket.available
        /\ bucket'.last_updated_ms = bucket.last_updated_ms
        /\ bucket'.capacity = bucket.capacity
        /\ bucket'.refill_rate_per_ms = bucket.refill_rate_per_ms
    BY <1>1, InvFacts DEF Bucket
  <1>3. Level(bucket, now)' = Level(bucket, now)
    BY <1>1, <1>2 DEF Level
  <1>4. Inv'
    BY <1>1, <1>2, <1>3, InvFacts DEF Inv, TypeOK, WindowInv, Allowance
  <1> QED
    BY <1>1, <1>2, <1>3, <1>4, InvFacts DEF Accounted

\* update_config clamps the level to the capacity the new window starts with.
LEMMA UpdateConfigInv ==
    ASSUME Inv, NEW c \in Capacities, NEW q \in Rates, DoUpdateConfig(c, q)
    PROVE  Inv'
  <1> DEFINE r == Refill(bucket, now)
             v == MinOf(r.available, c)
  <1>0. /\ c \in U64 /\ q \in U64 /\ bucket.last_updated_ms <= now
        /\ bucket.available <= bucket.capacity
    BY InvFacts, LimiterAssumption DEF WindowInv
  <1>1. r \in Bucket /\ r.last_updated_ms = now
    BY <1>0, InvFacts, RefillFacts
  <1>2. /\ now' = now /\ window' = [start |-> now, spent |-> 0, credit |-> 0]
        /\ bucket' = [r EXCEPT !.capacity = c, !.refill_rate_per_ms = q, !.available = v]
    BY DEF DoUpdateConfig, UpdateConfig, NewWindow
  <1>3. v \in U64 /\ v <= c
    <2>1. r.available \in U64
      BY <1>1 DEF Bucket
    <2> HIDE DEF r
    <2> QED
      BY <1>0, <2>1, U64MaxAssumption DEF MinOf, U64
  <1> HIDE DEF r, v
  <1>4. /\ bucket' \in Bucket /\ bucket'.available = v /\ bucket'.capacity = c
        /\ bucket'.last_updated_ms = now /\ bucket'.refill_rate_per_ms = q
    BY <1>0, <1>1, <1>2, <1>3 DEF Bucket
  <1>5. /\ window' \in Window /\ window'.start = now /\ window'.spent = 0
        /\ window'.credit = 0
    BY <1>2, InvFacts DEF Window
  <1>6. TypeOK'
    BY <1>2, <1>4, <1>5, InvFacts DEF TypeOK
  <1>7. Level(bucket', now) = v
    BY <1>3, <1>4, LevelNow
  <1>8. Allowance' = c + q * 0 + 0
    BY <1>2, <1>4, <1>5, InvFacts DEF Allowance
  <1>9. WindowInv'
    BY <1>0, <1>2, <1>3, <1>4, <1>5, <1>7, <1>8, InvFacts, U64MaxAssumption DEF WindowInv, U64
  <1> QED
    BY <1>6, <1>9 DEF Inv

\* A new window starts with an allowance of one capacity.
LEMMA OpenWindowInv == ASSUME Inv, OpenWindow PROVE Inv'
  <1>1. now' = now /\ bucket' = bucket
        /\ window' = [start |-> now, spent |-> 0, credit |-> 0]
    BY DEF OpenWindow, NewWindow
  <1>2. window' \in Window /\ window'.start = now /\ window'.spent = 0 /\ window'.credit = 0
    BY <1>1, InvFacts DEF Window
  <1>3. Allowance' = bucket.capacity + bucket.refill_rate_per_ms * 0 + 0
    BY <1>1, <1>2, InvFacts DEF Allowance
  <1>4. WindowInv'
    BY <1>1, <1>2, <1>3, InvFacts DEF WindowInv
  <1>5. TypeOK'
    BY <1>1, <1>2, InvFacts DEF TypeOK
  <1> QED
    BY <1>4, <1>5 DEF Inv

\* Every step preserves the invariant.
LEMMA NextInv == Inv /\ [Next]_vars => Inv'
  <1> SUFFICES ASSUME Inv, [Next]_vars PROVE Inv'
    OBVIOUS
  <1>1. CASE Tick
    BY <1>1, TickInv
  <1>2. CASE \E a \in Amounts : DoConsume(a)
    BY <1>2, ConsumeInv
  <1>3. CASE \E a \in Amounts : DoRecordDeposit(a)
    BY <1>3, RecordDepositInv
  <1>4. CASE DoEnable
    BY <1>4, EnableInv
  <1>5. CASE DoDisable
    BY <1>5, DisableInv
  <1>6. CASE \E c \in Capacities, r \in Rates : DoUpdateConfig(c, r)
    BY <1>6, UpdateConfigInv
  <1>7. CASE OpenWindow
    BY <1>7, OpenWindowInv
  <1>8. CASE UNCHANGED vars
    BY <1>8 DEF vars, Inv, TypeOK, WindowInv, Allowance
  <1> QED
    BY <1>1, <1>2, <1>3, <1>4, <1>5, <1>6, <1>7, <1>8 DEF Next

\* The types, and the inductive strengthening of the rate limit, hold always.
THEOREM LimiterInvariant == Spec => []Inv
  BY InitInv, NextInv, PTL DEF Spec

\* A bucket stays a record of u64 fields whatever is called: consume's checks
\* keep its subtraction from going below zero.
THEOREM LimiterTypes == Spec => []TypeOK
  <1>1. Inv => TypeOK
    BY DEF Inv
  <1> QED
    BY <1>1, LimiterInvariant, PTL

\* The rate limit: over any window of time, consume lets through at most one
\* capacity plus the refill since the window opened plus recorded deposits.
THEOREM RateLimit == Spec => []WindowBound
  <1>1. Inv => WindowBound
    <2> SUFFICES ASSUME Inv PROVE WindowBound
      OBVIOUS
    <2>1. Allowance \in Nat
      BY InvFacts DEF Allowance
    <2> QED
      BY <2>1, InvFacts DEF WindowInv, WindowBound
  <1> QED
    BY <1>1, LimiterInvariant, PTL

\* available_withdrawal and consume agree: what the first reports, the second
\* accepts at the same clock reading.
THEOREM QuotedIsConsumed == Spec => []QuotedIsConsumable
  <1>1. Inv => QuotedIsConsumable
    <2> SUFFICES ASSUME Inv, bucket.enabled,
                        NEW a \in 1 .. AvailableWithdrawal(bucket, now)
                 PROVE  ConsumeOK(bucket, a, now)
      BY DEF QuotedIsConsumable
    <2>1. AvailableWithdrawal(bucket, now) = Level(bucket, now)
      BY DEF AvailableWithdrawal
    <2>2. a \in Nat /\ a <= Level(bucket, now)
      BY <2>1, InvFacts
    <2>3. Refill(bucket, now).available = Level(bucket, now)
      BY InvFacts, RefillFacts DEF WindowInv
    <2> QED
      BY <2>2, <2>3, InvFacts DEF ConsumeOK
  <1> QED
    BY <1>1, LimiterInvariant, PTL

-----------------------------------------------------------------------------
(* The gauge.                                                                *)

\* A read in flight, under the configuration it has read: the copy is a bucket, and
\* its level and the bucket's differ by what was spent and credited since.
ReadingTracks ==
    /\ reading \in Bucket
    /\ reading.available <= reading.capacity
    /\ reading.last_updated_ms <= now
    /\ reading.capacity = bucket.capacity
    /\ reading.refill_rate_per_ms = bucket.refill_rate_per_ms
    /\ Level(reading, now) <= Level(bucket, now) + window.spent
    /\ Level(bucket, now) <= Level(reading, now) + window.credit

\* A view that is shown, under the configuration it was read with.
ViewTracks ==
    /\ view.available \in Nat /\ view.at \in Nat /\ view.at <= now
    /\ view.available <= Level(bucket, now) + window.spent
    /\ Level(bucket, now) <=
           view.available + bucket.refill_rate_per_ms * (now - view.at) + window.credit

InFlight == watched /\ reading \notin {NoView, NoBucket}
Shown == watched /\ reading = NoView /\ view # NoView

GaugeInv == Inv /\ (InFlight => ReadingTracks) /\ (Shown => ViewTracks)

\* The hook refills its copy as the contract does.
LEMMA LazyRefillIsLevel ==
    ASSUME NEW b \in Bucket, NEW t \in Nat
    PROVE  ApplyLazyRefill(b, t) = Level(b, t)
  <1>1. CASE b.capacity = 0
    BY <1>1, LevelType, U64MaxAssumption DEF ApplyLazyRefill, U64
  <1>2. CASE b.capacity # 0
    BY <1>2 DEF ApplyLazyRefill, Level
  <1> QED
    BY <1>1, <1>2

\* The gauge only reads the limiter: its steps are the limiter's, or none.
LEMMA GaugeNextIsNext == GaugeNext => [Next]_vars
  BY DEF GaugeNext, Next, ReadBucket, OpenWindow, ReadFails, ShowBucket, ShowNone, vars

\* Time passes for the bucket, the copy in flight and the view alike.
LEMMA GaugeTick ==
    ASSUME GaugeInv, Tick, UNCHANGED gauge PROVE GaugeInv'
  <1> DEFINE q == bucket.refill_rate_per_ms
             L == Level(bucket, now)
             N == Level(bucket, now + 1)
  <1>1. /\ now \in Nat /\ now' = now + 1 /\ bucket' = bucket /\ window' = window
        /\ reading' = reading /\ view' = view /\ watched' = watched
    BY InvFacts DEF Tick, gauge, GaugeInv
  <1>2. /\ bucket \in Bucket /\ bucket.last_updated_ms <= now /\ q \in Nat /\ L \in Nat
        /\ L <= bucket.capacity /\ bucket.capacity \in Nat
        /\ window.spent \in Nat /\ window.credit \in Nat
    BY InvFacts DEF GaugeInv, WindowInv
  <1>3. N = MinOf(L + q, bucket.capacity)
    BY <1>1, <1>2, LevelNext
  <1>4. N \in Nat /\ L <= N /\ N <= L + q
    BY <1>2, <1>3 DEF MinOf
  <1>5. Inv'
    BY TickInv DEF GaugeInv
  <1>6. ASSUME InFlight PROVE ReadingTracks'
    <2> DEFINE R == Level(reading, now)
               M == Level(reading, now + 1)
    <2>1. ReadingTracks
      BY <1>6 DEF GaugeInv
    <2>2. M = MinOf(R + q, bucket.capacity)
      BY <1>1, <2>1, LevelNext DEF ReadingTracks
    <2>3. R \in Nat /\ R <= L + window.spent /\ L <= R + window.credit
      BY <1>1, <2>1, LevelType, U64MaxAssumption DEF ReadingTracks, U64
    <2>4. reading.last_updated_ms \in Nat
      BY <2>1 DEF ReadingTracks, Bucket
    <2> HIDE DEF R, M, L, N, q
    <2>5. M <= N + window.spent /\ N <= M + window.credit
      BY <1>2, <1>3, <2>2, <2>3 DEF MinOf
    <2>6. reading.last_updated_ms <= now + 1
      BY <1>1, <2>1, <2>4 DEF ReadingTracks
    <2> QED
      BY <1>1, <2>1, <2>5, <2>6 DEF ReadingTracks, M, N
  <1>7. ASSUME Shown PROVE ViewTracks'
    <2> DEFINE e == now - view.at
    <2>1. ViewTracks
      BY <1>7 DEF GaugeInv
    <2>2. /\ view.available \in Nat /\ view.at \in Nat /\ e \in Nat /\ now + 1 - view.at = e + 1
          /\ view.available <= L + window.spent
      BY <1>1, <2>1 DEF ViewTracks
    <2>3. L <= view.available + q * e + window.credit
      BY <2>1 DEF ViewTracks
    <2> HIDE DEF e, L, N, q
    <2>4. q * (e + 1) = q * e + q /\ q * e \in Nat
      BY <1>2, <2>2
    <2>5. view.available <= N + window.spent
      BY <1>2, <1>4, <2>2
    <2>6. N <= view.available + q * (e + 1) + window.credit
      <3> DEFINE p == q * e
      <3>1. q * (e + 1) = p + q /\ p \in Nat /\ L <= view.available + p + window.credit
        BY <2>3, <2>4
      <3> HIDE DEF p
      <3> QED
        BY <1>2, <1>4, <2>2, <3>1
    <2>7. view.at <= now + 1
      BY <1>1, <2>1, <2>2 DEF ViewTracks
    <2>8. q * (now + 1 - view.at) = q * (e + 1)
      BY <2>2
    <2>9. N <= view.available + q * (now + 1 - view.at) + window.credit
      BY <2>6, <2>8
    <2> QED
      BY <1>1, <2>2, <2>5, <2>7, <2>9 DEF ViewTracks, N, q
  <1> QED
    BY <1>1, <1>5, <1>6, <1>7 DEF GaugeInv, InFlight, Shown

\* A withdrawal or a deposit between two readings is in the observer's counts.
LEMMA GaugeAccounted ==
    ASSUME GaugeInv, Inv', Accounted, UNCHANGED gauge PROVE GaugeInv'
  <1> DEFINE L == Level(bucket, now)
             N == Level(bucket, now)'
  <1>1. /\ now \in Nat /\ now' = now /\ reading' = reading /\ view' = view /\ watched' = watched
        /\ L \in Nat /\ N \in Nat
        /\ window.spent \in Nat /\ window.credit \in Nat
        /\ window'.spent \in Nat /\ window'.credit \in Nat
    <2>1. N \in Nat /\ window'.spent \in Nat /\ window'.credit \in Nat
      <3>1. now' \in Nat /\ bucket' \in Bucket /\ window' \in Window
        BY DEF Inv, TypeOK
      <3>2. Level(bucket', now') \in U64
        BY <3>1, LevelType
      <3> QED
        BY <3>1, <3>2, U64MaxAssumption DEF Window, U64
    <2> QED
      BY <2>1, InvFacts DEF GaugeInv, Accounted, gauge
  <1>2. /\ L + window.spent <= N + window'.spent /\ N + window.credit <= L + window'.credit
        /\ bucket'.capacity = bucket.capacity
        /\ bucket'.refill_rate_per_ms = bucket.refill_rate_per_ms
    BY DEF Accounted
  <1>3. Level(reading, now)' = Level(reading, now)
    BY <1>1
  <1>4. ASSUME InFlight PROVE ReadingTracks'
    <2> DEFINE R == Level(reading, now)
    <2>1. ReadingTracks
      BY <1>4 DEF GaugeInv
    <2>2. R \in Nat /\ R <= L + window.spent /\ L <= R + window.credit
      BY <1>1, <2>1, LevelType, U64MaxAssumption DEF ReadingTracks, U64
    <2> HIDE DEF R, L, N
    <2>3. R <= N + window'.spent /\ N <= R + window'.credit
      BY <1>1, <1>2, <2>2
    <2> QED
      BY <1>1, <1>2, <1>3, <2>1, <2>3 DEF ReadingTracks, R, N
  <1>5. ASSUME Shown PROVE ViewTracks'
    <2> DEFINE p == view.available + bucket.refill_rate_per_ms * (now - view.at)
    <2>1. ViewTracks
      BY <1>5 DEF GaugeInv
    <2>2. p \in Nat /\ view.available \in Nat /\ view.available <= L + window.spent
          /\ L <= p + window.credit
      <3>1. now - view.at \in Nat /\ bucket.refill_rate_per_ms \in Nat
        BY <1>1, <2>1, InvFacts DEF ViewTracks, GaugeInv
      <3>2. bucket.refill_rate_per_ms * (now - view.at) \in Nat
        BY <3>1, ProductType
      <3> QED
        BY <2>1, <3>2 DEF ViewTracks
    <2>3. p' = p
      BY <1>1, <1>2
    <2> HIDE DEF p, L, N
    <2>4. view.available <= N + window'.spent /\ N <= p + window'.credit
      BY <1>1, <1>2, <2>2
    <2> QED
      BY <1>1, <2>1, <2>3, <2>4 DEF ViewTracks, p, N
  <1> QED
    BY <1>1, <1>4, <1>5 DEF GaugeInv, InFlight, Shown

\* A read copies the bucket and opens the window it is measured in.
LEMMA GaugeReads == ASSUME GaugeInv, ReadBucket PROVE GaugeInv'
  <1>1. /\ now' = now /\ bucket' = bucket /\ reading' = bucket
        /\ window' = [start |-> now, spent |-> 0, credit |-> 0]
    BY DEF ReadBucket, NewWindow
  <1>2. /\ bucket \in Bucket /\ bucket.available <= bucket.capacity
        /\ bucket.last_updated_ms <= now /\ Level(bucket, now) \in Nat
    BY InvFacts DEF GaugeInv, WindowInv
  <1>3. Inv'
    BY OpenWindowInv DEF GaugeInv, ReadBucket, OpenWindow
  <1>4. ReadingTracks'
    BY <1>1, <1>2 DEF ReadingTracks
  <1>5. ~Shown'
    BY <1>1, <1>2, GaugeAssumption DEF Shown
  <1> QED
    BY <1>3, <1>4, <1>5 DEF GaugeInv

\* The answer arrives: the copy, refilled to the present, is what is shown.
LEMMA GaugeShows == ASSUME GaugeInv, ShowBucket PROVE GaugeInv'
  <1>1. /\ now' = now /\ bucket' = bucket /\ window' = window /\ watched' = watched
        /\ view' = [available |-> ApplyLazyRefill(reading, now), at |-> now]
        /\ reading' = NoView /\ reading \notin {NoView, NoBucket}
    BY DEF ShowBucket, vars
  <1>2. Inv'
    BY <1>1 DEF GaugeInv, Inv, TypeOK, WindowInv, Allowance
  <1>3. ASSUME Shown' PROVE ViewTracks'
    <2>1. ReadingTracks
      BY <1>1, <1>3 DEF GaugeInv, InFlight, Shown
    <2>2. /\ now \in Nat /\ bucket.refill_rate_per_ms \in Nat /\ window.credit \in Nat
          /\ Level(reading, now) \in Nat
      BY <2>1, InvFacts, LevelType, U64MaxAssumption DEF GaugeInv, ReadingTracks, U64
    <2>3. view'.available = Level(reading, now) /\ view'.at = now
      BY <1>1, <2>1, <2>2, LazyRefillIsLevel DEF ReadingTracks
    <2>4. bucket.refill_rate_per_ms * (now - view'.at) = 0
      BY <2>2, <2>3
    <2>5. /\ Level(reading, now) <= Level(bucket, now) + window.spent
          /\ Level(bucket, now) <= Level(reading, now) + 0 + window.credit
      BY <2>1, <2>2 DEF ReadingTracks
    <2> QED
      BY <1>1, <2>2, <2>3, <2>4, <2>5 DEF ViewTracks
  <1> QED
    BY <1>1, <1>2, <1>3 DEF GaugeInv, InFlight

\* Every step of the gauge and the limiter preserves the invariant.
LEMMA GaugeStep == GaugeInv /\ [GaugeNext]_<<vars, gauge>> => GaugeInv'
  <1> SUFFICES ASSUME GaugeInv, [GaugeNext]_<<vars, gauge>> PROVE GaugeInv'
    OBVIOUS
  <1>0. Inv'
    BY GaugeNextIsNext, NextInv DEF GaugeInv, vars
  <1>1. CASE Tick /\ UNCHANGED gauge
    BY <1>1, GaugeTick
  <1>2. CASE (DoEnable \/ DoDisable \/ \E a \in Amounts : DoConsume(a) \/ DoRecordDeposit(a))
               /\ UNCHANGED gauge
    <2>1. Accounted
      BY <1>2, EnableInv, DisableInv, ConsumeInv, RecordDepositInv DEF GaugeInv
    <2> QED
      BY <1>0, <1>2, <2>1, GaugeAccounted
  <1>3. CASE watched' = FALSE
    BY <1>0, <1>3 DEF GaugeInv, InFlight, Shown
  <1>4. CASE ReadBucket
    BY <1>4, GaugeReads
  <1>5. CASE ReadFails
    <2>1. /\ reading = NoView /\ reading' = NoBucket /\ view' = view /\ watched' = watched
          /\ now' = now /\ bucket' = bucket /\ window' = window
      BY <1>5 DEF ReadFails, vars
    <2>2. ~InFlight'
      BY <2>1 DEF InFlight
    <2>3. Shown' => Shown
      BY <2>1 DEF Shown
    <2>4. ViewTracks => ViewTracks'
      BY <2>1 DEF ViewTracks
    <2> QED
      BY <1>0, <2>2, <2>3, <2>4 DEF GaugeInv
  <1>6. CASE ShowBucket
    BY <1>6, GaugeShows
  <1>7. CASE ShowNone
    BY <1>0, <1>7 DEF ShowNone, GaugeInv, InFlight, Shown
  <1>8. CASE UNCHANGED <<vars, gauge>>
    <2>1. /\ reading' = reading /\ view' = view /\ watched' = watched
          /\ now' = now /\ bucket' = bucket /\ window' = window
      BY <1>8 DEF vars, gauge
    <2>2. (InFlight' <=> InFlight) /\ (Shown' <=> Shown)
      BY <2>1 DEF InFlight, Shown
    <2>3. (ReadingTracks => ReadingTracks') /\ (ViewTracks => ViewTracks')
      BY <2>1 DEF ReadingTracks, ViewTracks
    <2> QED
      BY <1>0, <2>2, <2>3 DEF GaugeInv
  <1> QED
    BY <1>1, <1>2, <1>3, <1>4, <1>5, <1>6, <1>7, <1>8 DEF GaugeNext

\* However long a query takes, however old the view is and whatever is withdrawn and
\* deposited meanwhile: unless the limiter is reconfigured, the budget the dashboard
\* shows and the bucket's differ by no more than withdrawals, refill and deposits since.
THEOREM GaugeIsHonest == GaugeSpec => []GaugeHonest
  <1>1. GaugeInit => GaugeInv
    BY InitInv DEF GaugeInit, GaugeInv, InFlight, Shown
  <1>2. GaugeInv => GaugeHonest
    BY DEF GaugeInv, Shown, ViewTracks, GaugeHonest
  <1> QED
    BY <1>1, <1>2, GaugeStep, PTL DEF GaugeSpec
=============================================================================
