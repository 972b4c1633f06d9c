---------------------------- MODULE BucketGauge -----------------------------
(***************************************************************************)
(* The dashboard's gauge of a user's withdrawal budget                     *)
(* (hooks/useBucketState.ts) beside the RateLimiter it reads.  A query     *)
(* reads the bucket from a node and, when the answer arrives, refills the  *)
(* copy on the client; meanwhile, and until the next refetch, the bucket   *)
(* goes on changing.  The browser's clock is taken to be the chain's.      *)
(***************************************************************************)
EXTENDS RateLimiter

CONSTANTS NoBucket,    \* a read that found nothing, or failed
          NoView,      \* the null view: the gauge says that the bucket is pending
          MaxReads     \* bound on queries

ASSUME GaugeAssumption == NoView \notin Bucket

VARIABLES reading,     \* what the query in flight has read, NoView if there is none
          view,        \* the hook's view: availableMicro, and when it was computed
          reads,       \* history: queries so far
          watched      \* history: the window was opened by the last read

gauge == <<reading, view, reads, watched>>

\* Mutant: the refill is not capped.
ApplyLazyRefillUncapped(b, t) ==
    b.available + ElapsedMs(b.last_updated_ms, t) * b.refill_rate_per_ms

\* applyLazyRefill; whether the limiter is enabled is not looked at.
ApplyLazyRefill(b, t) ==
    IF b.capacity = 0 THEN 0
    ELSE MinOf(b.available + ElapsedMs(b.last_updated_ms, t) * b.refill_rate_per_ms,
               b.capacity)

\* queryFn: the node answers with the bucket as it is now.
ReadBucket ==
    /\ reading = NoView /\ reads < MaxReads
    /\ reads' = reads + 1
    /\ reading' = bucket
    /\ window' = NewWindow
    /\ watched' = TRUE
    /\ UNCHANGED <<now, bucket, view>>

\* getDynamicFieldObject throws: before the user's first redeem_request, or on an
\* RPC error.
ReadFails ==
    /\ reading = NoView /\ reads < MaxReads
    /\ reads' = reads + 1
    /\ reading' = NoBucket
    /\ UNCHANGED <<vars, view, watched>>

\* The answer arrives.  The copy is refilled to the moment of arrival.
ShowBucket ==
    /\ reading \notin {NoView, NoBucket}
    /\ view' = [available |-> ApplyLazyRefill(reading, now), at |-> now]
    /\ reading' = NoView
    /\ UNCHANGED <<vars, reads, watched>>

ShowNone ==
    /\ reading = NoBucket
    /\ view' = NoView /\ reading' = NoView
    /\ UNCHANGED <<vars, reads, watched>>

GaugeInit == Init /\ reading = NoView /\ view = NoView /\ reads = 0 /\ watched = FALSE

\* The limiter goes on beside the gauge.  A read opens the observer's window, and no
\* other opens one, unless a new configuration does.
GaugeNext ==
    \/ /\ \/ Tick \/ DoEnable \/ DoDisable
          \/ \E a \in Amounts : DoConsume(a) \/ DoRecordDeposit(a)
       /\ UNCHANGED gauge
    \/ /\ \E c \in Capacities, r \in Rates : DoUpdateConfig(c, r)
       /\ watched' = FALSE
       /\ UNCHANGED <<reading, view, reads>>
    \/ ReadBucket \/ ReadFails \/ ShowBucket \/ ShowNone

GaugeSpec == GaugeInit /\ [][GaugeNext]_<<vars, gauge>>

-----------------------------------------------------------------------------
\* What the gauge shows, however long the answer took and however old the view is:
\* unless the limiter was reconfigured, the bucket holds what is shown less what was
\* withdrawn since the read, and no more than what was refilled and deposited since
\* on top of it.
GaugeHonest ==
    watched /\ reading = NoView /\ view # NoView =>
        /\ view.available <= Level(bucket, now) + window.spent
        /\ Level(bucket, now) <=
               view.available + bucket.refill_rate_per_ms * (now - view.at) + window.credit
=============================================================================
