-------------------------- MODULE SubscriberProofs --------------------------
(***************************************************************************)
(* A subscriber that has been stopped stays stopped, and an authenticated  *)
(* one has what the manager wants subscribed, for every set of oracles,    *)
(* every size of a batch and every order of closes, timers and syncs.      *)
(***************************************************************************)
EXTENDS Subscriber, FiniteSetTheorems, TLAPS

\* QuietAfterStop is inductive once the states of the socket are known: stop() closes a
\* socket that is connecting or open and keeps any other.
StopInv ==
    /\ stopped \in BOOLEAN /\ timer \in BOOLEAN
    /\ ws \in {"none", "connecting", "open", "closing", "closed"}
    /\ QuietAfterStop

\* Every step keeps the invariant: connect() refuses once stopped, and onclose arms
\* no timer.
LEMMA StopStep == StopInv /\ [Next]_vars => StopInv'
  <1> SUFFICES ASSUME StopInv, [Next]_vars PROVE StopInv'
    OBVIOUS
  <1> USE DEF StopInv, QuietAfterStop
  <1>1. CASE Start \/ Reconnect
    <2>1. ~stopped /\ stopped' = stopped /\ ws' = "connecting" /\ timer' \in BOOLEAN
      BY <1>1 DEF Start, Reconnect, Connect
    <2> QED
      BY <2>1
  <1>2. CASE Open
    BY <1>2 DEF Open
  <1>3. CASE AuthOk
    BY <1>3 DEF AuthOk
  <1>4. CASE Close \/ Closed
    <2>1. ws' = "closed" /\ stopped' = stopped /\ timer' = ~stopped
      BY <1>4 DEF Close, Closed, CloseRearms
    <2> QED
      BY <2>1, Zenon
  <1>5. CASE \E c \in ClientIds : Values(c)
    BY <1>5 DEF Values, socket
  <1>6. CASE SyncOracles
    BY <1>6 DEF SyncOracles, socket
  <1>7. CASE Microtask
    BY <1>7 DEF Microtask, socket
  <1>8. CASE Stop
    BY <1>8 DEF Stop
  <1>9. CASE Tick \/ UNCHANGED vars
    BY <1>9 DEF Tick, vars, socket
  <1> QED
    BY <1>1, <1>2, <1>3, <1>4, <1>5, <1>6, <1>7, <1>8, <1>9 DEF Next

\* After subscriber.ts's stop() no timer is armed and no socket connects again, although
\* the close event that follows runs the handler that re-arms the timer.
THEOREM StoppedStaysQuiet == Spec => []QuietAfterStop
  <1>1. Init => StopInv
    BY DEF Init, StopInv, QuietAfterStop
  <1>2. StopInv => QuietAfterStop
    BY DEF StopInv
  <1> QED
    BY <1>1, <1>2, StopStep, PTL DEF Spec

-----------------------------------------------------------------------------
(* What an authenticated connection has subscribed.                          *)

\* Everything tracked that has not expired.
Served ==
    /\ {o \in Tracked : ExpiryOf[o] > now} \subseteq Subscribed
    /\ (\E o \in Tracked : ExpiryOf[o] > now) => spotSub

\* AllSubscribed speaks of what the manager wanted last; it is inductive once that is
\* what is tracked, and a socket that is still to open is not authenticated.
SubsInv ==
    /\ now \in Nat /\ spotSub \in BOOLEAN /\ scheduled \in BOOLEAN
    /\ oracles \in Lists /\ Tracked = wanted
    /\ ws = "connecting" => ~authed
    /\ ws = "open" /\ authed /\ ~scheduled => Served

\* A list of oracles is no longer than there are oracles.
LEMMA ListIndices ==
    ASSUME oracles \in Lists
    PROVE  /\ DOMAIN oracles \in SUBSET Nat /\ IsFiniteSet(DOMAIN oracles)
           /\ Cardinality(DOMAIN oracles) <= Cardinality(Oracles)
           /\ Cardinality(Oracles) \in Nat
           /\ \A i \in DOMAIN oracles : oracles[i] \in Oracles
  <1>1. PICK m \in 0 .. Cardinality(Oracles) : oracles \in [1 .. m -> Oracles]
    BY DEF Lists, SeqOf
  <1>2. Cardinality(Oracles) \in Nat
    BY SubscriberAssumption, FS_CardinalityType
  <1>3. DOMAIN oracles = 1 .. m /\ m \in Nat /\ m <= Cardinality(Oracles)
    BY <1>1, <1>2
  <1>4. IsFiniteSet(1 .. m) /\ Cardinality(1 .. m) = m
    BY <1>3, FS_Interval
  <1> QED
    BY <1>1, <1>2, <1>3, <1>4

\* resubscribeAll on an open socket: every unexpired oracle is in the one batch, or in
\* the chunk its place gives, and the chunk has a client_id.
LEMMA ResubscribedServes ==
    ASSUME oracles \in Lists, now \in Nat, spotSub \in BOOLEAN,
           subs' = SubsAfterSend, spotSub' = (spotSub \/ Active # {}),
           oracles' = oracles, now' = now
    PROVE  Served'
  <1>1. \A o \in Tracked : ExpiryOf[o] > now => \E i \in Unexpired : o = oracles[i]
    BY DEF Tracked, ToSet, Unexpired
  <1>2. ASSUME NEW o \in Tracked, ExpiryOf[o] > now PROVE o \in Subscribed'
    <2>1. PICK i \in Unexpired : o = oracles[i]
      BY <1>1, <1>2
    <2>2. o \in Active
      BY <2>1 DEF Active
    <2>3. CASE Cardinality(Unexpired) <= MaxSubsPerBatch
      <3>1. Whole \in ClientIds /\ subs'[Whole] = SendBatch(Whole, Active)
        BY <2>3 DEF SubsAfterSend, ClientIds
      <3>2. o \in subs'[Whole]
        BY <2>2, <3>1 DEF SendBatch
      <3> QED
        BY <3>1, <3>2 DEF Subscribed
    <2>4. CASE ~(Cardinality(Unexpired) <= MaxSubsPerBatch)
      <3> DEFINE c == Cardinality(Before(i)) \div MaxSubsPerBatch
      <3>1. Unexpired \subseteq DOMAIN oracles /\ Before(i) \subseteq DOMAIN oracles
        BY DEF Unexpired, Before
      <3>2. /\ Cardinality(Before(i)) \in Nat
            /\ Cardinality(Before(i)) <= Cardinality(DOMAIN oracles)
        BY <3>1, ListIndices, FS_Subset, FS_CardinalityType
      <3>3. Cardinality(DOMAIN oracles) \in Nat /\ Cardinality(DOMAIN oracles) <= Cardinality(Oracles)
        BY ListIndices, FS_CardinalityType
      <3>4. c \in 0 .. Cardinality(Oracles)
        <4>1. \A n \in Nat : n \div MaxSubsPerBatch \in Nat /\ n \div MaxSubsPerBatch <= n
          BY SubscriberAssumption
        <4> QED
          BY <3>2, <3>3, <4>1, ListIndices
      <3>5. c \in ClientIds /\ c # Whole
        BY <3>4 DEF ClientIds, Whole
      <3>6. subs'[c] = SendBatch(c, Chunk(c))
        BY <2>4, <3>5 DEF SubsAfterSend
      <3>7. o \in Chunk(c)
        BY <2>1 DEF Chunk
      <3> HIDE DEF c
      <3>8. o \in subs'[c]
        BY <3>6, <3>7 DEF SendBatch
      <3> QED
        BY <3>5, <3>8 DEF Subscribed
    <2> QED
      BY <2>3, <2>4
  <1>3. (\E o \in Tracked : ExpiryOf[o] > now) => Active # {}
    BY <1>1 DEF Active
  <1>4. Tracked' = Tracked
    BY DEF Tracked
  <1> QED
    BY <1>2, <1>3, <1>4 DEF Served

LEMMA SubsStep == SubsInv /\ [Next]_vars => SubsInv'
  <1> SUFFICES ASSUME SubsInv, [Next]_vars PROVE SubsInv'
    OBVIOUS
  <1> USE DEF SubsInv
  <1>0. Tracked' = Tracked \/ oracles' # oracles
    BY DEF Tracked
  \* The socket is not open and authenticated, or nothing of it changes.
  <1>1. ASSUME UNCHANGED <<now, oracles, wanted, scheduled>>, spotSub' \in BOOLEAN,
               ws' = "connecting" => ~authed',
               ws' = "open" /\ authed' => Served'
        PROVE  SubsInv'
    BY <1>0, <1>1
  <1>2. CASE Start \/ Reconnect
    <2>1. /\ UNCHANGED <<now, oracles, wanted, scheduled, subs, spotSub>>
          /\ \/ ws' = "connecting" /\ authed' = FALSE
             \/ ws' = ws /\ authed' = authed
      BY <1>2 DEF Start, Reconnect, Connect, server
    <2>2. Tracked' = Tracked /\ (Served => Served')
      BY <2>1 DEF Served, Subscribed, Tracked
    <2>3. CASE ws' = "connecting" /\ authed' = FALSE
      BY <1>1, <2>1, <2>3
    <2>4. CASE ws' = ws /\ authed' = authed
      BY <2>1, <2>2, <2>4
    <2> QED
      BY <2>1, <2>3, <2>4
  <1>3. CASE Open
    <2>1. ~authed' /\ UNCHANGED <<now, oracles, wanted, scheduled, spotSub>> /\ ws' = "open"
      BY <1>3 DEF Open, server
    <2> QED
      BY <1>1, <2>1
  <1>4. CASE AuthOk
    <2>1. /\ UNCHANGED <<now, oracles, wanted, scheduled, ws>> /\ ws = "open"
          /\ subs' = SubsAfterSend /\ spotSub' = (spotSub \/ Active # {})
      BY <1>4 DEF AuthOk, AuthSubscribes, ResubscribeAll
    <2>2. Served'
      BY <2>1, ResubscribedServes
    <2> QED
      BY <1>1, <2>1, <2>2
  <1>5. CASE Close \/ Closed \/ Stop
    <2>1. /\ UNCHANGED <<now, oracles, wanted, scheduled>> /\ spotSub' \in BOOLEAN
          /\ ws' # "open" /\ (ws' = "connecting" => ~authed')
      BY <1>5 DEF Close, Closed, Stop, server
    <2> QED
      BY <1>1, <2>1
  <1>6. CASE \E c \in ClientIds : Values(c)
    <2>1. UNCHANGED <<now, ws, authed, oracles, wanted, scheduled, subs, spotSub>>
      BY <1>6 DEF Values, socket, server
    <2> QED
      BY <1>0, <2>1 DEF Served, Subscribed
  <1>7. CASE UNCHANGED vars
    <2>1. UNCHANGED <<now, ws, authed, oracles, wanted, scheduled, subs, spotSub>>
      BY <1>7 DEF vars, socket, server
    <2> QED
      BY <1>0, <2>1 DEF Served, Subscribed
  <1>8. CASE SyncOracles
    <2>1. PICK next \in Lists :
              /\ wanted' = ToSet(next)
              /\ IF Tracked = ToSet(next) THEN UNCHANGED <<oracles, scheduled>>
                 ELSE oracles' = next /\ scheduled' = (authed \/ scheduled)
      BY <1>8 DEF SyncOracles, OracleTargetsEqual, ScheduleResubscribe
    <2>2. UNCHANGED <<now, ws, authed, subs, spotSub>>
      BY <1>8 DEF SyncOracles, socket, server
    <2>3. CASE Tracked = ToSet(next)
      <3>1. Tracked' = Tracked /\ wanted' = Tracked
        BY <2>1, <2>3 DEF Tracked
      <3> QED
        BY <2>1, <2>2, <2>3, <3>1 DEF Served, Subscribed
    <2>4. CASE Tracked # ToSet(next)
      <3>1. oracles' = next /\ scheduled' = (authed \/ scheduled) /\ Tracked' = wanted'
        BY <2>1, <2>4 DEF Tracked
      <3>2. scheduled' \in BOOLEAN /\ (authed' => scheduled')
        BY <2>2, <3>1, Zenon
      <3> QED
        BY <2>2, <3>1, <3>2
    <2> QED
      BY <2>3, <2>4
  <1>9. CASE Microtask
    <2>1. UNCHANGED <<now, ws, authed, oracles, wanted>> /\ scheduled' = FALSE
      BY <1>9 DEF Microtask, socket
    <2>2. CASE ws = "open"
      <3>1. subs' = SubsAfterSend /\ spotSub' = (spotSub \/ Active # {})
        BY <1>9, <2>2 DEF Microtask, ResubscribeAll
      <3>2. Served' /\ spotSub' \in BOOLEAN
        BY <2>1, <3>1, ResubscribedServes
      <3> QED
        BY <1>0, <2>1, <3>2
    <2>3. CASE ws # "open"
      <3>1. spotSub' = spotSub
        BY <1>9, <2>3 DEF Microtask, ResubscribeAll, server
      <3> QED
        BY <1>0, <2>1, <2>3, <3>1
    <2> QED
      BY <2>2, <2>3
  <1>10. CASE Tick
    <2>1. /\ UNCHANGED <<ws, authed, oracles, wanted, scheduled, subs, spotSub>>
          /\ now' = now + 1
      BY <1>10 DEF Tick, socket, server
    <2>2. \A o \in Oracles : ExpiryOf[o] > now' => ExpiryOf[o] > now
      BY <2>1, SubscriberAssumption
    <2>3. Tracked \subseteq Oracles /\ Tracked' = Tracked
      BY <2>1, ListIndices DEF Tracked, ToSet
    <2>4. Served => Served'
      BY <2>1, <2>2, <2>3 DEF Served, Subscribed
    <2> QED
      BY <2>1, <2>3, <2>4
  <1> QED
    BY <1>2, <1>3, <1>4, <1>5, <1>6, <1>7, <1>8, <1>9, <1>10 DEF Next

\* An authenticated connection has every oracle that syncOracles was last given and that
\* has not expired, whatever chunks were sent before.
THEOREM WantedIsSubscribed == Spec => []AllSubscribed
  <1>1. Init => SubsInv
    <2> SUFFICES ASSUME Init PROVE SubsInv
      OBVIOUS
    <2>1. oracles = <<>> /\ DOMAIN oracles = {} /\ wanted = {}
      BY DEF Init
    <2>2. oracles \in Lists
      <3>1. Cardinality(Oracles) \in Nat
        BY SubscriberAssumption, FS_CardinalityType
      <3>2. oracles \in [1 .. 0 -> Oracles] /\ 0 \in 0 .. Cardinality(Oracles)
        BY <2>1, <3>1
      <3>3. IsInjective(oracles)
        BY <2>1 DEF IsInjective
      <3> QED
        BY <3>2, <3>3 DEF Lists, SeqOf
    <2>3. Tracked = {}
      BY <2>1 DEF Tracked, ToSet
    <2> QED
      BY <2>1, <2>2, <2>3 DEF Init, SubsInv
  <1>2. SubsInv => AllSubscribed
    BY DEF SubsInv, AllSubscribed, Served
  <1> QED
    BY <1>1, <1>2, SubsStep, PTL DEF Spec
=============================================================================
