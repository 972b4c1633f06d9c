----------------------------- MODULE Subscriber -----------------------------
(***************************************************************************)
(* The oracle feed's WebSocket subscriber: connect, authenticate, subscribe*)
(* the tracked oracles in chunks, reconnect with a backoff ladder, and     *)
(* resubscribe when the manager changes the tracked oracles.               *)
(*                                                                         *)
(* Forward and SVI subscriptions are built and sent by the same code from  *)
(* the same oracles, so one set of chunks stands for both.  The server     *)
(* keeps one list per client_id, for as long as the connection lasts.      *)
(***************************************************************************)
EXTENDS Integers, Sequences, FiniteSets, SequencesExt

CONSTANTS
    Oracles,          \* oracle ids
    ExpiryOf,         \* their expiryMs
    MaxSubsPerBatch,  \* MAX_SUBS_PER_BATCH
    \* Bounds
    MaxTime,          \* the clock
    MaxDrops,         \* connections that fail or break
    MaxSyncs          \* calls of syncOracles

ASSUME SubscriberAssumption ==
    /\ IsFiniteSet(Oracles) /\ ExpiryOf \in [Oracles -> Nat]
    /\ MaxSubsPerBatch \in Nat \ {0}
    /\ MaxTime \in Nat /\ MaxDrops \in Nat /\ MaxSyncs \in Nat

VARIABLES
    now,         \* Date.now()
    ws,          \* the socket
    authed,      \* authed
    timer,       \* reconnectTimer is armed
    attempt,     \* reconnectAttempt
    stopped,     \* stopped
    oracles,     \* oracles, in insertion order
    scheduled,   \* resubscribeScheduled
    subs,        \* server: the oracles of every client_id of this connection
    spotSub,     \* server: spot is subscribed
    cached,      \* oracles with a sample in priceCache and sviCache
    wanted,      \* history: the oracles of the last syncOracles
    drops, syncs \* history: connections lost, calls of syncOracles

socket == <<ws, authed, timer, attempt>>
server == <<subs, spotSub>>
vars == <<now, socket, stopped, oracles, scheduled, server, cached, wanted, drops, syncs>>

\* client_id: the prefix alone, or with a chunk index.
Whole == -1
ClientIds == {Whole} \cup 0 .. Cardinality(Oracles)
Nothing == [c \in ClientIds |-> {}]
Lists == {s \in SeqOf(Oracles, Cardinality(Oracles)) : IsInjective(s)}

Tracked == ToSet(oracles)
Subscribed == UNION {subs[c] : c \in ClientIds}

-----------------------------------------------------------------------------
\* resubscribeAll: what is sent once expired oracles are left out, by its places.
Unexpired == {i \in DOMAIN oracles : ExpiryOf[oracles[i]] > now}

Active == {oracles[i] : i \in Unexpired}

\* Chunk k of the batch, from 0: an oracle's is told by how many are sent before it.
Before(i) == {j \in Unexpired : j < i}
Chunk(k) ==
    {oracles[i] : i \in {j \in Unexpired : Cardinality(Before(j)) \div MaxSubsPerBatch = k}}

\* sendBatch: a client_id's list is replaced by what is sent; an empty batch is not.
SendBatch(c, batch) == IF batch = {} THEN subs[c] ELSE batch

\* sendBatchedWithChunks: a short batch goes out under the bare prefix, a long one in
\* numbered chunks.  A client_id that is not sent keeps its list on the server.
SubsAfterSend ==
    [c \in ClientIds |->
        IF Cardinality(Unexpired) <= MaxSubsPerBatch
        THEN IF c = Whole THEN SendBatch(c, Active) ELSE subs[c]
        ELSE IF c # Whole THEN SendBatch(c, Chunk(c)) ELSE subs[c]]

\* send() does nothing unless the socket is open.
ResubscribeAll ==
    IF ws = "open"
    THEN /\ subs' = SubsAfterSend
         /\ spotSub' = (spotSub \/ Active # {})
    ELSE UNCHANGED server

-----------------------------------------------------------------------------
\* connect
Connect ==
    IF stopped THEN UNCHANGED <<ws, authed>>
    ELSE ws' = "connecting" /\ authed' = FALSE

Start ==
    /\ ws = "none" /\ ~stopped
    /\ Connect
    /\ UNCHANGED <<now, timer, attempt, stopped, oracles, scheduled, server, cached, wanted, drops,
                   syncs>>

\* The socket opens and the authenticate request is sent.
Open ==
    /\ ~scheduled /\ ws = "connecting"
    /\ ws' = "open"
    /\ UNCHANGED <<now, authed, timer, attempt, stopped, oracles, scheduled, server, cached,
                   wanted, drops, syncs>>

AuthSubscribes == ResubscribeAll

\* The answer {id: 1, result: "ok"}.
AuthOk ==
    /\ ~scheduled /\ ws = "open" /\ ~authed
    /\ authed' = TRUE
    /\ AuthSubscribes
    /\ attempt' = 0
    /\ UNCHANGED <<now, ws, timer, stopped, oracles, scheduled, cached, wanted, drops, syncs>>

\* A values frame for what the server has subscribed; errors, acknowledgements and
\* anything else that arrives change nothing.
Values(c) ==
    /\ ~scheduled /\ ws = "open" /\ subs[c] # {}
    /\ cached' = cached \cup subs[c]
    /\ UNCHANGED <<now, socket, stopped, oracles, scheduled, server, wanted, drops, syncs>>

\* Mutant: only an authenticated connection is replaced.
CloseRearmsIfAuthed == timer' = (~stopped /\ authed)

CloseRearms == timer' = ~stopped

\* The connection fails or breaks; the server forgets its subscriptions.
Close ==
    /\ ~scheduled /\ ws \in {"connecting", "open"}
    /\ drops < MaxDrops
    /\ drops' = drops + 1
    /\ ws' = "closed"
    /\ subs' = Nothing /\ spotSub' = FALSE
    /\ CloseRearms
    /\ UNCHANGED <<now, authed, attempt, stopped, oracles, scheduled, cached, wanted, syncs>>

\* The close event that follows stop().
Closed ==
    /\ ~scheduled /\ ws = "closing"
    /\ ws' = "closed"
    /\ CloseRearms
    /\ UNCHANGED <<now, authed, attempt, stopped, oracles, scheduled, server, cached, wanted, drops,
                   syncs>>

CountAttempt == attempt' = attempt + 1

\* The timer of a close fires, after the delay its step of the ladder gives.
Reconnect ==
    /\ ~scheduled /\ timer
    /\ timer' = FALSE
    /\ CountAttempt
    /\ Connect
    /\ UNCHANGED <<now, stopped, oracles, scheduled, server, cached, wanted, drops, syncs>>

\* Mutant: only the number of oracles is compared.
OracleTargetsSameSize(current, next) == Cardinality(current) = Cardinality(next)

OracleTargetsEqual(current, next) == current = next

\* scheduleResubscribe
ScheduleResubscribe == scheduled' = (authed \/ scheduled)

\* syncOracles with a list that may be in another order.
SyncOracles ==
    /\ syncs < MaxSyncs
    /\ syncs' = syncs + 1
    /\ \E next \in Lists :
        /\ wanted' = ToSet(next)
        /\ IF OracleTargetsEqual(Tracked, ToSet(next))
           THEN UNCHANGED <<oracles, scheduled>>
           ELSE oracles' = next /\ ScheduleResubscribe
    /\ UNCHANGED <<now, socket, stopped, server, cached, drops>>

\* The microtask runs before any other callback does.
Microtask ==
    /\ scheduled
    /\ scheduled' = FALSE
    /\ ResubscribeAll
    /\ UNCHANGED <<now, socket, stopped, oracles, cached, wanted, drops, syncs>>

Stop ==
    /\ ~scheduled /\ ~stopped
    /\ stopped' = TRUE
    /\ timer' = FALSE
    /\ ws' = IF ws \in {"connecting", "open"} THEN "closing" ELSE ws
    /\ subs' = Nothing /\ spotSub' = FALSE
    /\ UNCHANGED <<now, authed, attempt, oracles, scheduled, cached, wanted, drops, syncs>>

Tick ==
    /\ ~scheduled /\ now < MaxTime
    /\ now' = now + 1
    /\ UNCHANGED <<socket, stopped, oracles, scheduled, server, cached, wanted, drops, syncs>>

Init ==
    /\ now = 0
    /\ ws = "none" /\ authed = FALSE /\ timer = FALSE /\ attempt = 0
    /\ stopped = FALSE
    /\ oracles = <<>> /\ scheduled = FALSE
    /\ subs = Nothing /\ spotSub = FALSE
    /\ cached = {} /\ wanted = {}
    /\ drops = 0 /\ syncs = 0

Next ==
    \/ Start \/ Open \/ AuthOk \/ Close \/ Closed \/ Reconnect
    \/ \E c \in ClientIds : Values(c)
    \/ SyncOracles \/ Microtask \/ Stop \/ Tick

\* Callbacks that are due run, a connection that does not fail opens and is
\* authenticated, and a subscribed list is served.
Fairness ==
    /\ WF_vars(Start) /\ WF_vars(Open) /\ WF_vars(AuthOk) /\ WF_vars(Reconnect)
    /\ WF_vars(Microtask) /\ \A c \in ClientIds : WF_vars(Values(c))

Spec == Init /\ [][Next]_vars
FairSpec == Spec /\ Fairness

-----------------------------------------------------------------------------
\* On an authenticated connection every oracle the manager wants that has not expired is
\* subscribed, through drops, reconnections, resizing of the batches and syncs at
\* any moment.
AllSubscribed ==
    ws = "open" /\ authed /\ ~scheduled =>
        /\ {o \in wanted : ExpiryOf[o] > now} \subseteq Subscribed
        /\ (\E o \in wanted : ExpiryOf[o] > now) => spotSub

\* After stop() nothing is left that could open a connection.
QuietAfterStop == stopped => ~timer /\ ws \in {"none", "closing", "closed"}

\* An oracle that stays tracked long enough gets its samples.
EventuallyQuoted ==
    \A o \in Oracles :
        [](o \in wanted => <>(o \in cached \/ o \notin wanted \/ ExpiryOf[o] <= now
                                 \/ stopped))
=============================================================================
