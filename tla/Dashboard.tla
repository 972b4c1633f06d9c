----------------------------- MODULE Dashboard ------------------------------
(***************************************************************************)
(* The dashboard's live view of the vault: the reconnecting WebSocket      *)
(* client (lib/wsClient.ts) and the hook that keeps the snapshot and the   *)
(* relay state shown in the header (hooks/useWebSocket.ts), against the    *)
(* relay's WebSocket server (indexer/src/wsServer.ts).                     *)
(*                                                                         *)
(* The relay is abstracted to what Relay shows of one of its streams: its  *)
(* ring is a run of consecutive events, cut from the head, which starts    *)
(* empty and at or behind its last position after a restart.  An entry of  *)
(* a ring is the position of its event in the stream; what the dashboard   *)
(* makes of the events is in Exposure.                                     *)
(*                                                                         *)
(* Time advances in seconds, the period of the hook's interval.  Browser   *)
(* callbacks are atomic; a state update is seen by the interval only when  *)
(* React has committed it and restarted the effect (Commit).               *)
(***************************************************************************)
EXTENDS Integers, Sequences

CONSTANTS NoSnapshot,      \* the null of the hook's snapshot
          RingCap,         \* RING_MAX_COUNT and CLIENT_RING_CAP (100)
          HeartbeatEvery,  \* heartbeatMs (10s)
          ReconnectAfter,  \* HEARTBEAT_RECONNECT_THRESHOLD_MS (30s)
          DownAfter,       \* HEARTBEAT_DOWN_THRESHOLD_MS (60s)
          MaxDelay,        \* cap of the reconnect delay (30s)
          MaxQueue,        \* bound on the frames in flight
          MaxEvents,       \* bound on the events of the stream
          MaxFaults        \* bound on broken connections and relay restarts

ASSUME DashboardAssumption ==
    /\ RingCap \in Nat \ {0} /\ HeartbeatEvery \in Nat \ {0}
    /\ ReconnectAfter \in Nat /\ DownAfter \in Nat /\ ReconnectAfter < DownAfter
    /\ MaxDelay \in Nat \ {0} /\ MaxQueue \in Nat \ {0}
    /\ MaxEvents \in Nat /\ MaxFaults \in Nat

VARIABLES
    emitted,      \* number of events on the chain
    relay,        \* "up", or "down" between two processes
    pos,          \* position of the last event the relay has applied
    ring,         \* Snapshot.ring
    beat,         \* seconds since the last heartbeat broadcast
    linked,       \* whether the server still holds this client's socket
    chan,         \* frames sent and not yet received
    faults,       \* number of faults so far
    ws,           \* the client's socket
    timer,        \* seconds until the reconnect timer fires, or None
    attempts,     \* WsClient.attempts, as far as the delay depends on it
    disposed,     \* WsClient.disposed, the page is gone
    state,        \* the relay state shown
    snap,         \* snapshot.ring_buffer, or NoSnapshot before the first frame
    isConnected,  \* the hook's flag
    age,          \* seconds since lastHeartbeatMs, up to DownAfter
    view,         \* what the running interval closed over
    dirty,        \* an update that the interval depends on is not committed yet
    ticker,       \* the interval: "armed", or "due" in the second it fires in
    offline       \* history: seconds since isConnected was cleared, up to 2

server == <<relay, pos, ring, beat>>
wire == <<linked, chan, faults>>
client == <<ws, timer, attempts, disposed>>
hook == <<state, snap, isConnected, age>>
interval == <<view, dirty, ticker, offline>>
vars == <<emitted, server, wire, client, hook, interval>>

None == -1
Smaller(m, n) == IF m < n THEN m ELSE n

Position == 1 .. MaxEvents

ASSUME NoSnapshotAssumption == NoSnapshot \notin Seq(Position)

Frame == [type : {"snapshot"}, ring : Seq(Position)] \cup [type : {"event"}, pos : Position]
         \cup [type : {"heartbeat"}]

TypeOK ==
    /\ emitted \in 0 .. MaxEvents
    /\ relay \in {"up", "down"} /\ pos \in 0 .. emitted
    /\ ring \in Seq(Position) /\ Len(ring) <= RingCap
    /\ beat \in 0 .. HeartbeatEvery - 1
    /\ linked \in BOOLEAN /\ \A i \in DOMAIN chan : chan[i] \in Frame
    /\ faults \in 0 .. MaxFaults
    /\ ws \in {"none", "connecting", "open", "closing"}
    /\ timer \in {None} \cup 0 .. MaxDelay + 1 /\ attempts \in 0 .. MaxDelay
    /\ disposed \in BOOLEAN
    /\ state \in {"connecting", "live", "reconnecting", "down"}
    /\ snap # NoSnapshot => snap \in Seq(Position) /\ Len(snap) <= RingCap
    /\ isConnected \in BOOLEAN /\ age \in 0 .. DownAfter
    /\ view \in [age : 0 .. DownAfter, snapshot : BOOLEAN, isConnected : BOOLEAN]
    /\ dirty \in BOOLEAN /\ ticker \in {"armed", "due"} /\ offline \in 0 .. 2

\* The page is mounted: WsClient's constructor has called connect.
Init ==
    /\ emitted = 0
    /\ relay = "up" /\ pos = 0 /\ ring = <<>> /\ beat = 0
    /\ linked = FALSE /\ chan = <<>> /\ faults = 0
    /\ ws = "connecting" /\ timer = None /\ attempts = 0 /\ disposed = FALSE
    /\ state = "connecting" /\ snap = NoSnapshot /\ isConnected = FALSE /\ age = 0
    /\ view = [age |-> 0, snapshot |-> FALSE, isConnected |-> FALSE]
    /\ dirty = FALSE /\ ticker = "armed" /\ offline = 0

-----------------------------------------------------------------------------
(* The relay and its WebSocket server.                                         *)

\* A transaction of the vault emits an event.
EmitEvent ==
    /\ emitted < MaxEvents
    /\ emitted' = emitted + 1
    /\ UNCHANGED <<server, wire, client, hook, interval>>

\* The frame goes to the socket of an open client; one too many is not told apart
\* from the one before it.
Sent(frame) == IF linked /\ Len(chan) < MaxQueue THEN Append(chan, frame) ELSE chan

\* Snapshot.pushRing and emit: the count cap, and any number of heads too old.
RelayApplies(drop) ==
    /\ relay = "up"
    /\ pos < emitted
    /\ linked => Len(chan) < MaxQueue
    /\ LET all == Append(ring, pos + 1)
       IN  /\ drop <= Len(all)
           /\ Len(all) - drop <= RingCap
           /\ ring' = SubSeq(all, drop + 1, Len(all))
    /\ pos' = pos + 1
    /\ chan' = Sent([type |-> "event", pos |-> pos + 1])
    /\ UNCHANGED <<emitted, relay, beat, linked, faults, client, hook, interval>>

\* The process ends; the frames in flight may still arrive.
RelayDies ==
    /\ relay = "up"
    /\ faults < MaxFaults
    /\ faults' = faults + 1
    /\ relay' = "down"
    /\ linked' = FALSE
    /\ UNCHANGED <<emitted, pos, ring, beat, chan, client, hook, interval>>

RelayRestarts(p) ==
    /\ relay = "down"
    /\ relay' = "up"
    /\ p <= pos
    /\ pos' = p
    /\ ring' = <<>>
    /\ beat' = 0
    /\ UNCHANGED <<emitted, wire, client, hook, interval>>

\* The connection breaks; neither end has been told.
LinkBreaks ==
    /\ linked
    /\ faults < MaxFaults
    /\ faults' = faults + 1
    /\ linked' = FALSE
    /\ UNCHANGED <<emitted, server, chan, client, hook, interval>>

-----------------------------------------------------------------------------
(* WsClient.                                                                   *)

\* Mutant: a failed connection is not tried again.
ScheduleReconnectOnce ==
    /\ timer' = IF ws = "open" /\ ~disposed THEN 1 ELSE None
    /\ UNCHANGED attempts

\* scheduleReconnect: min(1000 * 2^attempts, 30000) ms plus less than a second.
ScheduleReconnect ==
    IF disposed
    THEN UNCHANGED <<timer, attempts>>
    ELSE /\ \E jitter \in 0 .. 1 : timer' = Smaller(2 ^ attempts, MaxDelay) + jitter
         /\ attempts' = Smaller(attempts + 1, MaxDelay)

\* The timer's callback: connect, with a WebSocket under way.
TimerFires ==
    /\ timer = 0
    /\ timer' = None
    /\ ws' = "connecting"
    /\ UNCHANGED <<emitted, server, wire, attempts, disposed, hook, interval>>

\* connect: the constructor throws.
ConnectThrows ==
    /\ timer = 0
    /\ faults < MaxFaults
    /\ faults' = faults + 1
    /\ ScheduleReconnect
    /\ UNCHANGED <<emitted, server, linked, chan, ws, disposed, hook, interval>>

\* The connection handler of wsServer: the snapshot frame, then live events.
FirstFrames == <<[type |-> "snapshot", ring |-> ring]>>

\* onopen, with the server's connection handler before it.
SocketOpens ==
    /\ ws = "connecting" /\ relay = "up"
    /\ ws' = "open"
    /\ linked' = TRUE
    /\ chan' = FirstFrames
    /\ attempts' = 0
    /\ isConnected' = TRUE
    /\ dirty' = TRUE
    /\ offline' = 0
    /\ UNCHANGED <<emitted, server, faults, timer, disposed, state, snap, age, view, ticker>>

\* Mutant: the hook shows the loss and keeps its flag.
ClosedKeepsFlag ==
    /\ UNCHANGED <<isConnected, dirty>>
    /\ state' = IF state = "down" THEN "down" ELSE "reconnecting"

\* The hook's status handler on 'closed'.
Closed ==
    /\ isConnected' = FALSE
    /\ dirty' = (dirty \/ isConnected)
    /\ state' = IF state = "down" THEN "down" ELSE "reconnecting"

\* Mutant: an error schedules the next attempt before the socket has closed.
OnCloseFromError ==
    /\ ws' = IF ws = "open" THEN "closing" ELSE "none"
    /\ linked' = FALSE
    /\ chan' = <<>>
    /\ offline' = 0
    /\ IF disposed THEN UNCHANGED <<state, isConnected, dirty>> ELSE Closed
    /\ ScheduleReconnect
    /\ UNCHANGED <<emitted, server, disposed, snap, age, view, ticker>>

\* onclose: the status handlers if there still are any, then scheduleReconnect.
\* An error closes the socket first, and leads here too.
OnClose ==
    /\ ws' = "none"
    /\ linked' = FALSE
    /\ chan' = <<>>
    /\ offline' = IF ws = "open" THEN 0 ELSE offline
    /\ IF disposed THEN UNCHANGED <<state, isConnected, dirty>> ELSE Closed
    /\ ScheduleReconnect
    /\ UNCHANGED <<emitted, server, disposed, snap, age, view, ticker>>

\* The browser finds the connection gone, or has finished closing it.
SocketCloses ==
    /\ \/ ws = "open" /\ ~linked
       \/ ws = "connecting" /\ relay = "down"
       \/ ws = "closing"
    /\ OnClose
    /\ UNCHANGED faults

\* A connection to a relay that is up fails.
ConnectFails ==
    /\ ws = "connecting" /\ relay = "up"
    /\ faults < MaxFaults
    /\ faults' = faults + 1
    /\ OnClose

\* The hook's cleanup: handlers removed, timer cleared, socket closed.
Dispose ==
    /\ ~disposed
    /\ disposed' = TRUE
    /\ timer' = None
    /\ ws' = IF ws = "none" THEN "none" ELSE "closing"
    /\ UNCHANGED <<emitted, server, wire, attempts, hook, interval>>

-----------------------------------------------------------------------------
(* useWebSocket.                                                               *)

\* applyEvent: append and drop from the head down to the cap.
ApplyEvent(r, p) ==
    LET all == Append(r, p)
    IN  IF Len(all) > RingCap THEN Tail(all) ELSE all

\* Mutant: a replayed ring is added to the one on display.
OnSnapshotMerges(f) == (IF snap = NoSnapshot THEN <<>> ELSE snap) \o f.ring

\* setSnapshot(msg.data).
OnSnapshot(f) == f.ring

\* The message handler; every frame resets lastHeartbeatMs.
Receive ==
    /\ ws = "open" /\ chan # <<>>
    /\ chan' = Tail(chan)
    /\ LET f == Head(chan)
       IN  \/ /\ f.type = "snapshot"
              /\ snap' = OnSnapshot(f)
              /\ state' = "live"
           \/ /\ f.type = "event"
              /\ snap' = IF snap = NoSnapshot THEN NoSnapshot ELSE ApplyEvent(snap, f.pos)
              /\ UNCHANGED state
           \/ /\ f.type = "heartbeat"
              /\ UNCHANGED <<snap, state>>
    /\ age' = 0
    /\ dirty' = TRUE
    /\ UNCHANGED <<emitted, server, linked, faults, client, isConnected, view, ticker, offline>>

\* React commits: the effect's cleanup clears the interval, and a new one starts
\* with the values of this render.
Commit ==
    /\ dirty /\ ~disposed
    /\ view' = [age |-> age, snapshot |-> snap # NoSnapshot, isConnected |-> isConnected]
    /\ dirty' = FALSE
    /\ ticker' = "armed"
    /\ UNCHANGED <<emitted, server, wire, client, hook, offline>>

\* Mutant: the interval never looks at the age.
StateAtTickForgiving ==
    IF ~view.isConnected THEN "reconnecting"
    ELSE IF view.snapshot THEN "live" ELSE state

\* The interval's callback, on the values it closed over.
StateAtTick ==
    IF ~view.isConnected
    THEN IF view.age >= DownAfter THEN "down" ELSE "reconnecting"
    ELSE IF view.age >= DownAfter THEN "down"
    ELSE IF view.age >= ReconnectAfter THEN "reconnecting"
    ELSE IF view.snapshot THEN "live" ELSE state

Tick ==
    /\ ticker = "due" /\ ~disposed
    /\ state' = StateAtTick
    /\ ticker' = "armed"
    /\ UNCHANGED <<emitted, server, wire, client, snap, isConnected, age, view, dirty, offline>>

\* A second passes: what is due in it has happened.  The server's heartbeat timer
\* runs on the same clock.
Second ==
    /\ ~disposed /\ ~dirty /\ ticker = "armed" /\ timer # 0
    /\ ticker' = "due"
    /\ age' = Smaller(age + 1, DownAfter)
    /\ view' = [view EXCEPT !.age = Smaller(@ + 1, DownAfter)]
    /\ timer' = IF timer = None THEN None ELSE timer - 1
    /\ offline' = IF ws = "open" THEN 0 ELSE Smaller(offline + 1, 2)
    /\ beat' = (beat + 1) % HeartbeatEvery
    /\ chan' = IF beat' = 0 /\ relay = "up" THEN Sent([type |-> "heartbeat"]) ELSE chan
    /\ UNCHANGED <<emitted, relay, pos, ring, linked, faults, ws, attempts, disposed,
                   state, snap, isConnected, dirty>>

Next ==
    \/ EmitEvent
    \/ \E d \in 0 .. RingCap + 1 : RelayApplies(d)
    \/ RelayDies
    \/ \E p \in 0 .. MaxEvents : RelayRestarts(p)
    \/ LinkBreaks
    \/ TimerFires \/ ConnectThrows
    \/ SocketOpens \/ SocketCloses \/ ConnectFails
    \/ Dispose
    \/ Receive \/ Commit \/ Tick \/ Second

\* Timers, callbacks and commits run; frames arrive and a broken connection is
\* noticed; the relay is restarted.  Faults are finite by their bound.
Fairness ==
    /\ WF_vars(Second) /\ WF_vars(Commit) /\ WF_vars(Tick)
    /\ WF_vars(TimerFires) /\ WF_vars(SocketOpens) /\ WF_vars(SocketCloses)
    /\ WF_vars(Receive)
    /\ WF_vars(\E p \in 0 .. MaxEvents : RelayRestarts(p))

Spec == Init /\ [][Next]_vars /\ Fairness

-----------------------------------------------------------------------------
CaughtUp == ws = "open" /\ linked /\ chan = <<>>

\* A dashboard whose socket is gone stops showing "live" within the second after:
\* the close handler says so at once, and an interval that fires with the values of
\* an earlier render can undo that only until the next one.
LiveEndsWithSocket == state = "live" /\ ws # "open" /\ ~disposed => offline <= 1

\* While frames stop on a socket that looks open, "live" is shown for at most two
\* seconds beyond the threshold: one until the interval fires, and one more if a
\* reconnection restarts it.
LiveIsRecent == state = "live" /\ ~disposed => age <= ReconnectAfter + 1

\* Whatever was lost, replayed or evicted, a dashboard that has received what was
\* sent holds consecutive events, none twice, that end with all the relay holds.
ClientCoversRelay ==
    /\ snap # NoSnapshot => \A i \in 1 .. Len(snap) - 1 : snap[i + 1] = snap[i] + 1
    /\ CaughtUp => /\ snap # NoSnapshot
                   /\ \E k \in 0 .. Len(snap) : ring = SubSeq(snap, k + 1, Len(snap))

\* There is one connection attempt at a time: a timer runs only while there is no
\* socket, after errors, closes and failed attempts in any order.
OneAttempt == timer # None => ws = "none"

\* A page that is gone opens no socket, arms no timer and updates no state, although
\* its socket closes after the clean-up.
DisposedQuiet ==
    [][disposed => /\ UNCHANGED <<hook, timer>>
                   /\ ws' \in {ws, "none"}]_vars

\* After the last fault the dashboard is live again and again, with any delays of
\* the frames and although frames restart the interval.
EventuallyLive == []<>(state = "live" \/ disposed)
=============================================================================
