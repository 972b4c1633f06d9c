------------------------------- MODULE Relay --------------------------------
(***************************************************************************)
(* The event relay, indexer/src: one poller per event stream (pollVault-   *)
(* Events, pollOracleSVI) tails the chain from a persisted cursor, applies *)
(* each event to the in-memory snapshot and ring, fans it out to the       *)
(* WebSocket clients and persists the cursor.                              *)
(*                                                                         *)
(* The relay is one Node process: code between two awaits is atomic.  The  *)
(* awaits are the RPC call (Fetch), the cursor file write (WriteDone) and  *)
(* the two sleeps (Wake); pollers, clients, the clock, a crash and a       *)
(* SIGTERM interleave there.                                               *)
(*                                                                         *)
(* An event is its stream, its position in that stream and its timestamp;  *)
(* a cursor is the position of the last event it covers, 0 for null.       *)
(***************************************************************************)
EXTENDS Integers, Sequences, FiniteSets

CONSTANTS Streams,         \* the polled event sources, one cursor file each
          OracleStream,    \* the one that carries OracleSVIUpdated
          Clients,         \* dashboards
          PageLimit,       \* queryEvents limit (50)
          RingMaxCount,    \* RING_MAX_COUNT (100)
          RingMaxAge,      \* RING_MAX_AGE_MS (1h)
          Unparsable,      \* the <<stream, position>> of events that fail to decode
          Wipes,           \* whether a restart may find the data directory empty
          MaxEvents,       \* bound on the events of each stream
          MaxRestarts,     \* bound on restarts
          MaxTime          \* bound on the clock

ASSUME RelayAssumption ==
    /\ OracleStream \in Streams
    /\ PageLimit \in Nat \ {0}
    /\ RingMaxCount \in Nat \ {0} /\ RingMaxAge \in Nat
    /\ Unparsable \subseteq Streams \X (Nat \ {0})
    /\ Wipes \subseteq BOOLEAN
    /\ MaxEvents \in [Streams -> Nat] /\ MaxRestarts \in Nat /\ MaxTime \in Nat

VARIABLES
    now,        \* wall clock, shared by the chain and the relay
    log,        \* the chain: timestamps of the events of each stream
    phase,      \* the process: "up", "stopping" after a SIGTERM, "down"
    restarts,   \* number of restarts so far
    poller,     \* program counter of each polling loop
    page,       \* the events of the fetched page that are still to be applied
    more,       \* hasNextPage of that page
    mem,        \* Cursor._value
    disk,       \* the cursor file
    ring,       \* Snapshot.ring
    surface,    \* Snapshot.oracles: the oracle event it was set from, 0 for none
    feed,       \* what each connected client has been sent since it connected
    open,       \* the connected clients
    served      \* history: the events that some run of the process has applied

process == <<poller, page, more, mem>>
memory == <<ring, surface>>
sockets == <<feed, open>>
vars == <<now, log, phase, restarts, process, disk, memory, sockets, served>>

Event == [stream : Streams, pos : Nat \ {0}, ts : Nat]

TypeOK ==
    /\ now \in Nat
    /\ log \in [Streams -> Seq(Nat)]
    /\ phase \in {"up", "stopping", "down"}
    /\ restarts \in Nat
    /\ poller \in [Streams -> {"ready", "apply", "write", "sleep", "backoff", "exited"}]
    /\ page \in [Streams -> Seq(Nat \ {0})]
    /\ more \in [Streams -> BOOLEAN]
    /\ mem \in [Streams -> Nat]
    /\ disk \in [Streams -> Nat]
    /\ ring \in Seq(Event)
    /\ surface \in Nat
    /\ feed \in [Clients -> Seq(Event)]
    /\ open \subseteq Clients
    /\ served \in [Streams -> SUBSET (Nat \ {0})]

Init ==
    /\ now = 0
    /\ log = [s \in Streams |-> <<>>]
    /\ phase = "up"
    /\ restarts = 0
    /\ poller = [s \in Streams |-> "ready"]
    /\ page = [s \in Streams |-> <<>>]
    /\ more = [s \in Streams |-> FALSE]
    /\ mem = [s \in Streams |-> 0]
    /\ disk = [s \in Streams |-> 0]
    /\ ring = <<>>
    /\ surface = 0
    /\ feed = [c \in Clients |-> <<>>]
    /\ open = {}
    /\ served = [s \in Streams |-> {}]

-----------------------------------------------------------------------------
(* The chain and the clock.                                                  *)

Tick ==
    /\ now < MaxTime
    /\ now' = now + 1
    /\ UNCHANGED <<log, phase, restarts, process, disk, memory, sockets, served>>

\* A transaction emits an event of one stream.
EmitEvent(s) ==
    /\ Len(log[s]) < MaxEvents[s]
    /\ log' = [log EXCEPT ![s] = Append(@, now)]
    /\ UNCHANGED <<now, phase, restarts, process, disk, memory, sockets, served>>

-----------------------------------------------------------------------------
(* Snapshot.                                                                 *)

\* The numbers of events dropped from the head of a ring at which pushRing's loop
\* would stop: the rest is not too long and its head not too old.
EvictionStops(all) ==
    {k \in 0 .. Len(all) : /\ Len(all) - k <= RingMaxCount
                           /\ k < Len(all) => all[k + 1].ts >= now - RingMaxAge}

\* Snapshot.pushRing: append, then drop from the head until the loop stops.
PushRing(r, e) ==
    LET all == Append(r, e)
        k == CHOOSE i \in EvictionStops(all) : \A j \in EvictionStops(all) : i <= j
    IN  SubSeq(all, k + 1, Len(all))

\* Snapshot.emit: every subscriber is called; a failing one is skipped.
FanOut(e) == [c \in Clients |-> IF c \in open THEN Append(feed[c], e) ELSE feed[c]]

\* Mutant: the replay frame is cut off by one.
SnapshotFrameShort == IF ring = <<>> THEN ring ELSE Tail(ring)

\* Snapshot.fullSnapshot, sent as the first frame of a connection.
SnapshotFrame == ring

-----------------------------------------------------------------------------
(* A polling loop.                                                           *)

\* queryEvents from the cursor, ascending: the page may be stale by the time it
\* is applied.  An empty page puts the loop to sleep.
Fetched(s) ==
    LET n == IF Len(log[s]) - mem[s] > PageLimit THEN PageLimit ELSE Len(log[s]) - mem[s]
    IN  [i \in 1 .. n |-> mem[s] + i]

Fetch(s) ==
    /\ phase = "up"
    /\ poller[s] = "ready"
    /\ page' = [page EXCEPT ![s] = Fetched(s)]
    /\ more' = [more EXCEPT ![s] = Len(log[s]) - mem[s] > PageLimit]
    /\ poller' = [poller EXCEPT ![s] = IF mem[s] < Len(log[s]) THEN "apply" ELSE "sleep"]
    /\ UNCHANGED <<now, log, phase, restarts, mem, disk, memory, sockets, served>>

\* The RPC call rejects: exponential backoff, the cursor stays.
FetchFails(s) ==
    /\ phase = "up"
    /\ poller[s] = "ready"
    /\ poller' = [poller EXCEPT ![s] = "backoff"]
    /\ UNCHANGED <<now, log, phase, restarts, page, more, mem, disk, memory, sockets, served>>

\* Mutant: the cursor moves to the end of the page at once.
CursorAfterPage(s) == page[s][Len(page[s])]

\* The value cursor.set is called with: the id of the event just applied.
CursorAfter(s) == Head(page[s])

\* What applyVaultEvent and applyOracleEvent push and emit.
RingEvent(s, i) == [stream |-> s, pos |-> i, ts |-> log[s][i]]

\* applyOracleEvent also replaces the surface of its oracle.
SurfaceAfter(s, i) == IF s = OracleStream THEN i ELSE surface

\* One event of the page: applyVaultEvent or applyOracleEvent, then the
\* synchronous part of cursor.set, which assigns _value before it awaits the file.
Apply(s) ==
    /\ phase = "up"
    /\ poller[s] = "apply"
    /\ <<s, Head(page[s])>> \notin Unparsable
    /\ LET i == Head(page[s])
           e == RingEvent(s, i)
       IN  /\ ring' = PushRing(ring, e)
           /\ surface' = SurfaceAfter(s, i)
           /\ feed' = FanOut(e)
           /\ served' = [served EXCEPT ![s] = @ \cup {i}]
    /\ mem' = [mem EXCEPT ![s] = CursorAfter(s)]
    /\ page' = [page EXCEPT ![s] = Tail(@)]
    /\ poller' = [poller EXCEPT ![s] = "write"]
    /\ UNCHANGED <<now, log, phase, restarts, more, disk, open>>

\* decodeI64 or BigInt throws before the snapshot is touched: the page is abandoned
\* and the event is fetched again after the backoff.
ApplyFails(s) ==
    /\ phase = "up"
    /\ poller[s] = "apply"
    /\ <<s, Head(page[s])>> \in Unparsable
    /\ page' = [page EXCEPT ![s] = <<>>]
    /\ poller' = [poller EXCEPT ![s] = "backoff"]
    /\ UNCHANGED <<now, log, phase, restarts, more, mem, disk, memory, sockets, served>>

\* The rename lands.  A loop that is stopping still gets here, and exits next.
WriteDone(s) ==
    /\ phase # "down"
    /\ poller[s] = "write"
    /\ disk' = [disk EXCEPT ![s] = mem[s]]
    /\ poller' = [poller EXCEPT ![s] = IF page[s] # <<>> THEN "apply"
                                       ELSE IF more[s] THEN "ready" ELSE "sleep"]
    /\ UNCHANGED <<now, log, phase, restarts, page, more, mem, memory, sockets, served>>

\* Mutant: a failed write also takes back the cursor in memory.
MemAfterFailureRestored(s) == disk

\* A failed write leaves _value where set put it.
MemAfterFailure(s) == mem

\* mkdir, writeFile or rename rejects: the page is abandoned.
WriteFails(s) ==
    /\ phase # "down"
    /\ poller[s] = "write"
    /\ mem' = MemAfterFailure(s)
    /\ page' = [page EXCEPT ![s] = <<>>]
    /\ poller' = [poller EXCEPT ![s] = "backoff"]
    /\ UNCHANGED <<now, log, phase, restarts, more, disk, memory, sockets, served>>

\* Mutant: an error ends the loop.
AsleepOnly(s) == poller[s] = "sleep"

Asleep(s) == poller[s] \in {"sleep", "backoff"}

Wake(s) ==
    /\ phase = "up"
    /\ Asleep(s)
    /\ poller' = [poller EXCEPT ![s] = "ready"]
    /\ UNCHANGED <<now, log, phase, restarts, page, more, mem, disk, memory, sockets, served>>

-----------------------------------------------------------------------------
(* The process.                                                              *)

\* A client connects: the snapshot frame and the subscription are one callback.
Connect(c) ==
    /\ phase = "up"
    /\ c \notin open
    /\ open' = open \cup {c}
    /\ feed' = [feed EXCEPT ![c] = SnapshotFrame]
    /\ UNCHANGED <<now, log, phase, restarts, process, disk, memory, served>>

\* The socket closes, from either side, and the handler unsubscribes.
Disconnect(c) ==
    /\ c \in open
    /\ open' = open \ {c}
    /\ feed' = [feed EXCEPT ![c] = <<>>]
    /\ UNCHANGED <<now, log, phase, restarts, process, disk, memory, served>>

\* SIGINT or SIGTERM: abort the pollers, close the sockets.
Stop ==
    /\ phase = "up"
    /\ phase' = "stopping"
    /\ open' = {}
    /\ feed' = [c \in Clients |-> <<>>]
    /\ UNCHANGED <<now, log, restarts, process, disk, memory, served>>

\* A loop sees the abort signal at its next check and returns.
ExitLoop(s) ==
    /\ phase = "stopping"
    /\ poller[s] \in {"ready", "apply", "sleep", "backoff"}
    /\ poller' = [poller EXCEPT ![s] = "exited"]
    /\ UNCHANGED <<now, log, phase, restarts, page, more, mem, disk, memory, sockets, served>>

\* All loops have returned: the process ends.
Halt ==
    /\ phase = "stopping"
    /\ \A s \in Streams : poller[s] = "exited"
    /\ phase' = "down"
    /\ UNCHANGED <<now, log, restarts, process, disk, memory, sockets, served>>

\* The process dies at any point; an interrupted write leaves the old file, the
\* rename being atomic.
Crash ==
    /\ phase # "down"
    /\ phase' = "down"
    /\ open' = {}
    /\ feed' = [c \in Clients |-> <<>>]
    /\ UNCHANGED <<now, log, restarts, process, disk, memory, served>>

\* Cursor.load: the host may have lost the data directory, and a missing file loads
\* as null.
Loaded(wiped) == IF wiped THEN [s \in Streams |-> 0] ELSE disk

\* relay.ts main: load the cursors, start the server and the loops.
Restart(wiped) ==
    /\ phase = "down"
    /\ restarts < MaxRestarts
    /\ restarts' = restarts + 1
    /\ phase' = "up"
    /\ disk' = Loaded(wiped)
    /\ mem' = disk'
    /\ poller' = [s \in Streams |-> "ready"]
    /\ page' = [s \in Streams |-> <<>>]
    /\ more' = [s \in Streams |-> FALSE]
    /\ ring' = <<>>
    /\ surface' = 0
    /\ UNCHANGED <<now, log, sockets, served>>

Next ==
    \/ Tick
    \/ \E s \in Streams :
          \/ EmitEvent(s)
          \/ Fetch(s) \/ FetchFails(s)
          \/ Apply(s) \/ ApplyFails(s)
          \/ WriteDone(s) \/ WriteFails(s)
          \/ Wake(s)
          \/ ExitLoop(s)
    \/ \E c \in Clients : Connect(c) \/ Disconnect(c)
    \/ Stop \/ Halt \/ Crash
    \/ \E w \in Wipes : Restart(w)

Spec == Init /\ [][Next]_vars

\* The event loop runs what is ready, timers fire and an awaited write settles
\* either way; the RPC node answers again and again if it is asked again and
\* again.  Nothing makes the process stay up, come back, or the disk work.
Fairness ==
    \A s \in Streams :
        /\ SF_vars(Fetch(s))
        /\ WF_vars(Apply(s) \/ ApplyFails(s))
        /\ WF_vars(WriteDone(s) \/ WriteFails(s))
        /\ WF_vars(Wake(s))

LiveSpec == Spec /\ Fairness

-----------------------------------------------------------------------------
Positions(q, s) == {i \in DOMAIN q : q[i].stream = s}

\* Within q, the events of each stream come one after the other: none is missing,
\* repeated or out of order.
Gapless(q) ==
    \A s \in Streams : \A i, j \in Positions(q, s) :
        /\ i < j => q[i].pos < q[j].pos
        /\ i < j => \A p \in q[i].pos .. q[j].pos : \E n \in i .. j :
                        q[n].stream = s /\ q[n].pos = p

\* No event is lost: whatever the cursor file or the cursor in memory covers, some
\* run of the relay has applied and fanned out, whenever it crashed, stopped,
\* failed to write or was restarted.  "Never skips" of pollOracleSVI.ts.
NoEventSkipped ==
    \A s \in Streams : /\ 1 .. disk[s] \subseteq served[s]
                       /\ 1 .. mem[s] \subseteq served[s]

\* Between two restarts the ring holds each stream without a gap or a repetition,
\* up to the newest event applied, even across failed cursor writes and retries;
\* the oracle surface served to newcomers is that of the newest oracle event.
RingFaithful ==
    /\ Len(ring) <= RingMaxCount
    /\ Gapless(ring)
    /\ phase # "down" =>
         /\ \A s \in Streams : \A i \in Positions(ring, s) : ring[i].pos <= mem[s]
         /\ surface \in {0, mem[OracleStream]}

\* A client that connects in the middle of the stream misses nothing and sees
\* nothing twice: the replayed frame and the live events join up, and what it has
\* been sent ends with all that the ring holds.
FeedJoinsUp ==
    \A c \in open :
        /\ Gapless(feed[c])
        /\ \E k \in 0 .. Len(feed[c]) : ring = SubSeq(feed[c], k + 1, Len(feed[c]))

\* Every event on the chain is eventually applied, unless the process goes down or
\* an event before it in its own stream cannot be decoded: failing RPC calls and
\* writes, and a stream that is stuck on a bad event, only delay the others.
EventuallyServed ==
    \A s \in Streams : \A i \in 1 .. MaxEvents[s] :
        (\A j \in 1 .. i : <<s, j>> \notin Unparsable)
            => (Len(log[s]) >= i) ~> (i \in served[s] \/ phase # "up")
=============================================================================
