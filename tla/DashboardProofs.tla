-------------------------- MODULE DashboardProofs ---------------------------
(***************************************************************************)
(* The reconnecting client never has two ways of connecting at once, and a *)
(* page that is gone stays quiet, for every delay, queue and ring.  What   *)
(* the header shows ends with the socket and with the heartbeats, and what *)
(* the page holds covers the relay's ring.                                 *)
(*                                                                         *)
(* The last three are not inductive.  LiveInv adds how far the values that *)
(* the interval closed over lag behind the hook's; WireInv adds that what  *)
(* is in flight continues what the page holds: a function g numbers the    *)
(* frames by the position they lead to.                                    *)
(***************************************************************************)
EXTENDS Dashboard, SequenceTheorems, TLAPS

\* What makes OneAttempt inductive and DisposedQuiet true: dispose clears the timer and
\* leaves no socket that could open or deliver.
QuietWhenDisposed == disposed => timer = None /\ ws \in {"closing", "none"}
ClientInv == disposed \in BOOLEAN /\ OneAttempt /\ QuietWhenDisposed

\* scheduleReconnect arms the timer of a client that is not disposed, and no other.
LEMMA ScheduleReconnectArms ==
    ASSUME ScheduleReconnect, disposed
    PROVE  timer' = timer
BY DEF ScheduleReconnect

\* onclose leaves no socket, so whatever timer it arms is the only attempt.
LEMMA OnCloseKeeps ==
    ASSUME ClientInv, OnClose
    PROVE  ClientInv'
<1>1. ws' = "none" /\ disposed' = disposed
  BY DEF OnClose
<1>2. disposed => timer' = timer
  BY ScheduleReconnectArms DEF OnClose
<1> QED
  BY <1>1, <1>2 DEF ClientInv, OneAttempt, QuietWhenDisposed

\* Every step keeps the invariant.
LEMMA ClientStep ==
    ASSUME ClientInv, [Next]_vars
    PROVE  ClientInv'
<1> USE DEF ClientInv, OneAttempt, QuietWhenDisposed
<1>1. CASE EmitEvent
  BY <1>1 DEF EmitEvent, client
<1>2. CASE \E d \in 0 .. RingCap + 1 : RelayApplies(d)
  BY <1>2 DEF RelayApplies, client
<1>3. CASE RelayDies
  BY <1>3 DEF RelayDies, client
<1>4. CASE \E p \in 0 .. MaxEvents : RelayRestarts(p)
  BY <1>4 DEF RelayRestarts, client
<1>5. CASE LinkBreaks
  BY <1>5 DEF LinkBreaks, client
<1>6. CASE TimerFires
  BY <1>6 DEF TimerFires, None
<1>7. CASE ConnectThrows
  <2>1. ~disposed /\ ws = "none"
    BY <1>7 DEF ConnectThrows, None
  <2> QED
    BY <1>7, <2>1 DEF ConnectThrows
<1>8. CASE SocketOpens
  BY <1>8 DEF SocketOpens
<1>9. CASE SocketCloses
  BY <1>9, OnCloseKeeps DEF SocketCloses
<1>10. CASE ConnectFails
  BY <1>10, OnCloseKeeps DEF ConnectFails
<1>11. CASE Dispose
  BY <1>11 DEF Dispose
<1>12. CASE Receive
  BY <1>12 DEF Receive, client
<1>13. CASE Commit
  BY <1>13 DEF Commit, client
<1>14. CASE Tick
  BY <1>14 DEF Tick, client
<1>15. CASE Second
  BY <1>15 DEF Second
<1>16. CASE UNCHANGED vars
  BY <1>16 DEF vars, client
<1> QED
  BY <1>1, <1>2, <1>3, <1>4, <1>5, <1>6, <1>7, <1>8, <1>9, <1>10, <1>11, <1>12,
     <1>13, <1>14, <1>15, <1>16 DEF Next

LEMMA ClientInvariant == Spec => []ClientInv
<1>1. Init => ClientInv
  BY DEF Init, ClientInv, OneAttempt, QuietWhenDisposed
<1> QED
  BY <1>1, ClientStep, PTL DEF Spec

\* lib/wsClient.ts never has a reconnect timer next to a socket, whatever errors,
\* closes and failed attempts come in which order.
THEOREM OneAttemptAtATime == Spec => []OneAttempt
<1>1. ClientInv => OneAttempt
  BY DEF ClientInv
<1> QED
  BY <1>1, ClientInvariant, PTL

\* A disposed client neither arms a timer nor opens a socket, and its hook's state
\* is not touched by the close that follows.
LEMMA QuietStep ==
    ASSUME ClientInv, [Next]_vars, disposed
    PROVE  UNCHANGED <<hook, timer>> /\ ws' \in {ws, "none"}
<1> USE DEF ClientInv, QuietWhenDisposed
<1>0. timer = None /\ ws \in {"closing", "none"}
  OBVIOUS
<1>1. CASE EmitEvent
  BY <1>1 DEF EmitEvent, client
<1>2. CASE \E d \in 0 .. RingCap + 1 : RelayApplies(d)
  BY <1>2 DEF RelayApplies, client
<1>3. CASE RelayDies
  BY <1>3 DEF RelayDies, client
<1>4. CASE \E p \in 0 .. MaxEvents : RelayRestarts(p)
  BY <1>4 DEF RelayRestarts, client
<1>5. CASE LinkBreaks
  BY <1>5 DEF LinkBreaks, client
<1>6. CASE TimerFires \/ ConnectThrows
  BY <1>0, <1>6 DEF TimerFires, ConnectThrows, None
<1>7. CASE OnClose
  <2>1. timer' = timer /\ ws' = "none"
    BY <1>7, ScheduleReconnectArms DEF OnClose
  <2>2. UNCHANGED hook
    BY <1>7 DEF OnClose, hook
  <2> QED
    BY <2>1, <2>2
<1>8. CASE SocketOpens \/ Receive
  BY <1>0, <1>8 DEF SocketOpens, Receive
<1>9. CASE Dispose \/ Commit \/ Tick \/ Second
  BY <1>9 DEF Dispose, Commit, Tick, Second
<1>10. CASE UNCHANGED vars
  BY <1>10 DEF vars, client
<1> QED
  BY <1>1, <1>2, <1>3, <1>4, <1>5, <1>6, <1>7, <1>8, <1>9, <1>10
     DEF Next, SocketCloses, ConnectFails

THEOREM DisposedStaysQuiet == Spec => DisposedQuiet
<1>1. ClientInv /\ [Next]_vars
      => [disposed => UNCHANGED <<hook, timer>> /\ ws' \in {ws, "none"}]_vars
  BY QuietStep
<1> QED
  BY <1>1, ClientInvariant, PTL DEF Spec, DisposedQuiet

-----------------------------------------------------------------------------
(* The relay state that the header shows.                                    *)

HookTypes ==
    /\ age \in Nat /\ offline \in Nat
    /\ view \in [age : Nat, snapshot : BOOLEAN, isConnected : BOOLEAN]
    /\ isConnected \in BOOLEAN /\ dirty \in BOOLEAN /\ ticker \in {"armed", "due"}

\* The interval's values are behind the hook's only until the next commit, which comes
\* before the next second.
ViewFollows ==
    /\ isConnected <=> ws = "open"
    /\ view.age >= age
    /\ ~dirty => (view.isConnected <=> isConnected) /\ view.age = age
    /\ dirty /\ ws # "open" => offline = 0

\* How old "live" may be: a second more while the interval is due, and one more if a
\* reconnection has restarted it instead.
LiveBounded ==
    state = "live" =>
        /\ ws = "open" => age <= ReconnectAfter + (IF ticker = "due" /\ ~dirty THEN 1 ELSE 0)
        /\ ws # "open" /\ ticker = "due" => ~dirty /\ offline <= 1 /\ age <= ReconnectAfter
        /\ ws # "open" /\ ticker = "armed" => offline = 0 /\ age < ReconnectAfter

LiveInv == ~disposed => ViewFollows /\ LiveBounded

\* What a step may leave alone.
LEMMA LiveKept ==
    ASSUME HookTypes, LiveInv,
           UNCHANGED <<ws, disposed, state, isConnected, age, view, dirty, ticker, offline>>
    PROVE  HookTypes' /\ LiveInv'
BY DEF HookTypes, LiveInv, ViewFollows, LiveBounded

\* onclose shows the loss at once.
LEMMA LiveOnClose ==
    ASSUME HookTypes, LiveInv, disposed \in BOOLEAN, OnClose
    PROVE  HookTypes' /\ LiveInv'
<1>1. /\ ws' = "none" /\ disposed' = disposed /\ age' = age /\ view' = view /\ ticker' = ticker
      /\ offline' = IF ws = "open" THEN 0 ELSE offline
  BY DEF OnClose
<1>2. CASE disposed
  <2>1. state' = state /\ isConnected' = isConnected /\ dirty' = dirty
    BY <1>2 DEF OnClose
  <2> QED
    BY <1>1, <1>2, <2>1 DEF HookTypes, LiveInv
<1>3. CASE ~disposed
  <2>1. isConnected' = FALSE /\ dirty' = (dirty \/ isConnected) /\ state' # "live"
    BY <1>3 DEF OnClose, Closed
  <2>2. HookTypes'
    BY <1>1, <2>1 DEF HookTypes
  <2>3. ViewFollows /\ LiveBounded
    BY <1>3 DEF LiveInv
  <2>4. ViewFollows'
    <3>1. view'.age >= age' /\ (isConnected' <=> ws' = "open")
      BY <1>1, <2>1, <2>3 DEF ViewFollows
    <3>2. ~dirty' => (view'.isConnected <=> isConnected') /\ view'.age = age'
      BY <1>1, <2>1, <2>3 DEF ViewFollows, HookTypes
    <3>3. dirty' => offline' = 0
      BY <1>1, <2>1, <2>3 DEF ViewFollows, HookTypes
    <3> QED
      BY <3>1, <3>2, <3>3 DEF ViewFollows
  <2> QED
    BY <2>1, <2>2, <2>4 DEF LiveInv, LiveBounded
<1> QED
  BY <1>2, <1>3

\* A tick shows "live" only for a recent view, and for a lost socket only until the
\* loss is committed.
LEMMA LiveTick ==
    ASSUME HookTypes, LiveInv, Tick
    PROVE  HookTypes' /\ LiveInv'
<1>1. /\ ~disposed /\ state' = StateAtTick /\ ticker' = "armed" /\ disposed' = disposed
      /\ UNCHANGED <<ws, isConnected, age, view, dirty, offline>>
  BY DEF Tick, client
<1>2. HookTypes'
  BY <1>1 DEF HookTypes
<1>3. ViewFollows'
  BY <1>1 DEF LiveInv, ViewFollows
<1>4. ASSUME state' = "live" PROVE view.isConnected /\ view.age < ReconnectAfter
  <2>1. view.age \in Nat /\ ReconnectAfter \in Nat
    BY DashboardAssumption DEF HookTypes
  <2> QED
    BY <1>1, <1>4, <2>1 DEF StateAtTick
<1>5. LiveBounded'
  <2> SUFFICES ASSUME state' = "live" PROVE LiveBounded'
    BY DEF LiveBounded
  <2>1. age < ReconnectAfter
    <3>1. age \in Nat /\ view.age \in Nat /\ ReconnectAfter \in Nat /\ view.age >= age
      BY <1>1, DashboardAssumption DEF HookTypes, LiveInv, ViewFollows
    <3> QED
      BY <1>4, <3>1
  <2>2. ws # "open" => offline = 0
    BY <1>1, <1>4 DEF LiveInv, ViewFollows
  <2> QED
    BY <1>1, <2>1, <2>2, DashboardAssumption DEF LiveBounded, HookTypes
<1> QED
  BY <1>2, <1>3, <1>5 DEF LiveInv

\* A second passes only when the interval has run, and nothing is uncommitted.
LEMMA LiveSecond ==
    ASSUME HookTypes, LiveInv, Second
    PROVE  HookTypes' /\ LiveInv'
<1>1. /\ ~disposed /\ ~dirty /\ ticker = "armed" /\ ticker' = "due" /\ disposed' = disposed
      /\ age' = Smaller(age + 1, DownAfter)
      /\ view' = [view EXCEPT !.age = Smaller(@ + 1, DownAfter)]
      /\ offline' = IF ws = "open" THEN 0 ELSE Smaller(offline + 1, 2)
      /\ UNCHANGED <<ws, state, isConnected, dirty>>
  BY DEF Second
<1>2. /\ age \in Nat /\ offline \in Nat /\ view.age \in Nat /\ DownAfter \in Nat
      /\ ReconnectAfter \in Nat
  BY DashboardAssumption DEF HookTypes
<1>3. /\ age' \in Nat /\ age' <= age + 1 /\ Smaller(view.age + 1, DownAfter) \in Nat
      /\ offline' \in Nat /\ offline' <= offline + 1
  BY <1>1, <1>2 DEF Smaller
<1>4. /\ view' \in [age : Nat, snapshot : BOOLEAN, isConnected : BOOLEAN]
      /\ view'.age = Smaller(view.age + 1, DownAfter) /\ view'.isConnected = view.isConnected
  BY <1>1, <1>3 DEF HookTypes
<1>5. HookTypes'
  BY <1>1, <1>3, <1>4 DEF HookTypes
<1>6. ViewFollows'
  <2>1. view.age = age /\ (view.isConnected <=> isConnected) /\ (isConnected <=> ws = "open")
    BY <1>1 DEF LiveInv, ViewFollows
  <2>2. view'.age = age'
    BY <1>1, <1>4, <2>1
  <2>3. view'.age >= age'
    BY <1>3, <2>2
  <2> QED
    BY <1>1, <1>4, <2>1, <2>2, <2>3 DEF ViewFollows
<1>7. LiveBounded'
  <2> SUFFICES ASSUME state = "live" PROVE LiveBounded'
    BY <1>1 DEF LiveBounded
  <2>1. /\ ws = "open" => age <= ReconnectAfter
        /\ ws # "open" => offline = 0 /\ age < ReconnectAfter
    BY <1>1, <1>2 DEF LiveInv, LiveBounded
  <2>2. /\ ws = "open" => age' <= ReconnectAfter + 1
        /\ ws # "open" => offline' <= 1 /\ age' <= ReconnectAfter
    BY <1>2, <1>3, <2>1
  <2> QED
    BY <1>1, <2>2 DEF LiveBounded
<1> QED
  BY <1>5, <1>6, <1>7 DEF LiveInv

\* Every step keeps the bounds.
LEMMA LiveStep ==
    ASSUME ClientInv, HookTypes, LiveInv, [Next]_vars
    PROVE  HookTypes' /\ LiveInv'
<1> USE DEF client, hook, interval
<1>1. CASE \/ EmitEvent \/ RelayDies \/ LinkBreaks \/ ConnectThrows \/ UNCHANGED vars
           \/ \E d \in 0 .. RingCap + 1 : RelayApplies(d)
           \/ \E p \in 0 .. MaxEvents : RelayRestarts(p)
  <2>1. UNCHANGED <<ws, disposed, state, isConnected, age, view, dirty, ticker, offline>>
    BY <1>1 DEF EmitEvent, RelayDies, LinkBreaks, ConnectThrows, vars, RelayApplies,
                RelayRestarts
  <2> QED
    BY <2>1, LiveKept
<1>2. CASE TimerFires
  <2>1. /\ ws # "open" /\ ws' # "open"
        /\ UNCHANGED <<disposed, state, isConnected, age, view, dirty, ticker, offline>>
    BY <1>2 DEF TimerFires, ClientInv, OneAttempt, None
  <2> QED
    BY <2>1 DEF HookTypes, LiveInv, ViewFollows, LiveBounded
<1>3. CASE SocketOpens
  <2>1. /\ ws # "open" /\ ws' = "open" /\ isConnected' = TRUE /\ dirty' = TRUE /\ offline' = 0
        /\ UNCHANGED <<disposed, state, age, view, ticker>>
    BY <1>3 DEF SocketOpens
  <2>2. HookTypes'
    BY <2>1 DEF HookTypes
  <2>3. LiveInv'
    BY <2>1, DashboardAssumption DEF HookTypes, LiveInv, ViewFollows, LiveBounded
  <2> QED
    BY <2>2, <2>3
<1>4. CASE SocketCloses \/ ConnectFails
  BY <1>4, LiveOnClose DEF SocketCloses, ConnectFails, ClientInv
<1>5. CASE Dispose
  BY <1>5 DEF Dispose, HookTypes, LiveInv
<1>6. CASE Receive
  <2>1. /\ ws = "open" /\ ws' = "open" /\ age' = 0 /\ dirty' = TRUE
        /\ UNCHANGED <<disposed, isConnected, view, ticker, offline>>
    BY <1>6 DEF Receive
  <2>2. HookTypes' /\ view.age \in Nat /\ ReconnectAfter \in Nat
    BY <2>1, DashboardAssumption DEF HookTypes
  <2>3. ~disposed => ViewFollows'
    BY <2>1, <2>2 DEF LiveInv, ViewFollows
  <2>4. LiveBounded'
    BY <2>1, <2>2 DEF LiveBounded
  <2> QED
    BY <2>1, <2>2, <2>3, <2>4 DEF LiveInv
<1>7. CASE Commit
  <2>1. /\ dirty /\ dirty' = FALSE /\ ticker' = "armed" /\ ~disposed /\ disposed' = disposed
        /\ view' = [age |-> age, snapshot |-> snap # NoSnapshot, isConnected |-> isConnected]
        /\ UNCHANGED <<ws, state, isConnected, age, offline>>
    BY <1>7 DEF Commit
  <2>2. view' \in [age : Nat, snapshot : BOOLEAN, isConnected : BOOLEAN]
    <3> DEFINE b == snap # NoSnapshot
    <3>1. b \in BOOLEAN /\ age \in Nat /\ isConnected \in BOOLEAN
      BY DEF HookTypes
    <3>2. view' = [age |-> age, snapshot |-> b, isConnected |-> isConnected]
      BY <2>1
    <3> HIDE DEF b
    <3> QED
      BY <3>1, <3>2
  <2>3. HookTypes'
    BY <2>1, <2>2 DEF HookTypes
  <2>4. view'.age = age /\ (view'.isConnected <=> isConnected)
    BY <2>1
  <2>5. ViewFollows /\ LiveBounded
    BY <2>1 DEF LiveInv
  <2>6. ViewFollows'
    BY <2>1, <2>4, <2>5 DEF ViewFollows, HookTypes
  <2>7. LiveBounded'
    BY <2>1, <2>5, DashboardAssumption DEF LiveBounded, HookTypes
  <2> QED
    BY <2>3, <2>6, <2>7 DEF LiveInv
<1>8. CASE Tick
  BY <1>8, LiveTick
<1>9. CASE Second
  BY <1>9, LiveSecond
<1> QED
  BY <1>1, <1>2, <1>3, <1>4, <1>5, <1>6, <1>7, <1>8, <1>9 DEF Next

LEMMA LiveInvariant == Spec => [](HookTypes /\ LiveInv)
<1>1. Init => HookTypes /\ LiveInv
  <2> SUFFICES ASSUME Init PROVE HookTypes /\ LiveInv
    OBVIOUS
  <2>1. HookTypes
    BY DEF Init, HookTypes
  <2>2. view.age = 0 /\ view.isConnected = FALSE /\ age = 0 /\ offline = 0
    BY DEF Init
  <2>3. ViewFollows
    BY <2>2 DEF Init, ViewFollows
  <2>4. LiveBounded
    BY DEF Init, LiveBounded
  <2> QED
    BY <2>1, <2>3, <2>4 DEF LiveInv
<1> QED
  BY <1>1, LiveStep, ClientInvariant, PTL DEF Spec

\* hooks/useWebSocket.ts stops showing "live" within the second after its socket is
\* gone, although an interval with the values of an earlier render may show it again.
THEOREM LiveEnds == Spec => []LiveEndsWithSocket
<1>1. HookTypes /\ LiveInv => LiveEndsWithSocket
  BY DEF HookTypes, LiveInv, LiveBounded, LiveEndsWithSocket
<1> QED
  BY <1>1, LiveInvariant, PTL

\* "live" never outlasts the last frame by more than the threshold and a second,
\* however commits, reconnections and ticks fall.
THEOREM LiveRecent == Spec => []LiveIsRecent
<1>1. HookTypes /\ LiveInv => LiveIsRecent
  BY DashboardAssumption DEF HookTypes, LiveInv, LiveBounded, LiveIsRecent
<1> QED
  BY <1>1, LiveInvariant, PTL

-----------------------------------------------------------------------------
(* What the dashboard holds of the relay's ring.                             *)

WireTypes ==
    /\ emitted \in Nat /\ pos \in Nat /\ pos <= emitted /\ emitted <= MaxEvents
    /\ ring \in Seq(Position) /\ Len(ring) <= RingCap
    /\ chan \in Seq(Frame)
    /\ snap # NoSnapshot => snap \in Seq(Position) /\ Len(snap) <= RingCap
    /\ linked => relay = "up"

\* q is a run of consecutive positions that ends with b.
Run(q, b) == \A i \in 1 .. Len(q) : q[i] = b - Len(q) + i

\* g[j] is the position that the first j frames of c bring a client to: a snapshot comes
\* first or not at all, and events follow one another.
Carries(c, g) ==
    /\ g \in [0 .. Len(c) -> Int]
    /\ \A j \in 1 .. Len(c) :
        /\ c[j].type = "snapshot" => j = 1 /\ Run(c[j].ring, g[1]) /\ Len(c[j].ring) <= RingCap
        /\ c[j].type = "event" => c[j].pos = g[j] /\ g[j] = g[j - 1] + 1
        /\ c[j].type = "heartbeat" => g[j] = g[j - 1]

Pending(c) == Len(c) # 0 /\ c[1].type = "snapshot"

\* The last position that is too old for the client, once it has its snapshot.
Before(c, g, r) == IF Pending(c) THEN g[1] - Len(c[1].ring) ELSE g[0] - Len(r)

\* What is in flight continues what the client holds and, on a connection that is not
\* broken, leads it to the relay's position with at least the relay's ring.
Delivers(g) ==
    /\ Carries(chan, g)
    /\ ~Pending(chan) => snap # NoSnapshot /\ Run(snap, g[0])
    /\ linked => /\ g[Len(chan)] = pos
                 /\ \A j \in 0 .. Len(chan) : g[j] <= pos
                 /\ Before(chan, g, snap) <= pos - Len(ring)

WireInv ==
    /\ Run(ring, pos)
    /\ snap # NoSnapshot => \E b \in Int : Run(snap, b)
    /\ ws = "open" => \E g : Delivers(g)

LEMMA RunAppend ==
    ASSUME NEW q \in Seq(Int), NEW b \in Int, Run(q, b)
    PROVE  Run(Append(q, b + 1), b + 1)
<1> DEFINE all == Append(q, b + 1)
<1>1. /\ Len(q) \in Nat /\ Len(all) = Len(q) + 1 /\ all[Len(q) + 1] = b + 1
      /\ \A i \in 1 .. Len(q) : all[i] = q[i]
  OBVIOUS
<1> HIDE DEF all
<1>2. ASSUME NEW i \in 1 .. Len(all) PROVE all[i] = b + 1 - Len(all) + i
  <2>1. CASE i = Len(q) + 1
    BY <1>1, <2>1
  <2>2. CASE i \in 1 .. Len(q)
    <3>1. q[i] = b - Len(q) + i
      BY <2>2 DEF Run
    <3> QED
      BY <1>1, <2>2, <3>1
  <2> QED
    BY <1>1, <2>1, <2>2
<1> QED
  BY <1>2 DEF Run, all

\* The end of a run is a run with the same end.
LEMMA RunDrop ==
    ASSUME NEW S \in SUBSET Int, NEW q \in Seq(S), NEW b \in Int, Run(q, b), NEW d \in 0 .. Len(q)
    PROVE  /\ SubSeq(q, d + 1, Len(q)) \in Seq(S)
           /\ Len(SubSeq(q, d + 1, Len(q))) = Len(q) - d
           /\ Run(SubSeq(q, d + 1, Len(q)), b)
<1> DEFINE z == SubSeq(q, d + 1, Len(q))
<1>1. Len(q) \in Nat /\ d \in Nat
  OBVIOUS
<1>2. \A i \in (d + 1) .. Len(q) : q[i] \in S
  BY <1>1
<1>3. /\ z \in Seq(S)
      /\ Len(z) = (IF d + 1 <= Len(q) THEN Len(q) - (d + 1) + 1 ELSE 0)
      /\ \A i \in 1 .. Len(z) : z[i] = q[(d + 1) + i - 1]
  BY <1>1, <1>2, SubSeqProperties
<1> HIDE DEF z
<1>4. Len(z) = Len(q) - d
  BY <1>1, <1>3
<1>5. ASSUME NEW i \in 1 .. Len(z) PROVE z[i] = b - Len(z) + i
  <2>1. (d + 1) + i - 1 = d + i /\ d + i \in 1 .. Len(q)
    BY <1>1, <1>4
  <2>2. z[i] = q[d + i]
    BY <1>3, <2>1
  <2>3. q[d + i] = b - Len(q) + (d + i)
    BY <2>1 DEF Run
  <2> QED
    BY <1>1, <1>4, <2>2, <2>3
<1> QED
  BY <1>3, <1>4, <1>5 DEF Run, z

\* Of two runs with the same end, the shorter is the end of the longer.
LEMMA RunSuffix ==
    ASSUME NEW q \in Seq(Int), NEW r \in Seq(Int), NEW b \in Int, Run(q, b), Run(r, b),
           Len(r) <= Len(q)
    PROVE  \E k \in 0 .. Len(q) : r = SubSeq(q, k + 1, Len(q))
<1> DEFINE k == Len(q) - Len(r)
           z == SubSeq(q, k + 1, Len(q))
<1>1. Len(q) \in Nat /\ Len(r) \in Nat /\ k \in 0 .. Len(q) /\ Len(q) - k = Len(r)
  OBVIOUS
<1> HIDE DEF k
<1>2. z \in Seq(Int) /\ Len(z) = Len(r) /\ Run(z, b)
  BY <1>1, RunDrop
<1> HIDE DEF z
<1>3. \A i \in 1 .. Len(r) : r[i] = z[i]
  BY <1>2 DEF Run
<1>4. r = z
  BY <1>2, <1>3, SeqEqual
<1> QED
  BY <1>1, <1>4 DEF z

\* A frame is sent behind the others.
LEMMA CarriesAppend ==
    ASSUME NEW c \in Seq(Frame), NEW g, Carries(c, g), NEW f \in Frame, NEW x \in Int,
           \/ f.type = "event" /\ f.pos = x /\ x = g[Len(c)] + 1
           \/ f.type = "heartbeat" /\ x = g[Len(c)],
           NEW h, h = [j \in 0 .. Len(c) + 1 |-> IF j <= Len(c) THEN g[j] ELSE x]
    PROVE  /\ Carries(Append(c, f), h)
           /\ Pending(Append(c, f)) <=> Pending(c)
<1> DEFINE all == Append(c, f)
<1>1. /\ Len(c) \in Nat /\ Len(all) = Len(c) + 1 /\ all[Len(c) + 1] = f
      /\ \A j \in 1 .. Len(c) : all[j] = c[j]
  OBVIOUS
<1>2. g \in [0 .. Len(c) -> Int]
  BY DEF Carries
<1>3. /\ h \in [0 .. Len(all) -> Int] /\ h[Len(c) + 1] = x
      /\ \A j \in 0 .. Len(c) : h[j] = g[j]
  BY <1>1, <1>2
<1> HIDE DEF all
<1>4. ASSUME NEW j \in 1 .. Len(all)
      PROVE  /\ all[j].type = "snapshot" =>
                    j = 1 /\ Run(all[j].ring, h[1]) /\ Len(all[j].ring) <= RingCap
             /\ all[j].type = "event" => all[j].pos = h[j] /\ h[j] = h[j - 1] + 1
             /\ all[j].type = "heartbeat" => h[j] = h[j - 1]
  <2>1. CASE j \in 1 .. Len(c)
    <3>1. all[j] = c[j] /\ h[j] = g[j] /\ h[j - 1] = g[j - 1] /\ h[1] = g[1]
      BY <1>1, <1>3, <2>1
    <3> QED
      BY <2>1, <3>1 DEF Carries
  <2>2. CASE j = Len(c) + 1
    <3>1. all[j] = f /\ h[j] = x /\ h[j - 1] = g[Len(c)]
      BY <1>1, <1>3, <2>2
    <3> QED
      BY <3>1
  <2> QED
    BY <1>1, <2>1, <2>2
<1>5. Carries(all, h)
  BY <1>3, <1>4 DEF Carries
<1>6. Pending(all) <=> Pending(c)
  BY <1>1 DEF Pending
<1> QED
  BY <1>5, <1>6 DEF all

\* A frame is received.
LEMMA CarriesTail ==
    ASSUME NEW c \in Seq(Frame), c # <<>>, NEW g, Carries(c, g),
           NEW h, h = [j \in 0 .. Len(c) - 1 |-> g[j + 1]]
    PROVE  /\ Carries(Tail(c), h)
           /\ ~Pending(Tail(c))
           /\ Tail(c) \in Seq(Frame) /\ Len(Tail(c)) = Len(c) - 1 /\ Len(c) \in Nat \ {0}
<1> DEFINE t == Tail(c)
<1>1. /\ t \in Seq(Frame) /\ Len(t) = Len(c) - 1 /\ Len(c) \in Nat \ {0}
      /\ \A j \in 1 .. Len(t) : t[j] = c[j + 1]
  BY HeadTailProperties
<1>2. g \in [0 .. Len(c) -> Int]
  BY DEF Carries
<1>3. h \in [0 .. Len(t) -> Int] /\ \A j \in 0 .. Len(t) : h[j] = g[j + 1]
  BY <1>1, <1>2
<1> HIDE DEF t
<1>4. ASSUME NEW j \in 1 .. Len(t)
      PROVE  /\ t[j].type # "snapshot"
             /\ t[j].type = "event" => t[j].pos = h[j] /\ h[j] = h[j - 1] + 1
             /\ t[j].type = "heartbeat" => h[j] = h[j - 1]
  <2>1. /\ j + 1 \in 1 .. Len(c) /\ t[j] = c[j + 1] /\ h[j] = g[j + 1]
        /\ h[j - 1] = g[(j + 1) - 1] /\ j + 1 # 1
    <3>1. j + 1 \in 1 .. Len(c) /\ j + 1 # 1 /\ j - 1 \in 0 .. Len(t) /\ j \in 0 .. Len(t)
          /\ (j - 1) + 1 = (j + 1) - 1
      BY <1>1
    <3> QED
      BY <1>1, <1>3, <3>1
  <2> QED
    BY <2>1 DEF Carries
<1>5. Carries(t, h)
  BY <1>3, <1>4 DEF Carries
<1>6. ~Pending(t)
  <2>1. Len(t) # 0 => 1 \in 1 .. Len(t)
    BY <1>1
  <2> QED
    BY <1>4, <2>1 DEF Pending
<1> QED
  BY <1>1, <1>5, <1>6 DEF t

\* A ring of positions is a sequence of integers.
LEMMA PositionsAreInts == Position \subseteq Int /\ \A q \in Seq(Position) : q \in Seq(Int)
<1>1. Position \subseteq Int
  BY DashboardAssumption DEF Position
<1>2. ASSUME NEW q \in Seq(Position) PROVE q \in Seq(Int)
  <2>1. Len(q) \in Nat /\ q \in [1 .. Len(q) -> Position]
    BY LenProperties
  <2>2. q \in [1 .. Len(q) -> Int]
    BY <1>1, <2>1
  <2> QED
    BY <2>1, <2>2, SeqDef
<1> QED
  BY <1>1, <1>2

\* A frame sent on the wire, with what the relay holds after it.
LEMMA WireSends ==
    ASSUME WireTypes, NEW g, Delivers(g), linked, NEW f \in Frame, NEW x \in Int,
           \/ f.type = "event" /\ f.pos = x /\ x = pos + 1
           \/ f.type = "heartbeat" /\ x = pos,
           chan' = Append(chan, f), pos' = x, snap' = snap, linked' = linked,
           ring' \in Seq(Position), pos - Len(ring) <= pos' - Len(ring')
    PROVE  \E h : Delivers(h)'
<1>0. PICK h : h = [j \in 0 .. Len(chan) + 1 |-> IF j <= Len(chan) THEN g[j] ELSE x]
  OBVIOUS
<1>1. /\ chan \in Seq(Frame) /\ Len(chan) \in Nat /\ Len(chan') = Len(chan) + 1
      /\ \A j \in 1 .. Len(chan) : chan'[j] = chan[j]
  BY DEF WireTypes
<1>2. /\ Carries(chan, g) /\ g[Len(chan)] = pos /\ pos \in Int
      /\ \A j \in 0 .. Len(chan) : g[j] <= pos
      /\ Before(chan, g, snap) <= pos - Len(ring)
  BY DEF Delivers, WireTypes
<1>3. Carries(chan', h) /\ (Pending(chan') <=> Pending(chan))
  <2>1. \/ f.type = "event" /\ f.pos = x /\ x = g[Len(chan)] + 1
        \/ f.type = "heartbeat" /\ x = g[Len(chan)]
    BY <1>2
  <2> QED
    BY <1>0, <1>1, <1>2, <2>1, CarriesAppend
<1>4. /\ h[Len(chan')] = x /\ (\A j \in 0 .. Len(chan) : h[j] = g[j])
      /\ (Len(chan) # 0 => h[1] = g[1]) /\ h[0] = g[0]
  BY <1>0, <1>1
<1>5. \A j \in 0 .. Len(chan) : g[j] \in Int
  BY <1>2 DEF Carries
<1>6. ASSUME NEW j \in 0 .. Len(chan') PROVE h[j] <= pos'
  <2>1. CASE j \in 0 .. Len(chan)
    BY <1>2, <1>4, <1>5, <2>1
  <2>2. CASE j = Len(chan')
    BY <1>4, <2>2
  <2> QED
    BY <1>1, <2>1, <2>2
<1>7. Before(chan', h, snap') = Before(chan, g, snap)
  <2>1. CASE Pending(chan)
    <3>1. Len(chan) # 0 /\ chan'[1] = chan[1]
      BY <1>1, <2>1 DEF Pending
    <3> QED
      BY <1>3, <1>4, <2>1, <3>1 DEF Before
  <2>2. CASE ~Pending(chan)
    BY <1>3, <1>4, <2>2 DEF Before
  <2> QED
    BY <2>1, <2>2
<1>8. Before(chan, g, snap) \in Int \/ Pending(chan)
  <2> SUFFICES ASSUME ~Pending(chan) PROVE Before(chan, g, snap) \in Int
    OBVIOUS
  <2>1. snap \in Seq(Position)
    BY DEF Delivers, WireTypes
  <2> QED
    BY <1>1, <1>5, <2>1 DEF Before
<1>9. Pending(chan) => Before(chan, g, snap) \in Int
  <2> SUFFICES ASSUME Pending(chan) PROVE g[1] - Len(chan[1].ring) \in Int
    BY DEF Before
  <2>1. Len(chan) # 0 /\ chan[1] \in Frame /\ chan[1].type = "snapshot"
    BY <1>1 DEF Pending
  <2>2. chan[1].ring \in Seq(Position)
    BY <2>1 DEF Frame
  <2> QED
    BY <1>1, <1>5, <2>1, <2>2
<1>10. Before(chan', h, snap') <= pos' - Len(ring')
  <2> DEFINE w == Before(chan, g, snap)
  <2>1. w \in Int /\ w <= pos - Len(ring)
    BY <1>2, <1>8, <1>9
  <2>2. pos \in Int /\ Len(ring) \in Nat /\ Len(ring') \in Nat /\ pos' \in Int
    BY DEF WireTypes
  <2>3. Before(chan', h, snap') = w
    BY <1>7
  <2> HIDE DEF w
  <2> QED
    BY <2>1, <2>2, <2>3
<1>11. ~Pending(chan') => snap' # NoSnapshot /\ Run(snap', h[0])
  BY <1>3, <1>4 DEF Delivers
<1>12. Delivers(h)'
  BY <1>3, <1>4, <1>6, <1>10, <1>11 DEF Delivers
<1> QED
  BY <1>12

\* A step that leaves the ring, the wire and what is shown alone, or breaks the link.
LEMMA WireKept ==
    ASSUME WireTypes, WireInv, UNCHANGED <<emitted, ring, pos, chan, snap>>,
           ws' = "open" => ws = "open", linked' => linked /\ relay' = relay
    PROVE  WireTypes' /\ WireInv'
<1>1. WireTypes'
  BY DEF WireTypes
<1>2. Run(ring, pos)' /\ (snap' # NoSnapshot => \E b \in Int : Run(snap', b))
  BY DEF WireInv, Run
<1>3. ASSUME ws' = "open" PROVE \E g : Delivers(g)'
  <2>1. PICK g : Delivers(g)
    BY <1>3 DEF WireInv
  <2>2. Delivers(g)'
    BY <2>1 DEF Delivers, Carries, Pending, Before, Run
  <2> QED
    BY <2>2
<1> QED
  BY <1>1, <1>2, <1>3 DEF WireInv

\* The relay applies an event and sends it.
LEMMA WireApplies ==
    ASSUME WireTypes, WireInv, NEW d \in 0 .. RingCap + 1, RelayApplies(d)
    PROVE  WireTypes' /\ WireInv'
<1> DEFINE all == Append(ring, pos + 1)
           f == [type |-> "event", pos |-> pos + 1]
<1>1. /\ pos \in Nat /\ pos < emitted /\ emitted <= MaxEvents /\ MaxEvents \in Nat
      /\ pos' = pos + 1 /\ emitted' = emitted /\ linked' = linked /\ relay' = relay
      /\ snap' = snap /\ ws' = ws /\ emitted \in Nat
  BY DashboardAssumption DEF WireTypes, RelayApplies, client, hook
<1>2. pos + 1 \in Position /\ f \in Frame
  <2>1. pos + 1 \in Position
    BY <1>1 DEF Position
  <2> QED
    BY <2>1 DEF Frame
<1>3. /\ ring \in Seq(Position) /\ all \in Seq(Position) /\ Len(all) = Len(ring) + 1
      /\ Len(ring) \in Nat
  BY <1>2 DEF WireTypes
<1>4. /\ d \in 0 .. Len(all) /\ Len(all) - d <= RingCap
      /\ ring' = SubSeq(all, d + 1, Len(all))
  <2>1. d <= Len(all) /\ Len(all) - d <= RingCap /\ ring' = SubSeq(all, d + 1, Len(all))
    BY DEF RelayApplies
  <2> QED
    BY <1>3, <2>1
<1>5. Run(all, pos + 1)
  BY <1>1, <1>3, PositionsAreInts, RunAppend DEF WireInv
<1> HIDE DEF all
<1>6. ring' \in Seq(Position) /\ Len(ring') = Len(all) - d /\ Run(ring', pos')
  BY <1>1, <1>3, <1>4, <1>5, PositionsAreInts, RunDrop
<1>7. chan' = IF linked THEN Append(chan, f) ELSE chan
  BY DEF RelayApplies, Sent
<1>8. chan' \in Seq(Frame)
  <2> HIDE DEF f
  <2> QED
    BY <1>2, <1>7 DEF WireTypes
<1>9. WireTypes'
  <2>1. pos' \in Nat /\ pos' <= emitted'
    BY <1>1
  <2>2. Len(ring') <= RingCap
    BY <1>4, <1>6
  <2> QED
    BY <1>1, <1>6, <1>8, <2>1, <2>2 DEF WireTypes
<1>10. ASSUME ws = "open" PROVE \E g : Delivers(g)'
  <2>1. PICK g : Delivers(g)
    BY <1>10 DEF WireInv
  <2>2. CASE linked
    <3>1. pos - Len(ring) <= pos' - Len(ring')
      BY <1>1, <1>3, <1>4, <1>6
    <3>2. chan' = Append(chan, f) /\ f.type = "event" /\ f.pos = pos' /\ pos' = pos + 1
          /\ pos' \in Int
      BY <1>1, <1>7, <2>2
    <3> HIDE DEF f
    <3>3. \E h : Delivers(h)'
      BY <1>1, <1>2, <1>6, <2>1, <2>2, <3>1, <3>2, WireSends
    <3> QED
      BY <3>3
  <2>3. CASE ~linked
    <3>1. chan' = chan /\ ~linked'
      BY <1>1, <1>7, <2>3
    <3>2. Delivers(g)'
      BY <1>1, <2>1, <3>1 DEF Delivers, Carries, Pending, Run
    <3> QED
      BY <3>2
  <2> QED
    BY <2>2, <2>3
<1>11. Run(ring, pos)' /\ (snap' # NoSnapshot => \E b \in Int : Run(snap', b))
  BY <1>1, <1>6 DEF WireInv
<1> QED
  BY <1>1, <1>9, <1>10, <1>11 DEF WireInv

\* A second passes, perhaps with a heartbeat.
LEMMA WireSecond ==
    ASSUME WireTypes, WireInv, Second
    PROVE  WireTypes' /\ WireInv'
<1> DEFINE f == [type |-> "heartbeat"]
<1>1. /\ UNCHANGED <<emitted, pos, ring, linked, relay, snap, ws>>
      /\ \/ chan' = chan
         \/ linked /\ chan' = Append(chan, f)
  BY DEF Second, Sent
<1>2. CASE chan' = chan
  BY <1>1, <1>2, WireKept
<1>3. CASE linked /\ chan' = Append(chan, f)
  <2>1. f \in Frame /\ f.type = "heartbeat"
    BY DEF Frame
  <2> HIDE DEF f
  <2>2. WireTypes'
    BY <1>1, <1>3, <2>1 DEF WireTypes
  <2>3. /\ ring \in Seq(Position) /\ Len(ring) \in Nat /\ pos \in Int
        /\ pos - Len(ring) <= pos' - Len(ring')
    BY <1>1 DEF WireTypes
  <2>4. ASSUME ws = "open" PROVE \E g : Delivers(g)'
    <3>1. PICK g : Delivers(g)
      BY <2>4 DEF WireInv
    <3>2. chan' = Append(chan, f) /\ pos' = pos /\ snap' = snap /\ linked' = linked
          /\ ring' \in Seq(Position)
      BY <1>1, <1>3, <2>3
    <3>3. \E h : Delivers(h)'
      BY <1>3, <2>1, <2>3, <3>1, <3>2, WireSends
    <3> QED
      BY <3>3
  <2>5. Run(ring, pos)' /\ (snap' # NoSnapshot => \E b \in Int : Run(snap', b))
    BY <1>1 DEF WireInv, Run
  <2> QED
    BY <1>1, <2>2, <2>4, <2>5 DEF WireInv
<1> QED
  BY <1>1, <1>2, <1>3

\* A new connection starts with the snapshot frame.
LEMMA WireOpens ==
    ASSUME WireTypes, WireInv, SocketOpens
    PROVE  WireTypes' /\ WireInv'
<1> DEFINE f == [type |-> "snapshot", ring |-> ring]
<1>1. /\ UNCHANGED <<emitted, pos, ring, relay, snap>> /\ relay = "up" /\ linked' = TRUE
      /\ chan' = <<f>>
  BY DEF SocketOpens, FirstFrames, server
<1>2. ring \in Seq(Position) /\ Len(ring) \in Nat /\ pos \in Nat /\ Len(ring) <= RingCap
  BY DEF WireTypes
<1>3. f \in Frame /\ f.type = "snapshot" /\ f.ring = ring
  BY <1>2 DEF Frame
<1> HIDE DEF f
<1>4. chan' \in Seq(Frame) /\ Len(chan') = 1 /\ chan'[1] = f
  BY <1>1, <1>3
<1>5. WireTypes'
  BY <1>1, <1>4 DEF WireTypes
<1>6. PICK g : g = [j \in 0 .. 1 |-> pos]
  OBVIOUS
<1>7. g \in [0 .. 1 -> Int] /\ g[0] = pos /\ g[1] = pos
  BY <1>2, <1>6
<1>8. Carries(chan', g)
  BY <1>2, <1>3, <1>4, <1>7 DEF Carries, WireInv
<1>9. Pending(chan') /\ Before(chan', g, snap') = pos - Len(ring)
  BY <1>3, <1>4, <1>7 DEF Pending, Before
<1>10. \A j \in 0 .. Len(chan') : g[j] <= pos
  BY <1>2, <1>4, <1>6
<1>11. Delivers(g)'
  BY <1>1, <1>2, <1>4, <1>7, <1>8, <1>9, <1>10 DEF Delivers
<1>12. Run(ring, pos)' /\ (snap' # NoSnapshot => \E b \in Int : Run(snap', b))
  BY <1>1 DEF WireInv, Run
<1> QED
  BY <1>5, <1>11, <1>12 DEF WireInv

\* applyEvent with the event behind what the hook holds.
LEMMA ApplyEventRuns ==
    ASSUME NEW r \in Seq(Position), Len(r) <= RingCap, NEW b \in Int, Run(r, b),
           b + 1 \in Position
    PROVE  /\ ApplyEvent(r, b + 1) \in Seq(Position) /\ Len(ApplyEvent(r, b + 1)) <= RingCap
           /\ Run(ApplyEvent(r, b + 1), b + 1)
           /\ \/ Len(ApplyEvent(r, b + 1)) = Len(r) + 1
              \/ Len(ApplyEvent(r, b + 1)) = RingCap
<1> DEFINE all == Append(r, b + 1)
<1>1. /\ all \in Seq(Position) /\ Len(all) = Len(r) + 1 /\ Len(r) \in Nat
      /\ RingCap \in Nat \ {0}
  BY DashboardAssumption
<1>2. Run(all, b + 1)
  BY PositionsAreInts, RunAppend
<1>3. ApplyEvent(r, b + 1) = IF Len(all) > RingCap THEN Tail(all) ELSE all
  BY DEF ApplyEvent
<1> HIDE DEF all
<1>4. CASE Len(all) > RingCap
  <2>1. all # <<>> /\ 1 \in 0 .. Len(all)
    BY <1>1
  <2>2. Tail(all) = SubSeq(all, 2, Len(all))
    BY <1>1, <2>1
  <2>3. SubSeq(all, 2, Len(all)) \in Seq(Position) /\ Len(SubSeq(all, 2, Len(all))) = Len(all) - 1
        /\ Run(SubSeq(all, 2, Len(all)), b + 1)
    <3>1. 1 + 1 = 2
      OBVIOUS
    <3> QED
      BY <1>1, <1>2, <2>1, <3>1, PositionsAreInts, RunDrop
  <2>4. Len(all) - 1 = RingCap
    BY <1>1, <1>4
  <2> DEFINE z == SubSeq(all, 2, Len(all))
  <2>5. ApplyEvent(r, b + 1) = z /\ z \in Seq(Position) /\ Len(z) = RingCap /\ Run(z, b + 1)
    BY <1>3, <1>4, <2>2, <2>3, <2>4
  <2> HIDE DEF z
  <2> QED
    BY <1>1, <2>5
<1>5. CASE ~(Len(all) > RingCap)
  BY <1>1, <1>2, <1>3, <1>5
<1> QED
  BY <1>4, <1>5

\* The client receives a frame.
LEMMA WireReceives ==
    ASSUME WireTypes, WireInv, Receive
    PROVE  WireTypes' /\ WireInv'
<1> DEFINE f == chan[1]
<1>1. /\ ws = "open" /\ chan # <<>> /\ chan' = Tail(chan) /\ chan \in Seq(Frame)
      /\ UNCHANGED <<emitted, pos, ring, linked, relay, ws>>
  BY DEF Receive, WireTypes, server, client
<1>2. PICK g : Delivers(g)
  BY <1>1 DEF WireInv
<1>3. PICK h : h = [j \in 0 .. Len(chan) - 1 |-> g[j + 1]]
  OBVIOUS
<1>4. /\ Carries(chan', h) /\ ~Pending(chan') /\ chan' \in Seq(Frame)
      /\ Len(chan') = Len(chan) - 1 /\ Len(chan) \in Nat \ {0} /\ f \in Frame /\ Head(chan) = f
  BY <1>1, <1>2, <1>3, CarriesTail DEF Delivers
<1>5. /\ h[0] = g[1] /\ g[0] \in Int /\ g[1] \in Int /\ h[Len(chan')] = g[Len(chan)]
      /\ \A j \in 0 .. Len(chan') : h[j] = g[j + 1] /\ j + 1 \in 0 .. Len(chan)
  <2>1. g \in [0 .. Len(chan) -> Int]
    BY <1>2 DEF Delivers, Carries
  <2> QED
    BY <1>3, <1>4, <2>1
<1>6. /\ f.type = "snapshot" => Run(f.ring, g[1]) /\ Len(f.ring) <= RingCap
      /\ f.type = "event" => f.pos = g[1] /\ g[1] = g[0] + 1
      /\ f.type = "heartbeat" => g[1] = g[0]
  <2>1. 1 \in 1 .. Len(chan) /\ 1 - 1 = 0
    BY <1>4
  <2>2. /\ f.type = "snapshot" => 1 = 1 /\ Run(f.ring, g[1]) /\ Len(f.ring) <= RingCap
        /\ f.type = "event" => f.pos = g[1] /\ g[1] = g[1 - 1] + 1
        /\ f.type = "heartbeat" => g[1] = g[1 - 1]
    BY <1>2, <2>1, Zenon DEF Delivers, Carries
  <2> QED
    BY <2>1, <2>2
<1>7. Pending(chan) <=> f.type = "snapshot"
  BY <1>4 DEF Pending
<1> HIDE DEF f
<1>8. \/ f.type = "snapshot" /\ snap' = f.ring
      \/ f.type = "event" /\ snap' = IF snap = NoSnapshot THEN NoSnapshot ELSE ApplyEvent(snap, f.pos)
      \/ f.type = "heartbeat" /\ snap' = snap
  BY <1>4 DEF Receive, OnSnapshot
<1>9. /\ pos \in Nat /\ ring \in Seq(Position) /\ Len(ring) \in Nat /\ Len(ring) <= RingCap
      /\ RingCap \in Nat
  BY DashboardAssumption DEF WireTypes
<1>10. /\ snap' # NoSnapshot /\ snap' \in Seq(Position) /\ Len(snap') <= RingCap
       /\ Run(snap', g[1])
       /\ linked => g[1] - Len(snap') <= pos - Len(ring)
  <2>0. linked => /\ g[1] <= pos /\ Before(chan, g, snap) <= pos - Len(ring)
    <3>1. 1 \in 0 .. Len(chan)
      BY <1>4
    <3> QED
      BY <1>2, <3>1 DEF Delivers
  <2>1. CASE f.type = "snapshot"
    <3>1. snap' = f.ring /\ f.ring \in Seq(Position)
      BY <1>4, <1>8, <2>1 DEF Frame
    <3>2. linked => g[1] - Len(f.ring) <= pos - Len(ring)
      BY <1>7, <2>0, <2>1 DEF Before, f
    <3> QED
      BY <1>6, <2>1, <3>1, <3>2, NoSnapshotAssumption
  <2>2. CASE f.type # "snapshot"
    <3>1. /\ snap # NoSnapshot /\ snap \in Seq(Position) /\ Len(snap) <= RingCap
          /\ Run(snap, g[0]) /\ Len(snap) \in Nat
          /\ linked => g[0] - Len(snap) <= pos - Len(ring)
      BY <1>2, <1>7, <2>0, <2>2 DEF Delivers, WireTypes, Before
    <3>2. CASE f.type = "heartbeat"
      <4>1. snap' = snap /\ g[1] = g[0]
        BY <1>6, <1>8, <3>2
      <4> QED
        BY <3>1, <4>1
    <3>3. CASE f.type = "event"
      <4>1. g[1] = g[0] + 1 /\ g[0] + 1 \in Position /\ f.pos = g[0] + 1
        BY <1>4, <1>6, <3>3 DEF Frame
      <4>2. snap' = ApplyEvent(snap, g[0] + 1)
        BY <1>8, <3>1, <3>3, <4>1
      <4>3. /\ snap' \in Seq(Position) /\ Len(snap') <= RingCap /\ Run(snap', g[1])
            /\ Len(snap') = Len(snap) + 1 \/ Len(snap') = RingCap
        BY <1>5, <3>1, <4>1, <4>2, ApplyEventRuns
      <4>4. snap' # NoSnapshot
        BY <4>3, NoSnapshotAssumption
      <4>5. linked => g[1] - Len(snap') <= pos - Len(ring)
        BY <1>5, <1>9, <2>0, <3>1, <4>1, <4>3
      <4> QED
        BY <4>3, <4>4, <4>5
    <3> QED
      BY <1>8, <2>2, <3>2, <3>3
  <2> QED
    BY <2>1, <2>2
<1>11. WireTypes'
  BY <1>1, <1>4, <1>10 DEF WireTypes
<1>12. Delivers(h)'
  <2>1. linked => /\ h[Len(chan')] = pos /\ \A j \in 0 .. Len(chan') : h[j] <= pos
                  /\ Before(chan', h, snap') <= pos - Len(ring)
    BY <1>2, <1>4, <1>5, <1>10 DEF Delivers, Before
  <2> QED
    BY <1>1, <1>4, <1>5, <1>10, <2>1 DEF Delivers
<1>13. Run(ring, pos)'
  BY <1>1 DEF WireInv, Run
<1> QED
  BY <1>5, <1>10, <1>11, <1>12, <1>13 DEF WireInv

\* Every step keeps what is in flight in line with the ring.
LEMMA WireStep ==
    ASSUME ClientInv, WireTypes, WireInv, [Next]_vars
    PROVE  WireTypes' /\ WireInv'
<1> USE DEF server, wire, client, hook, interval
<1>1. CASE EmitEvent
  <2>1. /\ UNCHANGED <<ring, pos, chan, snap, ws, linked, relay>>
        /\ emitted < MaxEvents /\ emitted' = emitted + 1
    BY <1>1 DEF EmitEvent
  <2>2. emitted' \in Nat /\ emitted' <= MaxEvents /\ pos <= emitted'
    BY <2>1, DashboardAssumption DEF WireTypes
  <2>3. WireTypes'
    BY <2>1, <2>2 DEF WireTypes
  <2>4. ASSUME ws = "open" PROVE \E g : Delivers(g)'
    <3>1. PICK g : Delivers(g)
      BY <2>4 DEF WireInv
    <3>2. Delivers(g)'
      BY <2>1, <3>1 DEF Delivers, Carries, Pending, Before, Run
    <3> QED
      BY <3>2
  <2>5. Run(ring, pos)' /\ (snap' # NoSnapshot => \E b \in Int : Run(snap', b))
    BY <2>1 DEF WireInv, Run
  <2> QED
    BY <2>1, <2>3, <2>4, <2>5 DEF WireInv
<1>2. CASE \E d \in 0 .. RingCap + 1 : RelayApplies(d)
  BY <1>2, WireApplies
<1>3. CASE \/ RelayDies \/ LinkBreaks \/ TimerFires \/ ConnectThrows \/ Dispose \/ Commit \/ Tick
           \/ UNCHANGED vars
  <2>1. /\ UNCHANGED <<emitted, ring, pos, chan, snap>>
        /\ ws' = "open" => ws = "open"
        /\ linked' => linked /\ relay' = relay
    BY <1>3 DEF RelayDies, LinkBreaks, TimerFires, ConnectThrows, Dispose, Commit, Tick, vars
  <2> QED
    BY <2>1, WireKept
<1>4. ASSUME NEW p \in 0 .. MaxEvents, RelayRestarts(p) PROVE WireTypes' /\ WireInv'
  <2>1. /\ ~linked /\ linked' = linked /\ ring' = <<>> /\ pos' = p /\ p <= pos
        /\ UNCHANGED <<emitted, chan, snap, ws>>
    BY <1>4 DEF RelayRestarts, WireTypes
  <2>2. p \in Nat /\ p <= emitted
    BY <2>1, DashboardAssumption DEF WireTypes
  <2>3. ring' \in Seq(Position) /\ Len(ring') = 0 /\ 0 <= RingCap
    BY <2>1, DashboardAssumption
  <2>4. WireTypes'
    BY <2>1, <2>2, <2>3 DEF WireTypes
  <2>5. ASSUME ws = "open" PROVE \E g : Delivers(g)'
    <3>1. PICK g : Delivers(g)
      BY <2>5 DEF WireInv
    <3>2. Delivers(g)'
      BY <2>1, <3>1 DEF Delivers, Carries, Pending, Run
    <3> QED
      BY <3>2
  <2>6. Run(ring, pos)' /\ (snap' # NoSnapshot => \E b \in Int : Run(snap', b))
    BY <2>1, <2>3 DEF WireInv, Run
  <2> QED
    BY <2>1, <2>4, <2>5, <2>6 DEF WireInv
<1>5. CASE SocketOpens
  BY <1>5, WireOpens
<1>6. CASE SocketCloses \/ ConnectFails
  <2>1. /\ UNCHANGED <<emitted, ring, pos, relay, snap>> /\ ws' = "none" /\ linked' = FALSE
        /\ chan' = <<>>
    BY <1>6 DEF SocketCloses, ConnectFails, OnClose
  <2>2. WireTypes'
    BY <2>1 DEF WireTypes
  <2>3. Run(ring, pos)' /\ (snap' # NoSnapshot => \E b \in Int : Run(snap', b))
    BY <2>1 DEF WireInv, Run
  <2> QED
    BY <2>1, <2>2, <2>3 DEF WireInv
<1>7. CASE Receive
  BY <1>7, WireReceives
<1>8. CASE Second
  BY <1>8, WireSecond
<1> QED
  BY <1>1, <1>2, <1>3, <1>4, <1>5, <1>6, <1>7, <1>8 DEF Next

LEMMA WireInvariant == Spec => [](WireTypes /\ WireInv)
<1>1. Init => WireTypes /\ WireInv
  <2> SUFFICES ASSUME Init PROVE WireTypes /\ WireInv
    OBVIOUS
  <2>1. /\ emitted = 0 /\ pos = 0 /\ ring = <<>> /\ chan = <<>> /\ snap = NoSnapshot
        /\ linked = FALSE /\ ws # "open"
    BY DEF Init
  <2>2. WireTypes
    BY <2>1, DashboardAssumption DEF WireTypes
  <2>3. Run(ring, pos)
    BY <2>1 DEF Run
  <2> QED
    BY <2>1, <2>2, <2>3 DEF WireInv
<1> QED
  BY <1>1, WireStep, ClientInvariant, PTL DEF Spec

\* What hooks/useWebSocket.ts holds is consecutive events whatever is lost, replayed or
\* evicted, and covers the relay's ring as soon as all frames have arrived.
THEOREM ClientCovers == Spec => []ClientCoversRelay
<1>1. WireTypes /\ WireInv => ClientCoversRelay
  <2> SUFFICES ASSUME WireTypes, WireInv PROVE ClientCoversRelay
    OBVIOUS
  <2>1. ASSUME snap # NoSnapshot, NEW i \in 1 .. Len(snap) - 1 PROVE snap[i + 1] = snap[i] + 1
    <3>1. PICK b \in Int : Run(snap, b)
      BY <2>1 DEF WireInv
    <3>2. Len(snap) \in Nat
      BY <2>1 DEF WireTypes
    <3>3. i \in 1 .. Len(snap) /\ i + 1 \in 1 .. Len(snap)
      BY <3>2
    <3>4. snap[i] = b - Len(snap) + i /\ snap[i + 1] = b - Len(snap) + (i + 1)
      BY <3>1, <3>3 DEF Run
    <3> QED
      BY <3>2, <3>4
  <2>2. ASSUME CaughtUp
        PROVE  /\ snap # NoSnapshot
               /\ \E k \in 0 .. Len(snap) : ring = SubSeq(snap, k + 1, Len(snap))
    <3>1. ws = "open" /\ linked /\ chan = <<>> /\ Len(chan) = 0
      BY <2>2 DEF CaughtUp
    <3>2. PICK g : Delivers(g)
      BY <3>1 DEF WireInv
    <3>3. /\ ~Pending(chan) /\ snap # NoSnapshot /\ Run(snap, g[0]) /\ g[0] = pos
          /\ g[0] - Len(snap) <= pos - Len(ring)
      BY <3>1, <3>2 DEF Delivers, Pending, Before
    <3>4. /\ snap \in Seq(Position) /\ ring \in Seq(Position) /\ pos \in Int
          /\ Len(snap) \in Nat /\ Len(ring) \in Nat
      BY <3>3 DEF WireTypes
    <3>5. Len(ring) <= Len(snap)
      BY <3>3, <3>4
    <3> QED
      BY <3>3, <3>4, <3>5, PositionsAreInts, RunSuffix DEF WireInv
  <2> QED
    BY <2>1, <2>2 DEF ClientCoversRelay
<1> QED
  BY <1>1, WireInvariant, PTL
=============================================================================
