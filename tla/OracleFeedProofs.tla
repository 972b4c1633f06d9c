------------------------- MODULE OracleFeedProofs ---------------------------
(***************************************************************************)
(* The oracle feed, for every configuration and every schedule of timers,  *)
(* answers, faults and restarts: no two awaited transactions pay with one  *)
(* gas coin, and the push loop and the manager share the lanes as LaneGate *)
(* says; the service's state keeps its types; what it marks as pushed is   *)
(* on chain; a push settles nothing; and an expiry gets one oracle, but    *)
(* for one more per fault.                                                 *)
(***************************************************************************)
EXTENDS OracleFeed, FiniteSetTheorems, WellFoundedInduction, TLAPS

-----------------------------------------------------------------------------
(* The inductive invariant.                                                  *)

TxFields == {"lane", "kind", "ids", "svis", "caps", "expiry", "tier", "sentAt", "valid",
             "state", "awaited", "mark"}

IsTx(x) ==
    /\ x = [f \in TxFields |-> x[f]]
    /\ x.lane \in Lanes /\ x.kind \in Kinds
    /\ x.awaited \in BOOLEAN

IsWindow(w) == w = [phase |-> w.phase, at |-> w.at, todo |-> w.todo, ids |-> w.ids]

Stepping == mgr.phase \in {"create", "bootstrap", "settle", "compact"}
Exclusive == mgr.phase \notin {"idle", "drain"}

\* Once the manager has the lanes no push is awaited; it signs only in the phases
\* that submit steps, and only on lane 0; a service that is down has no window.
Inv ==
    /\ \A x \in txs : IsTx(x)
    /\ IsWindow(mgr)
    /\ OneTxPerLane
    /\ Exclusive => \A x \in txs : x.awaited => x.kind # "push"
    /\ ~Stepping => \A x \in txs : x.awaited => x.kind = "push"
    /\ mode = "down" => mgr.phase = "idle"
    /\ laneHint \in Nat

Pushing == {x.lane : x \in Awaited({"push"})}

\* The step is one of LaneGate's, or none.
Gated == [Gate!Next]_(Gate!gate)

-----------------------------------------------------------------------------
\* A set of naturals has a least member.
LEMMA LeastNatural ==
    ASSUME NEW D \in SUBSET Nat, D # {}
    PROVE  \E d \in D : \A e \in D : d <= e
  <1> DEFINE R == OpToRel(<, Nat)
  <1>1. \A a, b \in Nat : a < b => <<a, b>> \in R
    BY DEF OpToRel
  <1>2. IsWellFoundedOn(R, Nat)
    BY NatLessThanWellFounded
  <1> HIDE DEF R
  <1>3. PICK d \in D : \A e \in D : ~ (<<e, d>> \in R)
    BY <1>2, WFMin
  <1>4. \A e \in D : ~ (e < d)
    BY <1>1, <1>3, Zenon
  <1>5. \A e \in D : d <= e
    BY <1>4
  <1> QED
    BY <1>5

\* nextAvailableLane returns an idle lane when there is one.
LEMMA NextLaneIdle ==
    ASSUME IdleLanes # {}, laneHint \in Nat
    PROVE  NextLane \in IdleLanes
  <1> DEFINE D == {Distance(l) : l \in IdleLanes}
  <1>1. LaneCount \in Nat \ {0} /\ IdleLanes \subseteq Int
    BY FeedAssumption DEF IdleLanes, Lanes
  <1>2. \A l \in Int : Distance(l) \in Nat
    BY <1>1 DEF Distance
  <1>3. D \in SUBSET Nat /\ D # {}
    BY <1>1, <1>2
  <1>4. PICK d \in D : \A e \in D : d <= e
    <2> HIDE DEF D
    <2> QED
      BY <1>3, LeastNatural
  <1>5. PICK l \in IdleLanes : d = Distance(l)
    OBVIOUS
  <1>6. \E m \in IdleLanes : \A k \in IdleLanes : Distance(m) <= Distance(k)
    BY <1>4, <1>5
  <1> QED
    BY <1>6 DEF NextLane

-----------------------------------------------------------------------------
(* What a step may do to the transactions and the window.                    *)

LEMMA PushingIn == ASSUME Inv PROVE Pushing \subseteq Lanes
  BY DEF Inv, Pushing, Awaited, IsTx

\* The window moves on and no transaction does: the manager may take the lanes only
\* when none is busy, and give them up only when it awaits nothing.
LEMMA WindowMoves ==
    ASSUME Inv, txs' = txs, IsWindow(mgr'), laneHint' \in Nat,
           mode' = "down" => mgr'.phase = "idle",
           Exclusive' => Exclusive \/ IdleLanes = Lanes,
           ~Stepping' => ~Stepping \/ NoStepInFlight
    PROVE  Inv' /\ Gated
  <1>1. IdleLanes = Lanes => \A x \in txs : ~x.awaited
    BY DEF IdleLanes, Available, Inv, IsTx
  <1>2. NoStepInFlight => \A x \in txs : x.awaited => x.kind \notin Kinds \ {"push"}
    BY DEF NoStepInFlight, Awaited
  <1>3. Inv'
    BY <1>1, <1>2 DEF Inv, OneTxPerLane, IsTx, Exclusive, Stepping
  <1>4. Pushing' = Pushing
    BY DEF Pushing, Awaited
  <1>5. Exclusive' /\ ~Exclusive => Pushing = {}
    BY <1>1 DEF Pushing, Awaited
  <1>6. Gated
    BY <1>4, <1>5 DEF Gated, Gate!Next, Gate!gate, Gate!Enter, Gate!Leave, Pushing, Exclusive
  <1> QED
    BY <1>3, <1>6

\* The manager and the other parts of the service that the lanes depend on stay put.
Still == mgr' = mgr /\ mode' = mode /\ laneHint' = laneHint

\* Transaction x is answered, or no longer awaited, and nothing else is.
LEMMA Answers ==
    ASSUME Inv, Still, NEW x \in txs,
           \A y \in txs' : IsTx(y) /\ (y.awaited => y \in txs \ {x}),
           \A y \in txs : y.awaited => y = x \/ y \in txs'
    PROVE  Inv' /\ Gated
  <1>1. Inv'
    BY DEF Inv, OneTxPerLane, Exclusive, Stepping, Still
  <1>2. CASE x.awaited /\ x.kind = "push"
    <2>1. x.lane \in Pushing /\ x.lane \in Lanes
      BY <1>2 DEF Pushing, Awaited, Inv, IsTx
    <2>2. \A y \in txs : y.awaited /\ y.lane = x.lane => y = x
      BY <1>2 DEF Inv, OneTxPerLane
    <2>3. Pushing' = Pushing \ {x.lane}
      <3>1. ASSUME NEW l, l \in Pushing' PROVE l \in Pushing \ {x.lane}
        BY <2>2, <3>1 DEF Pushing, Awaited
      <3>2. ASSUME NEW l, l \in Pushing \ {x.lane} PROVE l \in Pushing'
        BY <3>2 DEF Pushing, Awaited
      <3> QED
        BY <3>1, <3>2
    <2> QED
      BY <1>1, <2>1, <2>3 DEF Gated, Gate!Next, Gate!Finish, Pushing, Still
  <1>3. CASE ~(x.awaited /\ x.kind = "push")
    <2>1. Pushing' = Pushing
      BY <1>3 DEF Pushing, Awaited
    <2> QED
      BY <1>1, <2>1 DEF Gated, Gate!gate, Pushing, Still
  <1> QED
    BY <1>2, <1>3

\* Transactions change in what the lanes do not depend on.
LEMMA Retags ==
    ASSUME Inv, Still,
           \A y \in txs' : IsTx(y) /\ (y.awaited => \E z \in txs : z.awaited /\ z.lane = y.lane
                                                                /\ z.kind = y.kind),
           \A z \in txs : z.awaited => \E y \in txs' : y.awaited /\ y.lane = z.lane
                                                                /\ y.kind = z.kind,
           OneTxPerLane'
    PROVE  Inv' /\ Gated
  <1>1. Inv'
    BY DEF Inv, Exclusive, Stepping, Still
  <1>2. Pushing' = Pushing
    <2>1. ASSUME NEW l, l \in Pushing' PROVE l \in Pushing
      BY <2>1 DEF Pushing, Awaited
    <2>2. ASSUME NEW l, l \in Pushing PROVE l \in Pushing'
      BY <2>2 DEF Pushing, Awaited
    <2> QED
      BY <2>1, <2>2
  <1> QED
    BY <1>1, <1>2 DEF Gated, Gate!gate, Pushing, Still

\* The manager submits a step: it has the lanes and awaits nothing.
LEMMA Submits ==
    ASSUME Inv, Stepping, NoStepInFlight, NEW x, IsTx(x), x.lane = 0, x.kind # "push",
           SubmitStep(x), IsWindow(mgr'), mgr'.phase = mgr.phase
    PROVE  Inv' /\ Gated
  <1>1. txs' = txs \cup {x} /\ mode' = mode /\ laneHint' = laneHint
    BY DEF SubmitStep, lanes
  <1>2. \A y \in txs : ~y.awaited
    BY DEF Inv, NoStepInFlight, Awaited, IsTx, Exclusive, Stepping
  <1>3. Inv'
    BY <1>1, <1>2 DEF Inv, OneTxPerLane, Exclusive, Stepping
  <1>4. Pushing' = Pushing
    BY <1>1 DEF Pushing, Awaited
  <1> QED
    BY <1>3, <1>4 DEF Gated, Gate!gate, Pushing

-----------------------------------------------------------------------------
(* One lemma per kind of step.                                               *)

LEMMA NewTx ==
    ASSUME NEW l \in Lanes, NEW k \in Kinds
    PROVE  IsTx(NewLaneTx(l, k)) /\ NewLaneTx(l, k).lane = l /\ NewLaneTx(l, k).kind = k
           /\ NewLaneTx(l, k).awaited
  BY DEF IsTx, NewLaneTx, TxFields

LEMMA ZeroIsALane == 0 \in Lanes
  BY FeedAssumption DEF Lanes

\* A push goes out on a lane that was idle, and only while no window is open.
LEMMA PushGated == ASSUME Inv, PushTick PROVE Inv' /\ Gated
  <1>1. mgr.phase = "idle" /\ NextLane \in IdleLanes /\ mgr' = mgr /\ mode' = mode
    BY NextLaneIdle DEF PushTick, TickRuns, ManagerInFlight, Inv
  <1>2. laneHint' \in Nat
    BY <1>1, FeedAssumption DEF PushTick, AdvanceHint, IdleLanes, Lanes
  <1>3. NextLane \in Lanes /\ \A y \in txs : y.awaited => y.lane # NextLane
    BY <1>1 DEF IdleLanes, Available
  <1>4. IsTx(PushTx) /\ PushTx.lane = NextLane /\ PushTx.kind = "push" /\ PushTx.awaited
    <2> DEFINE x == NewLaneTx(NextLane, "push")
    <2>1. IsTx(x) /\ x.lane = NextLane /\ x.kind = "push" /\ x.awaited
      BY <1>3, NewTx DEF Kinds
    <2> HIDE DEF x
    <2> DEFINE c == [i \in OracleIds |->
                       IF i \in Batch /\ SviDue(i) THEN svi[i].at ELSE None]
    <2>2. PushTx = [x EXCEPT !.ids = Batch, !.sentAt = now, !.svis = c]
      BY DEF PushTx, x
    <2> HIDE DEF c
    <2> QED
      BY <2>1, <2>2 DEF IsTx, TxFields
  <1>5. txs' = txs \cup {PushTx}
    BY DEF PushTick
  <1>6. Inv'
    BY <1>1, <1>2, <1>3, <1>4, <1>5 DEF Inv, OneTxPerLane, Exclusive, Stepping
  <1>7. NextLane \notin Pushing /\ Pushing' = Pushing \cup {NextLane}
    BY <1>3, <1>4, <1>5 DEF Pushing, Awaited
  <1>8. Gated
    BY <1>1, <1>3, <1>7 DEF Gated, Gate!Next, Gate!Start, Pushing
  <1> QED
    BY <1>6, <1>8

LEMMA SkippedGated == ASSUME Inv, PushTickSkipped PROVE Inv' /\ Gated
  <1>1. NextLane \in IdleLanes /\ mgr' = mgr /\ mode' = mode /\ txs' = txs
    BY NextLaneIdle DEF PushTickSkipped, TickRuns, Inv
  <1>2. laneHint' \in Nat
    BY <1>1, FeedAssumption DEF PushTickSkipped, AdvanceHint, IdleLanes, Lanes
  <1> QED
    BY <1>1, <1>2, WindowMoves DEF Inv, Exclusive, Stepping

\* A window opens: it has the lanes at once if they are idle, or waits for them.
LEMMA OpenGated ==
    ASSUME Inv, mgr.phase = "idle", OpenWindow, txs' = txs, mode' # "down", laneHint' \in Nat
    PROVE  Inv' /\ Gated
  <1>1. IsWindow(mgr') /\ mgr'.phase = IF IdleLanes = Lanes THEN "refresh" ELSE "drain"
    BY DEF OpenWindow, NoWindow, IsWindow
  <1> QED
    BY <1>1, WindowMoves DEF Exclusive, Stepping

\* A window ends, normally or not, with nothing of its own in flight.
LEMMA CloseGated ==
    ASSUME Inv, CloseWindow, txs' = txs, laneHint' = laneHint, Stepping => NoStepInFlight
    PROVE  Inv' /\ Gated
  <1>1. IsWindow(mgr') /\ mgr'.phase = "idle"
    BY DEF CloseWindow, NoWindow, IsWindow
  <1> QED
    BY <1>1, WindowMoves DEF Exclusive, Stepping, Inv

\* The manager's walk from phase to phase.
LEMMA PhaseGated ==
    ASSUME Inv, txs' = txs, mode' = mode, laneHint' = laneHint,
           LanesDrained \/ GasRefreshNoop \/ ManagerDiscovers \/ CreateLoopDone
             \/ LoopDone("bootstrap", "settle") \/ LoopDone("settle", "compact")
    PROVE  Inv' /\ Gated
  <1> USE DEF Inv
  <1>1. IsWindow(mgr') /\ mgr'.phase # "idle" /\ Exclusive' /\ mode # "down"
    BY DEF LanesDrained, GasRefreshNoop, ManagerDiscovers, CreateLoopDone, LoopDone, Phase,
       Refreshed, IsWindow, Exclusive
  <1>2. Exclusive \/ IdleLanes = Lanes
    BY DEF LanesDrained, GasRefreshNoop, ManagerDiscovers, CreateLoopDone, LoopDone, Exclusive
  <1>3. ~Stepping' => ~Stepping
    BY DEF LanesDrained, GasRefreshNoop, ManagerDiscovers, CreateLoopDone, LoopDone, Stepping,
       Phase, IsWindow
  <1> QED
    BY <1>1, <1>2, <1>3, WindowMoves

\* The lifecycle steps.
LEMMA CreateGated == ASSUME Inv, CreateOracleStep PROVE Inv' /\ Gated
  <1>1. PICK k \in DOMAIN mgr.todo :
          /\ mgr' = [mgr EXCEPT !.todo = SubSeq(@, k + 1, Len(@))]
          /\ SubmitStep([NewLaneTx(0, "create") EXCEPT !.tier = mgr.todo[k][1],
                                                       !.expiry = mgr.todo[k][2]])
    BY DEF CreateOracleStep
  <1> DEFINE new == NewLaneTx(0, "create")
             x == [new EXCEPT !.tier = mgr.todo[k][1], !.expiry = mgr.todo[k][2]]
  <1>2. IsTx(new) /\ new.lane = 0 /\ new.kind = "create"
    BY NewTx, ZeroIsALane DEF Kinds
  <1> HIDE DEF new
  <1>3. IsTx(x) /\ x.lane = 0 /\ x.kind # "push"
    BY <1>2 DEF IsTx, TxFields
  <1>4. SubmitStep(x)
    BY <1>1 DEF new
  <1>5. IsWindow(mgr') /\ mgr'.phase = mgr.phase
    BY <1>1 DEF Inv, IsWindow
  <1> HIDE DEF x
  <1> QED
    BY <1>3, <1>4, <1>5, Submits DEF CreateOracleStep, Stepping

LEMMA VisitMoves ==
    ASSUME Inv, NEW p \in {"bootstrap", "settle", "compact"}, NEW i, Visit(p, i)
    PROVE  Stepping /\ NoStepInFlight /\ IsWindow(mgr') /\ mgr'.phase = mgr.phase
  BY DEF Visit, Stepping, Inv, IsWindow

LEMMA BootstrapGated ==
    ASSUME Inv, NEW i \in OracleIds, BootstrapOracleStep(i) PROVE Inv' /\ Gated
  <1> DEFINE new == NewLaneTx(0, "bootstrap")
             s == [new.svis EXCEPT ![i] = svi[i].at]
             x == [new EXCEPT !.ids = {i}, !.caps = Lanes \ oracles[i].caps, !.svis = s]
  <1>1. IsTx(new) /\ new.lane = 0 /\ new.kind = "bootstrap"
    BY NewTx, ZeroIsALane DEF Kinds
  <1>2. SubmitStep(x)
    BY DEF BootstrapOracleStep
  <1> HIDE DEF new, s
  <1>3. IsTx(x) /\ x.lane = 0 /\ x.kind # "push"
    BY <1>1 DEF IsTx, TxFields
  <1> HIDE DEF x
  <1> QED
    BY <1>2, <1>3, Submits, VisitMoves DEF BootstrapOracleStep

LEMMA SettleGated ==
    ASSUME Inv, NEW i \in OracleIds, SettleOracleStep(i) \/ CompactOracleStep(i)
    PROVE  Inv' /\ Gated
  <1>1. ASSUME NEW k \in {"settle", "compact"},
               SubmitStep([NewLaneTx(0, k) EXCEPT !.ids = {i}, !.caps = {0} \ oracles[i].caps]),
               Visit(k, i)
        PROVE  Inv' /\ Gated
    <2> DEFINE new == NewLaneTx(0, k)
               x == [new EXCEPT !.ids = {i}, !.caps = {0} \ oracles[i].caps]
    <2>1. IsTx(new) /\ new.lane = 0 /\ new.kind = k
      BY NewTx, ZeroIsALane DEF Kinds
    <2>2. SubmitStep(x)
      BY <1>1
    <2> HIDE DEF new
    <2>3. IsTx(x) /\ x.lane = 0 /\ x.kind # "push"
      BY <2>1 DEF IsTx, TxFields
    <2> HIDE DEF x
    <2> QED
      BY <1>1, <2>2, <2>3, Submits, VisitMoves
  <1> QED
    BY <1>1 DEF SettleOracleStep, CompactOracleStep

\* The refresh of the gas coins, whether it succeeds or throws, voids transactions
\* while the manager has the lanes and before it has submitted anything.
LEMMA NoneAwaited == ASSUME Inv, mgr.phase \in {"refresh", "discover"}
                     PROVE  (\A x \in txs : ~x.awaited) /\ Pushing = {}
  BY DEF Inv, Exclusive, Stepping, Pushing, Awaited, IsTx

LEMMA RefreshGated == ASSUME Inv, GasRefreshed PROVE Inv' /\ Gated
  <1>1. /\ mgr.phase = "refresh" /\ txs' = {} /\ mode' = mode /\ laneHint' = laneHint
        /\ mgr' = [mgr EXCEPT !.phase = "discover", !.at = now]
    BY DEF GasRefreshed, Refreshed
  <1>2. IsWindow(mgr') /\ mgr'.phase = "discover" /\ mode' # "down"
    BY <1>1 DEF Inv, IsWindow
  <1>3. Inv'
    BY <1>1, <1>2 DEF Inv, OneTxPerLane
  <1>4. Pushing = {} /\ Pushing' = {}
    BY <1>1, NoneAwaited DEF Pushing, Awaited
  <1> QED
    BY <1>1, <1>2, <1>3, <1>4 DEF Gated, Gate!gate, Pushing

LEMMA RefreshThrowsGated == ASSUME Inv, GasRefreshThrows PROVE Inv' /\ Gated
  <1>1. mgr.phase = "refresh" /\ CloseWindow /\ laneHint' = laneHint
    BY DEF GasRefreshThrows, WindowThrows
  <1>2. CASE txs' = txs
    BY <1>1, <1>2, CloseGated DEF Stepping
  <1>3. CASE txs' = {}
    <2>1. IsWindow(mgr') /\ mgr'.phase = "idle"
      BY <1>1 DEF CloseWindow, NoWindow, IsWindow
    <2>2. Inv'
      BY <1>1, <1>3, <2>1 DEF Inv, OneTxPerLane, Exclusive, Stepping
    <2>3. Pushing' = {}
      BY <1>3 DEF Pushing, Awaited
    <2> QED
      BY <2>1, <2>2, <2>3 DEF Gated, Gate!Next, Gate!Reset, Pushing
  <1> QED
    BY <1>2, <1>3 DEF GasRefreshThrows

\* Windows that end.
LEMMA EndGated ==
    ASSUME Inv, DrainTimedOut \/ DiscoveryThrows \/ WindowDone PROVE Inv' /\ Gated
  <1>1. CloseWindow /\ txs' = txs /\ laneHint' = laneHint
    BY DEF DrainTimedOut, DiscoveryThrows, WindowDone, WindowThrows, lanes
  <1>2. Stepping => NoStepInFlight
    BY DEF DrainTimedOut, DiscoveryThrows, WindowDone, Stepping
  <1> QED
    BY <1>1, <1>2, CloseGated

\* Answers free the lane; a lost answer frees it too, and a transaction nobody
\* awaits any more leaves the lanes alone.
LEMMA AnsweredGated ==
    ASSUME Inv, NEW x \in txs, Answered(x) \/ Drop(x) PROVE Inv' /\ Gated
  <1>1. txs' = txs \ {x} /\ mgr' = mgr /\ mode' = mode /\ laneHint' = laneHint
    BY DEF Answered, Drop, PushAnswered, CreateAnswered, BootstrapAnswered, SettleAnswered,
       CompactAnswered, StepAnswered, AbortAnswered, StaleGasAnswered, service, lanes
  <1> QED
    BY <1>1, Answers DEF Inv, Still

LEMMA LostGated == ASSUME Inv, NEW x \in txs, AnswerLost(x) PROVE Inv' /\ Gated
  <1> DEFINE y == [x EXCEPT !.awaited = FALSE]
  <1>1. mgr' = mgr /\ mode' = mode /\ laneHint' = laneHint
    BY DEF AnswerLost, service, lanes
  <1>2. txs' = txs \ {x} \/ txs' = (txs \ {x}) \cup {y}
    BY DEF AnswerLost
  <1>3. IsTx(x)
    BY DEF Inv
  <1>4. IsTx(y) /\ ~y.awaited
    BY <1>3 DEF IsTx, TxFields
  <1> HIDE DEF y
  <1> QED
    BY <1>1, <1>2, <1>4, Answers DEF Inv, Still

\* Execution on chain answers nobody: it leaves every awaited transaction awaited.
LEMMA ExecuteGated == ASSUME Inv, NEW x \in txs, Execute(x) PROVE Inv' /\ Gated
  <1> DEFINE done == [x EXCEPT !.state = IF Executes(x) THEN "ok" ELSE "aborted",
                               !.ids = IF x.kind = "create" THEN {Len(chain) + 1} ELSE @,
                               !.sentAt = 0, !.valid = FALSE]
             others == {y \in txs \ {x} : y.lane # x.lane}
             void(y) == [y EXCEPT !.valid = FALSE]
             rivals == {z \in txs \ {x} : z.lane = x.lane /\ z.awaited}
  <1>1. /\ txs' = others \cup {void(y) : y \in rivals} \cup (IF x.awaited THEN {done} ELSE {})
        /\ mgr' = mgr /\ mode' = mode /\ laneHint' = laneHint
    BY DEF Execute
  <1>2. \A y \in txs : IsTx(y)
    BY DEF Inv
  <1>3. ASSUME NEW y, IsTx(y)
        PROVE  IsTx(void(y)) /\ void(y).lane = y.lane /\ void(y).kind = y.kind
               /\ void(y).awaited = y.awaited
    BY <1>3 DEF IsTx, TxFields
  <1>4. IsTx(done) /\ done.lane = x.lane /\ done.kind = x.kind /\ done.awaited = x.awaited
    <2>1. IsTx(x)
      BY <1>2
    <2> DEFINE st == IF Executes(x) THEN "ok" ELSE "aborted"
               id == IF x.kind = "create" THEN {Len(chain) + 1} ELSE x.ids
    <2>2. done = [x EXCEPT !.state = st, !.ids = id, !.sentAt = 0, !.valid = FALSE]
      OBVIOUS
    <2> HIDE DEF done, st, id
    <2> QED
      BY <2>1, <2>2 DEF IsTx, TxFields
  <1> HIDE DEF done, void
  <1>5. x.awaited => rivals = {}
    BY DEF Inv, OneTxPerLane
  <1>6. CASE x.awaited
    <2>1. txs' = others \cup {done}
      BY <1>1, <1>5, <1>6
    <2>2. OneTxPerLane'
      BY <2>1, <1>4 DEF Inv, OneTxPerLane
    <2>3. ASSUME NEW y \in txs'
          PROVE  IsTx(y) /\ (y.awaited => \E z \in txs : z.awaited /\ z.lane = y.lane
                                                       /\ z.kind = y.kind)
      BY <1>2, <1>4, <1>6, <2>1
    <2>4. ASSUME NEW z \in txs, z.awaited
          PROVE  \E y \in txs' : y.awaited /\ y.lane = z.lane /\ y.kind = z.kind
      <3>1. z = x \/ z \in others
        BY <1>5, <1>6, <2>4
      <3> QED
        BY <1>4, <1>6, <2>1, <2>4, <3>1
    <2> QED
      BY <1>1, <2>2, <2>3, <2>4, Retags DEF Still
  <1>7. CASE ~x.awaited
    <2>1. txs' = others \cup {void(y) : y \in rivals}
      BY <1>1, <1>7
    <2>2. \A y \in rivals : IsTx(void(y)) /\ void(y).lane = y.lane /\ void(y).kind = y.kind
                            /\ void(y).awaited
      BY <1>2, <1>3
    <2>3. OneTxPerLane'
      BY <2>1, <2>2 DEF Inv, OneTxPerLane
    <2>4. ASSUME NEW y \in txs'
          PROVE  IsTx(y) /\ (y.awaited => \E z \in txs : z.awaited /\ z.lane = y.lane
                                                       /\ z.kind = y.kind)
      BY <1>2, <2>1, <2>2
    <2>5. ASSUME NEW z \in txs, z.awaited
          PROVE  \E y \in txs' : y.awaited /\ y.lane = z.lane /\ y.kind = z.kind
      <3>1. z \in rivals \/ z \in others
        BY <1>7, <2>5
      <3> QED
        BY <2>1, <2>2, <2>5, <3>1
    <2> QED
      BY <1>1, <2>3, <2>4, <2>5, Retags DEF Still
  <1> QED
    BY <1>6, <1>7

\* A new SVI sample only touches the marks of bootstraps in flight.
LEMMA SviGated == ASSUME Inv, SviArrive PROVE Inv' /\ Gated
  <1> DEFINE T(x) == IF x.kind = "bootstrap" /\ x.ids \subseteq Quoted
                     THEN [x EXCEPT !.mark = FALSE] ELSE x
  <1>1. txs' = {T(x) : x \in txs} /\ mgr' = mgr /\ mode' = mode /\ laneHint' = laneHint
    BY DEF SviArrive, lanes
  <1>2. ASSUME NEW x \in txs
        PROVE  IsTx(T(x)) /\ T(x).lane = x.lane /\ T(x).kind = x.kind
               /\ T(x).awaited = x.awaited
    <2>1. IsTx(x)
      BY DEF Inv
    <2> DEFINE y == [x EXCEPT !.mark = FALSE]
    <2>2. IsTx(y) /\ y.lane = x.lane /\ y.kind = x.kind /\ y.awaited = x.awaited
      BY <2>1 DEF IsTx, TxFields
    <2> QED
      BY <2>1, <2>2
  <1> HIDE DEF T
  <1>3. OneTxPerLane'
    BY <1>1, <1>2 DEF Inv, OneTxPerLane
  <1> QED
    BY <1>1, <1>2, <1>3, Retags DEF Still

\* The process dies: it awaits nothing, whatever may still execute.
LEMMA DiesGated == ASSUME Inv, ProcessDies PROVE Inv' /\ Gated
  <1> DEFINE T(x) == [x EXCEPT !.awaited = FALSE]
  <1>1. /\ txs' = {T(x) : x \in {y \in txs : y.state = "sent" /\ y.valid}}
        /\ CloseWindow /\ laneHint' = 0
    BY DEF ProcessDies, Booted
  <1>2. ASSUME NEW x \in txs PROVE IsTx(T(x)) /\ T(x).awaited = FALSE
    BY DEF Inv, IsTx, TxFields
  <1> HIDE DEF T
  <1>3. \A y \in txs' : IsTx(y) /\ ~y.awaited
    BY <1>1, <1>2
  <1>4. IsWindow(mgr') /\ mgr'.phase = "idle"
    BY <1>1 DEF CloseWindow, NoWindow, IsWindow
  <1>5. Inv'
    BY <1>1, <1>3, <1>4 DEF Inv, OneTxPerLane, Exclusive, Stepping
  <1>6. Pushing' = {}
    BY <1>3 DEF Pushing, Awaited
  <1> QED
    BY <1>4, <1>5, <1>6 DEF Gated, Gate!Next, Gate!Reset, Pushing

-----------------------------------------------------------------------------
LEMMA InitGated == Init => Inv /\ Gate!Init
  <1> SUFFICES ASSUME Init PROVE Inv /\ Gate!Init
    OBVIOUS
  <1>1. txs = {} /\ mgr = NoWindow /\ laneHint = 0
    BY DEF Init
  <1>2. IsWindow(mgr) /\ mgr.phase = "idle"
    BY <1>1 DEF NoWindow, IsWindow
  <1>3. Inv
    BY <1>1, <1>2 DEF Inv, OneTxPerLane, Exclusive
  <1>4. Pushing = {}
    BY <1>1 DEF Pushing, Awaited
  <1> QED
    BY <1>2, <1>3, <1>4 DEF Gate!Init, Pushing

\* The manager's own steps.
LEMMA ManagerGated == ASSUME Inv, ManagerStep PROVE Inv' /\ Gated
  <1>1. ASSUME LanesDrained \/ GasRefreshNoop \/ ManagerDiscovers \/ CreateLoopDone
                 \/ LoopDone("bootstrap", "settle") \/ LoopDone("settle", "compact")
        PROVE  Inv' /\ Gated
    <2>1. txs' = txs /\ mode' = mode /\ laneHint' = laneHint
      BY <1>1 DEF LanesDrained, GasRefreshNoop, ManagerDiscovers, CreateLoopDone, LoopDone,
         OnlyWindow, lanes
    <2> QED
      BY <1>1, <2>1, PhaseGated
  <1>2. ASSUME NEW i \in OracleIds,
               BootstrapOracleStep(i) \/ SettleOracleStep(i) \/ CompactOracleStep(i)
        PROVE  Inv' /\ Gated
    BY <1>2, BootstrapGated, SettleGated
  <1> QED
    BY <1>1, <1>2, RefreshGated, CreateGated, EndGated DEF ManagerStep

\* Every step of the service, the chain, the feed and the clock.
LEMMA NextGated == Inv /\ [Next]_vars => Inv' /\ Gated
  <1> SUFFICES ASSUME Inv, [Next]_vars PROVE Inv' /\ Gated
    OBVIOUS
  <1>1. ASSUME PushTimerOpensWindow \/ ManagerTimer PROVE Inv' /\ Gated
    <2>1. mgr.phase = "idle" /\ OpenWindow /\ txs' = txs /\ mode' # "down" /\ laneHint' \in Nat
      BY <1>1 DEF PushTimerOpensWindow, ManagerTimer, ManagerInFlight, OnlyWindow, lanes, Inv
    <2> QED
      BY <2>1, OpenGated
  <1>2. ASSUME Boot PROVE Inv' /\ Gated
    <2>1. mgr.phase = "idle" /\ OpenWindow /\ txs' = txs /\ mode' # "down" /\ laneHint' \in Nat
      BY <1>2 DEF Boot, Booted, Inv
    <2> QED
      BY <2>1, OpenGated
  <1>3. ASSUME SpotArrives \/ ForwardsArrive \/ Tick \/ UNCHANGED vars PROVE Inv' /\ Gated
    <2>1. txs' = txs /\ mgr' = mgr /\ mode' = mode /\ laneHint' = laneHint
      BY <1>3 DEF SpotArrives, ForwardsArrive, Tick, vars, service, lanes
    <2> QED
      BY <2>1, WindowMoves DEF Inv, Exclusive, Stepping
  <1>4. ASSUME NEW l \in Lanes, LaneStep(l) PROVE Inv' /\ Gated
    BY <1>4, ExecuteGated, AnsweredGated DEF LaneStep
  <1>5. ASSUME Fault PROVE Inv' /\ Gated
    BY <1>5, EndGated, RefreshThrowsGated, DiesGated, LostGated, AnsweredGated DEF Fault
  <1> QED
    BY <1>1, <1>2, <1>3, <1>4, <1>5, PushGated, SkippedGated, ManagerGated, SviGated DEF Next

\* Never two awaited transactions on one lane of the oracle feed: executeLaneTx frees a
\* lane before anything else may sign with its coin, through lost answers, drains that
\* time out and restarts.
THEOREM OneTransactionPerLane == Spec => []OneTxPerLane
  <1>1. Inv => OneTxPerLane
    BY DEF Inv
  <1> QED
    BY <1>1, InitGated, NextGated, PTL DEF Spec

\* The oracle feed implements LaneGate: its push loop and its manager window share the
\* lanes as readers and a writer share a lock.
THEOREM LanesAreGated == Spec => LanesGated
  <1>1. Inv /\ [Next]_vars => [Gate!Next]_(Gate!gate)
    BY NextGated DEF Gated
  <1> QED
    BY <1>1, InitGated, NextGated, PTL DEF Spec, LanesGated, Gate!Spec

-----------------------------------------------------------------------------
(* The calendar.                                                             *)

\* A tier's next expiry lies ahead, on the tier's grid.
LEMMA NextIsAhead ==
    ASSUME NEW tier \in AllTiers, NEW t \in Nat
    PROVE  NextOf(tier, t) \in Nat /\ NextOf(tier, t) > t
  <1> USE DEF MsMin, MsHour, MsDay, MsQuarter
  <1>1. Next15m(t) \in Nat /\ Next15m(t) > t
    BY SMT DEF Next15m
  <1>2. Next1h(t) \in Nat /\ Next1h(t) > t
    BY SMT DEF Next1h
  <1>3. EightOClock(t) \in Nat /\ EightOClock(t) + MsDay > t
    BY SMT DEF EightOClock, Midnight
  <1>4. Next1d(t) \in Nat /\ Next1d(t) > t
    BY <1>3, SMT DEF Next1d
  <1>5. DaysUntilFriday(t) \in 1 .. 7
    BY SMT DEF DaysUntilFriday, DayOfWeek
  <1>6. Next1w(t) \in Nat /\ Next1w(t) > t
    BY <1>3, <1>5, SMT DEF Next1w
  <1> QED
    BY <1>1, <1>2, <1>4, <1>6, SMT DEF NextOf, AllTiers

\* inferTier slots the expiries of an enabled tier.
LEMMA NextIsInferred ==
    ASSUME NEW tier \in TierSet, tier \in AllTiers, NEW t \in Nat, NEW n \in Nat
    PROVE  LET e == NextOf(tier, t) + n * StepOf(tier)
           IN  e \in Nat /\ e > t /\ InferTier(e, TierSet) # NoTier
  <1> DEFINE e == NextOf(tier, t) + n * StepOf(tier)
  <1> USE DEF MsMin, MsHour, MsDay, MsQuarter, AllTiers, NoTier
  <1>1. NextOf(tier, t) \in Nat /\ NextOf(tier, t) > t
    BY NextIsAhead, SMT
  <1>6. e \in Nat /\ e > t
    <2>1. StepOf(tier) \in Nat
      BY SMT DEF StepOf
    <2>2. \A k \in Nat : n * k \in Nat
      BY SMT
    <2> QED
      BY <1>1, <2>1, <2>2, SMT
  <1> SUFFICES InferTier(e, TierSet) # NoTier
    BY <1>6, SMT
  <1>2. CASE tier = "15m"
    <2>1. e = ((t \div 900000) + 1 + n) * 900000
      BY <1>2, SMT DEF NextOf, StepOf, Next15m
    <2> QED
      BY <1>1, <1>2, <2>1, SMT DEF InferTier, OnMinute
  <1>3. CASE tier = "1h"
    <2>1. e = ((t \div 3600000) + 1 + n) * 3600000
      BY <1>3, SMT DEF NextOf, StepOf, Next1h
    <2> QED
      BY <1>1, <1>3, <2>1, SMT DEF InferTier, OnMinute
  <1>4. CASE tier = "1d"
    <2> DEFINE d == (t \div 86400000) + (IF EightOClock(t) > t THEN 0 ELSE 1)
    <2>1. d \in Nat /\ NextOf(tier, t) = d * 86400000 + 8 * 3600000
      BY <1>4, SMT DEF NextOf, Next1d, EightOClock, Midnight
    <2> HIDE DEF d
    <2>2. e = (d + n) * 86400000 + 8 * 3600000
      BY <1>4, <2>1, SMT DEF StepOf
    <2>3. e \in Nat /\ e % 86400000 = 8 * 3600000 /\ e % 60000 = 0
      BY <2>1, <2>2, SMT
    <2> HIDE DEF e
    <2>4. InferTier(e, TierSet) # NoTier
      BY <1>4, <2>3, SMT DEF InferTier, OnMinute, AtEight
    <2> QED
      BY <2>4, SMT
  <1>5. CASE tier = "1w"
    <2>1. PICK d \in Nat : /\ NextOf(tier, t) = d * 86400000 + 8 * 3600000
                           /\ (d + 4) % 7 = 5
      <3> DEFINE day == t \div 86400000
      <3>1. \/ DayOfWeek(t) = 5 /\ NextOf(tier, t) = day * 86400000 + 8 * 3600000
            \/ NextOf(tier, t) = (day + DaysUntilFriday(t)) * 86400000 + 8 * 3600000
        BY <1>5, SMT DEF NextOf, Next1w, EightOClock, Midnight, DaysUntilFriday, DayOfWeek
      <3>2. DaysUntilFriday(t) \in Nat /\ (day + DaysUntilFriday(t) + 4) % 7 = 5
        BY SMT DEF DaysUntilFriday, DayOfWeek
      <3> QED
        BY <3>1, <3>2, SMT DEF DayOfWeek
    <2>2. e = (d + 7 * n) * 86400000 + 8 * 3600000
      BY <1>5, <2>1, SMT DEF StepOf
    <2>3. e \in Nat /\ e \div 86400000 = d + 7 * n /\ e % 86400000 = 8 * 3600000
          /\ e % 60000 = 0
      BY <2>2, SMT
    <2>4. DayOfWeek(e) = 5
      BY <2>1, <2>3, SMT DEF DayOfWeek
    <2> HIDE DEF e
    <2>5. InferTier(e, TierSet) # NoTier
      BY <1>5, <2>3, <2>4, SMT DEF InferTier, OnMinute, AtEight
    <2> QED
      BY <2>5, SMT
  <1> QED
    BY <1>2, <1>3, <1>4, <1>5, SMT

\* The pairs that the create loop visits are of enabled tiers, lie ahead of the time
\* the window read, and will be slotted into a tier when they are discovered.
LEMMA WantedTypes ==
    ASSUME mgr.at \in Nat
    PROVE  /\ Wanted \in Seq(AllTiers \X Nat)
           /\ \A k \in DOMAIN Wanted : /\ Wanted[k][2] > mgr.at
                                       /\ InferTier(Wanted[k][2], TierSet) # NoTier
  <1> DEFINE E == ExpiriesPerTier
             L == Len(TiersEnabled)
             q(n) == (n - 1) \div E + 1
             r(n) == ((n - 1) % E) + 1
  <1>1. E \in Nat /\ L \in Nat /\ MinLookaheadMs \in Nat /\ L * E \in Nat
    BY FeedAssumption
  <1>2. ASSUME NEW k \in 1 .. L
        PROVE  TiersEnabled[k] \in TierSet /\ TiersEnabled[k] \in AllTiers
    BY FeedAssumption DEF TierSet
  <1>3. ASSUME NEW n \in 1 .. L * E PROVE q(n) \in 1 .. L /\ r(n) \in 1 .. E
    <2>1. E > 0
      <3>1. E = 0 => L * E = 0
        BY <1>1
      <3> QED
        BY <1>1, <3>1
    <2> DEFINE a == (n - 1) \div E
    <2>2. a \in Nat /\ a * E <= n - 1 /\ (n - 1) % E \in 0 .. E - 1
      BY <1>1, <2>1
    <2>3. a < L
      <3>1. SUFFICES ASSUME a >= L PROVE FALSE
        BY <1>1, <2>2
      <3> HIDE DEF a
      <3>2. a * E >= L * E
        BY <1>1, <2>2, <3>1
      <3> QED
        BY <1>1, <2>2, <3>2
    <2> QED
      BY <1>1, <2>1, <2>2, <2>3
  <1>4. ASSUME NEW n \in 1 .. L * E
        PROVE  /\ WantedOf(q(n))[r(n)] \in AllTiers \X Nat
               /\ WantedOf(q(n))[r(n)][2] > mgr.at
               /\ InferTier(WantedOf(q(n))[r(n)][2], TierSet) # NoTier
    <2> DEFINE k == q(n)
               m == r(n)
               tier == TiersEnabled[k]
               t == mgr.at + MinLookaheadMs
               e == NextOf(tier, t) + (m - 1) * StepOf(tier)
    <2>1. k \in 1 .. L /\ m \in 1 .. E
      BY <1>3
    <2> HIDE DEF k, m
    <2>2. WantedOf(k)[m] = <<tier, e>>
      BY <2>1 DEF WantedOf, ExpectedExpiriesForTier
    <2>3. tier \in TierSet /\ tier \in AllTiers /\ t \in Nat /\ m - 1 \in Nat /\ t >= mgr.at
      BY <1>1, <1>2, <2>1
    <2> HIDE DEF tier, t
    <2>4. e \in Nat /\ e > t /\ InferTier(e, TierSet) # NoTier
      BY <2>3, NextIsInferred
    <2> HIDE DEF e
    <2>5. <<tier, e>> \in AllTiers \X Nat /\ <<tier, e>>[2] > mgr.at
      BY <2>3, <2>4
    <2> QED
      BY <2>2, <2>4, <2>5 DEF k, m
  <1>5. Wanted = [n \in 1 .. L * E |-> WantedOf(q(n))[r(n)]]
    BY DEF Wanted
  <1> HIDE DEF q, r, L, E
  <1>6. Wanted \in [1 .. L * E -> AllTiers \X Nat] /\ DOMAIN Wanted = 1 .. L * E
    BY <1>4, <1>5
  <1>7. Wanted \in Seq(AllTiers \X Nat)
    BY <1>1, <1>6
  <1> QED
    BY <1>4, <1>5, <1>6, <1>7

-----------------------------------------------------------------------------
(* Types.  A creation carries the tier it was wanted for.                    *)

TxTypes == txs \subseteq Tx /\ \A x \in txs : x.kind = "create" => x.tier \in AllTiers
ChainTypes == chain \in Seq(OnChain) /\ Len(chain) <= MaxOracles
OracleTypes == DOMAIN oracles \subseteq OracleIds /\ oracles \in [DOMAIN oracles -> OracleState]
CacheTypes ==
    spot \in Times /\ forwards \in [OracleIds -> Times] /\ svi \in [OracleIds -> SviSample]
LaneTypes == gasRef \in [Lanes -> {"fresh", "stale", "gone"}] /\ laneHint \in Lanes
WindowTypes ==
    /\ IsWindow(mgr)
    /\ mgr.phase \in Phases /\ mgr.at \in Instants \cup {0}
    /\ mgr.todo \in Seq(AllTiers \X Nat)
    /\ mgr.ids \subseteq OracleIds

Types ==
    /\ TxTypes /\ ChainTypes /\ OracleTypes /\ CacheTypes /\ LaneTypes /\ WindowTypes
    /\ now \in Instants /\ mode \in {"down", "booting", "running"}
    /\ targets \subseteq OracleIds /\ faults \in 0 .. FaultBudget

\* What a transaction may become, or be when it is made, is a transaction.
LEMMA TxUpdates ==
    ASSUME NEW x \in Tx
    PROVE  /\ [x EXCEPT !.awaited = FALSE] \in Tx
           /\ [x EXCEPT !.valid = FALSE] \in Tx
           /\ [x EXCEPT !.mark = FALSE] \in Tx
           /\ \A s \in {"ok", "aborted"}, d \in SUBSET OracleIds :
                [x EXCEPT !.state = s, !.ids = d, !.sentAt = 0, !.valid = FALSE] \in Tx
  BY DEF Tx

LEMMA TxMade ==
    ASSUME NEW l \in Lanes, NEW k \in Kinds
    PROVE  NewLaneTx(l, k) \in Tx /\ NewLaneTx(l, k).kind = k /\ NewLaneTx(l, k).state = "sent"
           /\ NewLaneTx(l, k).svis = [i \in OracleIds |-> None] /\ NewLaneTx(l, k).ids = {}
           /\ NewLaneTx(l, k).lane = l /\ NewLaneTx(l, k).awaited
  BY DEF NewLaneTx, Tx, Times

LEMMA TimesAreNatural == Instants \subseteq Nat /\ 0 \notin Instants /\ None \notin Instants
  BY FeedAssumption DEF None

LEMMA LeastInstant == Min(Instants) \in Instants
  BY FeedAssumption, LeastNatural DEF Min

LEMMA InitTypes == Init => Types
  <1> SUFFICES ASSUME Init PROVE Types
    OBVIOUS
  <1> USE DEF Init
  <1>1. TxTypes
    BY DEF TxTypes
  <1>2. ChainTypes
    BY FeedAssumption DEF ChainTypes
  <1>3. OracleTypes
    BY DEF OracleTypes
  <1>4. CacheTypes
    BY DEF CacheTypes, Times, SviSample
  <1>5. LaneTypes
    BY ZeroIsALane DEF LaneTypes, FreshLanes
  <1>6. WindowTypes
    BY DEF WindowTypes, NoWindow, IsWindow, Phases
  <1> QED
    BY <1>1, <1>2, <1>3, <1>4, <1>5, <1>6, LeastInstant, FeedAssumption DEF Types

\* Windows open and close with their fields in place.
LEMMA OpensTyped ==
    ASSUME Types, OpenWindow \/ CloseWindow PROVE WindowTypes'
  <1>1. CASE OpenWindow
    <2> DEFINE p == IF IdleLanes = Lanes THEN "refresh" ELSE "drain"
    <2>1. mgr' = [phase |-> p, at |-> now, todo |-> <<>>, ids |-> {}]
      BY <1>1 DEF OpenWindow, NoWindow
    <2>2. p \in Phases
      BY DEF Phases
    <2> HIDE DEF p
    <2> QED
      BY <2>1, <2>2 DEF Types, WindowTypes, IsWindow
  <1>2. CASE CloseWindow
    BY <1>2 DEF WindowTypes, CloseWindow, NoWindow, IsWindow, Phases
  <1> QED
    BY <1>1, <1>2

\* What discovery makes of the chain.
LEMMA DiscoverTypes ==
    ASSUME Types, NEW a \in BOOLEAN, NEW b \in BOOLEAN, NEW at
    PROVE  LET found == DiscoverOracles(a, b, at)
           IN  /\ DOMAIN found \subseteq OracleIds /\ DOMAIN found \subseteq DOMAIN chain
               /\ found \in [DOMAIN found -> OracleState]
               /\ \A i \in DOMAIN found : found[i].expiry = chain[i].expiry
  <1> DEFINE found == DiscoverOracles(a, b, at)
  <1>1. DOMAIN found = DiscoveredIds(a)
    BY DEF DiscoverOracles
  <1>2. DiscoveredIds(a) \subseteq 1 .. Len(chain)
    BY DEF DiscoveredIds
  <1>3. Len(chain) \in Nat /\ Len(chain) <= MaxOracles /\ DOMAIN chain = 1 .. Len(chain)
    BY DEF Types, ChainTypes
  <1>4. ASSUME NEW i \in DOMAIN found
        PROVE  found[i] \in OracleState /\ found[i].expiry = chain[i].expiry
    <2> DEFINE st == ClassifyStatus(chain[i], i \in CompactedIds(b), at)
    <2>1. found[i] = [expiry |-> chain[i].expiry, tier |-> InferTier(chain[i].expiry, TierSet),
                      status |-> st, caps |-> chain[i].caps]
      BY <1>1 DEF DiscoverOracles, Discovered
    <2>2. st \in Statuses
      BY DEF ClassifyStatus, Statuses
    <2>3. chain[i] \in OnChain
      BY <1>1, <1>2, <1>3 DEF Types, ChainTypes
    <2>4. InferTier(chain[i].expiry, TierSet) \in AllTiers
      <3>1. InferTier(chain[i].expiry, TierSet) # NoTier
        BY <1>1 DEF DiscoveredIds
      <3> QED
        BY <3>1 DEF InferTier, AllTiers
    <2> HIDE DEF st
    <2> QED
      BY <2>1, <2>2, <2>3, <2>4 DEF OnChain, OracleState
  <1>5. found \in [DOMAIN found -> OracleState]
    <2>1. found = [i \in DOMAIN found |-> found[i]]
      BY DEF DiscoverOracles
    <2> HIDE DEF found
    <2> QED
      BY <1>4, <2>1
  <1> HIDE DEF found
  <1>6. DOMAIN found \subseteq OracleIds /\ DOMAIN found \subseteq DOMAIN chain
    BY <1>1, <1>2, <1>3, FeedAssumption DEF OracleIds
  <1> QED
    BY <1>4, <1>5, <1>6 DEF found

LEMMA ReconcileTypes ==
    ASSUME Types, NEW f, DOMAIN f \subseteq OracleIds, f \in [DOMAIN f -> OracleState]
    PROVE  LET g == ReconcileLocalOracles(f)
           IN  /\ DOMAIN g \subseteq DOMAIN f /\ DOMAIN g \subseteq OracleIds
               /\ g \in [DOMAIN g -> OracleState]
               /\ \A i \in DOMAIN g : /\ g[i].status = f[i].status
                                      /\ i \in DOMAIN oracles => g[i].expiry = oracles[i].expiry
                                      /\ i \notin DOMAIN oracles => g[i].expiry = f[i].expiry
  <1> DEFINE g == ReconcileLocalOracles(f)
  <1>1. DOMAIN g = {j \in DOMAIN f : f[j].status # "compacted"}
    BY DEF ReconcileLocalOracles
  <1>2. ASSUME NEW i \in DOMAIN g
        PROVE  /\ g[i] \in OracleState /\ g[i].status = f[i].status
               /\ i \in DOMAIN oracles => g[i].expiry = oracles[i].expiry
               /\ i \notin DOMAIN oracles => g[i].expiry = f[i].expiry
    <2>1. f[i] \in OracleState
      BY <1>1
    <2>2. CASE i \in DOMAIN oracles
      <3>1. g[i] = [oracles[i] EXCEPT !.status = f[i].status, !.caps = f[i].caps]
        BY <1>1, <2>2 DEF ReconcileLocalOracles
      <3>2. oracles[i] \in OracleState
        BY <2>2 DEF Types, OracleTypes
      <3> QED
        BY <2>1, <2>2, <3>1, <3>2 DEF OracleState
    <2>3. CASE i \notin DOMAIN oracles
      <3>1. g[i] = f[i]
        BY <1>1, <2>3 DEF ReconcileLocalOracles
      <3> QED
        BY <2>1, <2>3, <3>1
    <2> QED
      BY <2>2, <2>3
  <1>3. g = [i \in DOMAIN g |-> g[i]]
    BY DEF ReconcileLocalOracles
  <1> HIDE DEF g
  <1>4. g \in [DOMAIN g -> OracleState]
    BY <1>2, <1>3
  <1> QED
    BY <1>1, <1>2, <1>4 DEF g

\* The push loop.
LEMMA PushTyped == ASSUME Types, Inv, PushTick \/ PushTickSkipped PROVE Types'
  <1>1. NextLane \in Lanes
    BY NextLaneIdle DEF PushTick, PushTickSkipped, TickRuns, IdleLanes, Inv
  <1>2. LaneTypes'
    <2>1. (NextLane + 1) % LaneCount \in Lanes
      BY <1>1, FeedAssumption DEF Lanes
    <2> QED
      BY <2>1 DEF PushTick, PushTickSkipped, AdvanceHint, Types, LaneTypes
  <1>3. TxTypes'
    <2>1. CASE PushTickSkipped
      BY <2>1 DEF PushTickSkipped, Types, TxTypes
    <2>2. CASE PushTick
      <3> DEFINE new == NewLaneTx(NextLane, "push")
                 c == [i \in OracleIds |->
                         IF i \in Batch /\ SviDue(i) THEN svi[i].at ELSE None]
      <3>1. PushTx = [new EXCEPT !.ids = Batch, !.sentAt = now, !.svis = c]
        BY DEF PushTx
      <3>2. new \in Tx /\ new.kind = "push"
        BY <1>1, TxMade DEF Kinds
      <3>3. Batch \in SUBSET OracleIds
        BY DEF Batch, Types, OracleTypes
      <3>4. c \in [OracleIds -> Times]
        <4>1. \A i \in OracleIds : svi[i].at \in Times
          BY DEF Types, CacheTypes, SviSample
        <4> QED
          BY <4>1 DEF Times
      <3> HIDE DEF new, c
      <3>5. PushTx \in Tx /\ PushTx.kind = "push"
        BY <3>1, <3>2, <3>3, <3>4 DEF Types, Tx
      <3> QED
        BY <2>2, <3>5 DEF PushTick, Types, TxTypes
    <2> QED
      BY <2>1, <2>2
  <1> QED
    BY <1>2, <1>3 DEF PushTick, PushTickSkipped, caches, Types, ChainTypes, OracleTypes,
       CacheTypes, WindowTypes

\* The manager's walk from phase to phase.
LEMMA PhaseTyped ==
    ASSUME Types, LanesDrained \/ GasRefreshNoop \/ GasRefreshed \/ CreateLoopDone
                    \/ LoopDone("bootstrap", "settle") \/ LoopDone("settle", "compact")
                    \/ ManagerDiscovers
    PROVE  WindowTypes'
  <1>1. IsWindow(mgr) /\ WindowTypes /\ now \in Instants /\ DOMAIN oracles \subseteq OracleIds
    BY DEF Types, WindowTypes, OracleTypes
  <1>2. ASSUME NEW p \in Phases, Phase(p) PROVE WindowTypes'
    BY <1>1, <1>2 DEF Phase, WindowTypes, IsWindow
  <1>3. ASSUME Refreshed PROVE WindowTypes'
    BY <1>1, <1>3 DEF Refreshed, WindowTypes, IsWindow, Phases
  <1>4. ASSUME CreateLoopDone PROVE WindowTypes'
    <2>1. mgr' = [phase |-> "bootstrap", at |-> mgr.at, todo |-> <<>>, ids |-> DOMAIN oracles]
      BY <1>1, <1>4 DEF CreateLoopDone, IsWindow
    <2>2. mgr.at \in Instants \cup {0}
      BY <1>1 DEF WindowTypes
    <2> QED
      BY <1>1, <2>1, <2>2 DEF WindowTypes, IsWindow, Phases
  <1>5. ASSUME ManagerDiscovers PROVE WindowTypes'
    <2>0. mgr.at \in Instants \cup {0}
      BY <1>1 DEF WindowTypes
    <2>1. mgr.at \in Nat
      <3>1. Instants \cup {0} \subseteq Nat
        BY TimesAreNatural
      <3> QED
        BY <2>0, <3>1, Zenon
    <2>2. Wanted \in Seq(AllTiers \X Nat)
      BY <2>1, WantedTypes
    <2>3. mgr' = [mgr EXCEPT !.phase = "create", !.at = 0, !.todo = Wanted]
      BY <1>5 DEF ManagerDiscovers
    <2> QED
      BY <1>1, <2>2, <2>3 DEF WindowTypes, IsWindow, Phases
  <1> QED
    BY <1>2, <1>3, <1>4, <1>5 DEF LanesDrained, GasRefreshNoop, GasRefreshed, LoopDone, Phases

LEMMA WindowTyped ==
    ASSUME Types,
           \/ LanesDrained \/ GasRefreshNoop \/ GasRefreshed \/ CreateLoopDone
           \/ LoopDone("bootstrap", "settle") \/ LoopDone("settle", "compact") \/ WindowDone
           \/ PushTimerOpensWindow \/ ManagerTimer \/ DrainTimedOut \/ DiscoveryThrows
           \/ GasRefreshThrows
    PROVE  Types'
  <1>1. WindowTypes'
    BY PhaseTyped, OpensTyped DEF WindowDone, PushTimerOpensWindow, ManagerTimer, DrainTimedOut,
       DiscoveryThrows, GasRefreshThrows, WindowThrows
  <1>2. /\ UNCHANGED <<now, chain, oracles, caches, laneHint>>
        /\ txs' \subseteq txs /\ targets' \subseteq OracleIds
        /\ mode' \in {"down", "booting", "running"}
        /\ faults' \in 0 .. FaultBudget
    BY FeedAssumption DEF LanesDrained, GasRefreshNoop, GasRefreshed, CreateLoopDone, LoopDone, WindowDone,
       PushTimerOpensWindow, ManagerTimer, DrainTimedOut, DiscoveryThrows, GasRefreshThrows,
       WindowThrows, OnlyWindow, lanes, Types, OracleTypes
  <1>3. gasRef' \in [Lanes -> {"fresh", "stale", "gone"}]
    <2>1. ASSUME GasRefreshed PROVE gasRef' \in [Lanes -> {"fresh", "stale", "gone"}]
      BY <2>1 DEF GasRefreshed, FreshLanes
    <2>2. ASSUME GasRefreshThrows PROVE gasRef' \in [Lanes -> {"fresh", "stale", "gone"}]
      BY <2>2 DEF GasRefreshThrows, Types, LaneTypes
    <2>3. ASSUME ~GasRefreshed, ~GasRefreshThrows PROVE gasRef' = gasRef
      BY <2>3 DEF LanesDrained, GasRefreshNoop, CreateLoopDone, LoopDone, WindowDone,
         PushTimerOpensWindow, ManagerTimer, DrainTimedOut, DiscoveryThrows, OnlyWindow, lanes
    <2> QED
      BY <2>1, <2>2, <2>3 DEF Types, LaneTypes
  <1> QED
    BY <1>1, <1>2, <1>3 DEF Types, TxTypes, ChainTypes, OracleTypes, CacheTypes, LaneTypes, caches

\* Discovery, by a window or by main().
LEMMA DiscoverTyped == ASSUME Types, ManagerDiscovers PROVE Types'
  <1>1. PICK a \in BOOLEAN, b \in BOOLEAN :
          /\ faults' = faults + FaultCost(a, b) /\ faults' <= FaultBudget
          /\ oracles' = ReconcileLocalOracles(DiscoverOracles(a, b, mgr.at))
    BY DEF ManagerDiscovers
  <1>2. OracleTypes'
    BY <1>1, DiscoverTypes, ReconcileTypes DEF OracleTypes
  <1>3. faults' \in 0 .. FaultBudget
    BY <1>1, FeedAssumption DEF FaultCost, Types
  <1>4. WindowTypes'
    BY PhaseTyped
  <1> QED
    BY <1>2, <1>3, <1>4 DEF ManagerDiscovers, Types, TxTypes, ChainTypes, CacheTypes, LaneTypes,
       caches, lanes

\* A process that has just started has empty caches and fresh lanes.
LEMMA BootedTyped ==
    ASSUME NEW f, Booted(f), DOMAIN f \subseteq OracleIds, f \in [DOMAIN f -> OracleState]
    PROVE  OracleTypes' /\ CacheTypes' /\ LaneTypes' /\ targets' \subseteq OracleIds
  BY ZeroIsALane DEF Booted, OracleTypes, CacheTypes, LaneTypes, FreshLanes, Times, SviSample

LEMMA BootTyped == ASSUME Types, Boot PROVE Types'
  <1>1. PICK a \in BOOLEAN, b \in BOOLEAN :
          /\ faults' = faults + FaultCost(a, b) /\ faults' <= FaultBudget
          /\ Booted(DiscoverOracles(a, b, now))
    BY DEF Boot
  <1>2. OracleTypes' /\ CacheTypes' /\ LaneTypes' /\ targets' \subseteq OracleIds
    BY <1>1, DiscoverTypes, BootedTyped
  <1>3. faults' \in 0 .. FaultBudget
    BY <1>1, FeedAssumption DEF FaultCost, Types
  <1>4. WindowTypes'
    BY OpensTyped DEF Boot
  <1> QED
    BY <1>2, <1>3, <1>4 DEF Boot, Types, TxTypes, ChainTypes

\* The lifecycle steps.
LEMMA StepTyped ==
    ASSUME Types, NEW x \in Tx, x.kind = "create" => x.tier \in AllTiers, SubmitStep(x),
           WindowTypes'
    PROVE  Types'
  BY DEF SubmitStep, Types, TxTypes, ChainTypes, OracleTypes, CacheTypes, LaneTypes, caches, lanes

LEMMA CreateTyped == ASSUME Types, CreateOracleStep PROVE Types'
  <1>1. PICK k \in DOMAIN mgr.todo :
          /\ mgr' = [mgr EXCEPT !.todo = SubSeq(@, k + 1, Len(@))]
          /\ SubmitStep([NewLaneTx(0, "create") EXCEPT !.tier = mgr.todo[k][1],
                                                       !.expiry = mgr.todo[k][2]])
    BY DEF CreateOracleStep
  <1> DEFINE new == NewLaneTx(0, "create")
             x == [new EXCEPT !.tier = mgr.todo[k][1], !.expiry = mgr.todo[k][2]]
  <1>2. mgr.todo \in Seq(AllTiers \X Nat) /\ IsWindow(mgr)
    BY DEF Types, WindowTypes
  <1>3. mgr.todo[k][1] \in AllTiers /\ mgr.todo[k][2] \in Nat
    BY <1>2
  <1>4. new \in Tx
    BY TxMade, ZeroIsALane DEF Kinds
  <1> HIDE DEF new
  <1>5. x \in Tx /\ x.tier \in AllTiers
    BY <1>3, <1>4 DEF Tx
  <1>6. SubSeq(mgr.todo, k + 1, Len(mgr.todo)) \in Seq(AllTiers \X Nat)
    BY <1>2
  <1>7. WindowTypes'
    <2> DEFINE rest == SubSeq(mgr.todo, k + 1, Len(mgr.todo))
    <2>1. mgr' = [phase |-> mgr.phase, at |-> mgr.at, todo |-> rest, ids |-> mgr.ids]
      BY <1>1, <1>2 DEF IsWindow
    <2> HIDE DEF rest
    <2> QED
      BY <1>6, <2>1 DEF Types, WindowTypes, IsWindow, rest
  <1>8. SubmitStep(x)
    BY <1>1 DEF new
  <1> HIDE DEF x
  <1> QED
    BY <1>5, <1>7, <1>8, StepTyped

LEMMA VisitTyped == ASSUME Types, NEW p, NEW i, Visit(p, i) PROVE WindowTypes'
  <1> DEFINE d == {j \in mgr.ids : j > i}
  <1>1. mgr' = [phase |-> mgr.phase, at |-> mgr.at, todo |-> mgr.todo, ids |-> d]
    BY DEF Types, WindowTypes, Visit, IsWindow
  <1>2. d \subseteq mgr.ids
    OBVIOUS
  <1> HIDE DEF d
  <1> QED
    BY <1>1, <1>2 DEF Types, WindowTypes, IsWindow

LEMMA BootstrapTyped == ASSUME Types, NEW i \in OracleIds, BootstrapOracleStep(i) PROVE Types'
  <1> DEFINE new == NewLaneTx(0, "bootstrap")
             c == [new.svis EXCEPT ![i] = svi[i].at]
             x == [new EXCEPT !.ids = {i}, !.caps = Lanes \ oracles[i].caps, !.svis = c]
  <1>1. new \in Tx /\ new.kind = "bootstrap"
    BY TxMade, ZeroIsALane DEF Kinds
  <1>2. SubmitStep(x)
    BY DEF BootstrapOracleStep
  <1>3. c \in [OracleIds -> Times]
    <2>1. new.svis \in [OracleIds -> Times] /\ svi[i].at \in Times
      BY <1>1 DEF Tx, Types, CacheTypes, SviSample
    <2> QED
      BY <2>1
  <1> HIDE DEF new, c
  <1>4. x \in Tx /\ x.kind = "bootstrap"
    BY <1>1, <1>3 DEF Tx
  <1> HIDE DEF x
  <1> QED
    BY <1>2, <1>4, StepTyped, VisitTyped DEF BootstrapOracleStep

LEMMA SettleTyped ==
    ASSUME Types, NEW i \in OracleIds, SettleOracleStep(i) \/ CompactOracleStep(i)
    PROVE  Types'
  <1>1. ASSUME NEW k \in {"settle", "compact"},
               SubmitStep([NewLaneTx(0, k) EXCEPT !.ids = {i}, !.caps = {0} \ oracles[i].caps]),
               Visit(k, i)
        PROVE  Types'
    <2> DEFINE new == NewLaneTx(0, k)
               x == [new EXCEPT !.ids = {i}, !.caps = {0} \ oracles[i].caps]
    <2>1. new \in Tx /\ new.kind = k
      BY TxMade, ZeroIsALane DEF Kinds
    <2>2. SubmitStep(x)
      BY <1>1
    <2> HIDE DEF new
    <2>3. x \in Tx /\ x.kind = k
      BY <2>1, ZeroIsALane DEF Tx
    <2> HIDE DEF x
    <2> QED
      BY <1>1, <2>2, <2>3, StepTyped, VisitTyped
  <1> QED
    BY <1>1 DEF SettleOracleStep, CompactOracleStep

\* What a transaction writes to an oracle.
LEMMA EffectFacts ==
    ASSUME NEW x \in Tx, NEW c \in OnChain, NEW i \in OracleIds, now \in Instants
    PROVE  LET d == Effect(x, c, i)
           IN  /\ d \in OnChain /\ d.expiry = c.expiry /\ c.landed \subseteq d.landed
               /\ x.svis[i] # None => x.svis[i] \in d.landed
               /\ d.settled = (c.settled \/ (x.kind \in {"push", "settle"} /\ now >= c.expiry))
               /\ d.compacted = (c.compacted \/ x.kind = "compact")
  <1> DEFINE caps == c.caps \cup x.caps
             active == IF x.kind = "bootstrap" THEN TRUE
                       ELSE IF x.kind \in {"push", "settle"} /\ now >= c.expiry THEN FALSE
                       ELSE c.active
             settled == c.settled \/ (x.kind \in {"push", "settle"} /\ now >= c.expiry)
             compacted == c.compacted \/ x.kind = "compact"
             landed == c.landed \cup ({x.svis[i]} \ {None})
  <1>1. Effect(x, c, i) = [c EXCEPT !.caps = caps, !.active = active, !.settled = settled,
                                    !.compacted = compacted, !.landed = landed]
    BY DEF Effect
  <1>2. /\ caps \in SUBSET Lanes /\ active \in BOOLEAN /\ settled \in BOOLEAN
        /\ compacted \in BOOLEAN
    BY DEF Tx, OnChain
  <1>3. landed \in SUBSET Instants /\ c.landed \subseteq landed
        /\ (x.svis[i] # None => x.svis[i] \in landed)
    BY DEF Tx, OnChain, Times
  <1> HIDE DEF caps, active, settled, compacted, landed
  <1>4. Effect(x, c, i) = [expiry |-> c.expiry, active |-> active, settled |-> settled,
                           compacted |-> compacted, caps |-> caps, landed |-> landed]
    BY <1>1 DEF OnChain
  <1>5. c.expiry \in Nat
    BY DEF OnChain
  <1>6. /\ Effect(x, c, i) \in OnChain /\ Effect(x, c, i).expiry = c.expiry
        /\ Effect(x, c, i).landed = landed /\ Effect(x, c, i).settled = settled
        /\ Effect(x, c, i).compacted = compacted
    BY <1>2, <1>3, <1>4, <1>5 DEF OnChain
  <1> QED
    BY <1>3, <1>6 DEF settled, compacted

\* Execution adds an oracle or writes to some: none disappears, none changes its
\* expiry, and the samples that have landed stay.
Grows ==
    /\ DOMAIN chain \subseteq DOMAIN chain'
    /\ \A i \in DOMAIN chain : /\ chain'[i].expiry = chain[i].expiry
                               /\ chain[i].landed \subseteq chain'[i].landed

LEMMA ChainOf ==
    ASSUME Types PROVE /\ Len(chain) \in Nat /\ Len(chain) <= MaxOracles
                       /\ DOMAIN chain = 1 .. Len(chain) /\ DOMAIN chain \subseteq OracleIds
                       /\ \A i \in DOMAIN chain : chain[i] \in OnChain
  BY FeedAssumption DEF Types, ChainTypes, OracleIds

LEMMA AppendGrows ==
    ASSUME Types, NEW e \in Nat, Len(chain) < MaxOracles, chain' = Append(chain, NewOracle(e))
    PROVE  /\ ChainTypes' /\ Grows
           /\ DOMAIN chain' = DOMAIN chain \cup {Len(chain) + 1}
           /\ Len(chain) + 1 \in OracleIds
           /\ chain'[Len(chain) + 1] = NewOracle(e)
           /\ \A i \in DOMAIN chain : chain'[i] = chain[i]
  <1>1. NewOracle(e) \in OnChain
    BY DEF NewOracle, OnChain
  <1>2. chain \in Seq(OnChain)
    BY DEF Types, ChainTypes
  <1>3. /\ chain' \in Seq(OnChain) /\ Len(chain') = Len(chain) + 1
        /\ chain'[Len(chain) + 1] = NewOracle(e)
        /\ \A i \in 1 .. Len(chain) : chain'[i] = chain[i]
    BY <1>1, <1>2
  <1>4. DOMAIN chain' = 1 .. Len(chain) + 1
    BY <1>3
  <1> QED
    BY <1>3, <1>4, ChainOf, FeedAssumption DEF ChainTypes, Grows, OracleIds

LEMMA WriteGrows ==
    ASSUME Types, NEW x \in Tx,
           chain' = [i \in DOMAIN chain |->
                       IF i \in x.ids THEN Effect(x, chain[i], i) ELSE chain[i]]
    PROVE  ChainTypes' /\ Grows /\ DOMAIN chain' = DOMAIN chain
  <1>1. ASSUME NEW i \in DOMAIN chain
        PROVE  /\ chain'[i] \in OnChain /\ chain'[i].expiry = chain[i].expiry
               /\ chain[i].landed \subseteq chain'[i].landed
    <2>1. chain[i] \in OnChain /\ i \in OracleIds /\ now \in Instants
      BY ChainOf DEF Types
    <2>2. CASE i \in x.ids
      <3>1. chain'[i] = Effect(x, chain[i], i)
        BY <2>2
      <3> QED
        BY <2>1, <3>1, EffectFacts
    <2>3. CASE i \notin x.ids
      BY <2>1, <2>3
    <2> QED
      BY <2>2, <2>3
  <1>2. DOMAIN chain' = DOMAIN chain
    OBVIOUS
  <1>3. chain' \in [1 .. Len(chain) -> OnChain]
    BY <1>1, <1>2, ChainOf
  <1>4. chain' \in Seq(OnChain) /\ Len(chain') = Len(chain)
    BY <1>3, ChainOf
  <1> QED
    BY <1>1, <1>2, <1>4, ChainOf DEF ChainTypes, Grows

LEMMA ExecuteGrows ==
    ASSUME Types, NEW x \in txs, Execute(x) PROVE ChainTypes' /\ Grows
  <1>1. x \in Tx /\ x.expiry \in Nat
    BY DEF Types, TxTypes, Tx
  <1>2. CASE chain' = chain
    BY <1>2 DEF Types, ChainTypes, Grows
  <1>3. CASE chain' = ChainAfter(x)
    BY <1>1, <1>3, AppendGrows, WriteGrows DEF ChainAfter, Execute
  <1> QED
    BY <1>2, <1>3 DEF Execute

\* What is left of the transactions once x has executed: those of other lanes, those
\* awaited on its lane, which can no longer execute, and x itself if it is awaited.
Outcome(x) == IF Executes(x) THEN "ok" ELSE "aborted"
Touched(x) == IF x.kind = "create" THEN {Len(chain) + 1} ELSE x.ids
Done(x) == [x EXCEPT !.state = Outcome(x), !.ids = Touched(x), !.sentAt = 0, !.valid = FALSE]
Void(x) == [x EXCEPT !.valid = FALSE]

LEMMA ExecutedTxs ==
    ASSUME Types, NEW x \in txs, Execute(x), NEW y \in txs'
    PROVE  \/ y \in txs \ {x} /\ y.lane # x.lane
           \/ \E z \in txs \ {x} : z.awaited /\ z.lane = x.lane /\ y = Void(z)
           \/ x.awaited /\ y = Done(x)
  BY DEF Execute, Void, Done, Touched, Outcome

LEMMA DoneFacts ==
    ASSUME Types, NEW x \in txs, Execute(x)
    PROVE  /\ Done(x) \in Tx /\ Done(x).kind = x.kind /\ Done(x).state = Outcome(x)
           /\ Done(x).ids = Touched(x) /\ Done(x).tier = x.tier /\ Done(x).expiry = x.expiry
           /\ Done(x).svis = x.svis /\ Done(x).lane = x.lane /\ Done(x).awaited = x.awaited
           /\ Done(x).valid = FALSE
  <1>1. x \in Tx
    BY DEF Types, TxTypes
  <1>2. Outcome(x) \in {"ok", "aborted"}
    BY DEF Outcome
  <1>3. Touched(x) \in SUBSET OracleIds
    <2>1. CASE x.kind = "create"
      BY <2>1, ChainOf, FeedAssumption DEF Touched, OracleIds, Execute
    <2>2. CASE x.kind # "create"
      BY <1>1, <2>2 DEF Touched, Tx
    <2> QED
      BY <2>1, <2>2
  <1>4. Done(x) = [x EXCEPT !.state = Outcome(x), !.ids = Touched(x), !.sentAt = 0,
                            !.valid = FALSE]
    BY DEF Done
  <1> QED
    BY <1>1, <1>2, <1>3, <1>4 DEF Tx

LEMMA VoidFacts ==
    ASSUME NEW z \in Tx
    PROVE  /\ Void(z) \in Tx /\ Void(z).kind = z.kind /\ Void(z).state = z.state
           /\ Void(z).ids = z.ids /\ Void(z).tier = z.tier /\ Void(z).expiry = z.expiry
           /\ Void(z).svis = z.svis /\ Void(z).lane = z.lane /\ Void(z).awaited = z.awaited
           /\ Void(z).sentAt = z.sentAt /\ Void(z).valid = FALSE
  BY DEF Void, Tx

LEMMA ExecuteTyped == ASSUME Types, NEW x \in txs, Execute(x) PROVE Types'
  <1>1. TxTypes'
    <2>1. ASSUME NEW y \in txs' PROVE y \in Tx /\ (y.kind = "create" => y.tier \in AllTiers)
      <3>1. \A z \in txs : z \in Tx /\ (z.kind = "create" => z.tier \in AllTiers)
        BY DEF Types, TxTypes
      <3>2. \/ y \in txs
            \/ \E z \in txs : y = Void(z)
            \/ y = Done(x)
        BY ExecutedTxs
      <3>3. ASSUME NEW z \in txs, y = Void(z)
            PROVE  y \in Tx /\ (y.kind = "create" => y.tier \in AllTiers)
        <4>1. z \in Tx /\ (z.kind = "create" => z.tier \in AllTiers)
          BY <3>1
        <4> QED
          BY <3>3, <4>1, VoidFacts
      <3>4. CASE y = Done(x)
        BY <3>1, <3>4, DoneFacts
      <3> QED
        BY <3>1, <3>2, <3>3, <3>4
    <2> QED
      BY <2>1 DEF TxTypes
  <1>2. LaneTypes'
    BY DEF Execute, Types, LaneTypes
  <1> QED
    BY <1>1, <1>2, ExecuteGrows DEF Execute, Types, OracleTypes, CacheTypes, WindowTypes, caches

\* The answers.
LEMMA MarksTyped ==
    ASSUME Types, NEW x \in Tx PROVE PushedMarks(x) \in [OracleIds -> SviSample]
  <1>1. ASSUME NEW i \in OracleIds
        PROVE  svi[i] \in SviSample /\ [svi[i] EXCEPT !.pushed = x.svis[i]] \in SviSample
    BY DEF Types, CacheTypes, SviSample, Tx
  <1> QED
    BY <1>1 DEF PushedMarks

LEMMA AnswerOracles ==
    ASSUME Types, NEW x \in txs,
           CreateAnswered(x) \/ BootstrapAnswered(x) \/ SettleAnswered(x) \/ CompactAnswered(x)
    PROVE  OracleTypes'
  <1>1. x \in Tx /\ x.ids \subseteq OracleIds /\ DOMAIN oracles \subseteq OracleIds
        /\ x.caps \subseteq Lanes
    BY DEF Types, TxTypes, OracleTypes, Tx
  <1>2. \A i \in DOMAIN oracles : oracles[i] \in OracleState
    BY DEF Types, OracleTypes
  <1>3. CASE CreateAnswered(x)
    <2> DEFINE o == [expiry |-> x.expiry, tier |-> x.tier, status |-> "inactive", caps |-> {}]
    <2>1. o \in OracleState
      BY <1>3 DEF CreateAnswered, Types, TxTypes, Tx, OracleState, Statuses
    <2>2. oracles' = [i \in DOMAIN oracles \cup x.ids |-> IF i \in x.ids THEN o ELSE oracles[i]]
      BY <1>3 DEF CreateAnswered, EventOf
    <2> HIDE DEF o
    <2> QED
      BY <1>1, <1>2, <2>1, <2>2 DEF OracleTypes
  <1>4. CASE BootstrapAnswered(x)
    <2>1. \A i \in DOMAIN oracles :
            [oracles[i] EXCEPT !.caps = Lanes, !.status = "active"] \in OracleState
      BY <1>2 DEF OracleState, Statuses
    <2>2. DOMAIN oracles' = DOMAIN oracles
          /\ \A i \in DOMAIN oracles : oracles'[i] \in OracleState
      BY <1>2, <1>4, <2>1 DEF BootstrapAnswered
    <2>3. oracles' = [i \in DOMAIN oracles' |-> oracles'[i]]
      BY <1>4 DEF BootstrapAnswered
    <2> QED
      BY <1>1, <2>2, <2>3 DEF OracleTypes
  <1>5. CASE SettleAnswered(x)
    <2>1. \A i \in DOMAIN oracles :
            [oracles[i] EXCEPT !.caps = @ \cup x.caps, !.status = "settled"] \in OracleState
      BY <1>1, <1>2 DEF OracleState, Statuses
    <2>2. DOMAIN oracles' = DOMAIN oracles
          /\ \A i \in DOMAIN oracles : oracles'[i] \in OracleState
      BY <1>2, <1>5, <2>1 DEF SettleAnswered
    <2>3. oracles' = [i \in DOMAIN oracles' |-> oracles'[i]]
      BY <1>5 DEF SettleAnswered
    <2> QED
      BY <1>1, <2>2, <2>3 DEF OracleTypes
  <1>6. CASE CompactAnswered(x)
    BY <1>1, <1>2, <1>6 DEF CompactAnswered, OracleTypes
  <1> QED
    BY <1>3, <1>4, <1>5, <1>6

LEMMA AnsweredTyped == ASSUME Types, NEW x \in txs, Answered(x) PROVE Types'
  <1>1. /\ txs' = txs \ {x}
        /\ UNCHANGED <<now, chain, mode, spot, forwards, laneHint, mgr, targets, faults>>
    BY DEF Answered, PushAnswered, CreateAnswered, BootstrapAnswered, SettleAnswered,
       CompactAnswered, StepAnswered, AbortAnswered, StaleGasAnswered, service, lanes, caches
  <1>2. x \in Tx /\ x.lane \in Lanes
    BY DEF Types, TxTypes, Tx
  <1>3. gasRef' \in [Lanes -> {"fresh", "stale", "gone"}]
    BY <1>2 DEF Answered, PushAnswered, CreateAnswered, BootstrapAnswered, SettleAnswered,
       CompactAnswered, StepAnswered, AbortAnswered, StaleGasAnswered, service, lanes, LaneFreed,
       RefreshLaneGasRef, Types, LaneTypes
  <1>4. svi' \in [OracleIds -> SviSample]
    <2>1. svi \in [OracleIds -> SviSample] /\ PushedMarks(x) \in [OracleIds -> SviSample]
      BY <1>2, MarksTyped DEF Types, CacheTypes
    <2>2. svi' = svi \/ svi' = PushedMarks(x)
      BY DEF Answered, PushAnswered, CreateAnswered, BootstrapAnswered, SettleAnswered,
         CompactAnswered, AbortAnswered, StaleGasAnswered, service, caches
    <2> QED
      BY <2>1, <2>2
  <1>5. OracleTypes'
    <2>1. PushAnswered(x) \/ AbortAnswered(x) \/ StaleGasAnswered(x) => oracles' = oracles
      BY DEF PushAnswered, AbortAnswered, StaleGasAnswered, service
    <2> QED
      BY <2>1, AnswerOracles DEF Answered, Types, OracleTypes
  <1> QED
    BY <1>1, <1>3, <1>4, <1>5 DEF Types, TxTypes, ChainTypes, CacheTypes, LaneTypes, WindowTypes

LEMMA LostTyped == ASSUME Types, NEW x \in txs, AnswerLost(x) \/ Drop(x) PROVE Types'
  <1>1. x \in Tx /\ (x.kind = "create" => x.tier \in AllTiers)
    BY DEF Types, TxTypes
  <1> DEFINE y == [x EXCEPT !.awaited = FALSE]
  <1>2. y \in Tx /\ y.kind = x.kind /\ y.tier = x.tier
    BY <1>1 DEF Tx
  <1>3. txs' \subseteq txs \cup {y}
    BY DEF AnswerLost, Drop
  <1> HIDE DEF y
  <1>4. TxTypes'
    BY <1>1, <1>2, <1>3 DEF Types, TxTypes
  <1>5. UNCHANGED <<now, chain, service>> /\ faults' \in 0 .. FaultBudget
    BY FeedAssumption DEF AnswerLost, Drop, Types
  <1> QED
    BY <1>4, <1>5 DEF Types, ChainTypes, OracleTypes, CacheTypes, LaneTypes, WindowTypes, service,
       caches, lanes

\* The process dies, and what it awaited is awaited by nobody.
LEMMA DiesTyped == ASSUME Types, ProcessDies PROVE Types'
  <1> DEFINE T(x) == [x EXCEPT !.awaited = FALSE]
  <1>1. ASSUME NEW x \in txs
        PROVE  T(x) \in Tx /\ (T(x).kind = "create" => T(x).tier \in AllTiers)
    BY DEF Types, TxTypes, Tx
  <1>2. txs' = {T(x) : x \in {y \in txs : y.state = "sent" /\ y.valid}}
    BY DEF ProcessDies
  <1> HIDE DEF T
  <1>3. TxTypes'
    BY <1>1, <1>2 DEF TxTypes
  <1>4. OracleTypes' /\ CacheTypes' /\ LaneTypes' /\ targets' \subseteq OracleIds
    <2> DEFINE f == <<>>
    <2>1. DOMAIN f \subseteq OracleIds /\ f \in [DOMAIN f -> OracleState]
      OBVIOUS
    <2>2. Booted(f)
      BY DEF ProcessDies
    <2> HIDE DEF f
    <2> QED
      BY <2>1, <2>2, BootedTyped
  <1>5. WindowTypes'
    BY OpensTyped DEF ProcessDies
  <1> QED
    BY <1>3, <1>4, <1>5, FeedAssumption DEF ProcessDies, Types, ChainTypes

\* The feed and the clock.
LEMMA ArrivesTyped ==
    ASSUME Types, SpotArrives \/ ForwardsArrive \/ SviArrive \/ Tick PROVE Types'
  <1>1. CASE SpotArrives
    BY <1>1 DEF SpotArrives, SampleTimes, Times, Types, TxTypes, ChainTypes, OracleTypes, CacheTypes,
       LaneTypes, WindowTypes, lanes
  <1>2. CASE ForwardsArrive
    <2>1. forwards' \in [OracleIds -> Times]
      BY <1>2 DEF ForwardsArrive, SampleTimes, Times, Types, CacheTypes
    <2> QED
      BY <1>2, <2>1 DEF ForwardsArrive, Types, TxTypes, ChainTypes, OracleTypes, CacheTypes,
         LaneTypes, WindowTypes, lanes
  <1>3. CASE SviArrive
    <2>1. svi' \in [OracleIds -> SviSample]
      <3>1. ASSUME NEW t \in Times, NEW i \in OracleIds
            PROVE  svi[i] \in SviSample /\ [svi[i] EXCEPT !.at = t] \in SviSample
        BY DEF Types, CacheTypes, SviSample
      <3>2. PICK t \in SampleTimes :
              svi' = [i \in OracleIds |-> IF i \in Quoted THEN [svi[i] EXCEPT !.at = t] ELSE svi[i]]
        BY <1>3 DEF SviArrive
      <3>3. t \in Times
        BY DEF SampleTimes, Times
      <3> QED
        BY <3>1, <3>2, <3>3
    <2>2. TxTypes'
      <3> DEFINE T(x) == IF x.kind = "bootstrap" /\ x.ids \subseteq Quoted
                         THEN [x EXCEPT !.mark = FALSE] ELSE x
      <3>1. ASSUME NEW x \in txs
            PROVE  T(x) \in Tx /\ (T(x).kind = "create" => T(x).tier \in AllTiers)
        <4>1. x \in Tx /\ (x.kind = "create" => x.tier \in AllTiers)
          BY DEF Types, TxTypes
        <4> DEFINE y == [x EXCEPT !.mark = FALSE]
        <4>2. y \in Tx /\ y.kind = x.kind /\ y.tier = x.tier
          BY <4>1 DEF Tx
        <4> QED
          BY <4>1, <4>2
      <3>2. txs' = {T(x) : x \in txs}
        BY <1>3 DEF SviArrive
      <3> HIDE DEF T
      <3> QED
        BY <3>1, <3>2 DEF TxTypes
    <2> QED
      BY <1>3, <2>1, <2>2 DEF SviArrive, Types, ChainTypes, OracleTypes, CacheTypes, LaneTypes,
         WindowTypes, lanes
  <1>4. CASE Tick
    <2>1. now' \in Instants /\ spot' \in Times /\ forwards' \in [OracleIds -> Times]
      BY <1>4 DEF Tick, StillFresh, Times, Types, CacheTypes
    <2> QED
      BY <1>4, <2>1 DEF Tick, Types, TxTypes, ChainTypes, OracleTypes, CacheTypes, LaneTypes,
         WindowTypes, lanes
  <1> QED
    BY <1>1, <1>2, <1>3, <1>4

LEMMA NextTyped == Types /\ Inv /\ [Next]_vars => Types'
  <1> SUFFICES ASSUME Types, Inv, [Next]_vars PROVE Types'
    OBVIOUS
  <1>1. ASSUME ManagerStep PROVE Types'
    BY <1>1, WindowTyped, DiscoverTyped, CreateTyped, BootstrapTyped, SettleTyped DEF ManagerStep
  <1>2. ASSUME NEW l \in Lanes, LaneStep(l) PROVE Types'
    BY <1>2, ExecuteTyped, AnsweredTyped DEF LaneStep
  <1>3. ASSUME Fault PROVE Types'
    BY <1>3, WindowTyped, DiesTyped, LostTyped DEF Fault
  <1>4. ASSUME UNCHANGED vars PROVE Types'
    BY <1>4 DEF vars, service, caches, lanes, Types, TxTypes, ChainTypes, OracleTypes, CacheTypes,
       LaneTypes, WindowTypes
  <1> QED
    BY <1>1, <1>2, <1>3, <1>4, PushTyped, WindowTyped, ArrivesTyped, BootTyped DEF Next

\* Type correctness of the oracle feed: what the service, its cache and its windows
\* hold stays of its type, the times included that the calendar computes.
THEOREM FeedTypes == Spec => []TypeOK
  <1>1. Types => TypeOK
    BY DEF Types, TypeOK, TxTypes, ChainTypes, OracleTypes, CacheTypes, LaneTypes, WindowTypes
  <1> QED
    BY <1>1, InitGated, NextGated, InitTypes, NextTyped, PTL DEF Spec

-----------------------------------------------------------------------------
(* What the transactions say of the chain.                                   *)

\* A creation carries no sample; one that has executed made an oracle of its expiry.
CreationSound(x) ==
    x.kind = "create" =>
        /\ \A i \in OracleIds : x.svis[i] = None
        /\ x.state = "sent" => x.ids = {}
        /\ x.state = "ok" => x.ids # {} /\ \A i \in x.ids : chain[i].expiry = x.expiry

\* The samples of a transaction that has executed have landed.
SamplesLanded(x) ==
    x.state = "ok" => \A i \in x.ids : x.svis[i] # None => x.svis[i] \in chain[i].landed

\* A push on its way is not late, and was sent a safety window before any expiry.
QuoteInTime(x) ==
    x.kind = "push" /\ x.state = "sent" =>
        /\ now <= x.sentAt + LatencyMs
        /\ \A i \in x.ids : x.sentAt < chain[i].expiry - SafetyWindowMs

TxSound(x) ==
    /\ x.ids \subseteq DOMAIN chain
    /\ \A i \in OracleIds : x.svis[i] # None => i \in x.ids
    /\ CreationSound(x) /\ SamplesLanded(x) /\ QuoteInTime(x)

\* The oracles the service knows are on chain, with the expiries it thinks they have.
Mirror == \A i \in DOMAIN oracles : i \in DOMAIN chain /\ oracles[i].expiry = chain[i].expiry

Sound == (\A x \in txs : TxSound(x)) /\ Mirror /\ SviMarkHonest

LEMMA SoundKept ==
    ASSUME Types, Grows, now' = now, NEW x \in Tx, TxSound(x) PROVE TxSound(x)'
  <1>1. x.ids \subseteq DOMAIN chain'
    BY DEF Grows, TxSound
  <1>2. CreationSound(x)'
    BY DEF Grows, TxSound, CreationSound
  <1>3. SamplesLanded(x)'
    BY DEF Grows, TxSound, SamplesLanded
  <1>4. QuoteInTime(x)'
    BY DEF Grows, TxSound, QuoteInTime
  <1> QED
    BY <1>1, <1>2, <1>3, <1>4 DEF TxSound

\* Two transactions that differ only in who awaits them, and whether they can execute.
Alike(x, y) ==
    /\ x.ids = y.ids /\ x.svis = y.svis /\ x.kind = y.kind /\ x.state = y.state
    /\ x.expiry = y.expiry /\ x.sentAt = y.sentAt

LEMMA SoundAlike ==
    ASSUME NEW x, NEW y, Alike(x, y), TxSound(x)' PROVE TxSound(y)'
  BY DEF Alike, TxSound, CreationSound, SamplesLanded, QuoteInTime

LEMMA MirrorKept == ASSUME Mirror, Grows, oracles' = oracles PROVE Mirror'
  BY DEF Mirror, Grows

LEMMA MarksKept ==
    ASSUME SviMarkHonest, Grows, \A i \in OracleIds : svi'[i].pushed = svi[i].pushed
    PROVE  SviMarkHonest'
  BY DEF SviMarkHonest, Grows

\* Steps that leave the chain and the clock alone, and at most drop transactions.
LEMMA QuietSound ==
    ASSUME Types, Sound, chain' = chain, now' = now, oracles' = oracles, svi' = svi,
           txs' \subseteq txs
    PROVE  Sound'
  <1>1. Grows
    BY DEF Grows
  <1>2. \A x \in txs' : TxSound(x)'
    <2> SUFFICES ASSUME NEW x \in txs' PROVE TxSound(x)'
      OBVIOUS
    <2>1. x \in Tx /\ TxSound(x)
      BY DEF Types, TxTypes, Sound
    <2> QED
      BY <1>1, <2>1, SoundKept
  <1> QED
    BY <1>1, <1>2, MirrorKept, MarksKept DEF Sound

\* Nothing but a new transaction.
LEMMA SubmitSound ==
    ASSUME Types, Sound, chain' = chain, now' = now, oracles' = oracles, svi' = svi,
           NEW y, txs' = txs \cup {y}, TxSound(y)
    PROVE  Sound'
  <1>1. Grows
    BY DEF Grows
  <1>2. TxSound(y)'
    BY DEF TxSound, CreationSound, SamplesLanded, QuoteInTime
  <1>3. \A x \in txs : TxSound(x)'
    <2> SUFFICES ASSUME NEW x \in txs PROVE TxSound(x)'
      OBVIOUS
    <2>1. x \in Tx /\ TxSound(x)
      BY DEF Types, TxTypes, Sound
    <2> QED
      BY <1>1, <2>1, SoundKept
  <1> QED
    BY <1>1, <1>2, <1>3, MirrorKept, MarksKept DEF Sound

LEMMA InitSound == Init => Sound
  BY DEF Init, Sound, Mirror, SviMarkHonest

\* A push quotes oracles that are on chain and a safety window from their expiry.
LEMMA PushSound == ASSUME Types, Inv, Sound, PushTick PROVE Sound'
  <1>1. NextLane \in Lanes
    BY NextLaneIdle DEF PushTick, TickRuns, IdleLanes, Inv
  <1> DEFINE new == NewLaneTx(NextLane, "push")
             c == [i \in OracleIds |-> IF i \in Batch /\ SviDue(i) THEN svi[i].at ELSE None]
  <1>2. PushTx = [new EXCEPT !.ids = Batch, !.sentAt = now, !.svis = c]
    BY DEF PushTx
  <1>3. new \in Tx /\ new.kind = "push" /\ new.state = "sent"
    BY <1>1, TxMade DEF Kinds
  <1>4. \A i \in OracleIds : c[i] # None => i \in Batch
    OBVIOUS
  <1>5. \A i \in Batch : i \in DOMAIN chain /\ now < chain[i].expiry - SafetyWindowMs
    BY DEF Batch, Pushable, Sound, Mirror
  <1> HIDE DEF new, c
  <1>6. /\ PushTx.ids = Batch /\ PushTx.sentAt = now /\ PushTx.svis = c /\ PushTx.kind = "push"
        /\ PushTx.state = "sent"
    BY <1>2, <1>3 DEF Tx
  <1>7. now <= now + LatencyMs
    BY FeedAssumption, TimesAreNatural DEF Types
  <1>8. TxSound(PushTx)
    BY <1>4, <1>5, <1>6, <1>7 DEF TxSound, CreationSound, SamplesLanded, QuoteInTime
  <1> QED
    BY <1>8, SubmitSound DEF PushTick, caches

LEMMA DiscoverSound == ASSUME Types, Sound, ManagerDiscovers PROVE Sound'
  <1>1. PICK a \in BOOLEAN, b \in BOOLEAN :
          oracles' = ReconcileLocalOracles(DiscoverOracles(a, b, mgr.at))
    BY DEF ManagerDiscovers
  <1>2. chain' = chain /\ now' = now /\ svi' = svi /\ txs' = txs
    BY DEF ManagerDiscovers, caches
  <1>3. Grows
    BY <1>2 DEF Grows
  <1> DEFINE f == DiscoverOracles(a, b, mgr.at)
             g == ReconcileLocalOracles(f)
  <1>4. /\ DOMAIN f \subseteq OracleIds /\ DOMAIN f \subseteq DOMAIN chain
        /\ f \in [DOMAIN f -> OracleState]
        /\ \A i \in DOMAIN f : f[i].expiry = chain[i].expiry
    BY DiscoverTypes
  <1> HIDE DEF f
  <1>5. /\ DOMAIN g \subseteq DOMAIN f
        /\ \A i \in DOMAIN g : /\ i \in DOMAIN oracles => g[i].expiry = oracles[i].expiry
                               /\ i \notin DOMAIN oracles => g[i].expiry = f[i].expiry
    BY <1>4, ReconcileTypes
  <1> HIDE DEF g
  <1>6. oracles' = g
    BY <1>1 DEF f, g
  <1>7. Mirror'
    BY <1>2, <1>4, <1>5, <1>6 DEF Sound, Mirror
  <1>8. \A x \in txs' : TxSound(x)'
    BY <1>2 DEF Sound, TxSound, CreationSound, SamplesLanded, QuoteInTime
  <1> QED
    BY <1>2, <1>3, <1>7, <1>8, MarksKept DEF Sound

\* A process that starts knows what it discovers and has marked nothing.
LEMMA BootedSound ==
    ASSUME Types, NEW f, Booted(f), chain' = chain,
           \A i \in DOMAIN f : i \in DOMAIN chain /\ f[i].expiry = chain[i].expiry
    PROVE  Mirror' /\ SviMarkHonest'
  BY DEF Booted, Mirror, SviMarkHonest

LEMMA BootSound == ASSUME Types, Sound, Boot PROVE Sound'
  <1>1. PICK a \in BOOLEAN, b \in BOOLEAN : Booted(DiscoverOracles(a, b, now))
    BY DEF Boot
  <1>2. chain' = chain /\ now' = now /\ txs' = txs
    BY DEF Boot
  <1>3. Mirror' /\ SviMarkHonest'
    BY <1>1, <1>2, DiscoverTypes, BootedSound
  <1>4. \A x \in txs' : TxSound(x)'
    BY <1>2 DEF Sound, TxSound, CreationSound, SamplesLanded, QuoteInTime
  <1> QED
    BY <1>3, <1>4 DEF Sound

LEMMA DiesSound == ASSUME Types, Sound, ProcessDies PROVE Sound'
  <1> DEFINE T(x) == [x EXCEPT !.awaited = FALSE]
  <1>1. chain' = chain /\ now' = now
        /\ txs' = {T(x) : x \in {y \in txs : y.state = "sent" /\ y.valid}}
    BY DEF ProcessDies
  <1>2. ASSUME NEW x \in txs PROVE TxSound(T(x))'
    <2>1. x \in Tx /\ TxSound(x)
      BY DEF Types, TxTypes, Sound
    <2>2. Alike(x, T(x))
      BY <2>1 DEF Tx, Alike
    <2>3. Grows
      BY <1>1 DEF Grows
    <2> HIDE DEF T
    <2> QED
      BY <1>1, <2>1, <2>2, <2>3, SoundKept, SoundAlike
  <1> HIDE DEF T
  <1>3. \A y \in txs' : TxSound(y)'
    BY <1>1, <1>2
  <1>4. Mirror' /\ SviMarkHonest'
    BY <1>1 DEF ProcessDies, Booted, Mirror, SviMarkHonest
  <1> QED
    BY <1>3, <1>4 DEF Sound

LEMMA LostSound == ASSUME Types, Sound, NEW x \in txs, AnswerLost(x) PROVE Sound'
  <1> DEFINE y == [x EXCEPT !.awaited = FALSE]
  <1>1. chain' = chain /\ now' = now /\ oracles' = oracles /\ svi' = svi
        /\ txs' \subseteq txs \cup {y}
    BY DEF AnswerLost, service, caches
  <1>2. Grows
    BY <1>1 DEF Grows
  <1>3. \A z \in txs : TxSound(z)'
    <2> SUFFICES ASSUME NEW z \in txs PROVE TxSound(z)'
      OBVIOUS
    <2>1. z \in Tx /\ TxSound(z)
      BY DEF Types, TxTypes, Sound
    <2> QED
      BY <1>1, <1>2, <2>1, SoundKept
  <1>4. Alike(x, y)
    BY DEF Types, TxTypes, Tx, Alike
  <1> HIDE DEF y
  <1>5. TxSound(y)'
    BY <1>3, <1>4, SoundAlike
  <1> QED
    BY <1>1, <1>2, <1>3, <1>5, MirrorKept, MarksKept DEF Sound

\* The lifecycle steps.
LEMMA StepSound ==
    ASSUME Types, Sound, NEW x \in Tx, SubmitStep(x), x.state = "sent", x.kind # "push",
           x.ids \subseteq DOMAIN oracles, x.kind = "create" => x.ids = {},
           \A i \in OracleIds : x.svis[i] # None => i \in x.ids
    PROVE  Sound'
  <1>1. TxSound(x)
    BY DEF Sound, Mirror, TxSound, CreationSound, SamplesLanded, QuoteInTime
  <1> QED
    BY <1>1, SubmitSound DEF SubmitStep, caches

LEMMA CreateSound == ASSUME Types, Sound, CreateOracleStep PROVE Sound'
  <1>1. PICK k \in DOMAIN mgr.todo :
          SubmitStep([NewLaneTx(0, "create") EXCEPT !.tier = mgr.todo[k][1],
                                                    !.expiry = mgr.todo[k][2]])
    BY DEF CreateOracleStep
  <1> DEFINE new == NewLaneTx(0, "create")
             x == [new EXCEPT !.tier = mgr.todo[k][1], !.expiry = mgr.todo[k][2]]
  <1>2. mgr.todo[k][1] \in AllTiers /\ mgr.todo[k][2] \in Nat
    BY DEF Types, WindowTypes
  <1>3. /\ new \in Tx /\ new.kind = "create" /\ new.state = "sent" /\ new.ids = {}
        /\ new.svis = [i \in OracleIds |-> None]
    BY TxMade, ZeroIsALane DEF Kinds
  <1>4. SubmitStep(x)
    BY <1>1
  <1> HIDE DEF new
  <1>5. /\ x \in Tx /\ x.kind = "create" /\ x.state = "sent" /\ x.ids = {}
        /\ x.svis = [i \in OracleIds |-> None]
    BY <1>2, <1>3 DEF Tx
  <1> HIDE DEF x
  <1> QED
    BY <1>4, <1>5, StepSound

LEMMA BootstrapSound ==
    ASSUME Types, Sound, NEW i \in OracleIds, BootstrapOracleStep(i) PROVE Sound'
  <1> DEFINE new == NewLaneTx(0, "bootstrap")
             c == [new.svis EXCEPT ![i] = svi[i].at]
             x == [new EXCEPT !.ids = {i}, !.caps = Lanes \ oracles[i].caps, !.svis = c]
  <1>1. /\ new \in Tx /\ new.kind = "bootstrap" /\ new.state = "sent"
        /\ new.svis = [j \in OracleIds |-> None]
    BY TxMade, ZeroIsALane DEF Kinds
  <1>2. SubmitStep(x) /\ i \in DOMAIN oracles
    BY DEF BootstrapOracleStep, Visit, Due
  <1>3. c \in [OracleIds -> Times] /\ \A j \in OracleIds : c[j] # None => j = i
    <2>1. None \in Times /\ svi[i].at \in Times
      BY DEF Times, Types, CacheTypes, SviSample
    <2> QED
      BY <1>1, <2>1
  <1> HIDE DEF new, c
  <1>4. x \in Tx /\ x.kind = "bootstrap" /\ x.state = "sent" /\ x.ids = {i} /\ x.svis = c
    BY <1>1, <1>3 DEF Tx
  <1> HIDE DEF x
  <1> QED
    BY <1>2, <1>3, <1>4, StepSound

LEMMA SettleSound ==
    ASSUME Types, Sound, NEW i \in OracleIds, SettleOracleStep(i) \/ CompactOracleStep(i)
    PROVE  Sound'
  <1>1. ASSUME NEW k \in {"settle", "compact"},
               SubmitStep([NewLaneTx(0, k) EXCEPT !.ids = {i}, !.caps = {0} \ oracles[i].caps]),
               Visit(k, i)
        PROVE  Sound'
    <2> DEFINE new == NewLaneTx(0, k)
               x == [new EXCEPT !.ids = {i}, !.caps = {0} \ oracles[i].caps]
    <2>1. /\ new \in Tx /\ new.kind = k /\ new.state = "sent"
          /\ new.svis = [j \in OracleIds |-> None]
      BY TxMade, ZeroIsALane DEF Kinds
    <2>2. SubmitStep(x) /\ i \in DOMAIN oracles
      BY <1>1 DEF Visit, Due
    <2> HIDE DEF new
    <2>3. /\ x \in Tx /\ x.kind = k /\ x.state = "sent" /\ x.ids = {i}
          /\ x.svis = [j \in OracleIds |-> None]
      BY <2>1, ZeroIsALane DEF Tx
    <2> HIDE DEF x
    <2> QED
      BY <2>2, <2>3, StepSound
  <1> QED
    BY <1>1 DEF SettleOracleStep, CompactOracleStep

\* Execution: what the transaction carried has landed, and what it created is there.
LEMMA ExecutedSound ==
    ASSUME Types, Sound, NEW x \in txs, Execute(x), NEW y, y = Done(x) PROVE TxSound(y)'
  <1>1. x \in Tx /\ TxSound(x) /\ x.expiry \in Nat
    BY DEF Types, TxTypes, Sound, Tx
  <1>2. /\ y.kind = x.kind /\ y.state = Outcome(x) /\ y.ids = Touched(x)
        /\ y.expiry = x.expiry /\ y.svis = x.svis
    BY DoneFacts
  <1>3. chain' = IF Executes(x) THEN ChainAfter(x) ELSE chain
    BY DEF Execute
  <1>4. Outcome(x) # "sent" /\ (Outcome(x) = "ok" => Executes(x))
    BY DEF Outcome
  <1>5. CASE x.kind = "create"
    <2>1. chain' = Append(chain, NewOracle(x.expiry)) /\ Len(chain) < MaxOracles
      <3>1. x.ids = {}
        BY <1>1, <1>5 DEF TxSound, CreationSound, Execute
      <3>2. Executes(x)
        BY <3>1 DEF Executes
      <3> QED
        BY <1>3, <1>5, <3>2 DEF ChainAfter, Execute
    <2>2. /\ DOMAIN chain' = DOMAIN chain \cup {Len(chain) + 1}
          /\ chain'[Len(chain) + 1].expiry = x.expiry
      BY <1>1, <2>1, AppendGrows DEF NewOracle
    <2>3. Touched(x) = {Len(chain) + 1}
      BY <1>5 DEF Touched
    <2>4. \A i \in OracleIds : x.svis[i] = None
      BY <1>1, <1>5 DEF TxSound, CreationSound
    <2>5. Touched(x) \subseteq OracleIds
      BY DoneFacts, <1>2 DEF Tx
    <2> QED
      BY <1>2, <1>4, <1>5, <2>2, <2>3, <2>4, <2>5
         DEF TxSound, CreationSound, SamplesLanded, QuoteInTime
  <1>6. CASE x.kind # "create"
    <2>1. Touched(x) = x.ids
      BY <1>6 DEF Touched
    <2>2. DOMAIN chain \subseteq DOMAIN chain'
      BY ExecuteGrows DEF Grows
    <2>3. ASSUME Executes(x), NEW i \in x.ids, x.svis[i] # None
          PROVE  x.svis[i] \in chain'[i].landed
      <3>1. i \in DOMAIN chain
        BY <1>1 DEF TxSound
      <3>2. chain'[i] = Effect(x, chain[i], i)
        BY <1>3, <1>6, <2>3, <3>1 DEF ChainAfter
      <3>3. chain[i] \in OnChain /\ i \in OracleIds /\ now \in Instants
        BY <3>1, ChainOf DEF Types
      <3> QED
        BY <1>1, <2>3, <3>2, <3>3, EffectFacts
    <2> QED
      BY <1>1, <1>2, <1>4, <1>6, <2>1, <2>2, <2>3
         DEF TxSound, CreationSound, SamplesLanded, QuoteInTime
  <1> QED
    BY <1>5, <1>6

LEMMA ExecuteSound == ASSUME Types, Sound, NEW x \in txs, Execute(x) PROVE Sound'
  <1>1. Grows /\ now' = now /\ oracles' = oracles /\ svi' = svi
    BY ExecuteGrows DEF Execute, caches
  <1>2. ASSUME NEW z \in txs PROVE z \in Tx /\ TxSound(z)'
    <2>1. z \in Tx /\ TxSound(z)
      BY DEF Types, TxTypes, Sound
    <2> QED
      BY <1>1, <2>1, SoundKept
  <1>3. ASSUME NEW y \in txs' PROVE TxSound(y)'
    <2>1. y \in txs \/ (\E z \in txs : y = Void(z)) \/ y = Done(x)
      BY ExecutedTxs
    <2>2. ASSUME NEW z \in txs, y = Void(z) PROVE TxSound(y)'
      <3>1. Alike(z, y)
        BY <1>2, <2>2, VoidFacts DEF Alike
      <3> QED
        BY <1>2, <3>1, SoundAlike
    <2>3. CASE y = Done(x)
      BY <2>3, ExecutedSound
    <2> QED
      BY <1>2, <2>1, <2>2, <2>3
  <1> QED
    BY <1>1, <1>3, MirrorKept, MarksKept DEF Sound

\* The answers: lastPushedAtMs is set to samples that have landed.
LEMMA AnsweredSound == ASSUME Types, Sound, NEW x \in txs, Answered(x) PROVE Sound'
  <1>1. txs' = txs \ {x} /\ chain' = chain /\ now' = now
    BY DEF Answered, PushAnswered, CreateAnswered, BootstrapAnswered, SettleAnswered,
       CompactAnswered, StepAnswered, AbortAnswered, StaleGasAnswered
  <1>2. x \in Tx /\ TxSound(x)
    BY DEF Types, TxTypes, Sound
  <1>3. \A y \in txs' : TxSound(y)'
    BY <1>1 DEF Sound, TxSound, CreationSound, SamplesLanded, QuoteInTime
  <1>4. Mirror'
    <2>1. CASE CreateAnswered(x)
      <3>1. x.kind = "create" /\ x.state = "ok"
        BY <2>1 DEF CreateAnswered, StepAnswered
      <3>2. \A i \in x.ids : i \in DOMAIN chain /\ chain[i].expiry = x.expiry
        BY <1>2, <3>1 DEF TxSound, CreationSound
      <3>3. DOMAIN oracles' = DOMAIN oracles \cup x.ids
            /\ \A i \in DOMAIN oracles' :
                 oracles'[i].expiry = IF i \in x.ids THEN x.expiry ELSE oracles[i].expiry
        BY <2>1, <3>1 DEF CreateAnswered, EventOf
      <3> QED
        BY <1>1, <3>2, <3>3 DEF Sound, Mirror
    <2>2. ASSUME DOMAIN oracles' \subseteq DOMAIN oracles,
                 \A i \in DOMAIN oracles' : oracles'[i].expiry = oracles[i].expiry
          PROVE  Mirror'
      BY <1>1, <2>2 DEF Sound, Mirror
    <2>3. \A i \in DOMAIN oracles : oracles[i] \in OracleState
      BY DEF Types, OracleTypes
    <2>4. CASE BootstrapAnswered(x)
      BY <2>2, <2>3, <2>4 DEF BootstrapAnswered, OracleState
    <2>5. CASE SettleAnswered(x)
      BY <2>2, <2>3, <2>5 DEF SettleAnswered, OracleState
    <2>6. CASE CompactAnswered(x)
      BY <2>2, <2>6 DEF CompactAnswered
    <2>7. CASE PushAnswered(x) \/ AbortAnswered(x) \/ StaleGasAnswered(x)
      <3>1. oracles' = oracles
        BY <2>7 DEF PushAnswered, AbortAnswered, StaleGasAnswered, service
      <3> QED
        BY <2>2, <3>1
    <2> QED
      BY <2>1, <2>4, <2>5, <2>6, <2>7 DEF Answered
  <1>5. SviMarkHonest'
    <2>1. \/ svi' = svi
          \/ x.state = "ok" /\ svi' = PushedMarks(x)
      BY DEF Answered, PushAnswered, CreateAnswered, BootstrapAnswered, SettleAnswered,
         CompactAnswered, StepAnswered, AbortAnswered, StaleGasAnswered, service, caches
    <2>2. CASE svi' = svi
      BY <1>1, <2>2 DEF Sound, SviMarkHonest
    <2>3. CASE x.state = "ok" /\ svi' = PushedMarks(x)
      <3>1. ASSUME NEW i \in OracleIds
            PROVE  svi'[i].pushed = IF x.svis[i] # None THEN x.svis[i] ELSE svi[i].pushed
        BY <2>3 DEF PushedMarks, Types, CacheTypes, SviSample
      <3>2. \A i \in OracleIds :
              x.svis[i] # None => i \in DOMAIN chain /\ x.svis[i] \in chain[i].landed
        BY <1>2, <2>3 DEF TxSound, SamplesLanded
      <3> QED
        BY <1>1, <3>1, <3>2 DEF Sound, SviMarkHonest
    <2> QED
      BY <2>1, <2>2, <2>3
  <1> QED
    BY <1>3, <1>4, <1>5 DEF Sound

\* A new sample inherits its mark.
LEMMA SviSound == ASSUME Types, Sound, SviArrive PROVE Sound'
  <1> DEFINE T(x) == IF x.kind = "bootstrap" /\ x.ids \subseteq Quoted
                     THEN [x EXCEPT !.mark = FALSE] ELSE x
  <1>1. txs' = {T(x) : x \in txs} /\ chain' = chain /\ now' = now /\ oracles' = oracles
    BY DEF SviArrive
  <1>2. Grows
    BY <1>1 DEF Grows
  <1>3. ASSUME NEW x \in txs, NEW w, w = T(x) PROVE TxSound(w)'
    <2>1. x \in Tx /\ TxSound(x)
      BY DEF Types, TxTypes, Sound
    <2>2. Alike(x, T(x))
      <3> DEFINE y == [x EXCEPT !.mark = FALSE]
      <3>1. Alike(x, y)
        BY <2>1 DEF Tx, Alike
      <3>2. Alike(x, x)
        BY DEF Alike
      <3> QED
        BY <3>1, <3>2
    <2> HIDE DEF T
    <2> QED
      BY <1>1, <1>2, <1>3, <2>1, <2>2, SoundKept, SoundAlike
  <1> HIDE DEF T
  <1>4. \A y \in txs' : TxSound(y)'
    BY <1>1, <1>3
  <1>5. \A i \in OracleIds : svi'[i].pushed = svi[i].pushed
    BY DEF SviArrive, Types, CacheTypes, SviSample
  <1> QED
    BY <1>1, <1>2, <1>4, <1>5, MirrorKept, MarksKept DEF Sound

\* Time passes no further than the pushes in flight allow.
LEMMA TickSound == ASSUME Types, Sound, Tick PROVE Sound'
  <1>1. /\ chain' = chain /\ txs' = txs /\ oracles' = oracles /\ svi' = svi
        /\ \A x \in txs : x.kind = "push" /\ x.state = "sent" => now' <= x.sentAt + LatencyMs
    BY DEF Tick
  <1>2. \A x \in txs' : TxSound(x)'
    BY <1>1 DEF Sound, TxSound, CreationSound, SamplesLanded, QuoteInTime
  <1>3. Grows
    BY <1>1 DEF Grows
  <1> QED
    BY <1>1, <1>2, <1>3, MirrorKept, MarksKept DEF Sound

LEMMA NextSound == Types /\ Inv /\ Sound /\ [Next]_vars => Sound'
  <1> SUFFICES ASSUME Types, Inv, Sound, [Next]_vars PROVE Sound'
    OBVIOUS
  <1>1. ASSUME \/ PushTickSkipped \/ PushTimerOpensWindow \/ ManagerTimer
               \/ LanesDrained \/ GasRefreshNoop \/ GasRefreshed \/ CreateLoopDone
               \/ LoopDone("bootstrap", "settle") \/ LoopDone("settle", "compact") \/ WindowDone
               \/ SpotArrives \/ ForwardsArrive
               \/ DrainTimedOut \/ GasRefreshThrows \/ DiscoveryThrows
               \/ UNCHANGED vars
        PROVE  Sound'
    <2>1. /\ chain' = chain /\ now' = now /\ oracles' = oracles /\ svi' = svi
          /\ txs' \subseteq txs
      BY <1>1 DEF PushTickSkipped, PushTimerOpensWindow, ManagerTimer, LanesDrained,
         GasRefreshNoop, GasRefreshed, CreateLoopDone, LoopDone, WindowDone, SpotArrives,
         ForwardsArrive, DrainTimedOut, GasRefreshThrows, DiscoveryThrows, WindowThrows,
         OnlyWindow, vars, service, caches
    <2> QED
      BY <2>1, QuietSound
  <1>2. ASSUME ManagerStep PROVE Sound'
    BY <1>1, <1>2, DiscoverSound, CreateSound, BootstrapSound, SettleSound DEF ManagerStep
  <1>3. ASSUME NEW l \in Lanes, LaneStep(l) PROVE Sound'
    BY <1>3, ExecuteSound, AnsweredSound DEF LaneStep
  <1>4. ASSUME NEW x \in txs, Drop(x) PROVE Sound'
    BY <1>4, QuietSound DEF Drop, service, caches
  <1>5. ASSUME Fault PROVE Sound'
    BY <1>1, <1>4, <1>5, DiesSound, LostSound DEF Fault
  <1> QED
    BY <1>1, <1>2, <1>3, <1>5, PushSound, SviSound, TickSound, BootSound DEF Next

\* The oracle feed never marks a sample as pushed that is not on chain, however answers
\* are lost or late, processes die and newer samples replace the one that was sent.
THEOREM MarksAreHonest == Spec => []SviMarkHonest
  <1>1. Sound => SviMarkHonest
    BY DEF Sound
  <1> QED
    BY <1>1, InitGated, NextGated, InitTypes, NextTyped, InitSound, NextSound, PTL DEF Spec

LEMMA SoundPushes == Types /\ Sound => PushNeverSettles
  <1> SUFFICES ASSUME Types, Sound, NEW x \in txs, x.kind = "push", x.state = "sent",
                      NEW i \in x.ids
               PROVE  now < chain[i].expiry
    BY DEF PushNeverSettles
  <1>1. now <= x.sentAt + LatencyMs /\ x.sentAt < chain[i].expiry - SafetyWindowMs
    BY DEF Sound, TxSound, QuoteInTime
  <1>2. i \in DOMAIN chain
    BY DEF Sound, TxSound
  <1>3. chain[i].expiry \in Nat
    BY <1>2, ChainOf DEF OnChain
  <1>4. x.sentAt \in Nat /\ now \in Nat
    <2>1. x.sentAt \in Instants \cup {0} /\ now \in Instants
      BY DEF Types, TxTypes, Tx
    <2>2. Instants \cup {0} \subseteq Nat
      BY TimesAreNatural
    <2> QED
      BY <2>1, <2>2, Zenon
  <1> QED
    BY <1>1, <1>3, <1>4, FeedAssumption

\* No push in flight reaches an oracle at its expiry: the safety window is long enough
\* for whatever push the feed sends, from the latency it assumes of the chain.
THEOREM PushesNeverSettle == Spec => []PushNeverSettles
  BY SoundPushes, InitGated, NextGated, InitTypes, NextTyped, InitSound, NextSound, PTL DEF Spec

-----------------------------------------------------------------------------
(* Which expiries are past.                                                  *)

\* An expiry that has come, and had come when the window in progress read the time.
Past(e) == e <= now /\ (mgr.phase = "discover" => e <= mgr.at)

\* The manager's own transactions are of the phase that it is in, on lane 0.
StepsInPhase ==
    \A x \in txs : x.kind # "push" => x.lane = 0 /\ (x.awaited => x.kind = mgr.phase)

\* Only an oracle whose expiry is past is settled, or about to be, or compacted.
Settling ==
    /\ StepsInPhase
    /\ mgr.phase = "discover" => mgr.at <= now
    /\ \A i \in DOMAIN chain : /\ chain[i].compacted => chain[i].settled
                               /\ chain[i].settled => Past(chain[i].expiry)
    /\ \A x \in txs : x.kind = "settle" => \A i \in x.ids : Past(chain[i].expiry)
    /\ \A i \in DOMAIN oracles :
        oracles[i].status = "pending_settlement" => oracles[i].expiry <= now

\* The clock does not go back, and a window reads it when it starts to discover.
Later ==
    /\ now <= now'
    /\ mgr'.phase = "discover" =>
        mgr'.at = now \/ (mgr.phase = "discover" /\ mgr'.at = mgr.at)

LEMMA Clock == ASSUME Types PROVE now \in Nat /\ mgr.at \in Nat
  <1>1. now \in Instants /\ mgr.at \in Instants \cup {0}
    BY DEF Types, WindowTypes
  <1>2. Instants \cup {0} \subseteq Nat
    BY TimesAreNatural
  <1> QED
    BY <1>1, <1>2, Zenon

LEMMA PastKept == ASSUME Types, Types', Later, NEW e \in Nat, Past(e) PROVE Past(e)'
  <1>1. now \in Nat /\ now' \in Nat /\ mgr.at \in Nat /\ mgr'.at \in Nat
    <2>1. now' \in Instants /\ mgr'.at \in Instants \cup {0} /\ Instants \cup {0} \subseteq Nat
      BY TimesAreNatural DEF Types, WindowTypes
    <2>2. now' \in Nat /\ mgr'.at \in Nat
      BY <2>1, Zenon
    <2> QED
      BY <2>2, Clock
  <1> QED
    BY <1>1 DEF Past, Later

LEMMA NextLater == ASSUME Types, Inv, Next PROVE Later
  <1>0. now \in Nat /\ IsWindow(mgr)
    BY Clock DEF Types, WindowTypes
  <1>1. ASSUME now' = now, mgr' = mgr \/ mgr'.phase # "discover" PROVE Later
    BY <1>0, <1>1 DEF Later
  <1>2. ASSUME OpenWindow \/ CloseWindow \/ (\E p \in Phases \ {"discover"} : Phase(p))
        PROVE  mgr'.phase # "discover"
    <2>1. ASSUME NEW p \in Phases \ {"discover"}, Phase(p) PROVE mgr'.phase = p
      BY <1>0, <2>1 DEF Phase, IsWindow
    <2>2. ASSUME OpenWindow
          PROVE  mgr'.phase = IF IdleLanes = Lanes THEN "refresh" ELSE "drain"
      BY <2>2 DEF OpenWindow, NoWindow
    <2>3. ASSUME CloseWindow PROVE mgr'.phase = "idle"
      BY <2>3 DEF CloseWindow, NoWindow
    <2> QED
      BY <1>2, <2>1, <2>2, <2>3
  <1>3. CASE Tick
    BY <1>0, <1>3, Clock, TimesAreNatural DEF Tick, Later
  <1>4. CASE PushTick \/ PushTickSkipped \/ SpotArrives \/ ForwardsArrive \/ SviArrive
    BY <1>1, <1>4 DEF PushTick, PushTickSkipped, SpotArrives, ForwardsArrive, SviArrive
  <1>5. CASE PushTimerOpensWindow \/ ManagerTimer \/ Boot
    BY <1>1, <1>2, <1>5 DEF PushTimerOpensWindow, ManagerTimer, Boot, OnlyWindow
  <1>6. ASSUME NEW l \in Lanes, LaneStep(l) PROVE Later
    <2>1. now' = now /\ mgr' = mgr
      BY <1>6 DEF LaneStep, Execute, Answered, PushAnswered, CreateAnswered, BootstrapAnswered,
         SettleAnswered, CompactAnswered, StepAnswered, AbortAnswered, StaleGasAnswered, service
    <2> QED
      BY <1>1, <2>1
  <1>7. CASE Fault
    <2>1. now' = now /\ (mgr' = mgr \/ CloseWindow)
      BY <1>7 DEF Fault, DrainTimedOut, GasRefreshThrows, DiscoveryThrows, ProcessDies, AnswerLost,
         Drop, WindowThrows, service
    <2> QED
      BY <1>1, <1>2, <2>1
  <1>8. CASE ManagerStep
    <2>1. now' = now
      BY <1>8 DEF ManagerStep, LanesDrained, GasRefreshNoop, GasRefreshed, ManagerDiscovers,
         CreateOracleStep, CreateLoopDone, BootstrapOracleStep, SettleOracleStep,
         CompactOracleStep, LoopDone, WindowDone, OnlyWindow, SubmitStep
    <2>2. CASE GasRefreshNoop \/ GasRefreshed
      <3>1. mgr' = [phase |-> "discover", at |-> now, todo |-> mgr.todo, ids |-> mgr.ids]
        BY <1>0, <2>2 DEF GasRefreshNoop, GasRefreshed, Refreshed, IsWindow
      <3>2. mgr'.at = now
        BY <3>1
      <3>3. now <= now'
        BY <1>0, <2>1
      <3> QED
        BY <3>2, <3>3, Zenon DEF Later
    <2>3. CASE LanesDrained \/ LoopDone("bootstrap", "settle") \/ LoopDone("settle", "compact")
               \/ WindowDone
      BY <1>1, <1>2, <2>1, <2>3 DEF LanesDrained, LoopDone, WindowDone, Phases
    <2>4. CASE ManagerDiscovers \/ CreateLoopDone
      <3>1. mgr'.phase # "discover"
        BY <1>0, <2>4 DEF ManagerDiscovers, CreateLoopDone, IsWindow
      <3> QED
        BY <1>1, <2>1, <3>1
    <2>5. CASE CreateOracleStep
      <3>1. mgr'.phase # "discover"
        BY <1>0, <2>5 DEF CreateOracleStep, IsWindow
      <3> QED
        BY <1>1, <2>1, <3>1
    <2>6. ASSUME NEW i \in OracleIds,
                 BootstrapOracleStep(i) \/ SettleOracleStep(i) \/ CompactOracleStep(i)
          PROVE  Later
      <3>1. mgr'.phase # "discover"
        BY <1>0, <2>6 DEF BootstrapOracleStep, SettleOracleStep, CompactOracleStep, Visit, IsWindow
      <3> QED
        BY <1>1, <2>1, <3>1
    <2> QED
      BY <1>8, <2>2, <2>3, <2>4, <2>5, <2>6 DEF ManagerStep
  <1> QED
    BY <1>3, <1>4, <1>5, <1>6, <1>7, <1>8 DEF Next

LEMMA NoSteps ==
    ASSUME Types, Inv, ~Stepping \/ NoStepInFlight
    PROVE  \A x \in txs : x.awaited => x.kind = "push"
  BY DEF Inv, NoStepInFlight, Awaited, Types, TxTypes, Tx

LEMMA SettlingKept ==
    ASSUME Types, Types', Sound, Settling, Later, StepsInPhase', chain' = chain,
           \A x \in txs' : x.kind = "settle" =>
                \A i \in x.ids : i \in DOMAIN chain /\ Past(chain[i].expiry),
           \A i \in DOMAIN oracles' : oracles'[i].status = "pending_settlement" =>
                oracles'[i].expiry <= now
    PROVE  Settling'
  <1>1. \A i \in DOMAIN chain : chain[i].expiry \in Nat
    BY ChainOf DEF OnChain
  <1>2. now \in Nat /\ now <= now' /\ now' \in Nat
    BY Clock, TimesAreNatural DEF Later, Types
  <1>3. (mgr.phase = "discover" => mgr.at <= now)'
    <2>1. mgr.at \in Nat
      BY Clock
    <2> QED
      BY <1>2, <2>1 DEF Later, Settling
  <1>4. \A i \in DOMAIN chain : Past(chain[i].expiry) => Past(chain[i].expiry)'
    BY <1>1, PastKept
  <1>5. \A i \in DOMAIN oracles' : oracles'[i].expiry \in Nat
    BY DEF Types, OracleTypes, OracleState
  <1>6. \A i \in DOMAIN oracles' : oracles'[i].status = "pending_settlement" =>
                                     oracles'[i].expiry <= now'
    BY <1>2, <1>5
  <1>7. \A i \in DOMAIN chain : /\ chain[i].compacted => chain[i].settled
                                /\ chain[i].settled => Past(chain[i].expiry)'
    BY <1>4 DEF Settling
  <1> QED
    BY <1>3, <1>4, <1>6, <1>7 DEF Settling

\* Settlements in flight and oracles that wait for one, where nothing is added.
LEMMA PastNow ==
    ASSUME Types, Sound, Settling
    PROVE  /\ \A x \in txs : x.kind = "settle" =>
                \A i \in x.ids : i \in DOMAIN chain /\ Past(chain[i].expiry)
           /\ \A i \in DOMAIN oracles : oracles[i].status = "pending_settlement" =>
                oracles[i].expiry <= now
  BY DEF Sound, TxSound, Settling

\* Steps that leave chain and oracles alone, and at most drop transactions.
LEMMA QuietSettling ==
    ASSUME Types, Types', Sound, Settling, Later, chain' = chain, oracles' = oracles,
           txs' \subseteq txs, mgr' = mgr \/ \A x \in txs' : x.awaited => x.kind = "push"
    PROVE  Settling'
  <1>1. StepsInPhase'
    BY DEF Settling, StepsInPhase
  <1> QED
    BY <1>1, SettlingKept, PastNow

\* The manager or the push loop submits a transaction.
LEMMA SubmitSettling ==
    ASSUME Types, Types', Sound, Settling, Later, chain' = chain, oracles' = oracles,
           NEW y, txs' = txs \cup {y}, mgr'.phase = mgr.phase,
           y.kind # "push" => y.lane = 0 /\ y.kind = mgr.phase,
           y.kind = "settle" => \A i \in y.ids : i \in DOMAIN chain /\ Past(chain[i].expiry)
    PROVE  Settling'
  <1>1. StepsInPhase'
    BY DEF Settling, StepsInPhase
  <1> QED
    BY <1>1, SettlingKept, PastNow

\* The status that discovery gives.
LEMMA DiscoverStatus ==
    ASSUME Types, NEW a \in BOOLEAN, NEW b \in BOOLEAN, NEW at \in Nat,
           NEW i \in DOMAIN DiscoverOracles(a, b, at)
    PROVE  /\ DiscoverOracles(a, b, at)[i].status = "pending_settlement" =>
                DiscoverOracles(a, b, at)[i].expiry <= at
           /\ DiscoverOracles(a, b, at)[i].status = "compacted" => chain[i].compacted
  <1> DEFINE st == ClassifyStatus(chain[i], i \in CompactedIds(b), at)
  <1>1. i \in DOMAIN chain
    BY DiscoverTypes
  <1>2. chain[i] \in OnChain
    BY <1>1, ChainOf
  <1>3. /\ DiscoverOracles(a, b, at)[i].status = st
        /\ DiscoverOracles(a, b, at)[i].expiry = chain[i].expiry
    BY DEF DiscoverOracles, Discovered
  <1>4. st = "compacted" => i \in CompactedIds(b)
    BY DEF ClassifyStatus
  <1>5. i \in CompactedIds(b) => chain[i].compacted
    BY DEF CompactedIds
  <1>6. st = "pending_settlement" => at >= chain[i].expiry
    BY DEF ClassifyStatus
  <1>7. chain[i].expiry \in Nat
    BY <1>2 DEF OnChain
  <1> HIDE DEF st
  <1> QED
    BY <1>3, <1>4, <1>5, <1>6, <1>7

LEMMA DiscoverSettling ==
    ASSUME Types, Types', Inv, Sound, Sound', Settling, Later, ManagerDiscovers PROVE Settling'
  <1>1. PICK a \in BOOLEAN, b \in BOOLEAN :
          oracles' = ReconcileLocalOracles(DiscoverOracles(a, b, mgr.at))
    BY DEF ManagerDiscovers
  <1>2. chain' = chain /\ txs' = txs /\ mgr.phase = "discover"
    BY DEF ManagerDiscovers
  <1>3. \A x \in txs : x.awaited => x.kind = "push"
    BY <1>2, NoSteps DEF Stepping
  <1>4. StepsInPhase'
    BY <1>2, <1>3 DEF Settling, StepsInPhase
  <1>5. mgr.at \in Nat /\ mgr.at <= now /\ now \in Nat
    BY <1>2, Clock DEF Settling
  <1> DEFINE f == DiscoverOracles(a, b, mgr.at)
             g == ReconcileLocalOracles(f)
  <1>6. /\ DOMAIN f \subseteq OracleIds /\ f \in [DOMAIN f -> OracleState]
        /\ \A i \in DOMAIN f : /\ f[i].expiry = chain[i].expiry
                               /\ f[i].status = "pending_settlement" => f[i].expiry <= mgr.at
    BY <1>5, DiscoverTypes, DiscoverStatus
  <1> HIDE DEF f
  <1>7. DOMAIN g \subseteq DOMAIN f /\ \A i \in DOMAIN g : g[i].status = f[i].status
    BY <1>6, ReconcileTypes
  <1> HIDE DEF g
  <1>8. oracles' = g
    BY <1>1 DEF f, g
  <1>9. ASSUME NEW i \in DOMAIN oracles', oracles'[i].status = "pending_settlement"
        PROVE  oracles'[i].expiry <= now
    <2>1. oracles'[i].expiry = chain[i].expiry
      BY <1>2 DEF Sound, Mirror
    <2>2. i \in DOMAIN f /\ f[i].status = "pending_settlement"
      BY <1>7, <1>8, <1>9
    <2>3. f[i].expiry \in Nat /\ f[i].expiry <= mgr.at /\ f[i].expiry = chain[i].expiry
      BY <1>6, <2>2 DEF OracleState
    <2> QED
      BY <1>5, <2>1, <2>3
  <1> QED
    BY <1>2, <1>4, <1>9, SettlingKept, PastNow

LEMMA BootSettling ==
    ASSUME Types, Types', Inv, Sound, Settling, Later, Boot PROVE Settling'
  <1>1. PICK a \in BOOLEAN, b \in BOOLEAN : oracles' = DiscoverOracles(a, b, now)
    BY DEF Boot, Booted
  <1>2. chain' = chain /\ txs' = txs /\ mode = "down"
    BY DEF Boot
  <1>3. \A x \in txs : x.awaited => x.kind = "push"
    BY <1>2, NoSteps DEF Stepping, Inv
  <1>4. StepsInPhase'
    BY <1>2, <1>3 DEF Settling, StepsInPhase
  <1>5. \A i \in DOMAIN oracles' : oracles'[i].status = "pending_settlement" =>
                                     oracles'[i].expiry <= now
    BY <1>1, Clock, DiscoverStatus
  <1> QED
    BY <1>2, <1>4, <1>5, SettlingKept, PastNow

\* The lifecycle steps: what is to be settled has expired.
LEMMA StepSettling ==
    ASSUME Types, Types', Sound, Settling, Later, NEW i \in OracleIds,
           BootstrapOracleStep(i) \/ SettleOracleStep(i) \/ CompactOracleStep(i)
    PROVE  Settling'
  <1>1. ASSUME NEW k \in {"bootstrap", "settle", "compact"}, Visit(k, i), NEW y,
               y.kind = k, y.ids = {i}, y.lane = 0, SubmitStep(y)
        PROVE  Settling'
    <2>1. mgr.phase = k /\ mgr'.phase = mgr.phase /\ i \in Due(k)
      BY <1>1 DEF Visit, Types, WindowTypes, IsWindow
    <2>2. ASSUME k = "settle" PROVE i \in DOMAIN chain /\ Past(chain[i].expiry)
      <3>1. i \in DOMAIN oracles /\ oracles[i].status = "pending_settlement"
        BY <2>1, <2>2 DEF Due
      <3> QED
        BY <2>1, <2>2, <3>1 DEF Settling, Sound, Mirror, Past
    <2> QED
      BY <1>1, <2>1, <2>2, SubmitSettling DEF SubmitStep
  <1>2. CASE BootstrapOracleStep(i)
    <2> DEFINE new == NewLaneTx(0, "bootstrap")
               c == [new.svis EXCEPT ![i] = svi[i].at]
               x == [new EXCEPT !.ids = {i}, !.caps = Lanes \ oracles[i].caps, !.svis = c]
    <2>1. new \in Tx /\ new.kind = "bootstrap" /\ new.lane = 0
      BY TxMade, ZeroIsALane DEF Kinds
    <2>2. SubmitStep(x)
      BY <1>2 DEF BootstrapOracleStep
    <2> HIDE DEF new, c
    <2>3. x.kind = "bootstrap" /\ x.ids = {i} /\ x.lane = 0
      BY <2>1 DEF Tx
    <2> HIDE DEF x
    <2> QED
      BY <1>1, <1>2, <2>2, <2>3 DEF BootstrapOracleStep
  <1>3. ASSUME NEW k \in {"settle", "compact"},
               SubmitStep([NewLaneTx(0, k) EXCEPT !.ids = {i}, !.caps = {0} \ oracles[i].caps]),
               Visit(k, i)
        PROVE  Settling'
    <2> DEFINE new == NewLaneTx(0, k)
               x == [new EXCEPT !.ids = {i}, !.caps = {0} \ oracles[i].caps]
    <2>1. new \in Tx /\ new.kind = k /\ new.lane = 0
      BY TxMade, ZeroIsALane DEF Kinds
    <2>2. SubmitStep(x)
      BY <1>3
    <2> HIDE DEF new
    <2>3. x.kind = k /\ x.ids = {i} /\ x.lane = 0
      BY <2>1 DEF Tx
    <2> HIDE DEF x
    <2> QED
      BY <1>1, <1>3, <2>2, <2>3
  <1> QED
    BY <1>2, <1>3 DEF SettleOracleStep, CompactOracleStep

LEMMA CreateSettling ==
    ASSUME Types, Types', Sound, Settling, Later, CreateOracleStep PROVE Settling'
  <1>1. PICK k \in DOMAIN mgr.todo :
          /\ mgr' = [mgr EXCEPT !.todo = SubSeq(@, k + 1, Len(@))]
          /\ SubmitStep([NewLaneTx(0, "create") EXCEPT !.tier = mgr.todo[k][1],
                                                       !.expiry = mgr.todo[k][2]])
    BY DEF CreateOracleStep
  <1> DEFINE new == NewLaneTx(0, "create")
             x == [new EXCEPT !.tier = mgr.todo[k][1], !.expiry = mgr.todo[k][2]]
  <1>2. new \in Tx /\ new.kind = "create" /\ new.lane = 0
    BY TxMade, ZeroIsALane DEF Kinds
  <1>3. SubmitStep(x) /\ mgr'.phase = mgr.phase /\ mgr.phase = "create"
    BY <1>1 DEF CreateOracleStep, Types, WindowTypes, IsWindow
  <1> HIDE DEF new
  <1>4. x.kind = "create" /\ x.lane = 0
    BY <1>2 DEF Tx
  <1> HIDE DEF x
  <1> QED
    BY <1>3, <1>4, SubmitSettling DEF SubmitStep

\* Only a settlement settles: a push never reaches an expired oracle.
LEMMA ExecuteSettling ==
    ASSUME Types, Types', Sound, Settling, Later, PushNeverSettles, NEW x \in txs, Execute(x)
    PROVE  Settling'
  <1>1. now' = now /\ mgr' = mgr /\ oracles' = oracles
    BY DEF Execute
  <1>2. x \in Tx /\ TxSound(x) /\ x.state = "sent" /\ x.expiry \in Nat
    BY DEF Types, TxTypes, Sound, Execute, Tx
  <1>3. \A e : Past(e)' <=> Past(e)
    BY <1>1 DEF Past
  <1>4. ASSUME NEW i \in DOMAIN chain'
        PROVE  /\ chain'[i].compacted => chain'[i].settled
               /\ chain'[i].settled => Past(chain'[i].expiry)
    <2>1. CASE chain' = chain
      BY <2>1 DEF Settling
    <2>2. CASE x.kind = "create" /\ chain' = Append(chain, NewOracle(x.expiry))
      <3>1. \/ i \in DOMAIN chain /\ chain'[i] = chain[i]
            \/ chain'[i] = NewOracle(x.expiry)
        BY <1>2, <2>2, AppendGrows DEF Execute
      <3> QED
        BY <3>1 DEF Settling, NewOracle
    <2>3. CASE /\ Executes(x) /\ x.kind # "create"
               /\ chain' = [j \in DOMAIN chain |->
                              IF j \in x.ids THEN Effect(x, chain[j], j) ELSE chain[j]]
      <3>1. i \in DOMAIN chain /\ i \in OracleIds /\ chain[i] \in OnChain /\ now \in Instants
        BY <2>3, ChainOf DEF Types
      <3>2. CASE i \notin x.ids
        BY <2>3, <3>1, <3>2 DEF Settling
      <3>3. CASE i \in x.ids
        <4>1. /\ chain'[i].expiry = chain[i].expiry
              /\ chain'[i].settled =
                   (chain[i].settled \/ (x.kind \in {"push", "settle"} /\ now >= chain[i].expiry))
              /\ chain'[i].compacted = (chain[i].compacted \/ x.kind = "compact")
          BY <1>2, <2>3, <3>1, <3>3, EffectFacts
        <4>2. x.kind = "compact" => chain[i].settled
          BY <2>3, <3>3 DEF Executes
        <4>3. x.kind = "settle" => Past(chain[i].expiry)
          BY <3>3 DEF Settling
        <4>4. x.kind = "push" => ~(now >= chain[i].expiry)
          <5>1. now \in Nat /\ chain[i].expiry \in Nat
            BY <3>1, Clock DEF OnChain
          <5> QED
            BY <1>2, <3>3, <5>1 DEF PushNeverSettles
        <4>5. /\ chain[i].compacted => chain[i].settled
              /\ chain[i].settled => Past(chain[i].expiry)
          BY <3>1 DEF Settling
        <4> QED
          BY <4>1, <4>2, <4>3, <4>4, <4>5
      <3> QED
        BY <3>2, <3>3
    <2> QED
      BY <2>1, <2>2, <2>3 DEF Execute, ChainAfter
  <1>5. ASSUME NEW y \in txs'
        PROVE  /\ y.kind # "push" => y.lane = 0 /\ (y.awaited => y.kind = mgr.phase)
               /\ y.kind = "settle" => \A i \in y.ids : Past(chain'[i].expiry)
    <2>1. \A i \in DOMAIN chain : chain'[i].expiry = chain[i].expiry
      BY ExecuteGrows DEF Grows
    <2>2. ASSUME NEW z \in txs
          PROVE  /\ z.kind # "push" => z.lane = 0 /\ (z.awaited => z.kind = mgr.phase)
                 /\ z.kind = "settle" => \A i \in z.ids : Past(chain'[i].expiry)
      BY <2>1 DEF Settling, StepsInPhase, Sound, TxSound
    <2>3. y \in txs \/ (\E z \in txs : y = Void(z)) \/ y = Done(x)
      BY ExecutedTxs
    <2>4. ASSUME NEW z \in txs, y = Void(z)
          PROVE  y.kind = z.kind /\ y.lane = z.lane /\ y.awaited = z.awaited /\ y.ids = z.ids
      <3>1. z \in Tx
        BY DEF Types, TxTypes
      <3> QED
        BY <2>4, <3>1, VoidFacts
    <2>5. ASSUME y = Done(x)
          PROVE  /\ y.kind = x.kind /\ y.lane = x.lane /\ y.awaited = x.awaited
                 /\ x.kind = "settle" => y.ids = x.ids
      BY <2>5, DoneFacts DEF Touched
    <2>6. ASSUME NEW z \in txs, y.kind = z.kind, y.lane = z.lane, y.awaited = z.awaited,
                 z.kind = "settle" => y.ids = z.ids
          PROVE  /\ y.kind # "push" => y.lane = 0 /\ (y.awaited => y.kind = mgr.phase)
                 /\ y.kind = "settle" => \A i \in y.ids : Past(chain'[i].expiry)
      BY <2>2, <2>6
    <2>7. CASE \E z \in txs : y = Void(z)
      BY <2>4, <2>6, <2>7
    <2>8. CASE y = Done(x)
      BY <2>5, <2>6, <2>8
    <2> QED
      BY <2>2, <2>3, <2>7, <2>8
  <1>6. /\ mgr'.phase = "discover" => mgr'.at <= now'
        /\ \A i \in DOMAIN oracles' : oracles'[i].status = "pending_settlement" =>
                                       oracles'[i].expiry <= now'
    BY <1>1 DEF Settling
  <1> QED
    BY <1>1, <1>3, <1>4, <1>5, <1>6 DEF Settling, StepsInPhase

\* The answers: an oracle that is settled, activated or gone does not wait any more.
LEMMA AnsweredSettling ==
    ASSUME Types, Types', Sound, Settling, Later, NEW x \in txs, Answered(x) PROVE Settling'
  <1>1. txs' = txs \ {x} /\ chain' = chain /\ mgr' = mgr
    BY DEF Answered, PushAnswered, CreateAnswered, BootstrapAnswered, SettleAnswered,
       CompactAnswered, StepAnswered, AbortAnswered, StaleGasAnswered, service
  <1>2. StepsInPhase'
    BY <1>1 DEF Settling, StepsInPhase
  <1>3. \A i \in DOMAIN oracles : oracles[i] \in OracleState
    BY DEF Types, OracleTypes
  <1>4. ASSUME NEW i \in DOMAIN oracles', oracles'[i].status = "pending_settlement"
        PROVE  i \in DOMAIN oracles /\ oracles'[i] = oracles[i]
    <2>1. CASE CreateAnswered(x)
      BY <1>4, <2>1 DEF CreateAnswered
    <2>2. CASE BootstrapAnswered(x)
      BY <1>3, <1>4, <2>2 DEF BootstrapAnswered, OracleState
    <2>3. CASE SettleAnswered(x)
      BY <1>3, <1>4, <2>3 DEF SettleAnswered, OracleState
    <2>4. CASE CompactAnswered(x)
      BY <1>4, <2>4 DEF CompactAnswered
    <2>5. CASE PushAnswered(x) \/ AbortAnswered(x) \/ StaleGasAnswered(x)
      BY <1>4, <2>5 DEF PushAnswered, AbortAnswered, StaleGasAnswered, service
    <2> QED
      BY <2>1, <2>2, <2>3, <2>4, <2>5 DEF Answered
  <1>5. \A i \in DOMAIN oracles' : oracles'[i].status = "pending_settlement" =>
                                     oracles'[i].expiry <= now
    BY <1>4, PastNow
  <1> QED
    BY <1>1, <1>2, <1>5, SettlingKept, PastNow

LEMMA LostSettling ==
    ASSUME Types, Types', Sound, Settling, Later, NEW x \in txs, AnswerLost(x) PROVE Settling'
  <1> DEFINE y == [x EXCEPT !.awaited = FALSE]
  <1>1. chain' = chain /\ oracles' = oracles /\ mgr' = mgr /\ txs' \subseteq txs \cup {y}
    BY DEF AnswerLost, service
  <1>2. y.kind = x.kind /\ y.lane = x.lane /\ ~y.awaited /\ y.ids = x.ids
    BY DEF Types, TxTypes, Tx
  <1> HIDE DEF y
  <1>3. StepsInPhase'
    BY <1>1, <1>2 DEF Settling, StepsInPhase
  <1>4. \A z \in txs' : z.kind = "settle" =>
          \A i \in z.ids : i \in DOMAIN chain /\ Past(chain[i].expiry)
    BY <1>1, <1>2, PastNow
  <1> QED
    BY <1>1, <1>3, <1>4, SettlingKept, PastNow

LEMMA DiesSettling ==
    ASSUME Types, Types', Sound, Settling, Later, ProcessDies PROVE Settling'
  <1> DEFINE T(x) == [x EXCEPT !.awaited = FALSE]
  <1>1. /\ chain' = chain /\ oracles' = <<>>
        /\ txs' = {T(x) : x \in {y \in txs : y.state = "sent" /\ y.valid}}
    BY DEF ProcessDies, Booted
  <1>2. \A x \in txs : T(x).kind = x.kind /\ T(x).lane = x.lane /\ ~T(x).awaited
                       /\ T(x).ids = x.ids
    BY DEF Types, TxTypes, Tx
  <1> HIDE DEF T
  <1>3. StepsInPhase'
    BY <1>1, <1>2 DEF Settling, StepsInPhase
  <1>4. \A z \in txs' : z.kind = "settle" =>
          \A i \in z.ids : i \in DOMAIN chain /\ Past(chain[i].expiry)
    BY <1>1, <1>2, PastNow
  <1>5. \A i \in DOMAIN oracles' : oracles'[i].expiry <= now
    BY <1>1
  <1> QED
    BY <1>1, <1>3, <1>4, <1>5, SettlingKept

LEMMA SviSettling ==
    ASSUME Types, Types', Sound, Settling, Later, SviArrive PROVE Settling'
  <1> DEFINE T(x) == IF x.kind = "bootstrap" /\ x.ids \subseteq Quoted
                     THEN [x EXCEPT !.mark = FALSE] ELSE x
  <1>1. chain' = chain /\ oracles' = oracles /\ mgr' = mgr /\ txs' = {T(x) : x \in txs}
    BY DEF SviArrive
  <1>2. \A x \in txs : T(x).kind = x.kind /\ T(x).lane = x.lane /\ T(x).awaited = x.awaited
                       /\ T(x).ids = x.ids
    BY DEF Types, TxTypes, Tx
  <1> HIDE DEF T
  <1>3. StepsInPhase'
    BY <1>1, <1>2 DEF Settling, StepsInPhase
  <1>4. \A z \in txs' : z.kind = "settle" =>
          \A i \in z.ids : i \in DOMAIN chain /\ Past(chain[i].expiry)
    BY <1>1, <1>2, PastNow
  <1> QED
    BY <1>1, <1>3, <1>4, SettlingKept, PastNow

LEMMA PushSettling ==
    ASSUME Types, Types', Inv, Sound, Settling, Later, PushTick PROVE Settling'
  <1>1. NextLane \in Lanes
    BY NextLaneIdle DEF PushTick, TickRuns, IdleLanes, Inv
  <1>2. PushTx.kind = "push"
    <2>1. NewLaneTx(NextLane, "push") \in Tx /\ NewLaneTx(NextLane, "push").kind = "push"
      BY <1>1, TxMade DEF Kinds
    <2> QED
      BY <2>1 DEF PushTx, Tx
  <1> QED
    BY <1>2, SubmitSettling DEF PushTick

LEMMA InitSettling == Init => Settling
  BY DEF Init, Settling, StepsInPhase, NoWindow

LEMMA NextSettling ==
    Types /\ Types' /\ Inv /\ Sound /\ Sound' /\ Settling /\ [Next]_vars => Settling'
  <1> SUFFICES ASSUME Types, Types', Inv, Sound, Sound', Settling, [Next]_vars PROVE Settling'
    OBVIOUS
  <1>1. CASE UNCHANGED vars
    BY <1>1 DEF vars, service, Settling, StepsInPhase, Past
  <1> SUFFICES ASSUME Next PROVE Settling'
    BY <1>1
  <1>2. Later
    BY NextLater
  <1>3. ASSUME PushTickSkipped \/ SpotArrives \/ ForwardsArrive \/ Tick PROVE Settling'
    BY <1>2, <1>3, QuietSettling DEF PushTickSkipped, SpotArrives, ForwardsArrive, Tick
  <1>4. ASSUME \/ PushTimerOpensWindow \/ ManagerTimer
               \/ LanesDrained \/ GasRefreshNoop \/ GasRefreshed \/ CreateLoopDone
               \/ LoopDone("bootstrap", "settle") \/ LoopDone("settle", "compact") \/ WindowDone
               \/ DrainTimedOut \/ GasRefreshThrows \/ DiscoveryThrows
        PROVE  Settling'
    <2>1. chain' = chain /\ oracles' = oracles /\ txs' \subseteq txs
      BY <1>4 DEF PushTimerOpensWindow, ManagerTimer, LanesDrained, GasRefreshNoop, GasRefreshed,
         CreateLoopDone, LoopDone, WindowDone, DrainTimedOut, GasRefreshThrows, DiscoveryThrows,
         WindowThrows, OnlyWindow
    <2>2. ~Stepping \/ NoStepInFlight
      BY <1>4 DEF PushTimerOpensWindow, ManagerTimer, LanesDrained, GasRefreshNoop, GasRefreshed,
         CreateLoopDone, LoopDone, WindowDone, DrainTimedOut, GasRefreshThrows, DiscoveryThrows,
         Stepping, ManagerInFlight
    <2> QED
      BY <1>2, <2>1, <2>2, NoSteps, QuietSettling
  <1>5. ASSUME ManagerStep PROVE Settling'
    BY <1>2, <1>4, <1>5, DiscoverSettling, CreateSettling, StepSettling DEF ManagerStep
  <1>6. ASSUME NEW l \in Lanes, LaneStep(l) PROVE Settling'
    BY <1>2, <1>6, ExecuteSettling, AnsweredSettling, SoundPushes DEF LaneStep
  <1>7. ASSUME NEW x \in txs, Drop(x) PROVE Settling'
    BY <1>2, <1>7, QuietSettling DEF Drop, service
  <1>8. ASSUME Fault PROVE Settling'
    BY <1>2, <1>4, <1>7, <1>8, DiesSettling, LostSettling DEF Fault
  <1> QED
    BY <1>2, <1>3, <1>4, <1>5, <1>6, <1>8, PushSettling, SviSettling, BootSettling DEF Next

-----------------------------------------------------------------------------
(* How many oracles an expiry may get.                                       *)

Creates == {x \in txs : x.kind = "create"}
Orphans == {x \in Creates : ~x.awaited}

\* The oracles of an expiry, and the creations that may still add to them.
Copies(e) == {j \in DOMAIN chain : chain[j].expiry = e}
Coming(e) == {x \in Creates : x.state = "sent" /\ x.valid /\ x.expiry = e}
Made(e) == Cardinality(Copies(e)) + Cardinality(Coming(e))

\* A creation the window awaits, which has succeeded or may still.
Hopeful(x) == x.awaited /\ (x.state = "ok" \/ (x.state = "sent" /\ x.valid))

\* The create loop may still come to want an oracle of this expiry.
Open(e) ==
    /\ mgr.phase = "create"
    /\ \E k \in DOMAIN mgr.todo : mgr.todo[k][2] = e
    /\ \A i \in DOMAIN oracles : oracles[i].expiry # e
    /\ \A x \in Creates : x.expiry = e => ~Hopeful(x)

\* Every creation out of the window's sight cost a fault, and so did every oracle but
\* one; where the loop may create, there is room for one more.
Counted ==
    /\ IsFiniteSet(Creates)
    /\ Cardinality(Orphans) <= faults
    /\ \A e \in Nat : Made(e) <= 1 + faults
    /\ \A e \in Nat : Open(e) => Made(e) <= faults

LEMMA CountTypes ==
    ASSUME Types, IsFiniteSet(Creates), NEW e
    PROVE  /\ IsFiniteSet(Copies(e)) /\ Cardinality(Copies(e)) \in Nat
           /\ IsFiniteSet(Coming(e)) /\ Cardinality(Coming(e)) \in Nat
           /\ IsFiniteSet(Orphans) /\ Cardinality(Orphans) \in Nat
           /\ Made(e) \in Nat /\ faults \in Nat
  <1>1. IsFiniteSet(DOMAIN chain)
    BY ChainOf, FS_Interval
  <1>2. Copies(e) \in SUBSET DOMAIN chain
    BY DEF Copies
  <1>3. Coming(e) \in SUBSET Creates /\ Orphans \in SUBSET Creates
    BY DEF Coming, Orphans
  <1>4. IsFiniteSet(Copies(e)) /\ IsFiniteSet(Coming(e)) /\ IsFiniteSet(Orphans)
    BY <1>1, <1>2, <1>3, FS_Subset
  <1>5. /\ Cardinality(Copies(e)) \in Nat /\ Cardinality(Coming(e)) \in Nat
        /\ Cardinality(Orphans) \in Nat
    BY <1>4, FS_CardinalityType
  <1>6. faults \in Nat
    BY FeedAssumption DEF Types
  <1> QED
    BY <1>4, <1>5, <1>6 DEF Made

\* Steps that add neither an oracle nor a creation.
LEMMA CountKept ==
    ASSUME Types, Types', Counted, chain' = chain, Creates' \subseteq Creates, faults <= faults',
           \A e \in Nat : Open(e)' => Open(e) \/ faults < faults' \/ Made(e) <= faults'
    PROVE  Counted'
  <1>1. IsFiniteSet(Creates')
    BY FS_Subset DEF Counted
  <1>2. /\ faults \in Nat /\ faults' \in Nat
        /\ Cardinality(Orphans) \in Nat /\ Cardinality(Orphans') \in Nat
        /\ Cardinality(Orphans') <= Cardinality(Orphans)
    <2>1. Orphans' \in SUBSET Orphans
      BY DEF Orphans
    <2>2. IsFiniteSet(Orphans) /\ Cardinality(Orphans) \in Nat /\ faults \in Nat
      BY CountTypes DEF Counted
    <2>3. faults' \in Nat
      BY FeedAssumption DEF Types
    <2> QED
      BY <2>1, <2>2, <2>3, FS_Subset, FS_CardinalityType
  <1>3. ASSUME NEW e \in Nat PROVE Made(e) \in Nat /\ Made(e)' \in Nat /\ Made(e)' <= Made(e)
    <2>1. Coming(e)' \in SUBSET Coming(e)
      BY DEF Coming
    <2>2. /\ IsFiniteSet(Coming(e)) /\ Cardinality(Coming(e)) \in Nat
          /\ Cardinality(Copies(e)) \in Nat /\ Made(e) \in Nat
      BY CountTypes DEF Counted
    <2>3. Cardinality(Coming(e)') \in Nat /\ Cardinality(Coming(e)') <= Cardinality(Coming(e))
      BY <2>1, <2>2, FS_Subset, FS_CardinalityType
    <2>4. Copies(e)' = Copies(e)
      BY DEF Copies
    <2>5. Made(e)' = Cardinality(Copies(e)) + Cardinality(Coming(e)')
      BY <2>4 DEF Made
    <2> QED
      BY <2>2, <2>3, <2>5 DEF Made
  <1>4. (Cardinality(Orphans) <= faults)'
    BY <1>2 DEF Counted
  <1>5. ASSUME NEW e \in Nat PROVE (Made(e) <= 1 + faults)' /\ (Open(e) => Made(e) <= faults)'
    <2>1. Made(e) <= 1 + faults /\ (Open(e) => Made(e) <= faults)
      BY DEF Counted
    <2>2. Open(e)' => Open(e) \/ faults < faults' \/ Made(e) <= faults'
      OBVIOUS
    <2>3. Made(e) \in Nat /\ Made(e)' \in Nat /\ Made(e)' <= Made(e)
      BY <1>3
    <2> QED
      BY <1>2, <2>1, <2>2, <2>3
  <1> QED
    BY <1>1, <1>4, <1>5 DEF Counted

\* One member changed, or left out.
LEMMA ReplaceCount ==
    ASSUME NEW S, NEW T, NEW a, NEW b, IsFiniteSet(S),
           T \subseteq (S \ {a}) \cup {b}, b \in T => a \in S \/ b \in S
    PROVE  IsFiniteSet(T) /\ Cardinality(T) \in Nat /\ Cardinality(T) <= Cardinality(S)
  <1>1. /\ IsFiniteSet(S \ {a}) /\ Cardinality(S) \in Nat
        /\ Cardinality(S \ {a}) = IF a \in S THEN Cardinality(S) - 1 ELSE Cardinality(S)
    BY FS_RemoveElement, FS_CardinalityType
  <1>2. CASE b \in T /\ a \in S
    <2>1. /\ IsFiniteSet((S \ {a}) \cup {b})
          /\ Cardinality((S \ {a}) \cup {b}) <= Cardinality(S)
          /\ Cardinality((S \ {a}) \cup {b}) \in Nat
      <3>1. /\ IsFiniteSet((S \ {a}) \cup {b})
            /\ Cardinality((S \ {a}) \cup {b}) =
                 IF b \in S \ {a} THEN Cardinality(S \ {a}) ELSE Cardinality(S \ {a}) + 1
        BY <1>1, FS_AddElement
      <3>2. Cardinality((S \ {a}) \cup {b}) \in Nat /\ Cardinality(S \ {a}) \in Nat
        BY <1>1, <3>1, FS_CardinalityType
      <3> QED
        BY <1>1, <1>2, <3>1, <3>2
    <2>2. T \in SUBSET ((S \ {a}) \cup {b})
      OBVIOUS
    <2>3. /\ IsFiniteSet(T) /\ Cardinality(T) <= Cardinality((S \ {a}) \cup {b})
          /\ Cardinality(T) \in Nat
      BY <2>1, <2>2, FS_Subset, FS_CardinalityType
    <2> QED
      BY <1>1, <2>1, <2>3
  <1>3. CASE T \subseteq S
    BY <1>3, FS_Subset, FS_CardinalityType
  <1>4. T \subseteq S \/ (b \in T /\ a \in S)
    OBVIOUS
  <1> QED
    BY <1>2, <1>3, <1>4

\* The service no longer awaits a creation: one fault, and the creation may be an orphan.
LEMMA LostCount ==
    ASSUME Types, Types', Counted, chain' = chain, faults' = faults + 1,
           NEW a \in Creates, NEW b, Creates' \subseteq (Creates \ {a}) \cup {b},
           b.state = a.state, b.valid = a.valid, b.expiry = a.expiry
    PROVE  Counted'
  <1>1. IsFiniteSet(Creates)
    BY DEF Counted
  <1>2. IsFiniteSet(Creates')
    BY <1>1, ReplaceCount
  <1>3. faults \in Nat /\ faults' \in Nat /\ faults' = faults + 1
    BY FeedAssumption DEF Types
  <1>4. (Cardinality(Orphans) <= faults)'
    <2>1. Orphans' \in SUBSET (Orphans \cup {b})
      BY DEF Orphans
    <2>2. IsFiniteSet(Orphans) /\ Cardinality(Orphans) \in Nat
      BY <1>1, CountTypes
    <2>3. /\ IsFiniteSet(Orphans \cup {b}) /\ Cardinality(Orphans \cup {b}) \in Nat
          /\ Cardinality(Orphans \cup {b}) <= Cardinality(Orphans) + 1
      <3>1. /\ IsFiniteSet(Orphans \cup {b})
            /\ Cardinality(Orphans \cup {b}) =
                 IF b \in Orphans THEN Cardinality(Orphans) ELSE Cardinality(Orphans) + 1
        BY <2>2, FS_AddElement
      <3> QED
        BY <2>2, <3>1
    <2>4. Cardinality(Orphans') <= Cardinality(Orphans \cup {b}) /\ Cardinality(Orphans') \in Nat
      BY <2>1, <2>3, FS_Subset, FS_CardinalityType
    <2>5. Cardinality(Orphans) <= faults
      BY DEF Counted
    <2> QED
      BY <1>3, <2>2, <2>3, <2>4, <2>5
  <1>5. ASSUME NEW e \in Nat PROVE Made(e)' <= 1 + faults /\ Made(e)' \in Nat
    <2>1. Coming(e)' \subseteq (Coming(e) \ {a}) \cup {b}
      BY DEF Coming
    <2>2. b \in Coming(e)' => a \in Coming(e)
      BY DEF Coming
    <2>3. IsFiniteSet(Coming(e)) /\ Cardinality(Coming(e)) \in Nat /\ Cardinality(Copies(e)) \in Nat
      BY <1>1, CountTypes
    <2>4. Cardinality(Coming(e)') \in Nat /\ Cardinality(Coming(e)') <= Cardinality(Coming(e))
      <3> DEFINE S == Coming(e)
                 T == Coming(e)'
      <3>1. IsFiniteSet(S) /\ T \subseteq (S \ {a}) \cup {b} /\ (b \in T => a \in S \/ b \in S)
        BY <2>1, <2>2, <2>3
      <3> HIDE DEF S, T
      <3>2. Cardinality(T) \in Nat /\ Cardinality(T) <= Cardinality(S)
        BY <3>1, ReplaceCount
      <3> QED
        BY <3>2 DEF S, T
    <2>5. Copies(e)' = Copies(e)
      BY DEF Copies
    <2>6. Made(e)' = Cardinality(Copies(e)) + Cardinality(Coming(e)')
      BY <2>5 DEF Made
    <2>7. Cardinality(Copies(e)) + Cardinality(Coming(e)) <= 1 + faults
      BY DEF Counted, Made
    <2> QED
      BY <1>3, <2>3, <2>4, <2>6, <2>7
  <1>6. ASSUME NEW e \in Nat PROVE (Made(e) <= 1 + faults)' /\ (Open(e) => Made(e) <= faults)'
    <2>1. Made(e)' <= 1 + faults /\ Made(e)' \in Nat
      BY <1>5
    <2> QED
      BY <1>3, <2>1
  <1> QED
    BY <1>2, <1>4, <1>6 DEF Counted

\* Nothing that may be created or is hoped for is forgotten.
LEMMA OpenKept ==
    ASSUME mgr' = mgr, DOMAIN oracles \subseteq DOMAIN oracles',
           \A i \in DOMAIN oracles : oracles'[i].expiry = oracles[i].expiry,
           \A x \in Creates : Hopeful(x) => x \in Creates'
    PROVE  \A e \in Nat : Open(e)' => Open(e)
  BY DEF Open, Hopeful

\* Steps that concern no creation, outside of the create loop or with its state kept.
LEMMA QuietCount ==
    ASSUME Types, Types', Counted, chain' = chain, Creates' \subseteq Creates,
           faults' \in Nat, faults <= faults',
           \/ mgr'.phase # "create"
           \/ mgr' = mgr /\ oracles' = oracles /\ \A x \in Creates : Hopeful(x) => x \in Creates'
    PROVE  Counted'
  <1>1. \A e \in Nat : Open(e)' => Open(e)
    <2>1. CASE mgr'.phase # "create"
      BY <2>1 DEF Open
    <2>2. CASE mgr' = mgr /\ oracles' = oracles /\ \A x \in Creates : Hopeful(x) => x \in Creates'
      BY <2>2, OpenKept
    <2> QED
      BY <2>1, <2>2
  <1> QED
    BY <1>1, CountKept

LEMMA PushCount == ASSUME Types, Types', Inv, Counted, PushTick PROVE Counted'
  <1>1. NextLane \in Lanes
    BY NextLaneIdle DEF PushTick, TickRuns, IdleLanes, Inv
  <1>2. PushTx.kind = "push"
    <2>1. NewLaneTx(NextLane, "push") \in Tx /\ NewLaneTx(NextLane, "push").kind = "push"
      BY <1>1, TxMade DEF Kinds
    <2> QED
      BY <2>1 DEF PushTx, Tx
  <1>3. Creates' = Creates
    BY <1>2 DEF PushTick, Creates
  <1>4. faults' = faults /\ faults \in Nat
    BY FeedAssumption DEF PushTick, Types
  <1>5. chain' = chain /\ mgr' = mgr /\ oracles' = oracles
    BY DEF PushTick
  <1> QED
    BY <1>3, <1>4, <1>5, QuietCount

LEMMA SviCount == ASSUME Types, Types', Counted, SviArrive PROVE Counted'
  <1> DEFINE T(x) == IF x.kind = "bootstrap" /\ x.ids \subseteq Quoted
                     THEN [x EXCEPT !.mark = FALSE] ELSE x
  <1>1. txs' = {T(x) : x \in txs}
    BY DEF SviArrive
  <1>2. \A x \in txs : T(x).kind = x.kind /\ (x.kind = "create" => T(x) = x)
    BY DEF Types, TxTypes, Tx
  <1> HIDE DEF T
  <1>3. Creates' = Creates
    BY <1>1, <1>2 DEF Creates
  <1>4. faults' = faults /\ faults \in Nat
    BY FeedAssumption DEF SviArrive, Types
  <1>5. chain' = chain /\ mgr' = mgr /\ oracles' = oracles
    BY DEF SviArrive
  <1> QED
    BY <1>3, <1>4, <1>5, QuietCount

\* The lifecycle steps after the create loop.
LEMMA StepCount ==
    ASSUME Types, Types', Counted, NEW i \in OracleIds,
           BootstrapOracleStep(i) \/ SettleOracleStep(i) \/ CompactOracleStep(i)
    PROVE  Counted'
  <1>1. mgr'.phase # "create" /\ chain' = chain /\ faults' = faults
    BY DEF BootstrapOracleStep, SettleOracleStep, CompactOracleStep, Visit, SubmitStep, Types,
       WindowTypes, IsWindow
  <1>2. ASSUME NEW k \in {"bootstrap", "settle", "compact"}, NEW s, NEW c, NEW y,
               y = [NewLaneTx(0, k) EXCEPT !.ids = {i}, !.caps = c, !.svis = s]
        PROVE  y.kind # "create"
    <2>1. NewLaneTx(0, k) \in Tx /\ NewLaneTx(0, k).kind = k
      BY TxMade, ZeroIsALane DEF Kinds
    <2> QED
      BY <1>2, <2>1 DEF Tx
  <1>3. ASSUME NEW k \in {"settle", "compact"}, NEW c, NEW y,
               y = [NewLaneTx(0, k) EXCEPT !.ids = {i}, !.caps = c]
        PROVE  y.kind # "create"
    <2>1. NewLaneTx(0, k) \in Tx /\ NewLaneTx(0, k).kind = k
      BY TxMade, ZeroIsALane DEF Kinds
    <2> QED
      BY <1>3, <2>1 DEF Tx
  <1>4. \E y : txs' = txs \cup {y} /\ y.kind # "create"
    <2>1. CASE BootstrapOracleStep(i)
      <3> DEFINE s == [NewLaneTx(0, "bootstrap").svis EXCEPT ![i] = svi[i].at]
                 c == Lanes \ oracles[i].caps
                 y == [NewLaneTx(0, "bootstrap") EXCEPT !.ids = {i}, !.caps = c, !.svis = s]
      <3>1. txs' = txs \cup {y}
        BY <2>1 DEF BootstrapOracleStep, SubmitStep
      <3>2. y.kind # "create"
        BY <1>2
      <3> QED
        BY <3>1, <3>2
    <2>2. CASE SettleOracleStep(i)
      BY <1>3, <2>2 DEF SettleOracleStep, SubmitStep
    <2>3. CASE CompactOracleStep(i)
      BY <1>3, <2>3 DEF CompactOracleStep, SubmitStep
    <2> QED
      BY <2>1, <2>2, <2>3
  <1>5. Creates' = Creates
    BY <1>4 DEF Creates
  <1>6. faults \in Nat
    BY FeedAssumption DEF Types
  <1> QED
    BY <1>1, <1>5, <1>6, QuietCount

\* An answer, or the end of hope for one.
LEMMA AnsweredCount ==
    ASSUME Types, Types', Sound, Settling, Counted, NEW x \in txs, Answered(x) PROVE Counted'
  <1>1. txs' = txs \ {x} /\ chain' = chain /\ mgr' = mgr /\ faults' = faults /\ faults \in Nat
    <2>1. txs' = txs \ {x} /\ chain' = chain /\ mgr' = mgr /\ faults' = faults
      BY DEF Answered, PushAnswered, CreateAnswered, BootstrapAnswered, SettleAnswered,
         CompactAnswered, StepAnswered, AbortAnswered, StaleGasAnswered, service
    <2>2. faults \in Nat
      BY FeedAssumption DEF Types
    <2> QED
      BY <2>1, <2>2
  <1>2. Creates' = Creates \ {x}
    BY <1>1 DEF Creates
  <1>3. \A i \in DOMAIN oracles : oracles[i] \in OracleState
    BY DEF Types, OracleTypes
  <1>4. CASE PushAnswered(x) \/ AbortAnswered(x) \/ StaleGasAnswered(x)
    <2>1. oracles' = oracles
      BY <1>4 DEF PushAnswered, AbortAnswered, StaleGasAnswered, service
    <2>2. x \notin Creates \/ ~Hopeful(x)
      BY <1>4 DEF PushAnswered, AbortAnswered, StaleGasAnswered, Awaited, Creates, Hopeful
    <2> QED
      BY <1>1, <1>2, <2>1, <2>2, QuietCount
  <1>5. CASE BootstrapAnswered(x) \/ SettleAnswered(x)
    <2>1. DOMAIN oracles' = DOMAIN oracles
      BY <1>5 DEF BootstrapAnswered, SettleAnswered
    <2>2. \A i \in DOMAIN oracles : oracles'[i].expiry = oracles[i].expiry
      BY <1>3, <1>5 DEF BootstrapAnswered, SettleAnswered, OracleState
    <2>3. x \notin Creates
      BY <1>5 DEF BootstrapAnswered, SettleAnswered, Creates
    <2>4. \A e \in Nat : Open(e)' => Open(e)
      BY <1>1, <1>2, <2>1, <2>2, <2>3, OpenKept
    <2> QED
      BY <1>1, <1>2, <2>4, CountKept
  <1>6. CASE CompactAnswered(x)
    <2>1. mgr.phase # "create"
      BY <1>6 DEF CompactAnswered, StepAnswered, Settling, StepsInPhase
    <2> QED
      BY <1>1, <1>2, <2>1, QuietCount
  <1>7. CASE CreateAnswered(x)
    <2>1. x.ids # {} /\ x.ids = EventOf(x)
      BY <1>7 DEF CreateAnswered, StepAnswered, EventOf, Sound, TxSound, CreationSound
    <2>2. ASSUME NEW e \in Nat, Open(e)' PROVE Open(e)
      <3>1. \A i \in EventOf(x) : i \in DOMAIN oracles' /\ oracles'[i].expiry = x.expiry
        BY <1>7 DEF CreateAnswered
      <3>2. x.expiry # e
        BY <2>1, <2>2, <3>1 DEF Open
      <3>3. \A y \in Creates : y.expiry = e => ~Hopeful(y)
        BY <1>2, <2>2, <3>2 DEF Open, Hopeful
      <3>4. \A i \in DOMAIN oracles : i \in DOMAIN oracles' /\ oracles'[i].expiry # e
        BY <1>7, <2>2 DEF CreateAnswered, Open
      <3>5. ASSUME NEW i \in DOMAIN oracles PROVE oracles[i].expiry # e
        <4>1. CASE i \in EventOf(x)
          <5>1. i \in DOMAIN chain /\ chain[i].expiry = x.expiry
            BY <1>7, <2>1, <4>1 DEF CreateAnswered, StepAnswered, Sound, TxSound, CreationSound
          <5> QED
            BY <3>2, <5>1 DEF Sound, Mirror
        <4>2. CASE i \notin EventOf(x)
          BY <1>7, <3>4, <4>2 DEF CreateAnswered
        <4> QED
          BY <4>1, <4>2
      <3> QED
        BY <1>1, <2>2, <3>3, <3>5 DEF Open
    <2> QED
      BY <1>1, <1>2, <2>2, CountKept
  <1> QED
    BY <1>4, <1>5, <1>6, <1>7 DEF Answered

LEMMA AnswerLostCount ==
    ASSUME Types, Types', Counted, NEW x \in txs, AnswerLost(x) PROVE Counted'
  <1> DEFINE y == [x EXCEPT !.awaited = FALSE]
  <1>1. /\ chain' = chain /\ oracles' = oracles /\ mgr' = mgr
        /\ txs' \subseteq (txs \ {x}) \cup {y} /\ faults' = faults + 1
    BY DEF AnswerLost, service
  <1>2. y.kind = x.kind /\ y.state = x.state /\ y.valid = x.valid /\ y.expiry = x.expiry
    BY DEF Types, TxTypes, Tx
  <1> HIDE DEF y
  <1>3. CASE x.kind = "create"
    <2>1. x \in Creates /\ Creates' \subseteq (Creates \ {x}) \cup {y}
      BY <1>1, <1>3 DEF Creates
    <2> QED
      BY <1>1, <1>2, <2>1, LostCount
  <1>4. CASE x.kind # "create"
    <2>1. Creates' \subseteq Creates
      BY <1>1, <1>2, <1>4 DEF Creates
    <2>2. faults \in Nat /\ faults' \in Nat /\ faults < faults' /\ faults <= faults'
      BY <1>1, FeedAssumption DEF Types
    <2> QED
      BY <1>1, <2>1, <2>2, CountKept
  <1> QED
    BY <1>3, <1>4

\* At most one creation is awaited: it is on lane 0.
LEMMA DiesCount ==
    ASSUME Types, Types', Inv, Settling, Counted, ProcessDies PROVE Counted'
  <1> DEFINE T(x) == [x EXCEPT !.awaited = FALSE]
  <1>1. /\ chain' = chain /\ faults' = faults + 1
        /\ txs' = {T(x) : x \in {y \in txs : y.state = "sent" /\ y.valid}}
    BY DEF ProcessDies
  <1>2. \A x \in txs : /\ T(x).kind = x.kind /\ T(x).state = x.state
                       /\ T(x).valid = x.valid /\ T(x).expiry = x.expiry
                       /\ ~x.awaited => T(x) = x
                       /\ ~T(x).awaited
    BY DEF Types, TxTypes, Tx
  <1> HIDE DEF T
  <1>3. CASE \A x \in Creates : ~x.awaited
    <2>1. Creates' \subseteq Creates
      BY <1>1, <1>2, <1>3 DEF Creates
    <2>2. faults \in Nat /\ faults' \in Nat /\ faults < faults' /\ faults <= faults'
      BY <1>1, FeedAssumption DEF Types
    <2> QED
      BY <1>1, <2>1, <2>2, CountKept
  <1>4. ASSUME NEW a \in Creates, a.awaited PROVE Counted'
    <2>1. a \in txs /\ a.kind = "create"
      BY DEF Creates
    <2>2. \A x \in Creates : x.awaited => x = a
      BY <1>4, <2>1 DEF Creates, Settling, StepsInPhase, Inv, OneTxPerLane
    <2>3. Creates' \subseteq (Creates \ {a}) \cup {T(a)}
      <3>1. ASSUME NEW y \in Creates', y # T(a) PROVE y \in Creates \ {a}
        <4>1. PICK x \in txs : y = T(x)
          BY <1>1, <3>1 DEF Creates
        <4>2. x \in Creates /\ x # a
          BY <1>2, <3>1, <4>1 DEF Creates
        <4>3. ~x.awaited
          BY <2>2, <4>2
        <4> QED
          BY <1>2, <4>1, <4>2, <4>3
      <3> QED
        BY <3>1
    <2>4. T(a).state = a.state /\ T(a).valid = a.valid /\ T(a).expiry = a.expiry
      BY <1>2, <2>1
    <2> QED
      BY <1>1, <2>3, <2>4, LostCount
  <1> QED
    BY <1>3, <1>4

\* The create loop submits a creation for an expiry that was open.
LEMMA CreateCount ==
    ASSUME Types, Types', Counted, CreateOracleStep PROVE Counted'
  <1>1. PICK k \in DOMAIN mgr.todo :
          /\ ~PassesOver(mgr.todo[k])
          /\ mgr' = [mgr EXCEPT !.todo = SubSeq(@, k + 1, Len(@))]
          /\ SubmitStep([NewLaneTx(0, "create") EXCEPT !.tier = mgr.todo[k][1],
                                                       !.expiry = mgr.todo[k][2]])
    BY DEF CreateOracleStep
  <1> DEFINE new == NewLaneTx(0, "create")
             y == [new EXCEPT !.tier = mgr.todo[k][1], !.expiry = mgr.todo[k][2]]
             e0 == mgr.todo[k][2]
  <1>2. new \in Tx /\ new.kind = "create" /\ new.state = "sent" /\ new.awaited
    BY TxMade, ZeroIsALane DEF Kinds
  <1>3. /\ txs' = txs \cup {y} /\ chain' = chain /\ oracles' = oracles /\ faults' = faults
        /\ mgr.phase = "create" /\ NoStepInFlight
    BY <1>1 DEF CreateOracleStep, SubmitStep
  <1>4. y.kind = "create" /\ y.state = "sent" /\ y.awaited /\ y.expiry = e0 /\ y.valid \in BOOLEAN
    <2> HIDE DEF new
    <2> QED
      BY <1>2 DEF Tx
  <1> HIDE DEF y
  <1>5. mgr.todo \in Seq(AllTiers \X Nat) /\ IsWindow(mgr)
    BY DEF Types, WindowTypes
  <1>6. e0 \in Nat /\ k \in 1 .. Len(mgr.todo) /\ Len(mgr.todo) \in Nat
    BY <1>5
  <1>7. mgr'.phase = "create" /\ mgr'.todo = SubSeq(mgr.todo, k + 1, Len(mgr.todo))
    BY <1>1, <1>3, <1>5 DEF IsWindow
  <1>8. \A n \in DOMAIN mgr'.todo : \E m \in DOMAIN mgr.todo : mgr'.todo[n] = mgr.todo[m]
    BY <1>5, <1>6, <1>7
  <1>9. \A x \in Creates : ~Hopeful(x)
    BY <1>3 DEF Creates, NoStepInFlight, Awaited, Kinds, Hopeful
  <1>10. Creates' = Creates \cup {y}
    BY <1>3, <1>4 DEF Creates
  <1>11. IsFiniteSet(Creates) /\ IsFiniteSet(Creates')
    BY <1>10, FS_AddElement DEF Counted
  <1>12. Orphans' = Orphans
    BY <1>4, <1>10 DEF Orphans
  <1>13. faults \in Nat /\ faults' = faults
    BY <1>3, FeedAssumption DEF Types
  <1> HIDE DEF e0
  <1>14. ASSUME NEW e \in Nat
         PROVE  /\ Made(e) \in Nat /\ Made(e)' \in Nat
                /\ Made(e)' <= Made(e) + 1
                /\ e # e0 \/ ~y.valid => Made(e)' = Made(e)
    <2>1. Coming(e)' = IF e = e0 /\ y.valid THEN Coming(e) \cup {y} ELSE Coming(e)
      BY <1>4, <1>10 DEF Coming
    <2>2. /\ IsFiniteSet(Coming(e)) /\ Cardinality(Coming(e)) \in Nat
          /\ Cardinality(Copies(e)) \in Nat
      BY <1>11, CountTypes
    <2>3. Copies(e)' = Copies(e)
      BY <1>3 DEF Copies
    <2>4. Cardinality(Coming(e) \cup {y}) =
            IF y \in Coming(e) THEN Cardinality(Coming(e)) ELSE Cardinality(Coming(e)) + 1
      BY <2>2, FS_AddElement
    <2>5. Made(e)' = Cardinality(Copies(e)) + Cardinality(Coming(e)')
      BY <2>3 DEF Made
    <2> QED
      BY <2>1, <2>2, <2>4, <2>5 DEF Made
  <1>15. Open(e0)
    <2>1. \A i \in DOMAIN oracles : oracles[i].expiry # e0
      BY <1>1 DEF PassesOver, Have, e0
    <2> QED
      BY <1>3, <1>9, <2>1 DEF Open, e0
  <1>16. ASSUME NEW e \in Nat PROVE (Made(e) <= 1 + faults)' /\ (Open(e) => Made(e) <= faults)'
    <2>1. Made(e) <= 1 + faults /\ (Open(e) => Made(e) <= faults)
      BY DEF Counted
    <2>2. Open(e)' => Open(e)
      BY <1>3, <1>7, <1>8, <1>9 DEF Open
    <2>3. Open(e)' => e # e0 \/ ~y.valid
      BY <1>4, <1>10 DEF Open, Hopeful
    <2>4. e = e0 => Made(e) <= faults
      BY <1>6, <1>15, <2>1 DEF e0
    <2> QED
      BY <1>13, <1>14, <2>1, <2>2, <2>3, <2>4
  <1> QED
    BY <1>11, <1>12, <1>13, <1>16 DEF Counted

\* Discovery opens only expiries that no oracle has, unless its read failed.
LEMMA DiscoverCount ==
    ASSUME Types, Types', Inv, Sound, Settling, Counted, ManagerDiscovers PROVE Counted'
  <1>1. PICK a \in BOOLEAN, b \in BOOLEAN :
          /\ faults' = faults + FaultCost(a, b)
          /\ oracles' = ReconcileLocalOracles(DiscoverOracles(a, b, mgr.at))
    BY DEF ManagerDiscovers
  <1>2. /\ chain' = chain /\ txs' = txs /\ mgr.phase = "discover"
        /\ mgr' = [mgr EXCEPT !.phase = "create", !.at = 0, !.todo = Wanted]
    BY DEF ManagerDiscovers
  <1>3. mgr'.todo = Wanted
    BY <1>2 DEF Types, WindowTypes, IsWindow
  <1>4. /\ faults \in Nat /\ faults' \in Nat /\ faults <= faults'
        /\ ~a => faults < faults'
    BY <1>1, FeedAssumption DEF Types, FaultCost
  <1>5. Creates' = Creates /\ IsFiniteSet(Creates)
    BY <1>2 DEF Creates, Counted
  <1>6. \A x \in Creates : ~x.awaited
    BY <1>2, NoSteps DEF Stepping, Creates
  <1>7. mgr.at \in Nat
    BY Clock
  <1>8. ASSUME NEW e \in Nat, Open(e)', a PROVE Made(e) <= faults'
    <2> DEFINE f == DiscoverOracles(a, b, mgr.at)
    <2>1. PICK k \in DOMAIN Wanted : Wanted[k][2] = e
      BY <1>3, <1>8 DEF Open
    <2>2. e > mgr.at /\ InferTier(e, TierSet) # NoTier
      BY <1>7, <2>1, WantedTypes
    <2>3. Copies(e) = {}
      <3>1. SUFFICES ASSUME NEW i \in DOMAIN chain, chain[i].expiry = e PROVE FALSE
        BY DEF Copies
      <3>2. i \in DOMAIN f
        BY <1>8, <2>2, <3>1, ChainOf DEF DiscoverOracles, DiscoveredIds
      <3>3. ~chain[i].compacted
        BY <1>2, <1>7, <2>2, <3>1 DEF Settling, Past
      <3>4. f[i].status # "compacted"
        BY <1>7, <3>2, <3>3, DiscoverStatus
      <3>5. i \in DOMAIN oracles'
        BY <1>1, <3>2, <3>4 DEF ReconcileLocalOracles
      <3>6. oracles'[i].expiry = e
        <4>1. f \in [DOMAIN f -> OracleState] /\ f[i].expiry = e
          BY <3>1, <3>2, DiscoverTypes
        <4>2. CASE i \in DOMAIN oracles
          <5>1. oracles[i] \in OracleState /\ oracles[i].expiry = e
            BY <3>1, <4>2 DEF Sound, Mirror, Types, OracleTypes
          <5>2. oracles'[i] = [oracles[i] EXCEPT !.status = f[i].status, !.caps = f[i].caps]
            BY <1>1, <3>2, <3>4, <4>2 DEF ReconcileLocalOracles
          <5> HIDE DEF f
          <5> QED
            BY <5>1, <5>2 DEF OracleState
        <4>3. CASE i \notin DOMAIN oracles
          <5>1. oracles'[i] = f[i]
            BY <1>1, <3>2, <3>4, <4>3 DEF ReconcileLocalOracles
          <5> QED
            BY <4>1, <5>1
        <4> QED
          BY <4>2, <4>3
      <3> QED
        BY <1>8, <3>5, <3>6 DEF Open
    <2>4. Coming(e) \in SUBSET Orphans
      BY <1>6 DEF Coming, Orphans
    <2>5. /\ IsFiniteSet(Orphans) /\ Cardinality(Orphans) \in Nat
          /\ Cardinality(Coming(e)) \in Nat /\ Cardinality(Copies(e)) \in Nat
      BY <1>5, CountTypes
    <2>6. Cardinality(Coming(e)) <= Cardinality(Orphans)
      BY <2>4, <2>5, FS_Subset
    <2>7. Cardinality(Copies(e)) = 0
      BY <2>3, FS_EmptySet
    <2>8. Cardinality(Orphans) <= faults
      BY DEF Counted
    <2> QED
      BY <1>4, <2>5, <2>6, <2>7, <2>8 DEF Made
  <1>9. \A e \in Nat : Open(e)' => Open(e) \/ faults < faults' \/ Made(e) <= faults'
    BY <1>4, <1>8
  <1> QED
    BY <1>2, <1>4, <1>5, <1>9, CountKept

\* An execution: a creation on its way becomes an oracle, and a rival on its lane is void.
LEMMA ExecuteCount ==
    ASSUME Types, Types', Inv, Sound, Settling, Counted, NEW x \in txs, Execute(x) PROVE Counted'
  <1>1. /\ mgr' = mgr /\ oracles' = oracles /\ faults' = faults /\ faults \in Nat
        /\ x.state = "sent" /\ x.valid
    <2>1. mgr' = mgr /\ oracles' = oracles /\ faults' = faults /\ x.state = "sent" /\ x.valid
      BY DEF Execute
    <2> QED
      BY <2>1, FeedAssumption DEF Types
  <1>2. IsFiniteSet(Creates) /\ x \in Tx
    BY DEF Counted, Types, TxTypes
  <1>3. \A z \in txs : z \in Tx
    BY DEF Types, TxTypes
  <1>4. ASSUME NEW y \in txs'
        PROVE  \/ y \in txs \ {x} /\ y.lane # x.lane
               \/ /\ ~y.valid
                  /\ \E z \in txs \ {x} : z.awaited /\ z.lane = x.lane /\ y = Void(z) /\ y.awaited
               \/ y = Done(x) /\ y.awaited /\ ~y.valid
    <2>1. CASE \E z \in txs \ {x} : z.awaited /\ z.lane = x.lane /\ y = Void(z)
      <3>1. PICK z \in txs \ {x} : z.awaited /\ z.lane = x.lane /\ y = Void(z)
        BY <2>1
      <3>2. y.awaited = z.awaited /\ y.valid = FALSE
        BY <1>3, <3>1, VoidFacts
      <3> QED
        BY <3>1, <3>2
    <2>2. CASE x.awaited /\ y = Done(x)
      BY <2>2, DoneFacts
    <2> QED
      BY <2>1, <2>2, ExecutedTxs
  <1>5. \E v : Creates' \subseteq (Creates \cup {v}) \cup {Done(x)}
    <2>1. CASE \E z \in txs \ {x} : z.awaited /\ z.lane = x.lane
      <3>1. PICK z \in txs \ {x} : z.awaited /\ z.lane = x.lane
        BY <2>1
      <3>2. \A w \in txs \ {x} : w.awaited /\ w.lane = x.lane => w = z
        BY <3>1 DEF Inv, OneTxPerLane
      <3>3. Creates' \subseteq (Creates \cup {Void(z)}) \cup {Done(x)}
        BY <1>4, <3>2 DEF Creates
      <3> QED
        BY <3>3
    <2>2. CASE ~\E z \in txs \ {x} : z.awaited /\ z.lane = x.lane
      <3>1. Creates' \subseteq (Creates \cup {x}) \cup {Done(x)}
        BY <1>4, <2>2 DEF Creates
      <3> QED
        BY <3>1
    <2> QED
      BY <2>1, <2>2
  <1>6. IsFiniteSet(Creates')
    <2>1. PICK v : Creates' \subseteq (Creates \cup {v}) \cup {Done(x)}
      BY <1>5
    <2>2. IsFiniteSet((Creates \cup {v}) \cup {Done(x)})
      BY <1>2, FS_AddElement
    <2> QED
      BY <2>1, <2>2, FS_Subset
  <1>7. (Cardinality(Orphans) <= faults)'
    <2>1. Orphans' \in SUBSET Orphans
      BY <1>4 DEF Orphans, Creates
    <2>2. IsFiniteSet(Orphans) /\ Cardinality(Orphans) \in Nat /\ Cardinality(Orphans) <= faults
      BY <1>2, CountTypes DEF Counted
    <2>3. Cardinality(Orphans') \in Nat /\ Cardinality(Orphans') <= Cardinality(Orphans)
      BY <2>1, <2>2, FS_Subset, FS_CardinalityType
    <2> QED
      BY <1>1, <2>2, <2>3
  <1>8. ASSUME NEW e \in Nat
        PROVE  IF x.kind = "create" /\ x.expiry = e
               THEN Copies(e)' = Copies(e) \cup {Len(chain) + 1} ELSE Copies(e)' = Copies(e)
    <2>1. CASE x.kind = "create"
      <3>1. Executes(x)
        BY <1>1, <2>1 DEF Executes, Sound, TxSound, CreationSound
      <3>2. chain' = Append(chain, NewOracle(x.expiry)) /\ Len(chain) < MaxOracles /\ x.expiry \in Nat
        BY <1>2, <2>1, <3>1 DEF Execute, ChainAfter, Tx
      <3>3. /\ DOMAIN chain' = DOMAIN chain \cup {Len(chain) + 1}
            /\ chain'[Len(chain) + 1].expiry = x.expiry
            /\ \A i \in DOMAIN chain : chain'[i] = chain[i]
        BY <3>2, AppendGrows DEF NewOracle
      <3> QED
        BY <2>1, <3>3 DEF Copies
    <2>2. CASE x.kind # "create"
      <3>1. CASE chain' = chain
        BY <2>2, <3>1 DEF Copies
      <3>2. CASE chain' = ChainAfter(x)
        <4>1. DOMAIN chain' = DOMAIN chain /\ \A i \in DOMAIN chain : chain'[i].expiry = chain[i].expiry
          BY <1>2, <2>2, <3>2, WriteGrows DEF ChainAfter, Grows
        <4> QED
          BY <2>2, <4>1 DEF Copies
      <3> QED
        BY <3>1, <3>2 DEF Execute
    <2> QED
      BY <2>1, <2>2
  <1>9. ASSUME NEW e \in Nat PROVE Coming(e)' \subseteq Coming(e) \ {x}
    BY <1>4 DEF Coming, Creates
  <1>10. ASSUME NEW e \in Nat
         PROVE  /\ Made(e) \in Nat /\ Made(e)' \in Nat /\ Made(e)' <= Made(e)
                /\ \A z \in Coming(e) \ {x} : z \notin Coming(e)' => Made(e)' + 1 <= Made(e)
    <2>1. /\ IsFiniteSet(Coming(e)) /\ Cardinality(Coming(e)) \in Nat
          /\ IsFiniteSet(Copies(e)) /\ Cardinality(Copies(e)) \in Nat
      BY <1>2, CountTypes
    <2>2. /\ IsFiniteSet(Coming(e) \ {x}) /\ Cardinality(Coming(e) \ {x}) \in Nat
          /\ Cardinality(Coming(e) \ {x}) =
               IF x \in Coming(e) THEN Cardinality(Coming(e)) - 1 ELSE Cardinality(Coming(e))
      BY <2>1, FS_RemoveElement, FS_CardinalityType
    <2>3. x \in Coming(e) <=> x.kind = "create" /\ x.expiry = e
      BY <1>1 DEF Coming, Creates
    <2>4. /\ Cardinality(Copies(e)') \in Nat
          /\ Cardinality(Copies(e)') <= Cardinality(Copies(e)) + (IF x \in Coming(e) THEN 1 ELSE 0)
      <3>1. Cardinality(Copies(e) \cup {Len(chain) + 1}) =
              IF Len(chain) + 1 \in Copies(e) THEN Cardinality(Copies(e))
                                              ELSE Cardinality(Copies(e)) + 1
        BY <2>1, FS_AddElement
      <3>2. CASE x.kind = "create" /\ x.expiry = e
        <4>1. Copies(e)' = Copies(e) \cup {Len(chain) + 1} /\ x \in Coming(e)
          BY <1>8, <2>3, <3>2
        <4> QED
          BY <2>1, <3>1, <4>1
      <3>3. CASE ~(x.kind = "create" /\ x.expiry = e)
        <4>1. Copies(e)' = Copies(e) /\ x \notin Coming(e)
          BY <1>8, <2>3, <3>3
        <4> QED
          BY <2>1, <4>1
      <3> QED
        BY <3>2, <3>3
    <2>5. Coming(e)' \in SUBSET (Coming(e) \ {x})
      BY <1>9
    <2>6. Cardinality(Coming(e)') \in Nat /\ Cardinality(Coming(e)') <= Cardinality(Coming(e) \ {x})
      BY <2>2, <2>5, FS_Subset, FS_CardinalityType
    <2>7. Made(e)' = Cardinality(Copies(e)') + Cardinality(Coming(e)')
      BY DEF Made
    <2>8. ASSUME NEW z \in Coming(e) \ {x}, z \notin Coming(e)'
          PROVE  Cardinality(Coming(e)') + 1 <= Cardinality(Coming(e) \ {x})
      <3>1. Coming(e)' \in SUBSET ((Coming(e) \ {x}) \ {z})
        BY <2>5, <2>8
      <3>2. /\ IsFiniteSet((Coming(e) \ {x}) \ {z})
            /\ Cardinality((Coming(e) \ {x}) \ {z}) = Cardinality(Coming(e) \ {x}) - 1
        BY <2>2, <2>8, FS_RemoveElement
      <3>3. Cardinality(Coming(e)') <= Cardinality((Coming(e) \ {x}) \ {z})
        BY <3>1, <3>2, FS_Subset
      <3> QED
        BY <2>2, <2>6, <3>2, <3>3
    <2>9. Made(e) = Cardinality(Copies(e)) + Cardinality(Coming(e))
      BY DEF Made
    <2>10. Cardinality(Copies(e)') + Cardinality(Coming(e) \ {x})
             <= Cardinality(Copies(e)) + Cardinality(Coming(e))
      BY <2>1, <2>2, <2>4
    <2>11. Made(e) \in Nat /\ Made(e)' \in Nat /\ Made(e)' <= Made(e)
      BY <2>1, <2>2, <2>4, <2>6, <2>7, <2>9, <2>10
    <2>12. ASSUME NEW z \in Coming(e) \ {x}, z \notin Coming(e)' PROVE Made(e)' + 1 <= Made(e)
      <3>1. Cardinality(Coming(e)') + 1 <= Cardinality(Coming(e) \ {x})
        BY <2>8, <2>12
      <3> QED
        BY <2>1, <2>2, <2>4, <2>6, <2>7, <2>9, <2>10, <3>1
    <2> QED
      BY <2>11, <2>12
  <1>11. ASSUME NEW e \in Nat, Open(e)', ~Open(e)
         PROVE  \E z \in Coming(e) \ {x} : z \notin Coming(e)'
    <2>1. PICK z \in Creates : z.expiry = e /\ Hopeful(z)
      BY <1>1, <1>11 DEF Open
    <2>2. z \in txs /\ z.kind = "create" /\ z.awaited
      BY <2>1 DEF Creates, Hopeful
    <2>3. z # x
      <3>1. SUFFICES ASSUME z = x PROVE FALSE
        OBVIOUS
      <3>2. Done(x) \in txs'
        BY <2>2, <3>1 DEF Execute, Done, Touched, Outcome
      <3>3. Executes(x)
        BY <1>1, <2>2, <3>1 DEF Executes, Sound, TxSound, CreationSound
      <3>4. /\ Done(x).kind = "create" /\ Done(x).expiry = e /\ Done(x).awaited
            /\ Done(x).state = "ok"
        BY <2>1, <2>2, <3>1, <3>3, DoneFacts DEF Outcome
      <3> QED
        BY <1>11, <3>2, <3>4 DEF Open, Creates, Hopeful
    <2>4. z \notin txs'
      BY <1>11, <2>1 DEF Open, Creates, Hopeful
    <2>5. z.lane = x.lane
      BY <2>2, <2>3, <2>4 DEF Execute
    <2>6. Void(z) \in txs'
      BY <2>2, <2>3, <2>5 DEF Execute, Void
    <2>7. /\ Void(z).kind = "create" /\ Void(z).expiry = e /\ Void(z).awaited
          /\ Void(z).state = z.state
      BY <1>3, <2>1, <2>2, VoidFacts
    <2>8. z.state # "ok"
      BY <1>11, <2>6, <2>7 DEF Open, Creates, Hopeful
    <2>9. z \in Coming(e)
      BY <2>1, <2>8 DEF Coming, Hopeful
    <2>10. z \notin Coming(e)'
      BY <2>4 DEF Coming, Creates
    <2> QED
      BY <2>3, <2>9, <2>10
  <1>12. ASSUME NEW e \in Nat PROVE (Made(e) <= 1 + faults)' /\ (Open(e) => Made(e) <= faults)'
    <2>1. Made(e) <= 1 + faults /\ (Open(e) => Made(e) <= faults)
      BY DEF Counted
    <2>2. Open(e)' /\ ~Open(e) => Made(e)' + 1 <= Made(e)
      BY <1>10, <1>11
    <2>3. Made(e) \in Nat /\ Made(e)' \in Nat /\ Made(e)' <= Made(e)
      BY <1>10
    <2> QED
      BY <1>1, <2>1, <2>2, <2>3
  <1> QED
    BY <1>6, <1>7, <1>12 DEF Counted

LEMMA InitCount == Init => Counted
  <1> SUFFICES ASSUME Init PROVE Counted
    OBVIOUS
  <1>1. Creates = {} /\ Orphans = {} /\ faults = 0
    BY DEF Init, Creates, Orphans
  <1>2. \A e : Copies(e) = {} /\ Coming(e) = {}
    BY <1>1 DEF Copies, Coming, Init
  <1>3. \A e : Made(e) = 0
    BY <1>2, FS_EmptySet DEF Made
  <1> QED
    BY <1>1, <1>3, FS_EmptySet DEF Counted

LEMMA NextCount ==
    Types /\ Types' /\ Inv /\ Sound /\ Settling /\ Counted /\ [Next]_vars => Counted'
  <1> SUFFICES ASSUME Types, Types', Inv, Sound, Settling, Counted, [Next]_vars PROVE Counted'
    OBVIOUS
  <1>0. faults \in Nat /\ faults' \in Nat /\ IsWindow(mgr)
    BY FeedAssumption DEF Types, WindowTypes
  <1>1. ASSUME chain' = chain, oracles' = oracles, txs' = txs, mgr' = mgr, faults' = faults
        PROVE  Counted'
    <2>1. Creates' = Creates
      BY <1>1 DEF Creates
    <2> QED
      BY <1>0, <1>1, <2>1, QuietCount
  <1>2. CASE UNCHANGED vars
    BY <1>1, <1>2 DEF vars, service
  <1> SUFFICES ASSUME Next PROVE Counted'
    BY <1>2
  <1>3. ASSUME PushTickSkipped \/ SpotArrives \/ ForwardsArrive \/ Tick PROVE Counted'
    BY <1>1, <1>3 DEF PushTickSkipped, SpotArrives, ForwardsArrive, Tick
  <1>4. ASSUME \/ PushTimerOpensWindow \/ ManagerTimer \/ Boot
               \/ LanesDrained \/ GasRefreshNoop \/ GasRefreshed \/ CreateLoopDone
               \/ LoopDone("bootstrap", "settle") \/ LoopDone("settle", "compact") \/ WindowDone
               \/ DrainTimedOut \/ GasRefreshThrows \/ DiscoveryThrows
        PROVE  Counted'
    <2>1. chain' = chain /\ txs' \subseteq txs
      BY <1>4 DEF PushTimerOpensWindow, ManagerTimer, Boot, LanesDrained, GasRefreshNoop,
         GasRefreshed, CreateLoopDone, LoopDone, WindowDone, DrainTimedOut, GasRefreshThrows,
         DiscoveryThrows, WindowThrows, OnlyWindow
    <2>2. Creates' \subseteq Creates
      BY <2>1 DEF Creates
    <2>3. faults <= faults'
      BY <1>0, <1>4 DEF PushTimerOpensWindow, ManagerTimer, Boot, LanesDrained, GasRefreshNoop,
         GasRefreshed, CreateLoopDone, LoopDone, WindowDone, DrainTimedOut, GasRefreshThrows,
         DiscoveryThrows, WindowThrows, OnlyWindow, FaultCost
    <2>4. mgr'.phase # "create"
      <3>1. CASE PushTimerOpensWindow \/ ManagerTimer \/ Boot
        BY <3>1 DEF PushTimerOpensWindow, ManagerTimer, Boot, OpenWindow, NoWindow
      <3>2. CASE \/ LanesDrained \/ LoopDone("bootstrap", "settle") \/ LoopDone("settle", "compact")
        BY <1>0, <3>2 DEF LanesDrained, LoopDone, Phase, IsWindow
      <3>3. CASE CreateLoopDone
        BY <1>0, <3>3 DEF CreateLoopDone, Phase, IsWindow
      <3>4. CASE GasRefreshNoop \/ GasRefreshed
        BY <1>0, <3>4 DEF GasRefreshNoop, GasRefreshed, Refreshed, IsWindow
      <3>5. CASE WindowDone \/ DrainTimedOut \/ GasRefreshThrows \/ DiscoveryThrows
        BY <3>5 DEF WindowDone, DrainTimedOut, GasRefreshThrows, DiscoveryThrows, WindowThrows,
           CloseWindow, NoWindow
      <3> QED
        BY <1>4, <3>1, <3>2, <3>3, <3>4, <3>5
    <2> QED
      BY <1>0, <2>1, <2>2, <2>3, <2>4, QuietCount
  <1>5. ASSUME ManagerStep PROVE Counted'
    BY <1>4, <1>5, DiscoverCount, CreateCount, StepCount DEF ManagerStep
  <1>6. ASSUME NEW l \in Lanes, LaneStep(l) PROVE Counted'
    BY <1>6, ExecuteCount, AnsweredCount DEF LaneStep
  <1>7. ASSUME NEW x \in txs, Drop(x) PROVE Counted'
    <2>1. ~x.awaited /\ chain' = chain /\ oracles' = oracles /\ mgr' = mgr /\ faults' = faults
      BY <1>7 DEF Drop, service
    <2>2. Creates' = Creates \ {x}
      BY <1>7 DEF Drop, Creates
    <2> QED
      BY <1>0, <2>1, <2>2, QuietCount DEF Hopeful
  <1>8. ASSUME Fault PROVE Counted'
    BY <1>4, <1>7, <1>8, DiesCount, AnswerLostCount DEF Fault
  <1> QED
    BY <1>3, <1>4, <1>5, <1>6, <1>8, PushCount, SviCount DEF Next

LEMMA CountedOnce == Types /\ Counted => OneOraclePerExpiry
  <1> SUFFICES ASSUME Types, Counted, NEW i \in DOMAIN chain
               PROVE  Cardinality({j \in DOMAIN chain : chain[j].expiry = chain[i].expiry})
                        <= 1 + faults
    BY DEF OneOraclePerExpiry
  <1> DEFINE e == chain[i].expiry
  <1>1. e \in Nat
    BY ChainOf DEF OnChain
  <1> HIDE DEF e
  <1>2. /\ Cardinality(Copies(e)) \in Nat /\ Cardinality(Coming(e)) \in Nat /\ faults \in Nat
        /\ Made(e) <= 1 + faults
    BY <1>1, CountTypes DEF Counted
  <1>3. Cardinality(Copies(e)) <= 1 + faults
    BY <1>2 DEF Made
  <1> QED
    BY <1>3 DEF Copies, e

\* An expiry gets one oracle, and at most one more per fault: failed reads, lost answers,
\* deaths and restarts cannot make the create loop duplicate it any other way.
THEOREM OneOracleEach == Spec => []OneOraclePerExpiry
  BY CountedOnce, InitGated, NextGated, InitTypes, NextTyped, InitSound, NextSound, InitSettling,
     NextSettling, InitCount, NextCount, PTL DEF Spec
=============================================================================
