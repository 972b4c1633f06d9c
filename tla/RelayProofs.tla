---------------------------- MODULE RelayProofs -----------------------------
(***************************************************************************)
(* Proofs about Relay, for any set of streams and clients, any page and    *)
(* ring limits, any events that fail to decode, and any number of crashes  *)
(* and restarts.                                                           *)
(*                                                                         *)
(* NoEventSkipped is not inductive: that the event applied next is the one *)
(* behind the cursor depends on the page, which was fetched some awaits    *)
(* ago.  PageFollows says that what is left of it still continues the      *)
(* cursor in memory.                                                       *)
(*                                                                         *)
(* RingFaithful and FeedJoinsUp are not inductive either: a sequence       *)
(* without gaps can be continued without one only if it reaches up to the  *)
(* cursor.  UpTo says that it does, of the ring and of what each client    *)
(* has been sent; it survives both what pushRing appends and what it       *)
(* evicts, and it implies Gapless.                                         *)
(***************************************************************************)
EXTENDS Relay, SequenceTheorems, WellFoundedInduction, TLAPS

\* What is left of a fetched page is the events right behind the cursor, and a loop
\* that is about to apply an event has one.
PageFollows ==
    \A s \in Streams :
        /\ \A j \in 1 .. Len(page[s]) : page[s][j] = mem[s] + j
        /\ poller[s] = "apply" => page[s] # <<>>

\* The cursors and the page name events that are on the chain.
WithinLog ==
    \A s \in Streams : /\ mem[s] + Len(page[s]) <= Len(log[s])
                       /\ disk[s] <= Len(log[s])

RelayInv == TypeOK /\ NoEventSkipped /\ PageFollows /\ WithinLog

-----------------------------------------------------------------------------
\* A set of naturals has a least element.
LEMMA LeastNatural ==
    ASSUME NEW T, T \subseteq Nat, T # {}
    PROVE  \E i \in T : \A j \in T : i <= j
<1>1. \E i \in T : \A j \in T : ~(<<j, i>> \in OpToRel(<, Nat))
  BY NatLessThanWellFounded, WFMin, Zenon
<1>2. ASSUME NEW i \in Nat, NEW j \in Nat, j < i PROVE <<j, i>> \in OpToRel(<, Nat)
  BY <1>2, Zenon DEF OpToRel
<1>3. \A i, j \in Nat : ~(j < i) => i <= j
  OBVIOUS
<1>4. QED
  BY <1>1, <1>2, <1>3, Zenon

\* pushRing's loop ends: there is a least number of events to drop.
LEMMA EvictionEnds ==
    ASSUME NEW all \in Seq(Event), RingMaxCount \in Nat
    PROVE  \E i \in EvictionStops(all) : \A j \in EvictionStops(all) : i <= j
<1>1. EvictionStops(all) \subseteq Nat
  BY DEF EvictionStops
<1>2. Len(all) \in EvictionStops(all)
  BY DEF EvictionStops
<1>3. QED
  BY <1>1, <1>2, LeastNatural

\* pushRing leaves a ring of events within the count.
LEMMA PushRingType ==
    ASSUME NEW r \in Seq(Event), NEW e \in Event, RelayAssumption
    PROVE  /\ PushRing(r, e) \in Seq(Event)
           /\ Len(PushRing(r, e)) <= RingMaxCount
<1> DEFINE all == Append(r, e)
           k == CHOOSE i \in EvictionStops(all) : \A j \in EvictionStops(all) : i <= j
<1>1. all \in Seq(Event) /\ RingMaxCount \in Nat
  BY DEF RelayAssumption
<1>2. k \in EvictionStops(all)
  <2> HIDE DEF all
  <2>1. \E i \in EvictionStops(all) : \A j \in EvictionStops(all) : i <= j
    BY <1>1, EvictionEnds
  <2>2. QED
    BY <2>1
<1>3. PushRing(r, e) = SubSeq(all, k + 1, Len(all))
  BY DEF PushRing
<1> HIDE DEF all, k
<1>4. k \in 0 .. Len(all) /\ Len(all) - k <= RingMaxCount
  BY <1>2 DEF EvictionStops
<1>5. \A i \in (k + 1) .. Len(all) : all[i] \in Event
  BY <1>1, <1>4
<1>6. Len(all) \in Nat
  BY <1>1
<1>7. /\ SubSeq(all, k + 1, Len(all)) \in Seq(Event)
      /\ Len(SubSeq(all, k + 1, Len(all))) =
            IF k + 1 <= Len(all) THEN Len(all) - (k + 1) + 1 ELSE 0
  BY <1>4, <1>5, <1>6, SubSeqProperties
<1>8. QED
  BY <1>1, <1>3, <1>4, <1>6, <1>7

-----------------------------------------------------------------------------
\* The relay starts with null cursors and nothing served.
LEMMA InitInv == RelayAssumption /\ Init => RelayInv
  BY DEF RelayAssumption, Init, RelayInv, TypeOK, NoEventSkipped, PageFollows, WithinLog

\* Fetching a page: the events right behind the cursor in memory.
LEMMA FetchInv ==
    ASSUME RelayAssumption, RelayInv, NEW s \in Streams, Fetch(s)
    PROVE  RelayInv'
<1>1. /\ Fetched(s) \in Seq(Nat \ {0})
      /\ mem[s] + Len(Fetched(s)) <= Len(log[s])
      /\ \A j \in 1 .. Len(Fetched(s)) : Fetched(s)[j] = mem[s] + j
      /\ mem[s] < Len(log[s]) => Len(Fetched(s)) # 0
  <2> DEFINE n == IF Len(log[s]) - mem[s] > PageLimit THEN PageLimit
                  ELSE Len(log[s]) - mem[s]
  <2>1. /\ mem[s] \in Nat /\ Len(log[s]) \in Nat /\ mem[s] <= Len(log[s])
        /\ PageLimit \in Nat \ {0}
    <3>1. /\ mem[s] \in Nat /\ page[s] \in Seq(Nat \ {0}) /\ log[s] \in Seq(Nat)
          /\ mem[s] + Len(page[s]) <= Len(log[s])
      BY DEF RelayInv, TypeOK, WithinLog
    <3>2. QED
      BY <3>1 DEF RelayAssumption
  <2>2. n \in Nat /\ mem[s] + n <= Len(log[s]) /\ (mem[s] < Len(log[s]) => n # 0)
    BY <2>1
  <2>3. Fetched(s) = [i \in 1 .. n |-> mem[s] + i]
    BY DEF Fetched
  <2> HIDE DEF n
  <2>4. \A i \in 1 .. n : mem[s] + i \in Nat \ {0}
    BY <2>1, <2>2
  <2>5. Fetched(s) \in Seq(Nat \ {0}) /\ Len(Fetched(s)) = n
    BY <2>2, <2>3, <2>4
  <2>6. QED
    BY <2>2, <2>3, <2>5
<1>2. /\ page' = [page EXCEPT ![s] = Fetched(s)]
      /\ more' = [more EXCEPT ![s] = Len(log[s]) - mem[s] > PageLimit]
      /\ poller' = [poller EXCEPT ![s] = IF mem[s] < Len(log[s]) THEN "apply" ELSE "sleep"]
      /\ UNCHANGED <<now, log, phase, restarts, mem, disk, memory, sockets, served>>
  BY DEF Fetch
<1>3. TypeOK'
  <2>1. page' \in [Streams -> Seq(Nat \ {0})]
    BY <1>1, <1>2 DEF RelayInv, TypeOK
  <2>2. more' \in [Streams -> BOOLEAN]
    <3> DEFINE b == Len(log[s]) - mem[s] > PageLimit
    <3>1. b \in BOOLEAN
      OBVIOUS
    <3>2. more' = [more EXCEPT ![s] = b] /\ more \in [Streams -> BOOLEAN]
      BY <1>2 DEF RelayInv, TypeOK
    <3> HIDE DEF b
    <3>3. QED
      BY <3>1, <3>2, Zenon
  <2>3. poller' \in [Streams -> {"ready", "apply", "write", "sleep", "backoff", "exited"}]
    BY <1>2 DEF RelayInv, TypeOK
  <2>4. QED
    BY <1>2, <2>1, <2>2, <2>3 DEF RelayInv, TypeOK, memory, sockets
<1>4. PageFollows'
  <2>1. /\ page'[s] = Fetched(s) /\ \A x \in Streams \ {s} : page'[x] = page[x]
        /\ \A x \in Streams \ {s} : poller'[x] = poller[x]
        /\ poller'[s] = "apply" => mem[s] < Len(log[s])
        /\ mem' = mem
    BY <1>2 DEF RelayInv, TypeOK
  <2>2. Len(Fetched(s)) # 0 => Fetched(s) # <<>>
    OBVIOUS
  <2>3. ASSUME NEW x \in Streams
        PROVE  /\ \A j \in 1 .. Len(page'[x]) : page'[x][j] = mem'[x] + j
               /\ poller'[x] = "apply" => page'[x] # <<>>
    <3>1. CASE x = s
      BY <1>1, <2>1, <2>2, <3>1
    <3>2. CASE x # s
      BY <2>1, <3>2 DEF RelayInv, PageFollows
    <3>3. QED
      BY <3>1, <3>2
  <2>4. QED
    BY <2>3 DEF PageFollows
<1>5. WithinLog'
  BY <1>1, <1>2 DEF RelayInv, TypeOK, WithinLog
<1>6. NoEventSkipped'
  BY <1>2 DEF RelayInv, NoEventSkipped
<1>7. QED
  BY <1>3, <1>4, <1>5, <1>6 DEF RelayInv

\* Applying an event: it is the one behind the cursor, and it joins what was served.
LEMMA ApplyInv ==
    ASSUME RelayAssumption, RelayInv, NEW s \in Streams, Apply(s)
    PROVE  RelayInv'
<1> DEFINE i == Head(page[s])
           e == [stream |-> s, pos |-> i, ts |-> log[s][i]]
<1>1. /\ page[s] \in Seq(Nat \ {0}) /\ page[s] # <<>> /\ Len(page[s]) \in Nat \ {0}
      /\ mem[s] \in Nat /\ Len(log[s]) \in Nat
      /\ log[s] \in Seq(Nat)
  BY DEF Apply, RelayInv, TypeOK, PageFollows
<1>2. i = page[s][1] /\ i = mem[s] + 1
  BY <1>1 DEF RelayInv, PageFollows
<1>3. i \in Nat \ {0} /\ i \in 1 .. Len(log[s]) /\ log[s][i] \in Nat
  <2> HIDE DEF i
  <2>1. mem[s] + Len(page[s]) <= Len(log[s])
    BY DEF RelayInv, WithinLog
  <2>2. i \in Nat \ {0} /\ i \in 1 .. Len(log[s])
    <3>1. mem[s] \in Nat /\ Len(page[s]) \in Nat \ {0} /\ Len(log[s]) \in Nat
      BY <1>1
    <3>2. i = mem[s] + 1
      BY <1>2
    <3>3. QED
      BY <2>1, <3>1, <3>2
  <2>3. QED
    BY <1>1, <2>2
<1>4. e \in Event
  BY <1>3 DEF Event
<1>5. /\ Tail(page[s]) \in Seq(Nat \ {0})
      /\ Len(Tail(page[s])) = Len(page[s]) - 1
      /\ \A j \in 1 .. Len(Tail(page[s])) : Tail(page[s])[j] = page[s][j + 1]
  BY <1>1, HeadTailProperties
<1>6. /\ ring' = PushRing(ring, e)
      /\ surface' = IF s = OracleStream THEN i ELSE surface
      /\ feed' = FanOut(e)
      /\ served' = [served EXCEPT ![s] = @ \cup {i}]
      /\ mem' = [mem EXCEPT ![s] = i]
      /\ page' = [page EXCEPT ![s] = Tail(@)]
      /\ poller' = [poller EXCEPT ![s] = "write"]
      /\ UNCHANGED <<now, log, phase, restarts, more, disk, open>>
  BY DEF Apply, CursorAfter, RingEvent, SurfaceAfter
<1>7. ring' \in Seq(Event)
  <2>1. ring \in Seq(Event)
    BY DEF RelayInv, TypeOK
  <2> HIDE DEF e
  <2>2. QED
    BY <1>4, <1>6, <2>1, PushRingType
<1>8. feed' \in [Clients -> Seq(Event)]
  <2> HIDE DEF e
  <2>1. \A c \in Clients : feed[c] \in Seq(Event) /\ Append(feed[c], e) \in Seq(Event)
    BY <1>4 DEF RelayInv, TypeOK
  <2>2. QED
    BY <1>6, <2>1 DEF FanOut
<1> HIDE DEF i, e
<1>9. TypeOK'
  BY <1>3, <1>5, <1>6, <1>7, <1>8 DEF RelayInv, TypeOK
<1>10. PageFollows'
  <2>1. /\ page'[s] = Tail(page[s]) /\ \A x \in Streams \ {s} : page'[x] = page[x]
        /\ mem'[s] = i /\ \A x \in Streams \ {s} : mem'[x] = mem[x]
        /\ poller'[s] = "write" /\ \A x \in Streams \ {s} : poller'[x] = poller[x]
    BY <1>6 DEF RelayInv, TypeOK
  <2>2. ASSUME NEW j \in 1 .. Len(page'[s]) PROVE page'[s][j] = mem'[s] + j
    <3>1. Tail(page[s])[j] = page[s][j + 1] /\ j + 1 \in 1 .. Len(page[s])
      BY <1>1, <1>5, <2>1
    <3>2. page[s][j + 1] = mem[s] + (j + 1)
      BY <3>1 DEF RelayInv, PageFollows
    <3>3. QED
      BY <1>1, <1>2, <2>1, <3>1, <3>2
  <2>3. ASSUME NEW x \in Streams
        PROVE  /\ \A j \in 1 .. Len(page'[x]) : page'[x][j] = mem'[x] + j
               /\ poller'[x] = "apply" => page'[x] # <<>>
    <3>1. CASE x = s
      BY <2>1, <2>2, <3>1
    <3>2. CASE x # s
      BY <2>1, <3>2 DEF RelayInv, PageFollows
    <3>3. QED
      BY <3>1, <3>2
  <2>4. QED
    BY <2>3 DEF PageFollows
<1>11. WithinLog'
  BY <1>1, <1>2, <1>5, <1>6 DEF RelayInv, TypeOK, WithinLog
<1>12. NoEventSkipped'
  <2>1. 1 .. i = (1 .. mem[s]) \cup {i}
    BY <1>1, <1>2
  <2>2. 1 .. i \subseteq served'[s] /\ 1 .. disk[s] \subseteq served'[s]
    BY <1>6, <2>1 DEF RelayInv, TypeOK, NoEventSkipped
  <2>3. QED
    BY <1>6, <2>2 DEF RelayInv, TypeOK, NoEventSkipped
<1>13. QED
  BY <1>9, <1>10, <1>11, <1>12 DEF RelayInv

\* A restart begins at the cursor files, with no page.
LEMMA RestartInv ==
    ASSUME RelayAssumption, RelayInv, NEW w \in Wipes, Restart(w)
    PROVE  RelayInv'
<1>1. /\ disk' = IF w THEN [s \in Streams |-> 0] ELSE disk
      /\ mem' = disk' /\ page' = [s \in Streams |-> <<>>]
      /\ poller' = [s \in Streams |-> "ready"] /\ more' = [s \in Streams |-> FALSE]
      /\ restarts' = restarts + 1 /\ phase' = "up" /\ ring' = <<>> /\ surface' = 0
      /\ UNCHANGED <<now, log, sockets, served>>
  BY DEF Restart, Loaded
<1>2. /\ disk' \in [Streams -> Nat]
      /\ \A s \in Streams : disk'[s] \in {0, disk[s]}
  BY <1>1 DEF RelayInv, TypeOK
<1>3. TypeOK'
  <2>1. page' \in [Streams -> Seq(Nat \ {0})] /\ ring' \in Seq(Event)
    BY <1>1
  <2>2. /\ poller' \in [Streams -> {"ready", "apply", "write", "sleep", "backoff", "exited"}]
        /\ more' \in [Streams -> BOOLEAN]
    BY <1>1, Zenon
  <2>3. QED
    BY <1>1, <1>2, <2>1, <2>2 DEF RelayInv, TypeOK, sockets
<1>4. PageFollows' /\ WithinLog'
  BY <1>1, <1>2 DEF RelayInv, TypeOK, PageFollows, WithinLog
<1>5. NoEventSkipped'
  <2>1. ASSUME NEW s \in Streams PROVE 1 .. disk'[s] \subseteq served[s]
    <3>1. CASE disk'[s] = disk[s]
      BY <3>1 DEF RelayInv, NoEventSkipped
    <3>2. CASE disk'[s] = 0
      BY <3>2
    <3>3. QED
      BY <1>2, <3>1, <3>2
  <2>2. QED
    BY <1>1, <2>1 DEF NoEventSkipped
<1>6. QED
  BY <1>3, <1>4, <1>5 DEF RelayInv

\* A step that leaves the cursors, the chain and what was served alone, and keeps
\* or abandons each page, preserves the three parts about cursors.
LEMMA CursorsKept ==
    ASSUME RelayInv, TypeOK', mem' = mem, disk' = disk, log' = log, served' = served,
           \A x \in Streams : \/ page'[x] = <<>> /\ poller'[x] # "apply"
                              \/ page'[x] = page[x] /\ (poller'[x] = "apply" =>
                                     poller[x] = "apply" \/ page[x] # <<>>)
    PROVE  RelayInv'
<1>1. NoEventSkipped'
  BY DEF RelayInv, NoEventSkipped
<1>2. PageFollows'
  BY DEF RelayInv, PageFollows
<1>3. ASSUME NEW x \in Streams
      PROVE  mem'[x] + Len(page'[x]) <= Len(log'[x]) /\ disk'[x] <= Len(log'[x])
  <2>1. /\ mem[x] \in Nat /\ page[x] \in Seq(Nat \ {0}) /\ log[x] \in Seq(Nat)
        /\ mem[x] + Len(page[x]) <= Len(log[x]) /\ disk[x] <= Len(log[x])
    BY DEF RelayInv, TypeOK, WithinLog
  <2>2. page'[x] = <<>> \/ page'[x] = page[x]
    OBVIOUS
  <2>3. Len(page[x]) \in Nat /\ Len(log[x]) \in Nat /\ Len(<<>>) = 0
    BY <2>1
  <2>4. QED
    BY <2>1, <2>2, <2>3
<1>4. QED
  BY <1>1, <1>2, <1>3 DEF RelayInv, WithinLog

\* Every step preserves the invariant.
LEMMA StepInv == RelayAssumption /\ RelayInv /\ [Next]_vars => RelayInv'
<1> SUFFICES ASSUME RelayAssumption, RelayInv, [Next]_vars PROVE RelayInv'
  OBVIOUS
<1> USE DEF process, memory, sockets
<1>1. CASE Tick
  BY <1>1 DEF Tick, RelayInv, TypeOK, NoEventSkipped, PageFollows, WithinLog
<1>2. ASSUME NEW s \in Streams, EmitEvent(s) PROVE RelayInv'
  <2>1. /\ log' = [log EXCEPT ![s] = Append(@, now)] /\ now \in Nat
        /\ UNCHANGED <<now, phase, restarts, process, disk, memory, sockets, served>>
    BY <1>2 DEF EmitEvent, RelayInv, TypeOK
  <2>2. log' \in [Streams -> Seq(Nat)]
    BY <2>1 DEF RelayInv, TypeOK
  <2>3. \A x \in Streams : /\ Len(log[x]) \in Nat /\ Len(log'[x]) \in Nat
                           /\ Len(log[x]) <= Len(log'[x])
    BY <2>1, <2>2 DEF RelayInv, TypeOK
  <2>4. TypeOK'
    BY <2>1, <2>2 DEF RelayInv, TypeOK
  <2>5. WithinLog'
    <3>1. ASSUME NEW x \in Streams
          PROVE  mem[x] + Len(page[x]) <= Len(log'[x]) /\ disk[x] <= Len(log'[x])
      <4>1. /\ mem[x] \in Nat /\ Len(page[x]) \in Nat /\ disk[x] \in Nat
            /\ mem[x] + Len(page[x]) <= Len(log[x]) /\ disk[x] <= Len(log[x])
        BY DEF RelayInv, TypeOK, WithinLog
      <4>2. QED
        BY <2>3, <4>1
    <3>2. QED
      BY <2>1, <3>1 DEF WithinLog
  <2>6. PageFollows' /\ NoEventSkipped'
    BY <2>1 DEF RelayInv, PageFollows, NoEventSkipped
  <2>7. QED
    BY <2>4, <2>5, <2>6 DEF RelayInv
<1>3. ASSUME NEW s \in Streams, Fetch(s) PROVE RelayInv'
  BY <1>3, FetchInv
<1>4. ASSUME NEW s \in Streams, FetchFails(s) \/ Wake(s) \/ ExitLoop(s) PROVE RelayInv'
  <2>1. TypeOK'
    BY <1>4 DEF FetchFails, Wake, ExitLoop, RelayInv, TypeOK
  <2>2. \A x \in Streams : page'[x] = page[x] /\ (poller'[x] = "apply" => poller[x] = "apply")
    BY <1>4 DEF FetchFails, Wake, ExitLoop, RelayInv, TypeOK
  <2>3. mem' = mem /\ disk' = disk /\ log' = log /\ served' = served
    BY <1>4 DEF FetchFails, Wake, ExitLoop
  <2>4. QED
    BY <2>1, <2>2, <2>3, CursorsKept
<1>5. ASSUME NEW s \in Streams, Apply(s) PROVE RelayInv'
  BY <1>5, ApplyInv
<1>6. ASSUME NEW s \in Streams, ApplyFails(s) \/ WriteFails(s) PROVE RelayInv'
  <2>1. /\ page' = [page EXCEPT ![s] = <<>>]
        /\ poller' = [poller EXCEPT ![s] = "backoff"]
        /\ UNCHANGED <<now, log, phase, restarts, more, mem, disk, memory, sockets, served>>
    BY <1>6 DEF ApplyFails, WriteFails, MemAfterFailure
  <2>2. page' \in [Streams -> Seq(Nat \ {0})]
    BY <2>1 DEF RelayInv, TypeOK
  <2>3. TypeOK'
    BY <2>1, <2>2 DEF RelayInv, TypeOK
  <2>4. \A x \in Streams : \/ page'[x] = <<>> /\ poller'[x] # "apply"
                           \/ page'[x] = page[x] /\ poller'[x] = poller[x]
    BY <2>1 DEF RelayInv, TypeOK
  <2>5. QED
    BY <2>1, <2>3, <2>4, CursorsKept
<1>7. ASSUME NEW s \in Streams, WriteDone(s) PROVE RelayInv'
  <2>1. /\ disk' = [disk EXCEPT ![s] = mem[s]]
        /\ poller' = [poller EXCEPT ![s] = IF page[s] # <<>> THEN "apply"
                                          ELSE IF more[s] THEN "ready" ELSE "sleep"]
        /\ UNCHANGED <<now, log, phase, restarts, page, more, mem, memory, sockets, served>>
    BY <1>7 DEF WriteDone
  <2>2. TypeOK'
    BY <2>1 DEF RelayInv, TypeOK
  <2>3. PageFollows'
    BY <2>1 DEF RelayInv, TypeOK, PageFollows
  <2>4. NoEventSkipped'
    BY <2>1 DEF RelayInv, TypeOK, NoEventSkipped
  <2>5. ASSUME NEW x \in Streams
        PROVE  mem[x] + Len(page[x]) <= Len(log[x]) /\ disk'[x] <= Len(log[x])
    <3>1. /\ mem[x] \in Nat /\ Len(page[x]) \in Nat /\ Len(log[x]) \in Nat
          /\ mem[x] + Len(page[x]) <= Len(log[x]) /\ disk[x] <= Len(log[x])
      <4>1. mem[x] \in Nat /\ page[x] \in Seq(Nat \ {0}) /\ log[x] \in Seq(Nat)
        BY DEF RelayInv, TypeOK
      <4>2. mem[x] + Len(page[x]) <= Len(log[x]) /\ disk[x] <= Len(log[x])
        BY DEF RelayInv, WithinLog
      <4> QED
        BY <4>1, <4>2
    <3>2. disk'[x] \in {disk[x], mem[x]}
      BY <2>1 DEF RelayInv, TypeOK
    <3>3. QED
      BY <3>1, <3>2
  <2>6. QED
    BY <2>1, <2>2, <2>3, <2>4, <2>5 DEF RelayInv, WithinLog
<1>8. ASSUME NEW c \in Clients, Connect(c) \/ Disconnect(c) PROVE RelayInv'
  <2>1. open' \subseteq Clients /\ feed' \in [Clients -> Seq(Event)]
    <3>1. open \subseteq Clients /\ feed \in [Clients -> Seq(Event)]
          /\ ring \in Seq(Event) /\ <<>> \in Seq(Event)
      BY DEF RelayInv, TypeOK
    <3>2. CASE Connect(c)
      BY <3>1, <3>2 DEF Connect, SnapshotFrame
    <3>3. CASE Disconnect(c)
      BY <3>1, <3>3 DEF Disconnect
    <3>4. QED
      BY <1>8, <3>2, <3>3
  <2>2. UNCHANGED <<now, log, phase, restarts, process, disk, memory, served>>
    BY <1>8 DEF Connect, Disconnect
  <2>3. TypeOK'
    BY <2>1, <2>2 DEF RelayInv, TypeOK
  <2>4. QED
    BY <2>2, <2>3, CursorsKept
<1>9. CASE Stop \/ Halt \/ Crash
  <2>1. open' \subseteq Clients /\ feed' \in [Clients -> Seq(Event)]
    <3>1. open \subseteq Clients /\ feed \in [Clients -> Seq(Event)]
          /\ <<>> \in Seq(Event)
      BY DEF RelayInv, TypeOK
    <3>2. \/ open' = {} /\ feed' = [c \in Clients |-> <<>>]
          \/ open' = open /\ feed' = feed
      BY <1>9 DEF Stop, Halt, Crash
    <3>3. QED
      BY <3>1, <3>2
  <2>2. /\ phase' \in {"stopping", "down"}
        /\ UNCHANGED <<now, log, restarts, process, disk, memory, served>>
    BY <1>9 DEF Stop, Halt, Crash
  <2>3. TypeOK'
    BY <2>1, <2>2 DEF RelayInv, TypeOK
  <2>4. QED
    BY <2>2, <2>3, CursorsKept
<1>10. ASSUME NEW w \in Wipes, Restart(w) PROVE RelayInv'
  BY <1>10, RestartInv
<1>11. CASE UNCHANGED vars
  BY <1>11 DEF vars, RelayInv, TypeOK, NoEventSkipped, PageFollows, WithinLog
<1>12. QED
  BY <1>1, <1>2, <1>3, <1>4, <1>5, <1>6, <1>7, <1>8, <1>9, <1>10, <1>11 DEF Next

\* The inductive invariant holds of every state of the relay.
LEMMA RelayInvariant == Spec => []RelayInv
<1>1. Init => RelayInv
  BY RelayAssumption, InitInv
<1>2. RelayInv /\ [Next]_vars => RelayInv'
  BY RelayAssumption, StepInv
<1>3. QED
  BY <1>1, <1>2, PTL DEF Spec

\* The state of the relay is well typed; in particular every event it applies is on
\* the chain, so that its timestamp can be read.
THEOREM RelayTypeOK == Spec => []TypeOK
<1>1. RelayInv => TypeOK
  BY DEF RelayInv
<1>2. QED
  BY <1>1, RelayInvariant, PTL

\* Neither cursor ever covers an event that the relay has not applied, whatever
\* crashes, restarts, failed calls and failed writes.
THEOREM RelayNoEventSkipped == Spec => []NoEventSkipped
<1>1. RelayInv => NoEventSkipped
  BY DEF RelayInv
<1>2. QED
  BY <1>1, RelayInvariant, PTL

-----------------------------------------------------------------------------
(* The ring and what clients have been sent.                                 *)

\* From each event of q on, q holds every event of its stream up to the cursor m, in
\* order and without repetition.
UpTo(q, m) ==
    \A s \in Streams : \A i \in Positions(q, s) :
        /\ q[i].pos <= m[s]
        /\ \A j \in Positions(q, s) : i < j => q[i].pos < q[j].pos
        /\ \A p \in q[i].pos .. m[s] : \E n \in i .. Len(q) :
               q[n].stream = s /\ q[n].pos = p

\* r is q without its first k events.
DropsFirst(r, q, k) ==
    /\ k \in 0 .. Len(q)
    /\ Len(r) = Len(q) - k
    /\ \A i \in 1 .. Len(r) : r[i] = q[k + i]

RingInv ==
    /\ Len(ring) <= RingMaxCount
    /\ UpTo(ring, mem)
    /\ surface \in {0, mem[OracleStream]}
    /\ phase # "up" => open = {}
    /\ \A c \in open : /\ UpTo(feed[c], mem)
                        /\ \E k \in Nat : DropsFirst(ring, feed[c], k)

\* A sequence that reaches up to the cursor has no gap.
LEMMA UpToGapless ==
    ASSUME NEW q \in Seq(Event), NEW m \in [Streams -> Nat], UpTo(q, m)
    PROVE  Gapless(q)
<1> SUFFICES ASSUME NEW s \in Streams, NEW i \in Positions(q, s), NEW j \in Positions(q, s), i < j
             PROVE  /\ q[i].pos < q[j].pos
                    /\ \A p \in q[i].pos .. q[j].pos : \E n \in i .. j :
                           q[n].stream = s /\ q[n].pos = p
  BY DEF Gapless
<1>1. /\ i \in 1 .. Len(q) /\ j \in 1 .. Len(q) /\ Len(q) \in Nat
      /\ q[i].pos \in Nat /\ q[j].pos \in Nat /\ m[s] \in Nat
      /\ q[i].pos < q[j].pos /\ q[j].pos <= m[s]
  <2>1. i \in 1 .. Len(q) /\ j \in 1 .. Len(q) /\ Len(q) \in Nat /\ m[s] \in Nat
    BY DEF Positions
  <2>2. q[i] \in Event /\ q[j] \in Event
    BY <2>1
  <2>3. q[i].pos \in Nat /\ q[j].pos \in Nat
    BY <2>2 DEF Event
  <2>4. q[i].pos < q[j].pos /\ q[j].pos <= m[s]
    BY DEF UpTo
  <2> QED
    BY <2>1, <2>3, <2>4
<1>2. ASSUME NEW p \in q[i].pos .. q[j].pos
      PROVE  \E n \in i .. j : q[n].stream = s /\ q[n].pos = p
  <2>1. p \in q[i].pos .. m[s] /\ p \in Nat /\ p <= q[j].pos
    BY <1>1, <1>2
  <2>2. PICK n \in i .. Len(q) : q[n].stream = s /\ q[n].pos = p
    BY <2>1 DEF UpTo
  <2>3. n \in 1 .. Len(q) /\ n \in Positions(q, s)
    BY <1>1, <2>2 DEF Positions
  <2>4. ~(j < n)
    <3> SUFFICES ASSUME j < n PROVE FALSE
      OBVIOUS
    <3>1. q[j].pos < q[n].pos
      BY <2>3 DEF UpTo
    <3> QED
      BY <1>1, <2>1, <2>2, <3>1
  <2>5. n \in i .. j
    BY <1>1, <2>2, <2>3, <2>4
  <2> QED
    BY <2>2, <2>5
<1> QED
  BY <1>1, <1>2

\* Appending the event behind the cursor, and moving the cursor to it.
LEMMA UpToAppend ==
    ASSUME NEW q \in Seq(Event), NEW m \in [Streams -> Nat], UpTo(q, m),
           NEW e \in Event, e.pos = m[e.stream] + 1
    PROVE  UpTo(Append(q, e), [m EXCEPT ![e.stream] = e.pos])
<1> DEFINE all == Append(q, e)
           L == Len(q)
           t == e.stream
           m2 == [m EXCEPT ![t] = e.pos]
<1>1. /\ all \in Seq(Event) /\ Len(all) = L + 1 /\ L \in Nat /\ all[L + 1] = e
      /\ (\A i \in 1 .. L : all[i] = q[i]) /\ DOMAIN all = 1 .. (L + 1) /\ DOMAIN q = 1 .. L
  OBVIOUS
<1>2. /\ t \in Streams /\ m[t] \in Nat /\ e.pos \in Nat /\ e.pos = m[t] + 1
      /\ m2 \in [Streams -> Nat] /\ m2[t] = e.pos
      /\ \A s \in Streams : s # t => m2[s] = m[s]
  BY DEF Event
<1> HIDE DEF all, L, t, m2
<1>3. ASSUME NEW i \in 1 .. L PROVE q[i].pos \in Nat
  <2>1. q[i] \in Event
    BY <1>1
  <2> QED
    BY <2>1 DEF Event
<1>4. ASSUME NEW s \in Streams, NEW i \in Positions(all, s), i \in 1 .. L
      PROVE  /\ i \in Positions(q, s) /\ q[i].pos \in Nat
             /\ q[i].pos <= m[s] /\ all[i] = q[i] /\ m[s] \in Nat
  BY <1>1, <1>3, <1>4 DEF Positions, UpTo
<1>5. ASSUME NEW s \in Streams, NEW i \in Positions(all, s)
      PROVE  all[i].pos <= m2[s]
  <2>1. CASE i \in 1 .. L
    BY <1>2, <1>4, <1>5, <2>1
  <2>2. CASE i = L + 1
    BY <1>1, <1>2, <2>2 DEF Positions, t
  <2> QED
    BY <1>1, <2>1, <2>2 DEF Positions
<1>6. ASSUME NEW s \in Streams, NEW i \in Positions(all, s), NEW j \in Positions(all, s), i < j
      PROVE  all[i].pos < all[j].pos
  <2>1. i \in 1 .. L /\ j \in 1 .. (L + 1)
    BY <1>1, <1>6 DEF Positions
  <2>2. CASE j \in 1 .. L
    <3>1. i \in Positions(q, s) /\ j \in Positions(q, s)
      BY <1>4, <2>1, <2>2
    <3>2. q[i].pos < q[j].pos
      BY <1>6, <3>1 DEF UpTo
    <3> QED
      BY <1>1, <2>1, <2>2, <3>2
  <2>3. CASE j = L + 1
    <3>1. s = t /\ all[j].pos = m[t] + 1
      BY <1>1, <1>2, <2>3 DEF Positions, t
    <3>2. all[i].pos <= m[s] /\ all[i].pos \in Nat
      BY <1>4, <2>1
    <3> QED
      BY <1>2, <3>1, <3>2
  <2> QED
    BY <1>1, <2>1, <2>2, <2>3
<1>7. ASSUME NEW s \in Streams, NEW i \in Positions(all, s), NEW p \in all[i].pos .. m2[s]
      PROVE  \E n \in i .. Len(all) : all[n].stream = s /\ all[n].pos = p
  <2>1. i \in 1 .. (L + 1) /\ all[i].stream = s
    BY <1>1 DEF Positions
  <2>2. CASE s = t /\ p = e.pos
    <3>1. L + 1 \in i .. Len(all) /\ all[L + 1].stream = s /\ all[L + 1].pos = p
      BY <1>1, <2>1, <2>2 DEF t
    <3> QED
      BY <3>1
  <2>3. CASE ~(s = t /\ p = e.pos)
    <3>1. i \in 1 .. L
      <4> SUFFICES ASSUME i = L + 1 PROVE FALSE
        BY <1>1, <2>1
      <4>1. s = t /\ all[i].pos = e.pos
        BY <1>1, <2>1 DEF t
      <4> QED
        BY <1>2, <2>3, <4>1
    <3>2. /\ i \in Positions(q, s) /\ all[i].pos = q[i].pos /\ q[i].pos \in Nat
          /\ m[s] \in Nat
      BY <1>4, <3>1
    <3>3. p \in q[i].pos .. m[s]
      BY <1>2, <2>3, <3>2
    <3>4. PICK n \in i .. L : q[n].stream = s /\ q[n].pos = p
      BY <3>2, <3>3 DEF UpTo, L
    <3>5. n \in 1 .. L /\ n \in i .. Len(all)
      BY <1>1, <3>1, <3>4
    <3> QED
      BY <1>1, <3>4, <3>5
  <2> QED
    BY <2>2, <2>3
<1>8. UpTo(all, m2)
  BY <1>5, <1>6, <1>7 DEF UpTo
<1> QED
  BY <1>8 DEF all, m2, t

\* Evicting from the head keeps what UpTo says of the rest.
LEMMA UpToDrops ==
    ASSUME NEW q \in Seq(Event), NEW r \in Seq(Event), NEW m \in [Streams -> Nat],
           NEW k \in Nat, DropsFirst(r, q, k), UpTo(q, m)
    PROVE  UpTo(r, m)
<1>1. /\ Len(q) \in Nat /\ Len(r) \in Nat /\ Len(r) = Len(q) - k
      /\ DOMAIN r = 1 .. Len(r) /\ DOMAIN q = 1 .. Len(q)
      /\ \A i \in 1 .. Len(r) : r[i] = q[k + i] /\ k + i \in 1 .. Len(q)
  BY DEF DropsFirst
<1>2. ASSUME NEW s \in Streams, NEW i \in Positions(r, s)
      PROVE  i \in 1 .. Len(r) /\ k + i \in Positions(q, s) /\ r[i] = q[k + i]
  BY <1>1 DEF Positions
<1>3. ASSUME NEW s \in Streams, NEW i \in Positions(r, s), NEW p \in r[i].pos .. m[s]
      PROVE  \E n \in i .. Len(r) : r[n].stream = s /\ r[n].pos = p
  <2>1. PICK n \in (k + i) .. Len(q) : q[n].stream = s /\ q[n].pos = p
    BY <1>2 DEF UpTo
  <2>2. n - k \in i .. Len(r) /\ n - k \in 1 .. Len(r) /\ k + (n - k) = n
    BY <1>1, <1>2, <2>1
  <2>3. r[n - k] = q[n]
    BY <1>1, <2>2
  <2> QED
    BY <2>1, <2>2, <2>3
<1>4. ASSUME NEW s \in Streams, NEW i \in Positions(r, s), NEW j \in Positions(r, s), i < j
      PROVE  r[i].pos < r[j].pos
  <2>1. /\ k + i \in Positions(q, s) /\ k + j \in Positions(q, s) /\ k + i < k + j
        /\ r[i] = q[k + i] /\ r[j] = q[k + j]
    BY <1>1, <1>2, <1>4
  <2> QED
    BY <2>1 DEF UpTo
<1>5. ASSUME NEW s \in Streams, NEW i \in Positions(r, s) PROVE r[i].pos <= m[s]
  BY <1>2 DEF UpTo
<1> QED
  BY <1>3, <1>4, <1>5 DEF UpTo

\* pushRing appends and drops from the head.
LEMMA PushRingDrops ==
    ASSUME NEW r \in Seq(Event), NEW e \in Event
    PROVE  \E k \in Nat : DropsFirst(PushRing(r, e), Append(r, e), k)
<1> DEFINE all == Append(r, e)
           k == CHOOSE i \in EvictionStops(all) : \A j \in EvictionStops(all) : i <= j
<1>1. all \in Seq(Event) /\ Len(all) \in Nat /\ RingMaxCount \in Nat
  BY RelayAssumption
<1>2. PushRing(r, e) = SubSeq(all, k + 1, Len(all))
  BY DEF PushRing
<1>3. k \in EvictionStops(all)
  <2> HIDE DEF all
  <2>1. \E i \in EvictionStops(all) : \A j \in EvictionStops(all) : i <= j
    BY <1>1, EvictionEnds
  <2> QED
    BY <2>1
<1> HIDE DEF all, k
<1>4. k \in 0 .. Len(all)
  BY <1>3 DEF EvictionStops
<1>5. \A i \in (k + 1) .. Len(all) : all[i] \in Event
  BY <1>1, <1>4
<1>6. /\ Len(SubSeq(all, k + 1, Len(all))) =
            (IF k + 1 <= Len(all) THEN Len(all) - (k + 1) + 1 ELSE 0)
      /\ \A i \in 1 .. Len(SubSeq(all, k + 1, Len(all))) :
            SubSeq(all, k + 1, Len(all))[i] = all[(k + 1) + i - 1]
  BY <1>1, <1>4, <1>5, SubSeqProperties
<1>7. /\ Len(SubSeq(all, k + 1, Len(all))) = Len(all) - k
      /\ \A i \in 1 .. Len(SubSeq(all, k + 1, Len(all))) :
            SubSeq(all, k + 1, Len(all))[i] = all[k + i]
  <2>1. \A i \in Nat : (k + 1) + i - 1 = k + i
    BY <1>4
  <2> QED
    BY <1>1, <1>4, <1>6, <2>1
<1>8. DropsFirst(PushRing(r, e), all, k) /\ k \in Nat
  BY <1>2, <1>4, <1>7 DEF DropsFirst
<1> QED
  BY <1>8 DEF all

\* Dropping from the head twice, with an append in between.
LEMMA DropsThrough ==
    ASSUME NEW q \in Seq(Event), NEW r \in Seq(Event), NEW z \in Seq(Event), NEW e \in Event,
           NEW k \in Nat, DropsFirst(r, q, k),
           NEW n \in Nat, DropsFirst(z, Append(r, e), n)
    PROVE  DropsFirst(z, Append(q, e), k + n)
<1>1. /\ Len(q) \in Nat /\ Len(r) \in Nat /\ Len(z) \in Nat
      /\ Len(Append(q, e)) = Len(q) + 1 /\ Len(Append(r, e)) = Len(r) + 1
      /\ Len(r) = Len(q) - k /\ Len(z) = Len(r) + 1 - n /\ n <= Len(r) + 1 /\ k <= Len(q)
  <2>1. /\ Len(q) \in Nat /\ Len(r) \in Nat /\ Len(z) \in Nat
        /\ Len(Append(q, e)) = Len(q) + 1 /\ Len(Append(r, e)) = Len(r) + 1
    OBVIOUS
  <2>2. /\ k \in 0 .. Len(q) /\ Len(r) = Len(q) - k
        /\ n \in 0 .. Len(Append(r, e)) /\ Len(z) = Len(Append(r, e)) - n
    BY DEF DropsFirst
  <2> QED
    BY <2>1, <2>2
<1>2. ASSUME NEW i \in 1 .. Len(z) PROVE z[i] = Append(q, e)[(k + n) + i]
  <2>1. z[i] = Append(r, e)[n + i] /\ n + i \in 1 .. (Len(r) + 1)
    <3>1. z[i] = Append(r, e)[n + i]
      BY Zenon DEF DropsFirst
    <3>2. n + i \in 1 .. (Len(r) + 1)
      BY <1>1
    <3> QED
      BY <3>1, <3>2
  <2>2. CASE n + i = Len(r) + 1
    <3>1. (k + n) + i = Len(q) + 1
      BY <1>1, <2>2
    <3>2. Append(r, e)[Len(r) + 1] = e /\ Append(q, e)[Len(q) + 1] = e
      OBVIOUS
    <3> QED
      BY <2>1, <2>2, <3>1, <3>2
  <2>3. CASE n + i \in 1 .. Len(r)
    <3>1. Append(r, e)[n + i] = r[n + i] /\ r[n + i] = q[k + (n + i)]
      <4>1. Append(r, e)[n + i] = r[n + i]
        BY <2>3
      <4>2. r[n + i] = q[k + (n + i)]
        BY <2>3, Zenon DEF DropsFirst
      <4> QED
        BY <4>1, <4>2
    <3>2. k + (n + i) \in 1 .. Len(q) /\ k + (n + i) = (k + n) + i
      BY <1>1, <2>3
    <3>3. Append(q, e)[k + (n + i)] = q[k + (n + i)]
      BY <3>2
    <3>4. z[i] = Append(q, e)[k + (n + i)]
      BY <2>1, <3>1, <3>3, Zenon
    <3> QED
      BY <3>2, <3>4, Zenon
  <2>4. n + i = Len(r) + 1 \/ n + i \in 1 .. Len(r)
    <3>1. Len(r) \in Nat /\ n + i \in 1 .. (Len(r) + 1)
      BY <1>1, <2>1
    <3>2. \A l \in Nat : \A x \in 1 .. (l + 1) : x = l + 1 \/ x \in 1 .. l
      OBVIOUS
    <3> QED
      BY <3>1, <3>2, Zenon
  <2> QED
    BY <2>2, <2>3, <2>4, Zenon
<1> QED
  BY <1>1, <1>2 DEF DropsFirst

\* The relay starts with an empty ring and no client.
LEMMA RingInit == Init => RingInv
<1> SUFFICES ASSUME Init PROVE RingInv
  OBVIOUS
<1>1. ring = <<>> /\ surface = 0 /\ open = {} /\ phase = "up"
  BY DEF Init
<1>2. UpTo(ring, mem)
  BY <1>1 DEF UpTo, Positions
<1> QED
  BY <1>1, <1>2, RelayAssumption DEF RingInv, RelayAssumption

\* A step that leaves the ring, the cursors in memory and the sockets alone, and
\* keeps the process up while a client is connected.
LEMMA RingQuiet ==
    ASSUME RingInv, ring' = ring, mem' = mem, surface' = surface, feed' = feed, open' = open,
           phase' = phase \/ open = {}
    PROVE  RingInv'
<1>1. /\ Len(ring') <= RingMaxCount /\ surface' \in {0, mem'[OracleStream]}
      /\ phase' # "up" => open' = {}
  BY DEF RingInv
<1>2. UpTo(ring, mem)' /\ \A c \in open' : UpTo(feed[c], mem)'
  BY DEF RingInv, UpTo, Positions
<1>3. \A c \in open' : \E k \in Nat : DropsFirst(ring, feed[c], k)'
  BY DEF RingInv, DropsFirst
<1> QED
  BY <1>1, <1>2, <1>3 DEF RingInv

\* Applying an event: the ring and every open feed are continued by the event behind
\* the cursor, and the ring loses events at its head only.
LEMMA RingApply ==
    ASSUME RelayInv, RingInv, NEW s \in Streams, Apply(s)
    PROVE  RingInv'
<1> DEFINE e == RingEvent(s, Head(page[s]))
           next == [mem EXCEPT ![e.stream] = e.pos]
<1>1. /\ page[s] \in Seq(Nat \ {0}) /\ page[s] # <<>> /\ Len(page[s]) \in Nat \ {0}
      /\ mem[s] \in Nat /\ Len(log[s]) \in Nat /\ log[s] \in Seq(Nat)
  BY DEF Apply, RelayInv, TypeOK, PageFollows
<1>2. Head(page[s]) = mem[s] + 1
  BY <1>1 DEF RelayInv, PageFollows
<1>3. mem[s] + 1 \in Nat \ {0} /\ log[s][mem[s] + 1] \in Nat
  <2>1. mem[s] + Len(page[s]) <= Len(log[s])
    BY DEF RelayInv, WithinLog
  <2>2. mem[s] + 1 \in 1 .. Len(log[s])
    BY <1>1, <2>1
  <2> QED
    BY <1>1, <2>2
<1>4. e \in Event /\ e.stream = s /\ e.pos = mem[s] + 1
  BY <1>2, <1>3 DEF RingEvent, Event
<1>5. /\ ring' = PushRing(ring, e) /\ feed' = FanOut(e)
      /\ surface' = (IF s = OracleStream THEN mem[s] + 1 ELSE surface)
      /\ mem' = [mem EXCEPT ![s] = mem[s] + 1]
      /\ open' = open /\ phase' = "up"
  BY <1>2 DEF Apply, CursorAfter, SurfaceAfter
<1>6. /\ ring \in Seq(Event) /\ mem \in [Streams -> Nat] /\ open \subseteq Clients
      /\ feed \in [Clients -> Seq(Event)]
  BY DEF RelayInv, TypeOK
<1> HIDE DEF e
<1>7. next = mem' /\ mem' \in [Streams -> Nat]
  BY <1>3, <1>4, <1>5, <1>6
<1>8. ring' \in Seq(Event) /\ Len(ring') <= RingMaxCount
  BY <1>4, <1>5, <1>6, RelayAssumption, PushRingType
<1>9. PICK n \in Nat : DropsFirst(ring', Append(ring, e), n)
  BY <1>4, <1>5, <1>6, PushRingDrops
<1>10. e.pos = mem[e.stream] + 1
  BY <1>4
<1>11. UpTo(ring', mem')
  <2>1. UpTo(Append(ring, e), mem')
    BY <1>4, <1>6, <1>7, <1>10, UpToAppend DEF RingInv
  <2>2. Append(ring, e) \in Seq(Event)
    BY <1>4, <1>6
  <2> QED
    BY <1>7, <1>8, <1>9, <2>1, <2>2, UpToDrops
<1>12. ASSUME NEW c \in open
       PROVE  UpTo(feed'[c], mem') /\ \E k \in Nat : DropsFirst(ring', feed'[c], k)
  <2>1. feed[c] \in Seq(Event) /\ feed'[c] = Append(feed[c], e)
    BY <1>5, <1>6 DEF FanOut
  <2>2. UpTo(feed[c], mem) /\ \E k \in Nat : DropsFirst(ring, feed[c], k)
    BY DEF RingInv
  <2>3. UpTo(Append(feed[c], e), mem')
    BY <1>4, <1>6, <1>7, <1>10, <2>1, <2>2, UpToAppend
  <2>4. PICK k \in Nat : DropsFirst(ring, feed[c], k)
    BY <2>2
  <2>5. DropsFirst(ring', Append(feed[c], e), k + n)
    BY <1>4, <1>6, <1>8, <1>9, <2>1, <2>4, DropsThrough
  <2> QED
    BY <2>1, <2>3, <2>5
<1>13. surface' \in {0, mem'[OracleStream]}
  BY <1>5, <1>6, RelayAssumption DEF RingInv, RelayAssumption
<1> QED
  BY <1>5, <1>8, <1>11, <1>12, <1>13 DEF RingInv

\* A client that connects is sent the ring.
LEMMA RingConnect ==
    ASSUME RelayInv, RingInv, NEW c \in Clients, Connect(c)
    PROVE  RingInv'
<1>1. /\ phase = "up" /\ open' = open \cup {c} /\ feed' = [feed EXCEPT ![c] = ring]
      /\ ring' = ring /\ mem' = mem /\ surface' = surface /\ phase' = phase
  BY DEF Connect, SnapshotFrame, process, memory
<1>2. ring \in Seq(Event) /\ feed \in [Clients -> Seq(Event)] /\ open \subseteq Clients
  BY DEF RelayInv, TypeOK
<1>3. DropsFirst(ring, ring, 0)
  BY <1>2 DEF DropsFirst
<1>4. ASSUME NEW x \in open'
      PROVE  UpTo(feed'[x], mem') /\ \E k \in Nat : DropsFirst(ring', feed'[x], k)
  <2>1. CASE x = c
    <3>1. feed'[x] = ring
      BY <1>1, <1>2, <2>1
    <3> QED
      BY <1>1, <1>3, <3>1 DEF RingInv
  <2>2. CASE x # c
    <3>1. x \in open /\ feed'[x] = feed[x]
      BY <1>1, <1>2, <2>2
    <3> QED
      BY <1>1, <3>1 DEF RingInv
  <2> QED
    BY <2>1, <2>2
<1>5. UpTo(ring', mem')
  BY <1>1 DEF RingInv
<1> QED
  BY <1>1, <1>4, <1>5 DEF RingInv

\* Every step preserves the invariant of the ring and the feeds.
LEMMA RingStep == RelayInv /\ RingInv /\ [Next]_vars => RingInv'
<1> SUFFICES ASSUME RelayInv, RingInv, [Next]_vars PROVE RingInv'
  OBVIOUS
<1> USE DEF process, memory, sockets
<1>1. CASE Tick \/ Halt \/ UNCHANGED vars
  <2>1. /\ ring' = ring /\ mem' = mem /\ surface' = surface /\ feed' = feed /\ open' = open
        /\ phase' = phase \/ open = {}
    BY <1>1 DEF Tick, Halt, vars, RingInv
  <2> QED
    BY <2>1, RingQuiet
<1>2. ASSUME NEW s \in Streams,
             \/ EmitEvent(s) \/ Fetch(s) \/ FetchFails(s) \/ ApplyFails(s)
             \/ WriteDone(s) \/ WriteFails(s) \/ Wake(s) \/ ExitLoop(s)
      PROVE  RingInv'
  <2>1. /\ ring' = ring /\ mem' = mem /\ surface' = surface /\ feed' = feed /\ open' = open
        /\ phase' = phase
    BY <1>2 DEF EmitEvent, Fetch, FetchFails, ApplyFails, WriteDone, WriteFails,
                MemAfterFailure, Wake, ExitLoop
  <2> QED
    BY <2>1, RingQuiet
<1>3. ASSUME NEW s \in Streams, Apply(s) PROVE RingInv'
  BY <1>3, RingApply
<1>4. ASSUME NEW c \in Clients, Connect(c) PROVE RingInv'
  BY <1>4, RingConnect
<1>5. ASSUME NEW c \in Clients, Disconnect(c) PROVE RingInv'
  <2>1. /\ ring' = ring /\ mem' = mem /\ surface' = surface /\ phase' = phase
        /\ open' = open \ {c} /\ feed' = [feed EXCEPT ![c] = <<>>]
    BY <1>5 DEF Disconnect
  <2>2. \A x \in open' : x \in open /\ feed'[x] = feed[x]
    BY <2>1 DEF RelayInv, TypeOK
  <2>3. \A x \in open' : /\ UpTo(feed'[x], mem')
                         /\ \E k \in Nat : DropsFirst(ring', feed'[x], k)
    BY <2>1, <2>2 DEF RingInv
  <2>4. UpTo(ring', mem')
    BY <2>1 DEF RingInv
  <2> QED
    BY <2>1, <2>3, <2>4 DEF RingInv
<1>6. CASE Stop \/ Crash
  <2>1. ring' = ring /\ mem' = mem /\ surface' = surface /\ open' = {}
    BY <1>6 DEF Stop, Crash
  <2>2. UpTo(ring', mem')
    BY <2>1 DEF RingInv
  <2> QED
    BY <2>1, <2>2 DEF RingInv
<1>7. ASSUME NEW w \in Wipes, Restart(w) PROVE RingInv'
  <2>1. ring' = <<>> /\ surface' = 0 /\ open' = {}
    BY <1>7 DEF Restart, RingInv
  <2>2. UpTo(ring', mem')
    BY <2>1 DEF UpTo, Positions
  <2> QED
    BY <2>1, <2>2, RelayAssumption DEF RingInv, RelayAssumption
<1> QED
  BY <1>1, <1>2, <1>3, <1>4, <1>5, <1>6, <1>7 DEF Next

\* The invariant of the ring and the feeds holds of every state of the relay.
LEMMA RingInvariant == Spec => [](RelayInv /\ RingInv)
<1>1. Init => RingInv
  BY RingInit
<1>2. RelayInv /\ RingInv /\ [Next]_vars => RingInv'
  BY RingStep
<1>3. QED
  BY <1>1, <1>2, RelayInvariant, PTL DEF Spec

\* Whatever pushRing evicts, and however often a write fails and a page is fetched
\* again, the ring is within its limit and holds each stream without a gap or a
\* repetition up to the newest event applied; the surface served to newcomers is that
\* of the newest oracle event.
THEOREM RingIsFaithful == Spec => []RingFaithful
<1>1. RelayInv /\ RingInv => RingFaithful
  <2> SUFFICES ASSUME RelayInv, RingInv PROVE RingFaithful
    OBVIOUS
  <2>1. ring \in Seq(Event) /\ mem \in [Streams -> Nat]
    BY DEF RelayInv, TypeOK
  <2>2. Gapless(ring)
    BY <2>1, UpToGapless DEF RingInv
  <2>3. \A s \in Streams : \A i \in Positions(ring, s) : ring[i].pos <= mem[s]
    BY DEF RingInv, UpTo
  <2> QED
    BY <2>2, <2>3 DEF RingInv, RingFaithful
<1> QED
  BY <1>1, RingInvariant, PTL

\* Whenever a client connects, the replayed frame and the live events join up: what
\* it has been sent has no gap and no repetition and ends with all the ring holds.
THEOREM FeedsJoinUp == Spec => []FeedJoinsUp
<1>1. RelayInv /\ RingInv => FeedJoinsUp
  <2> SUFFICES ASSUME RelayInv, RingInv, NEW c \in open
               PROVE  /\ Gapless(feed[c])
                      /\ \E k \in 0 .. Len(feed[c]) : ring = SubSeq(feed[c], k + 1, Len(feed[c]))
    BY DEF FeedJoinsUp
  <2>1. ring \in Seq(Event) /\ mem \in [Streams -> Nat] /\ feed[c] \in Seq(Event)
    BY DEF RelayInv, TypeOK
  <2>2. Gapless(feed[c])
    BY <2>1, UpToGapless DEF RingInv
  <2>3. PICK k \in Nat : DropsFirst(ring, feed[c], k)
    BY DEF RingInv
  <2> DEFINE q == feed[c]
             z == SubSeq(q, k + 1, Len(q))
  <2>4. q \in Seq(Event) /\ Len(q) \in Nat
    BY <2>1
  <2>5. k \in 0 .. Len(q) /\ Len(ring) = Len(q) - k
        /\ \A i \in 1 .. Len(ring) : ring[i] = q[k + i]
    BY <2>3 DEF DropsFirst
  <2> HIDE DEF q
  <2>6. \A i \in (k + 1) .. Len(q) : q[i] \in Event
    BY <2>4, <2>5
  <2>7. /\ z \in Seq(Event)
        /\ Len(z) = (IF k + 1 <= Len(q) THEN Len(q) - (k + 1) + 1 ELSE 0)
        /\ \A i \in 1 .. Len(z) : z[i] = q[(k + 1) + i - 1]
    BY <2>4, <2>5, <2>6, SubSeqProperties
  <2> HIDE DEF z
  <2>8. Len(z) = Len(ring) /\ \A i \in 1 .. Len(ring) : z[i] = ring[i]
    <3>1. \A i \in Nat : (k + 1) + i - 1 = k + i
      BY <2>5
    <3>2. Len(z) = Len(ring)
      BY <2>4, <2>5, <2>7
    <3> QED
      BY <2>5, <2>7, <3>1, <3>2
  <2>9. ring = z
    BY <2>1, <2>7, <2>8, SeqEqual
  <2> QED
    BY <2>2, <2>5, <2>9 DEF z, q
<1> QED
  BY <1>1, RingInvariant, PTL
=============================================================================
