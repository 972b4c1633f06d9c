------------------------------ MODULE LaneGate ------------------------------
(***************************************************************************)
(* What the lanes of the oracle feed promise: pushes run side by side, one *)
(* per lane, and the manager has all lanes to itself while it works.       *)
(***************************************************************************)
CONSTANT Lanes

VARIABLES
    pushing,    \* the lanes with a push whose answer is awaited
    exclusive   \* the manager works

gate == <<pushing, exclusive>>

Init == pushing = {} /\ exclusive = FALSE

Start(l) ==
    /\ ~exclusive /\ l \notin pushing
    /\ pushing' = pushing \cup {l}
    /\ UNCHANGED exclusive

Finish(l) ==
    /\ l \in pushing
    /\ pushing' = pushing \ {l}
    /\ UNCHANGED exclusive

\* The manager enters once every lane is idle.
Enter == ~exclusive /\ pushing = {} /\ exclusive' = TRUE /\ UNCHANGED pushing
Leave == exclusive /\ exclusive' = FALSE /\ UNCHANGED pushing

\* The process ends and with it all it was doing.
Reset == pushing' = {} /\ exclusive' = FALSE

Next ==
    \/ \E l \in Lanes : Start(l) \/ Finish(l)
    \/ Enter \/ Leave \/ Reset

Spec == Init /\ [][Next]_gate
=============================================================================
