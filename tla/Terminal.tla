------------------------------ MODULE Terminal ------------------------------
(***************************************************************************)
(* The operator's terminal: one script runs at a time, step by step, and   *)
(* may be killed between any two of them.  A script that loses the answer  *)
(* of a transaction throws: to the chain and the files that is a kill just *)
(* after the transaction, or just before it.                               *)
(***************************************************************************)
EXTENDS Naturals

VARIABLES script,    \* the script that is running, or "none"
          pc,        \* its next step
          kills      \* how many scripts have been killed

CONSTANT MaxKills    \* bound on kills, for TLC

terminal == <<script, pc, kills>>

Idle == script = "none"
TerminalInit == script = "none" /\ pc = "start" /\ kills = 0

Starts(s) == Idle /\ script' = s /\ pc' = "start" /\ UNCHANGED kills

\* The step "from" of script s, after which it goes on with step "to".
At(s, from) == script = s /\ pc = from
Goto(to) == pc' = to /\ UNCHANGED <<script, kills>>

\* The script returns, throws, or calls process.exit.
Exits == script' = "none" /\ pc' = "start" /\ UNCHANGED kills

Dies ==
    /\ ~Idle /\ kills < MaxKills
    /\ script' = "none" /\ pc' = "start" /\ kills' = kills + 1
=============================================================================
