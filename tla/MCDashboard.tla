----------------------------- MODULE MCDashboard ----------------------------
(***************************************************************************)
(* Dashboard for TLC: a heartbeat every other second, thresholds that one  *)
(* lost heartbeat passes, more events than the ring holds.                 *)
(***************************************************************************)
EXTENDS Dashboard
=============================================================================
