-------------------------- MODULE OperatorScripts ---------------------------
(***************************************************************************)
(* The deployment scripts, the simulation and the start-up of the oracle   *)
(* feed, run from one terminal.  The simulation has a network of its own,  *)
(* and the deployment is finished before the feed is started: what one     *)
(* writes another does not, so a behaviour that keeps to one activity      *)
(* loses nothing.                                                          *)
(***************************************************************************)
EXTENDS PredictDeploy, PredictSim, FeedPool

VARIABLE activity

scriptVars == <<activity, terminal, deployVars, simVars, poolVars>>

ScriptsInit ==
    /\ activity \in {"deploy", "simulate", "feed"}
    /\ TerminalInit /\ DeployInit /\ SimInit /\ PoolInit

Kill ==
    /\ Dies
    /\ Forget /\ SimForget /\ PoolForget
    /\ UNCHANGED <<activity, chain, files, announced, instance, wallet, poolHistory>>

ScriptsNext ==
    \/ activity = "deploy" /\ DeployNext /\ UNCHANGED <<activity, simVars, poolVars>>
    \/ activity = "simulate" /\ SimNext /\ UNCHANGED <<activity, deployVars, poolVars>>
    \/ activity = "feed" /\ PoolNext /\ UNCHANGED <<activity, deployVars, simVars>>
    \/ Kill

Spec == ScriptsInit /\ [][ScriptsNext]_scriptVars
=============================================================================
