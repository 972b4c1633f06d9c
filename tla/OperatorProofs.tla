-------------------------- MODULE OperatorProofs ----------------------------
(***************************************************************************)
(* The operator's scripts, wherever they are killed: what the deployment   *)
(* scripts leave in the files, what the simulation reports, and the caps   *)
(* and coins of the oracle feed's lanes.  The three activities share the   *)
(* terminal, so each invariant is proved over the programs of its own and  *)
(* is untouched by the others.                                             *)
(***************************************************************************)
EXTENDS OperatorScripts, HelperProofs, SequenceTheorems

-----------------------------------------------------------------------------
(* Each activity has programs of its own.                                    *)

Programs ==
    /\ activity \in {"deploy", "simulate", "feed"}
    /\ activity = "deploy" => script \in DeployScripts \cup {"none"}
    /\ activity = "simulate" => script \in {"setup", "execute", "none"}
    /\ activity = "feed" => script \in {"feed", "none"}

LEMMA InitPrograms == ScriptsInit => Programs
  BY DEF ScriptsInit, TerminalInit, Programs

LEMMA NextPrograms == Programs /\ [ScriptsNext]_scriptVars => Programs'
  <1> SUFFICES ASSUME Programs, [ScriptsNext]_scriptVars PROVE Programs'
    OBVIOUS
  <1>1. CASE UNCHANGED scriptVars \/ Kill
    BY <1>1 DEF scriptVars, terminal, Kill, Dies, Programs
  <1>2. CASE activity = "deploy" /\ DeployNext /\ UNCHANGED activity
    <2>1. script' \in {script, "none"} \cup DeployScripts
      BY <1>2 DEF DeployNext, StartScript, Starts, DusdcPublishTx, DusdcFinalizeTx, DusdcWrite,
         PublishTx, PublishWrite, MirrorPackageId, InitTx, InitWrite, RedeployRefuses,
         PublishPredictTx, PublishPredictWrite, InitPredictTx, InitPredictWrite,
         UpdateIndexerPackageId, ResetDatabase, ResetFails, IndexerIngests, Rustfmt, CapTx, CapWrite,
         OracleTx, OracleWrite, DeployOracleTx, DeployOraclesWrite, DepositTx, PublishPackage,
         CreatePredict, GoesOn, Goto, Returns, Exits, terminal
    <2> QED
      BY <1>2, <2>1 DEF Programs
  <1>3. CASE activity = "simulate" /\ SimNext /\ UNCHANGED activity
    <2>1. script' \in {script, "none", "setup", "execute"}
      BY <1>3 DEF SimNext, RunSh, Starts, PublishPackages, SetupTx, WriteState, ReadState, RowLands,
         RowRejected, RowAborts, WriteResults, SimGoesOn, Goto, SimReturns, Exits
    <2> QED
      BY <1>3, <2>1 DEF Programs
  <1>4. CASE activity = "feed" /\ PoolNext /\ UNCHANGED activity
    <2>1. script' \in {script, "none", "feed"}
      BY <1>4 DEF PoolNext, StartFeed, Starts, NotAdmin, ReadCaps, CreateCaps, CreateCapsLost, Dies,
         LateCaps, CreateCapsRefused, CheckFloor, FirstRefreshNoop, FirstRefresh, LanesReady,
         LaneSpends, WindowRefresh, WindowRereads, WindowThrows, TopUp, OperatorCreatesCap,
         AdminCapMoves, Goto, Exits, terminal
    <2> QED
      BY <1>4, <2>1 DEF Programs
  <1> QED
    BY <1>1, <1>2, <1>3, <1>4 DEF ScriptsNext

-----------------------------------------------------------------------------
(* The deployment.                                                           *)

\* The record of constants.ts.
IsConstants(c) ==
    /\ c = [package |-> c.package, object |-> c.object, cap |-> c.cap, oracle |-> c.oracle,
            dusdc |-> c.dusdc]
    /\ c.package \in Nat /\ c.object \in Nat /\ c.cap \in Nat /\ c.oracle \in Nat
    /\ c.dusdc \in Nat

\* What it names exists, at the time it is read and ever after.
Named(c) ==
    /\ IsConstants(c)
    /\ c.package <= published
    /\ c.object # 0 => c.object \in Gens /\ quoteOf[c.object] # 0
    /\ c.cap # 0 => c.cap \in caps
    /\ c.oracle # 0 => <<c.oracle, 0>> \in oracles
    /\ c.dusdc # 0 => c.dusdc \in registered

DeployTypes ==
    /\ published \in 0 .. MaxGen /\ quoteOf \in [Gens -> Nat] /\ dusdcs \in Nat
    /\ registered \subseteq Nat \ {0}
    /\ fresh \in Nat /\ entries \in Seq(oracles)
    /\ indexer = [package |-> indexer.package, matches |-> indexer.matches]

\* A package gets its Predict after its publication, with a quote that is registered.
QuotesFollow ==
    \A g \in Gens : /\ published < g => quoteOf[g] = 0
                    /\ quoteOf[g] # 0 => quoteOf[g] \in registered

\* What the running script holds in its memory, by the step that it has come to.
Holds ==
    /\ At("dusdcPublish", "finalize") => fresh # 0
    /\ At("dusdcPublish", "write") => fresh \in registered
    /\ At("publish", "start") \/ At("redeploy", "start") => published < MaxGen
    /\ At("publish", "write") \/ At("publish", "indexer") =>
        fresh <= published /\ announced = 0
    /\ At("redeploy", "write") \/ At("redeploy", "init") =>
        /\ fresh = published /\ fresh \in Gens /\ quoteOf[fresh] = 0
        /\ imported.dusdc # 0 /\ announced = 0
    /\ At("redeploy", "initWrite") \/ At("redeploy", "indexer") \/ At("redeploy", "reset") =>
        fresh \in Gens /\ quoteOf[fresh] # 0 /\ announced = 0
    /\ At("redeploy", "init") \/ At("redeploy", "initWrite") \/ At("redeploy", "indexer")
         \/ At("redeploy", "reset") =>
        constants.package = fresh /\ constants.cap = 0
    /\ At("redeploy", "indexer") \/ At("redeploy", "reset") => constants.object = fresh
    /\ At("init", "write") => fresh = imported.package /\ fresh \in Gens /\ quoteOf[fresh] # 0
    /\ At("createOracleCap", "write") => fresh = imported.package /\ fresh \in caps
    /\ At("createOracle", "write") => <<fresh, 0>> \in oracles
    /\ script \in DeployScripts /\ announced # 0 => imported.package = announced

Announced == AnnouncedIsDeployed /\ (announced # 0 => announced \in Gens)

DeployInv ==
    /\ DeployTypes /\ QuotesFollow
    /\ Named(constants) /\ Named(imported) /\ oracleFile \subseteq oracles
    /\ Holds /\ Announced

\* The chain only gains objects.
ChainGrows ==
    /\ published <= published' /\ published' \in Nat
    /\ \A g \in Gens : quoteOf[g] # 0 => quoteOf'[g] # 0
    /\ registered \subseteq registered' /\ caps \subseteq caps' /\ oracles \subseteq oracles'

LEMMA NamedKept == ASSUME published \in Nat, ChainGrows, NEW c, Named(c) PROVE Named(c)'
  BY DEF Named, ChainGrows, IsConstants

LEMMA EmptyNamed == ASSUME DeployTypes PROVE Named(Empty)
  BY DEF Named, Empty, IsConstants, DeployTypes

LEMMA InitDeploy == ScriptsInit => DeployInv
  <1> SUFFICES ASSUME ScriptsInit PROVE DeployInv
    OBVIOUS
  <1>1. DeployTypes
    BY DeployAssumption DEF ScriptsInit, DeployInit, DeployTypes
  <1>2. Named(constants) /\ Named(imported)
    BY <1>1, EmptyNamed DEF ScriptsInit, DeployInit
  <1>3. QuotesFollow
    BY DEF ScriptsInit, DeployInit, QuotesFollow
  <1> QED
    BY <1>1, <1>2, <1>3 DEF ScriptsInit, DeployInit, DeployInv, TerminalInit, Holds, At, Announced,
       AnnouncedIsDeployed, DeployScripts

\* A script ends: whatever it held is gone.
LEMMA ReturnsKeeps ==
    ASSUME DeployInv, script' = "none", Forget, UNCHANGED <<chain, files, announced>>
    PROVE  DeployInv'
  <1>1. DeployTypes'
    BY DEF DeployInv, DeployTypes, Forget, chain, files
  <1>2. Named(Empty)'
    BY <1>1 DEF Named, Empty, IsConstants, DeployTypes
  <1> QED
    BY <1>1, <1>2 DEF DeployInv, QuotesFollow, Named, chain, files, Holds, At, DeployScripts,
       Announced, AnnouncedIsDeployed, Forget

\* A step that changes nothing but one of the constants, and names what is there.
LEMMA WriteKeeps ==
    ASSUME DeployInv, UNCHANGED <<chain, oracleFile, indexer, database, announced>>,
           Named(constants'), imported' = imported \/ imported' = Empty, fresh' \in Nat,
           entries' = entries \/ entries' = <<>>, Holds', Announced'
    PROVE  DeployInv'
  <1>1. /\ published' = published /\ quoteOf' = quoteOf /\ dusdcs' = dusdcs
        /\ registered' = registered /\ caps' = caps /\ oracles' = oracles /\ seeded' = seeded
    BY DEF chain
  <1>2. entries' \in Seq(oracles)
    <2>1. entries \in Seq(oracles) /\ <<>> \in Seq(oracles)
      BY DEF DeployInv, DeployTypes
    <2> QED
      BY <2>1
  <1>3. DeployTypes'
    BY <1>1, <1>2 DEF DeployInv, DeployTypes
  <1>4. Named(imported')
    <2>1. Named(imported) /\ Named(Empty)
      BY EmptyNamed DEF DeployInv
    <2> QED
      BY <2>1
  <1>5. Named(imported)' /\ Named(constants)'
    BY <1>1, <1>4 DEF Named
  <1> QED
    BY <1>1, <1>3, <1>5 DEF DeployInv, QuotesFollow

LEMMA StartDeploy == ASSUME DeployInv, NEW s \in DeployScripts, StartScript(s) PROVE DeployInv'
  <1>1. DeployTypes' /\ QuotesFollow' /\ Named(constants)' /\ Named(imported)' /\ (oracleFile \subseteq oracles)'
    BY DEF DeployInv, DeployTypes, QuotesFollow, Named, StartScript, chain, files
  <1>2. Announced'
    BY DEF DeployInv, Announced, AnnouncedIsDeployed, StartScript, chain, files
  <1>3. Holds'
    BY DEF DeployInv, DeployTypes, Holds, StartScript, Starts, At, chain, files, Announced, AnnouncedIsDeployed
  <1> QED
    BY <1>1, <1>2, <1>3 DEF DeployInv

LEMMA DusdcDeploy ==
    ASSUME DeployInv, DusdcPublishTx \/ DusdcFinalizeTx \/ DusdcWrite PROVE DeployInv'
  <1>1. CASE DusdcPublishTx
    <2>1. DeployTypes' /\ QuotesFollow' /\ Named(constants)' /\ Named(imported)' /\ (oracleFile \subseteq oracles)'
      BY <1>1 DEF DeployInv, DeployTypes, QuotesFollow, Named, DusdcPublishTx, files
    <2>2. Announced'
      BY <1>1 DEF DeployInv, Announced, AnnouncedIsDeployed, DusdcPublishTx, files
    <2>3. Holds'
      BY <1>1 DEF DeployInv, DeployTypes, Holds, DusdcPublishTx, Goto, At, files
    <2> QED
      BY <2>1, <2>2, <2>3 DEF DeployInv
  <1>2. CASE DusdcFinalizeTx
    <2>1. DeployTypes' /\ QuotesFollow' /\ Named(constants)' /\ Named(imported)' /\ (oracleFile \subseteq oracles)'
      BY <1>2 DEF DeployInv, DeployTypes, QuotesFollow, Named, DusdcFinalizeTx, files, GoesOn, memory, Holds
    <2>2. Announced'
      BY <1>2 DEF DeployInv, Announced, AnnouncedIsDeployed, DusdcFinalizeTx, files
    <2>3. Holds'
      BY <1>2 DEF DeployInv, DeployTypes, Holds, DusdcFinalizeTx, GoesOn, Goto, At, files, memory
    <2> QED
      BY <2>1, <2>2, <2>3 DEF DeployInv
  <1>3. CASE DusdcWrite
    <2>1. constants' = [constants EXCEPT !.dusdc = fresh]
      BY <1>3 DEF DusdcWrite, Write
    <2>2. Named(constants')
      BY <1>3, <2>1 DEF DeployInv, Named, IsConstants, Holds, DusdcWrite, DeployTypes
    <2>3. Announced'
      BY <1>3, <2>1 DEF DeployInv, Announced, AnnouncedIsDeployed, DusdcWrite, Write, chain, Named, IsConstants
    <2>4. Holds'
      BY <1>3 DEF Holds, DusdcWrite, Returns, Exits, At, DeployScripts
    <2> QED
      BY <1>3, <2>2, <2>3, <2>4, WriteKeeps DEF DusdcWrite, Write, Returns, Forget
  <1> QED
    BY <1>1, <1>2, <1>3

LEMMA PublishDeploy ==
    ASSUME DeployInv, PublishTx \/ PublishPredictTx PROVE DeployInv'
  <1> USE DEF PublishTx, PublishPredictTx, PublishPackage
  <1>1. /\ published < MaxGen /\ published' = published + 1 /\ fresh' = published + 1
        /\ published \in Nat /\ MaxGen \in Nat
    BY DeployAssumption DEF DeployInv, Holds, DeployTypes
  <1>2. DeployTypes' /\ (oracleFile \subseteq oracles)'
    BY <1>1 DEF DeployInv, DeployTypes, files
  <1>3. QuotesFollow'
    BY <1>1 DEF DeployInv, QuotesFollow, Gens
  <1>4. Named(constants)' /\ Named(imported)'
    BY <1>1 DEF DeployInv, Named, IsConstants, files
  <1>5. fresh' \in Gens /\ quoteOf'[fresh'] = 0 /\ fresh' = published' /\ announced' = 0
    BY <1>1 DEF DeployInv, QuotesFollow, Gens
  <1>6. Holds'
    BY <1>1, <1>5 DEF Holds, Goto, At
  <1>7. Announced'
    BY <1>5 DEF Announced, AnnouncedIsDeployed
  <1> QED
    BY <1>2, <1>3, <1>4, <1>6, <1>7 DEF DeployInv

LEMMA PublishWriteDeploy ==
    ASSUME DeployInv, PublishWrite \/ PublishPredictWrite PROVE DeployInv'
  <1>0. IsConstants(constants) /\ Named(constants) /\ announced = 0 /\ fresh \in Nat
    BY DEF DeployInv, Named, PublishWrite, PublishPredictWrite, Holds, DeployTypes
  <1>1. CASE PublishWrite
    <2>1. constants' = [constants EXCEPT !.package = fresh]
      BY <1>1 DEF PublishWrite, Write
    <2>2. Named(constants')
      BY <1>0, <1>1, <2>1 DEF DeployInv, Named, IsConstants, Holds, PublishWrite
    <2>3. Announced' /\ announced' = 0
      BY <1>0, <1>1 DEF Announced, AnnouncedIsDeployed, PublishWrite
    <2>4. Holds'
      BY <1>1, <2>3 DEF DeployInv, Holds, PublishWrite, GoesOn, Goto, At, memory, chain
    <2> QED
      BY <1>0, <1>1, <2>2, <2>3, <2>4, WriteKeeps DEF PublishWrite, Write, GoesOn, memory
  <1>2. CASE PublishPredictWrite
    <2>1. constants' = [constants EXCEPT !.package = fresh, !.cap = 0, !.object = 0]
      BY <1>2 DEF PublishPredictWrite, Write, RedeployConstants
    <2>2. Named(constants') /\ constants'.package = fresh /\ constants'.cap = 0
      <3>1. constants' = [package |-> fresh, object |-> 0, cap |-> 0, oracle |-> constants.oracle,
                          dusdc |-> constants.dusdc]
        BY <1>0, <2>1 DEF IsConstants
      <3>2. fresh <= published
        BY <1>2 DEF DeployInv, Holds, PublishPredictWrite, DeployTypes
      <3> QED
        BY <1>0, <3>1, <3>2 DEF Named, IsConstants
    <2>3. Announced' /\ announced' = 0
      BY <1>0, <1>2 DEF Announced, AnnouncedIsDeployed, PublishPredictWrite
    <2>4. Holds'
      BY <1>2, <2>2, <2>3 DEF DeployInv, Holds, PublishPredictWrite, GoesOn, Goto, At, memory, chain
    <2> QED
      BY <1>0, <1>2, <2>2, <2>3, <2>4, WriteKeeps DEF PublishPredictWrite, Write, GoesOn, memory
  <1> QED
    BY <1>1, <1>2

\* create_predict, which both scripts send.
LEMMA InitTxDeploy ==
    ASSUME DeployInv, InitTx \/ InitPredictTx PROVE DeployInv'
  <1>1. PICK p \in {imported.package, fresh}, n \in {"write", "initWrite"} :
          /\ CreatePredict(p, n)
          /\ \/ At("init", "start") /\ p = imported.package /\ n = "write"
             \/ At("redeploy", "init") /\ p = fresh /\ n = "initWrite"
    BY DEF InitTx, InitPredictTx
  <1>2. CASE ~CanCreatePredict(p, imported.dusdc)
    BY <1>1, <1>2, ReturnsKeeps DEF CreatePredict, Returns, Exits, chain
  <1>3. CASE CanCreatePredict(p, imported.dusdc)
    <2>1. /\ p # 0 /\ quoteOf[p] = 0 /\ imported.dusdc \in registered
          /\ quoteOf' = [quoteOf EXCEPT ![p] = imported.dusdc] /\ fresh' = p
          /\ pc' = n /\ script' = script /\ imported' = imported /\ entries' = entries
          /\ published' = published /\ registered' = registered /\ caps' = caps
          /\ oracles' = oracles /\ dusdcs' = dusdcs /\ announced' = announced
          /\ constants' = constants /\ oracleFile' = oracleFile /\ indexer' = indexer
          /\ database' = database
      BY <1>1, <1>3 DEF CreatePredict, CanCreatePredict, Goto, files
    <2>2. p \in 1 .. published /\ p \in Gens /\ published \in Nat
      <3>1. p \in Nat /\ p <= published /\ published \in 0 .. MaxGen
        BY <1>1 DEF DeployInv, Named, IsConstants, Holds, DeployTypes
      <3> QED
        BY <2>1, <3>1, DeployAssumption DEF Gens
    <2>3. imported.dusdc \in Nat \ {0}
      BY <2>1 DEF DeployInv, DeployTypes
    <2>4. quoteOf \in [Gens -> Nat]
      BY DEF DeployInv, DeployTypes
    <2>5. quoteOf' \in [Gens -> Nat] /\ quoteOf'[p] = imported.dusdc
          /\ \A g \in Gens : g # p => quoteOf'[g] = quoteOf[g]
      BY <2>1, <2>2, <2>3, <2>4
    <2>6. DeployTypes' /\ (oracleFile \subseteq oracles)'
      BY <2>1, <2>2, <2>5 DEF DeployInv, DeployTypes, Gens
    <2>7. QuotesFollow'
      BY <2>1, <2>2, <2>5 DEF DeployInv, QuotesFollow
    <2>8. ChainGrows
      BY <2>1, <2>2, <2>3, <2>5 DEF ChainGrows
    <2>9. Named(constants)' /\ Named(imported)'
      BY <2>1, <2>3, <2>5 DEF DeployInv, Named
    <2>10. Announced'
      <3>1. ASSUME announced # 0 PROVE announced # p
        BY <2>1, <3>1 DEF DeployInv, Announced, AnnouncedIsDeployed, DeployTypes
      <3> QED
        BY <2>1, <2>5, <3>1 DEF DeployInv, Announced, AnnouncedIsDeployed
    <2>11. Holds'
      <3>1. quoteOf'[fresh'] # 0 /\ fresh' \in Gens
        BY <2>1, <2>2, <2>3, <2>5
      <3> QED
        BY <1>1, <2>1, <3>1 DEF DeployInv, Holds, At
    <2> QED
      BY <2>6, <2>7, <2>9, <2>10, <2>11 DEF DeployInv
  <1> QED
    BY <1>2, <1>3

LEMMA InitWriteDeploy ==
    ASSUME DeployInv, InitWrite \/ InitPredictWrite PROVE DeployInv'
  <1>0. IsConstants(constants) /\ Named(constants) /\ fresh \in Nat
    BY DEF DeployInv, Named, DeployTypes
  <1>1. /\ constants' = [constants EXCEPT !.object = fresh]
        /\ fresh \in Gens /\ quoteOf[fresh] # 0 /\ announced' = announced
    BY DEF DeployInv, Holds, InitWrite, InitPredictWrite, Write, InitConstants
  <1>2. /\ Named(constants') /\ constants'.object = fresh /\ constants'.package = constants.package
        /\ constants'.cap = constants.cap
    BY <1>0, <1>1 DEF Named, IsConstants
  <1>3. CASE InitWrite
    <2>1. Holds'
      BY <1>3 DEF Holds, InitWrite, Returns, Exits, At, DeployScripts
    <2>2. announced # 0 => fresh = announced
      BY <1>3 DEF DeployInv, Holds, InitWrite, At, DeployScripts
    <2>3. Announced'
      BY <1>1, <1>2, <1>3, <2>2 DEF DeployInv, Announced, AnnouncedIsDeployed, InitWrite, Write, chain
    <2> QED
      BY <1>0, <1>2, <1>3, <2>1, <2>3, WriteKeeps DEF InitWrite, Write, Returns, Forget
  <1>4. CASE InitPredictWrite
    <2>1. announced' = 0
      BY <1>1, <1>4 DEF DeployInv, Holds, InitPredictWrite
    <2>2. Holds'
      BY <1>1, <1>2, <1>4, <2>1 DEF DeployInv, Holds, InitPredictWrite, GoesOn, Goto, At, memory, chain
    <2>3. Announced'
      BY <2>1 DEF Announced, AnnouncedIsDeployed
    <2> QED
      BY <1>0, <1>2, <1>4, <2>2, <2>3, WriteKeeps DEF InitPredictWrite, Write, GoesOn, memory
  <1> QED
    BY <1>3, <1>4

\* The indexer's file and its database.
LEMMA IndexerDeploy ==
    ASSUME DeployInv,
           \/ MirrorPackageId \/ UpdateIndexerPackageId \/ ResetFails \/ ResetDatabase
           \/ IndexerIngests \/ Rustfmt
    PROVE  DeployInv'
  <1> USE DEF MirrorPackageId, UpdateIndexerPackageId, ResetFails, ResetDatabase, IndexerIngests,
              Rustfmt
  <1>1. /\ published' = published /\ quoteOf' = quoteOf /\ dusdcs' = dusdcs
        /\ registered' = registered /\ caps' = caps /\ oracles' = oracles
        /\ constants' = constants /\ oracleFile' = oracleFile
    BY DEF chain
  <1>2. \/ script' = "none" /\ imported' = Empty /\ fresh' = 0 /\ entries' = <<>>
        \/ /\ At("redeploy", "indexer") /\ pc' = "reset" /\ script' = script
           /\ imported' = imported /\ fresh' = fresh /\ entries' = entries
           /\ announced' = announced
        \/ /\ Idle /\ script' = script
           /\ imported' = imported /\ fresh' = fresh /\ entries' = entries
    BY DEF Returns, Exits, Forget, GoesOn, Goto, memory, terminal
  <1>3. indexer' = [package |-> indexer'.package, matches |-> indexer'.matches]
    <2>1. indexer = [package |-> indexer.package, matches |-> indexer.matches]
      BY DEF DeployInv, DeployTypes
    <2>2. \/ indexer' = indexer
          \/ indexer' = [indexer EXCEPT !.package = fresh]
          \/ indexer' = [indexer EXCEPT !.matches = FALSE]
      BY DEF ReplacedIndexer
    <2>3. CASE indexer' = [indexer EXCEPT !.package = fresh]
      BY <2>1, <2>3
    <2>4. CASE indexer' = [indexer EXCEPT !.matches = FALSE]
      BY <2>1, <2>4
    <2> QED
      BY <2>1, <2>2, <2>3, <2>4
  <1>4. DeployTypes'
    <2>1. entries \in Seq(oracles) /\ <<>> \in Seq(oracles) /\ fresh \in Nat
      BY DEF DeployInv, DeployTypes
    <2>2. entries' \in {entries, <<>>} /\ fresh' \in {fresh, 0}
      BY <1>2
    <2>3. fresh' \in Nat
      BY <2>1, <2>2
    <2>4. entries' \in Seq(oracles)
      BY <2>1, <2>2, Zenon
    <2> QED
      BY <1>1, <1>3, <2>3, <2>4 DEF DeployInv, DeployTypes
  <1>5. Named(constants)' /\ Named(imported)'
    <2>1. Named(constants) /\ Named(imported) /\ Named(Empty)
      BY EmptyNamed DEF DeployInv
    <2>2. Named(constants') /\ Named(imported')
      BY <1>1, <1>2, <2>1
    <2> QED
      BY <1>1, <2>2 DEF Named
  <1>6. Holds'
    <2>1. CASE script' = "none"
      BY <2>1 DEF Holds, At, DeployScripts
    <2>2. CASE script' # "none"
      BY <1>1, <1>2, <2>2 DEF DeployInv, Holds, At, Idle
    <2> QED
      BY <2>1, <2>2
  <1>7. Announced'
    <2>1. CASE MirrorPackageId \/ UpdateIndexerPackageId \/ ResetFails
      <3>1. announced' = 0
        BY <2>1 DEF DeployInv, Holds
      <3> QED
        BY <3>1 DEF Announced, AnnouncedIsDeployed
    <2>2. CASE ResetDatabase
      <3>1. /\ announced' = fresh /\ fresh \in Gens /\ constants.package = fresh
            /\ constants.object = fresh /\ constants.cap = 0 /\ quoteOf[fresh] # 0
            /\ database' = {}
        BY <2>2 DEF DeployInv, Holds
      <3>2. quoteOf[fresh] \in registered
        BY <3>1 DEF DeployInv, QuotesFollow
      <3> QED
        BY <1>1, <3>1, <3>2 DEF Announced, AnnouncedIsDeployed
    <2>3. CASE IndexerIngests
      BY <1>1, <2>3 DEF DeployInv, Announced, AnnouncedIsDeployed
    <2>4. CASE Rustfmt
      <3>1. indexer'.package = indexer.package
        BY <2>4 DEF DeployInv, DeployTypes
      <3> QED
        BY <1>1, <2>4, <3>1 DEF DeployInv, Announced, AnnouncedIsDeployed
    <2> QED
      BY <2>1, <2>2, <2>3, <2>4
  <1> QED
    BY <1>1, <1>4, <1>5, <1>6, <1>7 DEF DeployInv, QuotesFollow

\* A transaction that adds to the caps, the oracles or the supplied packages.
LEMMA GainsDeploy ==
    ASSUME DeployInv, caps \subseteq caps', oracles \subseteq oracles',
           UNCHANGED <<published, quoteOf, dusdcs, registered, files, announced>>,
           imported' = imported \/ imported' = Empty, fresh' \in Nat, entries' \in Seq(oracles'),
           Holds'
    PROVE  DeployInv'
  <1>1. /\ constants' = constants /\ oracleFile' = oracleFile /\ indexer' = indexer
        /\ database' = database
    BY DEF files
  <1>2. DeployTypes'
    BY <1>1 DEF DeployInv, DeployTypes
  <1>3. Named(constants)' /\ Named(imported)'
    <2>1. Named(constants) /\ Named(imported) /\ Named(Empty)
      BY EmptyNamed DEF DeployInv
    <2>2. Named(constants') /\ Named(imported')
      BY <1>1, <2>1
    <2> QED
      BY <2>2 DEF Named
  <1>4. QuotesFollow' /\ Announced'
    BY <1>1 DEF DeployInv, QuotesFollow, Announced, AnnouncedIsDeployed
  <1> QED
    BY <1>1, <1>2, <1>3, <1>4 DEF DeployInv

LEMMA ReturnsHolds == ASSUME script' = "none" PROVE Holds'
  BY DEF Holds, At, DeployScripts

LEMMA GainTxsDeploy ==
    ASSUME DeployInv, CapTx \/ OracleTx \/ DeployOracleTx \/ DepositTx PROVE DeployInv'
  <1>0. /\ imported.package \in Nat /\ fresh \in Nat /\ entries \in Seq(oracles)
        /\ \A S : oracles \subseteq S => entries \in Seq(S) /\ <<>> \in Seq(S)
    BY DEF DeployInv, DeployTypes, Named, IsConstants
  <1>1. CASE CapTx
    <2>1. CASE imported.package = 0
      BY <1>1, <2>1, ReturnsKeeps DEF CapTx, Returns, Exits, chain
    <2>2. CASE imported.package # 0
      <3>1. /\ caps' = caps \cup {imported.package} /\ fresh' = imported.package
            /\ pc' = "write" /\ script' = "createOracleCap" /\ script = script'
            /\ imported' = imported /\ entries' = entries /\ oracles' = oracles
            /\ UNCHANGED <<published, quoteOf, dusdcs, registered, files, announced>>
        BY <1>1, <2>2 DEF CapTx, Goto, At
      <3>2. Holds'
        BY <3>1 DEF DeployInv, Holds, At, files
      <3> QED
        BY <1>0, <3>1, <3>2, GainsDeploy
    <2> QED
      BY <2>1, <2>2
  <1>2. CASE OracleTx
    <2>1. CASE ~CanCreateOracle
      BY <1>2, <2>1, ReturnsKeeps DEF OracleTx, Returns, Exits, chain
    <2>2. CASE CanCreateOracle
      <3>1. /\ oracles' = oracles \cup {<<imported.package, 0>>} /\ fresh' = imported.package
            /\ pc' = "write" /\ script' = "createOracle" /\ script = script'
            /\ imported' = imported /\ entries' = entries /\ caps' = caps
            /\ UNCHANGED <<published, quoteOf, dusdcs, registered, files, announced>>
        BY <1>2, <2>2 DEF OracleTx, Goto, At
      <3>2. Holds'
        BY <3>1 DEF DeployInv, Holds, At, files
      <3> QED
        BY <1>0, <3>1, <3>2, GainsDeploy
    <2> QED
      BY <2>1, <2>2
  <1>3. CASE DeployOracleTx
    <2>1. CASE ~CanCreateOracle
      BY <1>3, <2>1, ReturnsKeeps DEF DeployOracleTx, Returns, Exits, chain
    <2>2. CASE CanCreateOracle
      <3> DEFINE o == <<imported.package, Expiries[Len(entries) + 1]>>
      <3>1. /\ oracles' = oracles \cup {o} /\ entries' = Append(entries, o)
            /\ pc' = "start" /\ script' = "deployOracles" /\ script = script'
            /\ imported' = imported /\ fresh' = fresh /\ caps' = caps
            /\ UNCHANGED <<published, quoteOf, dusdcs, registered, files, announced>>
        BY <1>3, <2>2 DEF DeployOracleTx, Goto, At
      <3> HIDE DEF o
      <3>2. Holds'
        BY <3>1 DEF DeployInv, Holds, At, files
      <3>3. entries' \in Seq(oracles')
        BY <1>0, <3>1
      <3> QED
        BY <1>0, <3>1, <3>2, <3>3, GainsDeploy
    <2> QED
      BY <2>1, <2>2
  <1>4. CASE DepositTx
    <2>1. Holds' /\ entries' = <<>> /\ imported' = Empty /\ fresh' = 0
      BY <1>4, ReturnsHolds DEF DepositTx, Returns, Exits, Forget
    <2> QED
      BY <1>0, <1>4, <2>1, GainsDeploy DEF DepositTx
  <1> QED
    BY <1>1, <1>2, <1>3, <1>4

\* The writes of the cap, the oracle and the list of oracles.
LEMMA GainWritesDeploy ==
    ASSUME DeployInv, CapWrite \/ OracleWrite \/ DeployOraclesWrite PROVE DeployInv'
  <1>0. IsConstants(constants) /\ Named(constants) /\ fresh \in Nat
    BY DEF DeployInv, Named, DeployTypes
  <1>1. Holds' /\ imported' = Empty /\ fresh' = 0 /\ entries' = <<>>
    BY ReturnsHolds DEF CapWrite, OracleWrite, DeployOraclesWrite, Returns, Exits, Forget
  <1>2. CASE CapWrite
    <2>1. constants' = [constants EXCEPT !.cap = fresh]
      BY <1>2 DEF CapWrite, Write
    <2>2. /\ fresh = imported.package /\ fresh \in caps
          /\ announced # 0 => imported.package = announced
      BY <1>2 DEF DeployInv, Holds, CapWrite, At, DeployScripts
    <2>3. Named(constants') /\ constants'.cap = fresh /\ constants'.package = constants.package
          /\ constants'.object = constants.object
      BY <1>0, <2>1, <2>2 DEF Named, IsConstants
    <2>4. Announced'
      BY <1>2, <2>2, <2>3 DEF DeployInv, Announced, AnnouncedIsDeployed, CapWrite, Write, chain
    <2> QED
      BY <1>1, <1>2, <2>3, <2>4, WriteKeeps DEF CapWrite, Write
  <1>3. CASE OracleWrite
    <2>1. constants' = [constants EXCEPT !.oracle = fresh]
      BY <1>3 DEF OracleWrite, Write
    <2>2. <<fresh, 0>> \in oracles
      BY <1>3 DEF DeployInv, Holds, OracleWrite
    <2>3. Named(constants') /\ constants'.cap = constants.cap
          /\ constants'.package = constants.package /\ constants'.object = constants.object
      BY <1>0, <2>1, <2>2 DEF Named, IsConstants
    <2>4. Announced'
      BY <1>3, <2>3 DEF DeployInv, Announced, AnnouncedIsDeployed, OracleWrite, Write, chain
    <2> QED
      BY <1>1, <1>3, <2>3, <2>4, WriteKeeps DEF OracleWrite, Write
  <1>4. CASE DeployOraclesWrite
    <2>1. /\ published' = published /\ quoteOf' = quoteOf /\ dusdcs' = dusdcs
          /\ registered' = registered /\ caps' = caps /\ oracles' = oracles
          /\ constants' = constants /\ indexer' = indexer /\ database' = database
          /\ announced' = announced
      BY <1>4 DEF DeployOraclesWrite, chain
    <2>2. oracleFile' \subseteq oracles
      <3>1. entries \in Seq(oracles) /\ oracleFile \subseteq oracles
        BY DEF DeployInv, DeployTypes
      <3>2. {entries[i] : i \in DOMAIN entries} \subseteq oracles
        BY <3>1
      <3> QED
        BY <1>4, <3>1, <3>2 DEF DeployOraclesWrite
    <2>3. DeployTypes'
      BY <1>1, <2>1 DEF DeployInv, DeployTypes
    <2>4. Named(constants)' /\ Named(imported)'
      <3>1. Named(Empty)
        BY EmptyNamed DEF DeployInv
      <3>2. Named(constants') /\ Named(imported')
        BY <1>0, <1>1, <2>1, <3>1
      <3> QED
        BY <2>1, <3>2 DEF Named
    <2> QED
      BY <1>1, <2>1, <2>2, <2>3, <2>4 DEF DeployInv, QuotesFollow, Announced, AnnouncedIsDeployed
  <1> QED
    BY <1>2, <1>3, <1>4

LEMMA NextDeploy ==
    DeployInv /\ Programs /\ [ScriptsNext]_scriptVars => DeployInv'
  <1> SUFFICES ASSUME DeployInv, Programs, [ScriptsNext]_scriptVars PROVE DeployInv'
    OBVIOUS
  <1>1. CASE activity = "deploy" /\ DeployNext
    <2>1. CASE RedeployRefuses
      BY <2>1, ReturnsKeeps DEF RedeployRefuses, Returns, Exits
    <2> QED
      BY <1>1, <2>1, StartDeploy, DusdcDeploy, PublishDeploy, PublishWriteDeploy, InitTxDeploy,
         InitWriteDeploy, IndexerDeploy, GainTxsDeploy, GainWritesDeploy DEF DeployNext
  <1>2. CASE Kill
    BY <1>2, ReturnsKeeps DEF Kill, Dies
  <1>3. ASSUME UNCHANGED deployVars, script \notin DeployScripts \/ UNCHANGED <<script, pc>>,
               script' \notin DeployScripts \/ UNCHANGED <<script, pc>>
        PROVE  DeployInv'
    <2>1. /\ published' = published /\ quoteOf' = quoteOf /\ dusdcs' = dusdcs
          /\ registered' = registered /\ caps' = caps /\ oracles' = oracles
          /\ constants' = constants /\ oracleFile' = oracleFile /\ indexer' = indexer
          /\ database' = database /\ imported' = imported /\ fresh' = fresh
          /\ entries' = entries /\ announced' = announced
      BY <1>3 DEF deployVars, chain, files, memory
    <2>2. Holds'
      <3>1. CASE script' \notin DeployScripts
        BY <3>1 DEF Holds, At, DeployScripts
      <3>2. CASE UNCHANGED <<script, pc>>
        BY <2>1, <3>2 DEF DeployInv, Holds, At
      <3> QED
        BY <1>3, <3>1, <3>2
    <2> QED
      BY <2>1, <2>2 DEF DeployInv, DeployTypes, QuotesFollow, Named, Announced, AnnouncedIsDeployed
  <1>4. CASE activity \in {"simulate", "feed"} /\ activity' = activity /\ UNCHANGED deployVars
    <2>1. Programs'
      BY NextPrograms
    <2>2. script \notin DeployScripts /\ script' \notin DeployScripts
      BY <1>4, <2>1 DEF Programs, DeployScripts
    <2> QED
      BY <1>3, <1>4, <2>2
  <1>5. CASE UNCHANGED scriptVars
    BY <1>3, <1>5 DEF scriptVars, terminal
  <1> QED
    BY <1>1, <1>2, <1>4, <1>5 DEF ScriptsNext

LEMMA DeployImplies == DeployInv => NamesExist /\ AnnouncedIsDeployed /\ RedeployNeverRefused
  <1> SUFFICES ASSUME DeployInv PROVE NamesExist /\ AnnouncedIsDeployed /\ RedeployNeverRefused
    OBVIOUS
  <1>1. NamesExist
    BY DEF DeployInv, Named, NamesExist
  <1>2. RedeployNeverRefused
    BY DEF DeployInv, Named, Holds, RedeployNeverRefused, CanCreatePredict, DeployTypes, Gens
  <1> QED
    BY <1>1, <1>2 DEF DeployInv, Announced

\* config/constants.ts and predict-oracles.ts never name an object that is not on the
\* chain, wherever the scripts that write them were killed.
THEOREM FilesNameObjects == Spec => []NamesExist
  BY DeployImplies, InitPrograms, NextPrograms, InitDeploy, NextDeploy, PTL DEF Spec

\* What DEPLOYMENT COMPLETE announced stays deployed until a script publishes again.
THEOREM AnnouncementHolds == Spec => []AnnouncedIsDeployed
  BY DeployImplies, InitPrograms, NextPrograms, InitDeploy, NextDeploy, PTL DEF Spec

\* The create_predict that a redeploy sends is never refused.
THEOREM RedeployRecovers == Spec => []RedeployNeverRefused
  BY DeployImplies, InitPrograms, NextPrograms, InitDeploy, NextDeploy, PTL DEF Spec

-----------------------------------------------------------------------------
(* The simulation.                                                           *)

Actions == {"update_prices", "update_svi", "mint"}
MintsTo(n) == {i \in 1 .. n : Rows[i] = "mint"}

\* The rows before the current one have reached the chain, once and in order.
Replayed ==
    /\ row \in 1 .. Len(Rows) + 1
    /\ landed \in Seq(Actions) /\ Len(landed) = row - 1
    /\ \A i \in 1 .. row - 1 : landed[i] = Rows[i]
    /\ mints = Cardinality(MintsTo(row - 1))

SetUp(g) == g \in SimGens /\ setUp[g] = Complete

SimInv ==
    /\ simGen \in 0 .. MaxSimGen /\ setUp = [g \in SimGens |-> setUp[g]]
    /\ At("setup", "start") => simGen < MaxSimGen
    /\ At("setup", "objects") => env \in SimGens
    /\ state # 0 => SetUp(state)
    /\ script = "execute" => state # 0
    /\ At("execute", "rows") => SetUp(objects) /\ Replayed
    /\ ~At("execute", "rows") => row = 1 /\ mints = 0 /\ landed = <<>>
    /\ results # NoResults =>
        /\ results.rows = Rows /\ results.mints = Cardinality(MintsTo(Len(Rows)))
        /\ SetUp(results.gen)

\* One row more.
LEMMA OneMore ==
    ASSUME NEW n \in Nat
    PROVE  /\ IsFiniteSet(MintsTo(n)) /\ Cardinality(MintsTo(n)) \in Nat
           /\ Cardinality(MintsTo(n + 1)) =
                Cardinality(MintsTo(n)) + (IF Rows[n + 1] = "mint" THEN 1 ELSE 0)
  <1>1. IsFiniteSet(MintsTo(n)) /\ Cardinality(MintsTo(n)) \in Nat
    <2>1. IsFiniteSet(1 .. n) /\ MintsTo(n) \in SUBSET (1 .. n)
      BY FS_Interval DEF MintsTo
    <2> QED
      BY <2>1, FS_Subset, FS_CardinalityType
  <1>2. CASE Rows[n + 1] = "mint"
    <2>1. MintsTo(n + 1) = MintsTo(n) \cup {n + 1} /\ n + 1 \notin MintsTo(n)
      BY <1>2 DEF MintsTo
    <2>2. Cardinality(MintsTo(n) \cup {n + 1}) = Cardinality(MintsTo(n)) + 1
      BY <1>1, <2>1, FS_AddElement
    <2> QED
      BY <1>1, <1>2, <2>1, <2>2
  <1>3. CASE Rows[n + 1] # "mint"
    <2>1. MintsTo(n + 1) = MintsTo(n)
      BY <1>3 DEF MintsTo
    <2> QED
      BY <1>1, <1>3, <2>1
  <1> QED
    BY <1>1, <1>2, <1>3

LEMMA RowLandsReplays == ASSUME Replayed, RowLands PROVE Replayed'
  <1>0. Rows \in Seq(Actions) /\ Len(Rows) \in Nat
    BY SimAssumption DEF Actions
  <1> DEFINE t == TxOf(row)
  <1>1. PICK n \in Nat :
          /\ row = n + 1 /\ n + 1 <= Len(Rows)
          /\ landed \in Seq(Actions) /\ Len(landed) = n /\ \A i \in 1 .. n : landed[i] = Rows[i]
          /\ mints = Cardinality(MintsTo(n)) /\ mints \in Nat
    <2>1. row \in 1 .. Len(Rows) + 1 /\ row <= Len(Rows)
      BY DEF Replayed, RowLands, InRows
    <2>2. PICK n \in Nat : row = n + 1 /\ row - 1 = n
      BY <1>0, <2>1
    <2> QED
      BY <1>0, <2>1, <2>2, OneMore DEF Replayed
  <1>2. /\ landed' = landed \o t /\ row' = row + RowsOf(row)
        /\ mints' = mints + (IF "mint" \in {t[k] : k \in DOMAIN t} THEN 1 ELSE 0)
    BY DEF RowLands
  <1>3. CASE Fused(row)
    <2>1. /\ t = <<"update_prices", "update_svi", "mint">> /\ RowsOf(row) = 3
          /\ row + 2 <= Len(Rows) /\ Rows[row] = "update_prices" /\ Rows[row + 1] = "update_svi"
          /\ Rows[row + 2] = "mint"
      BY <1>3 DEF TxOf, RowsOf, Fused, RefreshOracleAndMintTx
    <2> HIDE DEF t
    <2>2. t \in Seq(Actions) /\ Len(t) = 3 /\ t[1] = Rows[n + 1] /\ t[2] = Rows[n + 2]
          /\ t[3] = Rows[n + 3] /\ DOMAIN t = 1 .. 3 /\ "mint" \in {t[k] : k \in DOMAIN t}
      BY <1>1, <2>1 DEF Actions
    <2>3. Cardinality(MintsTo(n + 3)) = Cardinality(MintsTo(n)) + 1
      <3>1. /\ Cardinality(MintsTo(n + 1)) = Cardinality(MintsTo(n))
            /\ Cardinality(MintsTo(n + 1)) \in Nat
        <4>1. Rows[n + 1] # "mint"
          BY <1>1, <2>1
        <4> QED
          BY <4>1, OneMore
      <3>2. /\ Cardinality(MintsTo((n + 1) + 1)) = Cardinality(MintsTo(n + 1))
            /\ Cardinality(MintsTo((n + 1) + 1)) \in Nat
        <4>1. Rows[(n + 1) + 1] # "mint" /\ n + 1 \in Nat
          BY <1>1, <2>1
        <4> QED
          BY <3>1, <4>1, OneMore
      <3>3. Cardinality(MintsTo((n + 2) + 1)) = Cardinality(MintsTo(n + 2)) + 1
        <4>1. Rows[(n + 2) + 1] = "mint" /\ n + 2 \in Nat
          BY <1>1, <2>1
        <4> QED
          BY <4>1, OneMore
      <3>4. (n + 1) + 1 = n + 2 /\ (n + 2) + 1 = n + 3
        BY <1>1
      <3> QED
        BY <3>1, <3>2, <3>3, <3>4
    <2>4. landed' \in Seq(Actions) /\ Len(landed') = n + 3
          /\ \A i \in 1 .. n + 3 : landed'[i] = Rows[i]
      <3>1. /\ landed' \in Seq(Actions) /\ Len(landed') = n + 3
            /\ \A i \in 1 .. n + 3 : landed'[i] = IF i <= n THEN landed[i] ELSE t[i - n]
        <4>1. Len(landed) + Len(t) = n + 3
          BY <1>1, <2>2
        <4>2. /\ landed \o t \in Seq(Actions) /\ Len(landed \o t) = Len(landed) + Len(t)
              /\ \A i \in 1 .. Len(landed) + Len(t) :
                    (landed \o t)[i] = IF i <= Len(landed) THEN landed[i] ELSE t[i - Len(landed)]
          <5>1. landed \in Seq(Actions) /\ t \in Seq(Actions)
            BY <1>1, <2>2
          <5> QED
            BY <5>1, ConcatProperties, Zenon
        <4> QED
          BY <1>1, <1>2, <4>1, <4>2
      <3>2. ASSUME NEW i \in 1 .. n + 3 PROVE landed'[i] = Rows[i]
        <4>1. i \in 1 .. n \/ i = n + 1 \/ i = n + 2 \/ i = n + 3
          BY <1>1
        <4> QED
          BY <1>1, <2>2, <3>1, <4>1
      <3> QED
        BY <3>1, <3>2
    <2>5. row' = n + 4 /\ row' - 1 = n + 3 /\ row' \in 1 .. Len(Rows) + 1 /\ mints' = mints + 1
      BY <1>0, <1>1, <1>2, <2>1, <2>2
    <2> QED
      BY <1>1, <2>3, <2>4, <2>5 DEF Replayed, MintsTo
  <1>4. CASE ~Fused(row)
    <2>1. Rows[row] \in Actions /\ RowsOf(row) = 1
      BY <1>0, <1>1, <1>4 DEF RowsOf
    <2>2. t = <<Rows[row]>>
      BY <1>4, <2>1 DEF TxOf, Actions, UpdateSviTx, MintTx, UpdatePricesTx
    <2> HIDE DEF t
    <2>3. t \in Seq(Actions) /\ Len(t) = 1 /\ t[1] = Rows[n + 1] /\ DOMAIN t = 1 .. 1
      BY <1>1, <2>1, <2>2
    <2>4. "mint" \in {t[k] : k \in DOMAIN t} <=> Rows[n + 1] = "mint"
      BY <2>3
    <2>5. landed' \in Seq(Actions) /\ Len(landed') = n + 1
          /\ \A i \in 1 .. n + 1 : landed'[i] = Rows[i]
      <3>1. /\ landed' \in Seq(Actions) /\ Len(landed') = n + 1
            /\ \A i \in 1 .. n + 1 : landed'[i] = IF i <= n THEN landed[i] ELSE t[i - n]
        <4>1. Len(landed) + Len(t) = n + 1
          BY <1>1, <2>3
        <4>2. /\ landed \o t \in Seq(Actions) /\ Len(landed \o t) = Len(landed) + Len(t)
              /\ \A i \in 1 .. Len(landed) + Len(t) :
                    (landed \o t)[i] = IF i <= Len(landed) THEN landed[i] ELSE t[i - Len(landed)]
          <5>1. landed \in Seq(Actions) /\ t \in Seq(Actions)
            BY <1>1, <2>3
          <5> QED
            BY <5>1, ConcatProperties, Zenon
        <4> QED
          BY <1>1, <1>2, <4>1, <4>2
      <3>2. ASSUME NEW i \in 1 .. n + 1 PROVE landed'[i] = Rows[i]
        <4>1. i \in 1 .. n \/ i = n + 1
          BY <1>1
        <4> QED
          BY <1>1, <2>3, <3>1, <4>1
      <3> QED
        BY <3>1, <3>2
    <2>6. row' = n + 2 /\ row' - 1 = n + 1 /\ row' \in 1 .. Len(Rows) + 1
      BY <1>0, <1>1, <1>2, <2>1
    <2>7. mints' = Cardinality(MintsTo(n + 1))
      BY <1>1, <1>2, <2>4, OneMore
    <2> QED
      BY <2>5, <2>6, <2>7 DEF Replayed, MintsTo
  <1> QED
    BY <1>3, <1>4

LEMMA InitSim == ScriptsInit => SimInv
  BY SimAssumption DEF ScriptsInit, SimInit, TerminalInit, SimInv, At

\* Steps that leave the instance's files and its network alone.
LEMMA SimKept ==
    ASSUME SimInv, UNCHANGED instance,
           At("setup", "start")' => simGen < MaxSimGen,
           At("setup", "objects")' => At("setup", "objects"),
           script' = "execute" => state # 0,
           At("execute", "rows")' => SetUp(objects') /\ Replayed',
           ~At("execute", "rows")' => row' = 1 /\ mints' = 0 /\ landed' = <<>>
    PROVE  SimInv'
  BY DEF SimInv, instance, SetUp, MintsTo

LEMMA SimEnds == ASSUME SimInv, script' = "none", SimForget, UNCHANGED instance PROVE SimInv'
  BY SimKept DEF At, SimForget

LEMMA NextSim == SimInv /\ Programs /\ [ScriptsNext]_scriptVars => SimInv'
  <1> SUFFICES ASSUME SimInv, Programs, [ScriptsNext]_scriptVars PROVE SimInv'
    OBVIOUS
  <1>1. CASE Kill
    BY <1>1, SimEnds DEF Kill, Dies
  <1>2. ASSUME UNCHANGED simVars,
               UNCHANGED <<script, pc>> \/ {script, script'} \cap {"setup", "execute"} = {}
        PROVE  SimInv'
    BY <1>2 DEF SimInv, simVars, instance, simMemory, SetUp, Replayed, At, MintsTo
  <1>3. CASE UNCHANGED scriptVars
    BY <1>2, <1>3 DEF scriptVars, terminal
  <1>4. CASE activity \in {"deploy", "feed"} /\ activity' = activity /\ UNCHANGED simVars
    <2>1. {script, script'} \cap {"setup", "execute"} = {}
      BY <1>4, NextPrograms DEF Programs, DeployScripts
    <2> QED
      BY <1>2, <1>4, <2>1
  <1>5. ASSUME NEW setup, NEW sim, RunSh(setup, sim) PROVE SimInv'
    <2>1. UNCHANGED instance /\ script = "none" /\ pc' = "start" /\ ~At("execute", "rows")
      BY <1>5 DEF RunSh, Starts, Idle, At
    <2>2. /\ script' = "setup" => simGen < MaxSimGen
          /\ script' = "execute" => state # 0
      BY <1>5 DEF RunSh, Starts
    <2>3. row' = row /\ mints' = mints /\ landed' = landed
      BY <1>5 DEF RunSh
    <2>4. row = 1 /\ mints = 0 /\ landed = <<>>
      BY <2>1 DEF SimInv
    <2> QED
      BY <2>1, <2>2, <2>3, <2>4, SimKept DEF At
  <1>6. CASE PublishPackages
    <2>1. /\ simGen' = simGen + 1 /\ setUp' = setUp /\ state' = state /\ results' = results
          /\ row' = row /\ mints' = mints /\ landed' = landed /\ objects' = objects
          /\ script = "setup" /\ script' = "setup" /\ pc = "start" /\ pc' = "objects"
      BY <1>6 DEF PublishPackages, SimGoesOn, Goto, simMemory, At
    <2>2. simGen < MaxSimGen /\ simGen \in Nat /\ MaxSimGen \in Nat /\ simGen + 1 \in 0 .. MaxSimGen
          /\ env' \in SimGens
      BY <1>6, <2>1, SimAssumption DEF SimInv, At, SimGens, PublishPackages
    <2> QED
      BY <2>1, <2>2 DEF SimInv, At, SetUp, MintsTo
  <1>7. CASE SetupTx
    <2>1. /\ simGen' = simGen /\ state' = state /\ results' = results
          /\ row' = row /\ mints' = mints /\ landed' = landed /\ objects' = objects
          /\ script = "setup" /\ script' = "setup" /\ pc = "objects" /\ pc' = "objects"
          /\ setUp[env] # Complete /\ env' = env
      BY <1>7 DEF SetupTx, SimGoesOn, Goto, simMemory, At
    <2>2. /\ setUp' = [g \in SimGens |-> setUp'[g]]
          /\ \A g \in SimGens : g # env => setUp'[g] = setUp[g]
      <3>1. PICK v : setUp' = [setUp EXCEPT ![env] = v]
        BY <1>7 DEF SetupTx
      <3>2. setUp = [g \in SimGens |-> setUp[g]]
        BY DEF SimInv
      <3> QED
        BY <3>1, <3>2
    <2>3. \A g : SetUp(g) => SetUp(g)'
      BY <2>1, <2>2 DEF SetUp
    <2>4. /\ state' # 0 => SetUp(state)'
          /\ results' # NoResults => SetUp(results.gen)'
      BY <2>1, <2>3 DEF SimInv
    <2> QED
      BY <2>1, <2>2, <2>4 DEF SimInv, At, MintsTo
  <1>8. CASE WriteState
    <2>1. /\ simGen' = simGen /\ setUp' = setUp /\ results' = results /\ state' = env
          /\ setUp[env] = Complete /\ script = "setup" /\ row' = 1 /\ mints' = 0 /\ landed' = <<>>
          /\ pc' = "start" /\ script' # "setup"
      BY <1>8 DEF WriteState, ReadyToSave, SimReturns, SimForget, Exits, simMemory, At, SimInv
    <2>2. env \in SimGens
      BY <1>8 DEF WriteState, SimInv, At
    <2> QED
      BY <2>1, <2>2, SimAssumption DEF SimInv, SetUp, At, SimGens, MintsTo
  <1>9. CASE ReadState
    <2>1. /\ UNCHANGED instance /\ objects' = state /\ row' = 1 /\ mints' = 0 /\ landed' = <<>>
          /\ script' = "execute" /\ pc' = "rows" /\ state # 0 /\ SetUp(state)
      BY <1>9 DEF ReadState, Goto, At, SimInv
    <2>2. Replayed'
      <3>1. MintsTo(0) = {} /\ MintsTo(0)' = MintsTo(0)
        BY DEF MintsTo
      <3> QED
        BY <2>1, <3>1, FS_EmptySet, SimAssumption DEF Replayed, MintsTo
    <2> QED
      BY <2>1, <2>2, SimKept DEF At
  <1>10. CASE RowLands
    <2>1. At("execute", "rows")
      BY <1>10 DEF RowLands, InRows
    <2>2. SetUp(objects) /\ Replayed /\ state # 0
      BY <2>1 DEF SimInv, At
    <2>3. Replayed'
      BY <1>10, <2>2, RowLandsReplays
    <2>4. UNCHANGED instance /\ objects' = objects /\ script' = "execute" /\ pc' = "rows"
      BY <1>10, <2>1 DEF RowLands, Goto, At
    <2> QED
      BY <2>2, <2>3, <2>4, SimKept DEF At
  <1>11. CASE RowRejected
    <2>1. CASE attempt + 1 < MaxAttempts
      <3>1. UNCHANGED <<instance, both, objects, row, mints, landed, script, pc>>
        BY <1>11, <2>1 DEF RowRejected, Goto, InRows, At
      <3> QED
        BY <3>1 DEF SimInv, instance, SetUp, Replayed, At, MintsTo
    <2>2. CASE ~(attempt + 1 < MaxAttempts)
      BY <1>11, <2>2, SimEnds DEF RowRejected, SimReturns, Exits
    <2> QED
      BY <2>1, <2>2
  <1>12. CASE RowAborts
    BY <1>12, SimEnds DEF RowAborts, SimReturns, Exits
  <1>13. CASE WriteResults
    <2>1. At("execute", "rows") /\ row > Len(Rows) /\ SetUp(objects) /\ Replayed
      BY <1>13 DEF WriteResults, SimInv
    <2>2. Rows \in Seq(Actions) /\ Len(Rows) \in Nat
      BY SimAssumption DEF Actions
    <2>3. row - 1 = Len(Rows)
      BY <2>1, <2>2 DEF Replayed
    <2>4. landed = Rows
      BY <2>1, <2>2, <2>3, SeqEqual DEF Replayed
    <2>5. mints = Cardinality(MintsTo(Len(Rows)))
      BY <2>1, <2>3 DEF Replayed
    <2>6. /\ results'.gen = objects /\ results'.rows = Rows
          /\ results'.mints = Cardinality(MintsTo(Len(Rows)))
      BY <1>13, <2>4, <2>5 DEF WriteResults, BuildResultsFile
    <2>7. /\ simGen' = simGen /\ setUp' = setUp /\ state' = state /\ script' = "none"
          /\ row' = 1 /\ mints' = 0 /\ landed' = <<>>
      BY <1>13 DEF WriteResults, SimReturns, SimForget, Exits
    <2> QED
      BY <2>1, <2>6, <2>7 DEF SimInv, SetUp, At, MintsTo
  <1> QED
    BY <1>1, <1>3, <1>4, <1>5, <1>6, <1>7, <1>8, <1>9, <1>10, <1>11, <1>12, <1>13
       DEF ScriptsNext, SimNext

\* A results.json reports the scenario exactly once, on one complete setup.
THEOREM ResultsReportOneReplay == Spec => []ResultsAreOneReplay
  <1>1. SimInv => ResultsAreOneReplay
    <2>1. DOMAIN Rows = 1 .. Len(Rows)
      BY SimAssumption
    <2> QED
      BY <2>1 DEF SimInv, ResultsAreOneReplay, MintsTo, SetUp
  <1> QED
    BY <1>1, InitPrograms, NextPrograms, InitSim, NextSim, PTL DEF Spec

-----------------------------------------------------------------------------
(* The start-up of the feed and its lanes.                                   *)

Feeding(steps) == script = "feed" /\ pc \in steps

\* The steps of the feed from the reading of the coins on: it has its caps.
HasCaps == {"coins", "refresh", "lanes", "serving", "reread"}

\* The signer's caps and coins are objects, and a createCaps in flight can pay.
WalletTypes ==
    /\ ownedCaps \subseteq CapIds /\ pending \in Nat /\ topUps \in 0 .. Len(TopUps)
    /\ DOMAIN sui \subseteq CoinIds /\ DOMAIN sui # {} /\ sui \in [DOMAIN sui -> Nat]
    /\ pending # 0 => SumCoinBalances >= Fee

\* At least as many caps as the feed knows; as many as lanes once it goes on.
CapsKnown ==
    /\ Feeding({"createCaps"}) =>
          /\ Len(knownCaps) \in Nat /\ Len(knownCaps) < PoolLanes
          /\ Len(knownCaps) <= Cardinality(ownedCaps)
          /\ ~even
    /\ Feeding(HasCaps) => Cardinality(ownedCaps) >= PoolLanes
    /\ even => Cardinality(ownedCaps) >= PoolLanes

\* The caps there may be: one for each lane, the surplus of each overtaken createCaps, and
\* those of others.
AllowedCaps == PoolLanes * (1 + overtaken) + foreign

\* A createCaps under way counts as if it had landed.  A start that is about to create the
\* missing caps has read all but the surplus.
CapsBounded ==
    /\ overtaken \in Nat /\ foreign \in Nat
    /\ Cardinality(ownedCaps) + pending <= AllowedCaps
    /\ Feeding({"createCaps"}) =>
          Cardinality(ownedCaps) + PoolLanes <= Len(knownCaps) + AllowedCaps

\* The caps that the feed knows are different ones of the signer's, in the end as many as lanes.
CapsAreTheirs ==
    /\ Feeding({"createCaps"} \cup HasCaps) =>
          /\ knownCaps \in Seq(CapIds) /\ IsInjective(knownCaps)
          /\ ToSet(knownCaps) \subseteq ownedCaps
    /\ Feeding({"coins"}) => Len(knownCaps) >= PoolLanes
    /\ Feeding(HasCaps \ {"coins"}) => Len(knownCaps) = PoolLanes

\* There is a coin for each lane from a refresh on, and a lane for it once it serves.
CoinsSuffice ==
    ~orphaned =>
        /\ Feeding({"lanes", "serving", "reread"}) => Cardinality(DOMAIN sui) >= PoolLanes
        /\ Feeding({"serving"}) => /\ Len(laneCoin) = PoolLanes /\ IsInjective(laneCoin)
                                   /\ ToSet(laneCoin) \subseteq DOMAIN sui

\* After a refresh no coin has less than its share, less the fee of the refresh.
Shared ==
    even => \A c \in DOMAIN sui : sui[c] + Fee >= (SumCoinBalances + Fee) \div PoolLanes

PoolInv ==
    WalletTypes /\ CapsKnown /\ CapsBounded /\ CapsAreTheirs /\ CoinsSuffice /\ Shared


LEMMA CoinsCounted ==
    ASSUME WalletTypes
    PROVE  /\ IsFiniteSet(DOMAIN sui) /\ NatValued(sui, DOMAIN sui)
           /\ Cardinality(DOMAIN sui) \in Nat \ {0} /\ SumCoinBalances \in Nat
  <1>1. IsFiniteSet(DOMAIN sui) /\ NatValued(sui, DOMAIN sui)
    BY PoolAssumption, FS_Subset DEF WalletTypes, NatValued
  <1>2. Cardinality(DOMAIN sui) \in Nat /\ Cardinality(DOMAIN sui) # 0
    BY <1>1, FS_CardinalityType, FS_EmptySet DEF WalletTypes
  <1> QED
    BY <1>1, <1>2, SumType DEF SumCoinBalances

LEMMA CapsCounted ==
    ASSUME WalletTypes
    PROVE  IsFiniteSet(ownedCaps) /\ Cardinality(ownedCaps) \in Nat
  BY PoolAssumption, FS_Subset, FS_CardinalityType DEF WalletTypes

\* sortCoinsByBalanceDesc lists the coins: equal balances are told apart by the identifiers.
LEMMA CoinsSorted ==
    ASSUME WalletTypes
    PROVE  LET s == SortCoinsByBalanceDesc
               n == Cardinality(DOMAIN sui)
           IN  /\ s \in [1 .. n -> DOMAIN sui] /\ Len(s) = n
               /\ \A i, j \in 1 .. n : s[i] = s[j] => i = j
               /\ s[1] \in DOMAIN sui
  <1> DEFINE s == SortCoinsByBalanceDesc
             n == Cardinality(DOMAIN sui)
  <1>1. \A c \in DOMAIN sui : c \in Nat /\ sui[c] \in Nat
    BY PoolAssumption DEF WalletTypes
  <1>2. \A a, b \in DOMAIN sui :
            <<a, b>> \in ByBalanceDesc <=> sui[a] > sui[b] \/ (sui[a] = sui[b] /\ a < b)
    BY DEF ByBalanceDesc
  <1>3. Orders(ByBalanceDesc, DOMAIN sui)
    BY <1>1, <1>2 DEF Orders
  <1>4. n \in Nat \ {0}
    BY CoinsCounted
  <1>5. s \in [1 .. n -> DOMAIN sui] /\ \A i, j \in 1 .. n : s[i] = s[j] => i = j
    BY <1>3, CoinsCounted, InOrderLists DEF SortCoinsByBalanceDesc
  <1> HIDE DEF s, n
  <1>6. Len(s) = n /\ 1 \in 1 .. n
    BY <1>4, <1>5
  <1>7. s[1] \in DOMAIN sui
    BY <1>5, <1>6
  <1> QED
    BY <1>5, <1>6, <1>7 DEF s, n

\* The lanes' coins, when there are enough of them.
LEMMA LargestCoins ==
    ASSUME WalletTypes, Cardinality(DOMAIN sui) >= PoolLanes
    PROVE  LET l == FirstOf(SortCoinsByBalanceDesc, PoolLanes)
           IN  Len(l) = PoolLanes /\ IsInjective(l) /\ ToSet(l) \subseteq DOMAIN sui
  <1> DEFINE s == SortCoinsByBalanceDesc
             n == Cardinality(DOMAIN sui)
             l == FirstOf(s, PoolLanes)
  <1>1. /\ s \in [1 .. n -> DOMAIN sui] /\ Len(s) = n
        /\ \A i, j \in 1 .. n : s[i] = s[j] => i = j
    BY CoinsSorted
  <1>2. n \in Nat /\ PoolLanes \in Nat /\ PoolLanes <= n
    BY CoinsCounted, PoolAssumption
  <1>3. l = SubSeq(s, 1, PoolLanes)
    BY <1>1, <1>2 DEF FirstOf
  <1> HIDE DEF s, n, l
  <1>4. l = [i \in 1 .. PoolLanes |-> s[i]]
    BY <1>1, <1>2, <1>3
  <1>5. DOMAIN l = 1 .. PoolLanes /\ Len(l) = PoolLanes
    BY <1>2, <1>4
  <1>6. \A i \in 1 .. PoolLanes : i \in 1 .. n
    BY <1>2
  <1>7. IsInjective(l)
    BY <1>1, <1>4, <1>5, <1>6 DEF IsInjective
  <1>8. ToSet(l) \subseteq DOMAIN sui
    BY <1>1, <1>4, <1>5, <1>6 DEF ToSet
  <1> QED
    BY <1>5, <1>7, <1>8 DEF l, s

\* getOwnedCaps lists the caps.
LEMMA CapsListed ==
    ASSUME WalletTypes
    PROVE  /\ GetOwnedCaps \in Seq(CapIds)
           /\ Len(GetOwnedCaps) = Cardinality(ownedCaps) /\ ToSet(GetOwnedCaps) = ownedCaps
           /\ IsInjective(GetOwnedCaps)
  <1> DEFINE s == GetOwnedCaps
             n == Cardinality(ownedCaps)
  <1>1. ownedCaps \in SUBSET Int /\ ownedCaps \subseteq CapIds
    BY PoolAssumption DEF WalletTypes
  <1>2. Orders(Ascending(ownedCaps), ownedCaps)
    BY <1>1, AscendingOrders
  <1>3. /\ s \in [1 .. n -> ownedCaps] /\ n \in Nat
        /\ \A x \in ownedCaps : \E i \in 1 .. n : s[i] = x
        /\ \A i, j \in 1 .. n : s[i] = s[j] => i = j
    BY <1>2, CapsCounted, InOrderLists DEF GetOwnedCaps
  <1> HIDE DEF s, n
  <1>4. s \in Seq(CapIds) /\ Len(s) = n
    <2>1. s \in [1 .. n -> CapIds]
      BY <1>1, <1>3
    <2>2. s \in Seq(CapIds)
      BY <1>3, <2>1
    <2> QED
      BY <1>3, <2>1, <2>2
  <1>5. ToSet(s) = ownedCaps
    BY <1>3 DEF ToSet
  <1>6. IsInjective(s)
    BY <1>3 DEF IsInjective
  <1> QED
    BY <1>4, <1>5, <1>6 DEF s, n

\* Smashing the coins into one leaves one.
LEMMA SmashedTypes ==
    ASSUME WalletTypes, SumCoinBalances >= Fee, sui' = SmashedCoins
    PROVE  DOMAIN sui' \subseteq CoinIds /\ DOMAIN sui' # {} /\ sui' \in [DOMAIN sui' -> Nat]
  <1> DEFINE k == SortCoinsByBalanceDesc[1]
             v == SumCoinBalances - Fee
  <1>1. k \in CoinIds
    BY CoinsSorted DEF WalletTypes
  <1>2. v \in Nat
    BY CoinsCounted, PoolAssumption
  <1>3. sui' = [c \in {k} |-> v]
    BY DEF SmashedCoins
  <1> HIDE DEF k, v
  <1> QED
    BY <1>1, <1>2, <1>3

\* A refresh that executes leaves one coin for each lane, worth its share or, for the one
\* that paid, as much less the fee.
LEMMA RefreshShares ==
    ASSUME WalletTypes, RefreshTx
    PROVE  /\ DOMAIN sui' \subseteq CoinIds /\ DOMAIN sui' # {} /\ sui' \in [DOMAIN sui' -> Nat]
           /\ Cardinality(DOMAIN sui') = PoolLanes
           /\ SumCoinBalances' = SumCoinBalances - Fee
           /\ \A c \in DOMAIN sui' : sui'[c] + Fee >= SumCoinBalances \div PoolLanes
  <1> DEFINE p == SortCoinsByBalanceDesc[1]
             a == AmountPerLane
             k == PrimaryKeeps
             t == SumCoinBalances
             m == PoolLanes - 1
  <1>1. PICK new \in SUBSET FreshCoins :
            /\ Cardinality(new) = m
            /\ sui' = [c \in new \cup {p} |-> IF c \in new THEN a ELSE k - Fee]
    BY DEF RefreshTx, kSubset
  <1>2. k >= Fee
    BY DEF RefreshTx, CanRefresh
  <1>3. t \in Nat /\ PoolLanes \in Nat \ {0} /\ Fee \in Nat /\ m \in Nat
    BY CoinsCounted, PoolAssumption
  <1>4. a = t \div PoolLanes /\ k = t - m * a
    BY DEF AmountPerLane, PrimaryKeeps
  <1>5. p \in DOMAIN sui /\ p \notin new /\ p \in CoinIds /\ new \subseteq CoinIds
    BY CoinsSorted DEF WalletTypes, FreshCoins
  <1> HIDE DEF p, a, k, t, m
  <1>6. a \in Nat /\ PoolLanes * a <= t
    BY <1>3, <1>4
  <1>7. m * a \in Nat /\ m * a + a = PoolLanes * a
    <2>1. (m + 1) * a = m * a + a /\ m * a \in Nat
      BY <1>3, <1>6
    <2>2. m + 1 = PoolLanes
      BY <1>3 DEF m
    <2> QED
      BY <2>1, <2>2
  <1>8. k \in Nat /\ k >= a /\ k - Fee \in Nat
    <2>1. k = t - m * a /\ m * a + a <= t
      BY <1>4, <1>6, <1>7
    <2> HIDE DEF k
    <2> QED
      BY <1>2, <1>3, <1>6, <1>7, <2>1
  <1>9. IsFiniteSet(new)
    BY <1>5, PoolAssumption, FS_Subset
  <1>10. /\ DOMAIN sui' = new \cup {p} /\ sui'[p] = k - Fee
         /\ \A c \in new : sui'[c] = a
    BY <1>1, <1>5
  <1>11. sui' \in [DOMAIN sui' -> Nat]
    BY <1>1, <1>6, <1>8
  <1>12. Cardinality(DOMAIN sui') = PoolLanes
    <2>1. Cardinality(new \cup {p}) = m + 1
      BY <1>1, <1>5, <1>9, FS_AddElement
    <2> QED
      BY <1>3, <1>10, <2>1 DEF m
  <1>13. SumCoinBalances' = t - Fee
    <2>1. SumOver(new, sui') = m * a
      BY <1>1, <1>6, <1>9, <1>10, SumConstant
    <2>2. SumOver({p}, sui') = k - Fee
      BY <1>8, <1>10, SumSingle DEF NatValued
    <2>3. NatValued(sui', new \cup {p}) /\ IsFiniteSet({p}) /\ new \cap {p} = {}
      BY <1>5, <1>6, <1>8, <1>10, FS_Singleton DEF NatValued
    <2>4. SumOver(new \cup {p}, sui') = m * a + (k - Fee)
      BY <1>9, <2>1, <2>2, <2>3, SumUnion
    <2>5. SumCoinBalances' = m * a + (k - Fee)
      BY <1>10, <2>4 DEF SumCoinBalances
    <2> QED
      BY <1>3, <1>4, <1>7, <1>8, <2>5
  <1>14. \A c \in DOMAIN sui' : sui'[c] + Fee >= a
    BY <1>3, <1>6, <1>8, <1>10
  <1> QED
    BY <1>4, <1>5, <1>10, <1>11, <1>12, <1>13, <1>14 DEF t

\* A coin that is sent to the signer adds its balance.
LEMMA TopUpAdds ==
    ASSUME WalletTypes, TopUp
    PROVE  /\ DOMAIN sui' \subseteq CoinIds /\ DOMAIN sui' # {} /\ sui' \in [DOMAIN sui' -> Nat]
           /\ DOMAIN sui \subseteq DOMAIN sui' /\ SumCoinBalances' >= SumCoinBalances
           /\ topUps' \in 0 .. Len(TopUps)
  <1> DEFINE m == Min(FreshCoins)
             v == TopUps[topUps + 1]
  <1>1. /\ FreshCoins # {} /\ topUps < Len(TopUps) /\ topUps' = topUps + 1
        /\ sui' = [c \in DOMAIN sui \cup {m} |-> IF c \in DOMAIN sui THEN sui[c] ELSE v]
    BY DEF TopUp
  <1>2. m \in FreshCoins
    <2>1. FreshCoins \in SUBSET Nat
      BY PoolAssumption DEF FreshCoins
    <2> QED
      BY <1>1, <2>1, LeastNatural DEF Min
  <1>3. m \in CoinIds /\ m \notin DOMAIN sui
    BY <1>2 DEF FreshCoins
  <1>4. v \in Nat /\ topUps + 1 \in 0 .. Len(TopUps)
    BY <1>1, PoolAssumption DEF WalletTypes
  <1> HIDE DEF m, v
  <1>5. DOMAIN sui' = DOMAIN sui \cup {m} /\ sui' \in [DOMAIN sui' -> Nat]
    BY <1>1, <1>3, <1>4 DEF WalletTypes
  <1>6. sui'[m] = v /\ \A c \in DOMAIN sui : sui'[c] = sui[c]
    BY <1>1, <1>3
  <1>7. SumCoinBalances' = SumCoinBalances + v
    <2>1. NatValued(sui', DOMAIN sui \cup {m}) /\ NatValued(sui', {m}) /\ IsFiniteSet({m})
      BY <1>5, FS_Singleton DEF NatValued
    <2>2. SumOver(DOMAIN sui \cup {m}, sui') = SumOver(DOMAIN sui, sui') + SumOver({m}, sui')
      BY <1>3, <2>1, CoinsCounted, SumUnion
    <2>3. SumOver(DOMAIN sui, sui') = SumCoinBalances
      BY <1>6, SumSame DEF SumCoinBalances
    <2>4. SumOver({m}, sui') = v
      BY <1>4, <1>6, SumSingle DEF NatValued
    <2> QED
      BY <1>5, <2>2, <2>3, <2>4 DEF SumCoinBalances
  <1>8. SumCoinBalances' >= SumCoinBalances
    BY <1>4, <1>7, CoinsCounted
  <1> QED
    BY <1>1, <1>3, <1>4, <1>5, <1>8 DEF WalletTypes

LEMMA WalletStep == ASSUME PoolInv, PoolNext PROVE WalletTypes'
  <1> USE DEF WalletTypes
  <1>0. WalletTypes
    BY DEF PoolInv
  <1>1. ASSUME UNCHANGED <<ownedCaps, pending, topUps, sui>> PROVE WalletTypes'
    BY <1>0, <1>1 DEF SumCoinBalances
  <1>2. CASE \/ StartFeed \/ NotAdmin \/ ReadCaps \/ CreateCapsRefused \/ CheckFloor
             \/ FirstRefreshNoop \/ LanesReady \/ WindowRereads \/ WindowThrows \/ AdminCapMoves
    BY <1>1, <1>2 DEF StartFeed, NotAdmin, ReadCaps, CreateCapsRefused, CheckFloor,
       FirstRefreshNoop, LanesReady, WindowRereads, WindowThrows, AdminCapMoves, poolVars, wallet
  <1>3. CASE CreateCaps \/ LateCaps \/ OperatorCreatesCap
    <2>1. /\ sui' = SmashedCoins /\ pending' = 0 /\ topUps' = topUps /\ ownedCaps' \subseteq CapIds
          /\ SumCoinBalances >= Fee
      BY <1>0, <1>3 DEF CreateCaps, CanCreateCaps, LateCaps, OperatorCreatesCap, kSubset
    <2> QED
      BY <1>0, <2>1, SmashedTypes
  <1>4. CASE CreateCapsLost
    <2>1. /\ ownedCaps' = ownedCaps /\ sui' = sui /\ topUps' = topUps
          /\ pending' = Missing /\ SumCoinBalances >= Fee /\ Feeding({"createCaps"})
      BY <1>4 DEF CreateCapsLost, CanCreateCaps, At, Feeding
    <2>2. pending' \in Nat
      BY <2>1, PoolAssumption DEF PoolInv, CapsKnown, Missing
    <2> QED
      BY <1>0, <2>1, <2>2 DEF SumCoinBalances
  <1>5. CASE FirstRefresh
    <2>1. CASE CanRefresh
      <3>1. RefreshTx
        BY <1>5, <2>1 DEF FirstRefresh
      <3>2. UNCHANGED <<ownedCaps, topUps>> /\ pending' = 0
        BY <3>1 DEF RefreshTx
      <3> QED
        BY <1>0, <3>1, <3>2, RefreshShares
    <2>2. CASE ~CanRefresh
      BY <1>1, <1>5, <2>2 DEF FirstRefresh, wallet
    <2> QED
      BY <2>1, <2>2
  <1>6. CASE WindowRefresh
    <2>1. RefreshTx
      BY <1>6 DEF WindowRefresh
    <2>2. UNCHANGED <<ownedCaps, topUps>> /\ pending' = 0
      BY <2>1 DEF RefreshTx
    <2> QED
      BY <1>0, <2>1, <2>2, RefreshShares
  <1>7. CASE \E i \in 1 .. PoolLanes : LaneSpends(i)
    <2>1. PICK i \in 1 .. PoolLanes : LaneSpends(i)
      BY <1>7
    <2>2. /\ laneCoin[i] \in DOMAIN sui /\ sui[laneCoin[i]] >= Fee
          /\ sui' = [sui EXCEPT ![laneCoin[i]] = @ - Fee]
          /\ pending' = 0 /\ UNCHANGED <<ownedCaps, topUps>>
      BY <2>1 DEF LaneSpends
    <2>3. DOMAIN sui' = DOMAIN sui /\ sui' \in [DOMAIN sui -> Nat]
      BY <1>0, <2>2, PoolAssumption
    <2> QED
      BY <1>0, <2>2, <2>3
  <1>8. CASE TopUp
    <2>1. UNCHANGED <<ownedCaps, pending>>
      BY <1>8 DEF TopUp
    <2>2. pending' # 0 => SumCoinBalances' >= Fee
      <3>1. SumCoinBalances' >= SumCoinBalances
        BY <1>0, <1>8, TopUpAdds
      <3>2. NatValued(sui', DOMAIN sui') /\ IsFiniteSet(DOMAIN sui')
        BY <1>0, <1>8, TopUpAdds, PoolAssumption, FS_Subset DEF NatValued
      <3>3. SumCoinBalances' \in Nat
        BY <3>2, SumType DEF SumCoinBalances
      <3> QED
        BY <1>0, <2>1, <3>1, <3>3, CoinsCounted, PoolAssumption
    <2> QED
      BY <1>0, <1>8, <2>1, <2>2, TopUpAdds
  <1> QED
    BY <1>2, <1>3, <1>4, <1>5, <1>6, <1>7, <1>8 DEF PoolNext

\* New caps are not among the old ones.
LEMMA CapsAdded ==
    ASSUME WalletTypes, NEW k \in Nat, NEW new \in kSubset(k, CapIds \ ownedCaps)
    PROVE  /\ Cardinality(ownedCaps \cup new) = Cardinality(ownedCaps) + k
           /\ IsFiniteSet(new) /\ Cardinality(new) = k /\ new \subseteq CapIds
  <1>1. new \subseteq CapIds /\ new \cap ownedCaps = {} /\ Cardinality(new) = k
    BY DEF kSubset
  <1>2. IsFiniteSet(new)
    BY <1>1, PoolAssumption, FS_Subset
  <1>3. /\ Cardinality(ownedCaps \cup new)
             = Cardinality(ownedCaps) + Cardinality(new) - Cardinality(ownedCaps \cap new)
        /\ Cardinality(ownedCaps \cap new) = 0
    BY <1>1, <1>2, CapsCounted, FS_Union, FS_EmptySet
  <1>4. Cardinality(ownedCaps) \in Nat
    BY CapsCounted
  <1> QED
    BY <1>1, <1>2, <1>3, <1>4

\* An enumeration of a finite set has all its members.
LEMMA EnumerationCovers ==
    ASSUME NEW S, IsFiniteSet(S), NEW s \in SetToSeqs(S)
    PROVE  s \in Seq(S) /\ Len(s) = Cardinality(S) /\ ToSet(s) = S /\ IsInjective(s)
  <1> DEFINE n == Cardinality(S)
  <1>1. n \in Nat
    BY FS_CardinalityType
  <1>2. s \in [1 .. n -> S] /\ \A i, j \in 1 .. n : i # j => s[i] # s[j]
    BY DEF SetToSeqs
  <1>3. IsFiniteSet(1 .. n) /\ Cardinality(1 .. n) = n
    BY <1>1, FS_Interval
  <1> HIDE DEF n
  <1>4. s \in Injection(1 .. n, S)
    BY <1>2, Zenon DEF Injection, IsInjective
  <1>5. s \in Surjection(1 .. n, S)
    BY <1>3, <1>4, FS_Injection DEF n
  <1>6. ToSet(s) = S
    BY <1>2, <1>5 DEF ToSet, Surjection
  <1>7. IsInjective(s)
    BY <1>2, Zenon DEF IsInjective
  <1> QED
    BY <1>1, <1>2, <1>6, <1>7 DEF n

\* What is appended to a list of different caps, and what is kept of one.
LEMMA CapsAppended ==
    ASSUME NEW S, NEW s \in Seq(S), IsInjective(s), NEW t \in Seq(S), IsInjective(t),
           ToSet(s) \cap ToSet(t) = {}
    PROVE  /\ s \o t \in Seq(S) /\ Len(s \o t) = Len(s) + Len(t)
           /\ IsInjective(s \o t) /\ ToSet(s \o t) \subseteq ToSet(s) \cup ToSet(t)
  <1> DEFINE c == s \o t
             m == Len(s)
             n == Len(t)
  <1>1. /\ c \in Seq(S) /\ Len(c) = m + n
        /\ \A i \in 1 .. m + n : c[i] = IF i <= m THEN s[i] ELSE t[i - m]
    BY ConcatProperties, Zenon
  <1>2. /\ DOMAIN c = 1 .. m + n /\ DOMAIN s = 1 .. m /\ DOMAIN t = 1 .. n
        /\ m \in Nat /\ n \in Nat
    BY <1>1, LenProperties
  <1> HIDE DEF c, m, n
  <1>3. \A i \in DOMAIN c : \/ i \in DOMAIN s /\ c[i] = s[i]
                            \/ i - m \in DOMAIN t /\ i \in Nat /\ c[i] = t[i - m]
    BY <1>1, <1>2
  <1>4. ToSet(c) \subseteq ToSet(s) \cup ToSet(t)
    BY <1>3 DEF ToSet
  <1>5. ASSUME NEW i \in DOMAIN c, NEW j \in DOMAIN c, c[i] = c[j] PROVE i = j
    <2>1. /\ \A k \in DOMAIN s : s[k] \in ToSet(s)
          /\ \A k \in DOMAIN t : t[k] \in ToSet(t)
      BY DEF ToSet
    <2>2. CASE i \in DOMAIN s /\ c[i] = s[i] /\ j \in DOMAIN s /\ c[j] = s[j]
      BY <1>5, <2>2 DEF IsInjective
    <2>3. CASE /\ i - m \in DOMAIN t /\ i \in Nat /\ c[i] = t[i - m]
               /\ j - m \in DOMAIN t /\ j \in Nat /\ c[j] = t[j - m]
      <3>1. i - m = j - m
        BY <1>5, <2>3 DEF IsInjective
      <3> QED
        BY <1>2, <2>3, <3>1
    <2> QED
      BY <1>3, <1>5, <2>1, <2>2, <2>3
  <1>6. IsInjective(c)
    BY <1>5 DEF IsInjective
  <1> QED
    BY <1>1, <1>4, <1>6 DEF c, m, n

LEMMA CapsKept ==
    ASSUME NEW S, NEW s \in Seq(S), IsInjective(s), NEW n \in Nat, n <= Len(s)
    PROVE  LET f == FirstOf(s, n)
           IN  f \in Seq(S) /\ Len(f) = n /\ IsInjective(f) /\ ToSet(f) \subseteq ToSet(s)
  <1> DEFINE f == FirstOf(s, n)
             m == Len(s)
  <1>1. m \in Nat /\ s \in [1 .. m -> S] /\ n <= m
    BY LenProperties
  <1>2. f = SubSeq(s, 1, n)
    <2> HIDE DEF f, m
    <2>1. n < m \/ n = m
      BY <1>1
    <2>2. (IF n < m THEN n ELSE m) = n
      BY <2>1, Zenon
    <2> QED
      BY <2>2, Zenon DEF FirstOf, f, m
  <1> HIDE DEF f, m
  <1>3. f = [i \in 1 .. n |-> s[i]]
    BY <1>1, <1>2
  <1>4. DOMAIN f = 1 .. n /\ Len(f) = n /\ \A i \in 1 .. n : i \in 1 .. m
    BY <1>1, <1>3
  <1>5. f \in Seq(S)
    <2>1. f \in [1 .. n -> S]
      BY <1>1, <1>3, <1>4
    <2> QED
      BY <2>1
  <1>6. IsInjective(f) /\ ToSet(f) \subseteq ToSet(s)
    BY <1>1, <1>3, <1>4 DEF IsInjective, ToSet
  <1> QED
    BY <1>4, <1>5, <1>6 DEF f

\* The steps that create no caps and keep what the feed knows of them, or forget it.
LEMMA CapsStay ==
    ASSUME PoolInv, ownedCaps' = ownedCaps, even' = even \/ ~even',
           \/ script' # "feed" \/ pc' = "start"
           \/ script' = script /\ pc' = pc /\ knownCaps' = knownCaps
           \/ Feeding(HasCaps \ {"coins"}) /\ pc' \in HasCaps \ {"coins"} /\ knownCaps' = knownCaps
    PROVE  CapsKnown' /\ CapsAreTheirs'
  BY DEF PoolInv, CapsKnown, CapsAreTheirs, Feeding, HasCaps

LEMMA CapsStep == ASSUME PoolInv, PoolNext PROVE CapsKnown' /\ CapsAreTheirs'
  <1>0. WalletTypes /\ CapsKnown /\ CapsAreTheirs
    BY DEF PoolInv
  <1>a. Cardinality(ownedCaps) \in Nat /\ PoolLanes \in Nat \ {0}
    BY <1>0, CapsCounted, PoolAssumption
  <1>1. CASE \/ StartFeed \/ NotAdmin \/ CreateCapsRefused \/ AdminCapMoves \/ TopUp
             \/ FirstRefreshNoop \/ LanesReady \/ WindowRereads \/ WindowThrows \/ CreateCapsLost
             \/ \E i \in 1 .. PoolLanes : LaneSpends(i)
    <2>1. /\ ownedCaps' = ownedCaps
          /\ \/ script' # "feed" \/ pc' = "start"
             \/ script' = script /\ pc' = pc /\ knownCaps' = knownCaps
             \/ /\ Feeding(HasCaps \ {"coins"}) /\ pc' \in HasCaps \ {"coins"}
                /\ knownCaps' = knownCaps
          /\ even' = even \/ ~even'
      <3>1. CASE StartFeed \/ NotAdmin
        BY <3>1 DEF StartFeed, NotAdmin, Starts, Exits, poolVars, wallet, poolHistory
      <3>2. CASE CreateCapsRefused \/ CreateCapsLost
        BY <3>2 DEF CreateCapsRefused, CreateCapsLost, Exits, Dies, wallet, poolHistory
      <3>3. CASE AdminCapMoves
        BY <3>3 DEF AdminCapMoves, Idle, At, terminal, poolVars, wallet, process, poolHistory
      <3>4. CASE TopUp
        BY <1>0, <3>4 DEF TopUp, terminal, process
      <3>5. CASE FirstRefreshNoop \/ LanesReady \/ WindowRereads \/ WindowThrows
        BY <3>5 DEF FirstRefreshNoop, LanesReady, WindowRereads, WindowThrows, At, Goto, wallet,
           process, poolHistory, Feeding, HasCaps
      <3>6. CASE \E i \in 1 .. PoolLanes : LaneSpends(i)
        BY <3>6 DEF LaneSpends, At, terminal, process
      <3> QED
        BY <1>1, <3>1, <3>2, <3>3, <3>4, <3>5, <3>6
    <2> QED
      BY <2>1, CapsStay
  <1>2. CASE ReadCaps
    <2>1. /\ knownCaps' = GetOwnedCaps /\ script' = script /\ script = "feed"
          /\ pc' = IF Cardinality(ownedCaps) < PoolLanes THEN "createCaps" ELSE "coins"
          /\ ownedCaps' = ownedCaps /\ even' = even
      BY <1>2 DEF ReadCaps, At, Goto, wallet, poolHistory
    <2> QED
      BY <1>0, <1>a, <2>1, CapsListed DEF CapsKnown, CapsAreTheirs, Feeding, HasCaps
  <1>3. CASE CreateCaps
    <2>1. PICK new \in kSubset(Missing, CapIds \ ownedCaps) :
              /\ ownedCaps' = ownedCaps \cup new
              /\ \E order \in SetToSeqs(new) : knownCaps' = knownCaps \o order
      BY <1>3 DEF CreateCaps
    <2>2. PICK order \in SetToSeqs(new) : knownCaps' = knownCaps \o order
      BY <2>1
    <2>3. /\ Feeding({"createCaps"}) /\ script' = script /\ pc' = "coins" /\ even' = even
      BY <1>3 DEF CreateCaps, At, Goto, poolHistory, Feeding
    <2>4. /\ Len(knownCaps) \in Nat /\ Missing = PoolLanes - Len(knownCaps) /\ Missing \in Nat
          /\ Len(knownCaps) <= Cardinality(ownedCaps) /\ ~even
          /\ knownCaps \in Seq(CapIds) /\ IsInjective(knownCaps)
          /\ ToSet(knownCaps) \subseteq ownedCaps
      BY <1>0, <1>a, <2>3 DEF Missing, CapsKnown, CapsAreTheirs, Feeding
    <2>5. /\ Cardinality(ownedCaps') = Cardinality(ownedCaps) + Missing
          /\ IsFiniteSet(new) /\ Cardinality(new) = Missing /\ new \subseteq CapIds
          /\ new \cap ownedCaps = {}
      BY <1>0, <2>1, <2>4, CapsAdded DEF kSubset
    <2>6. order \in Seq(CapIds) /\ Len(order) = Missing /\ ToSet(order) = new /\ IsInjective(order)
      <3>1. order \in Seq(new) /\ Len(order) = Missing /\ ToSet(order) = new /\ IsInjective(order)
        BY <2>2, <2>5, EnumerationCovers
      <3> QED
        BY <2>5, <3>1, SeqMonotonic
    <2>7. /\ knownCaps' \in Seq(CapIds) /\ Len(knownCaps') = Len(knownCaps) + Missing
          /\ IsInjective(knownCaps') /\ ToSet(knownCaps') \subseteq ownedCaps'
      <3>1. ToSet(knownCaps) \cap ToSet(order) = {}
        BY <2>4, <2>5, <2>6
      <3> QED
        BY <2>1, <2>2, <2>4, <2>6, <3>1, CapsAppended
    <2>8. Len(knownCaps') = PoolLanes /\ Cardinality(ownedCaps') >= PoolLanes
      BY <1>a, <2>4, <2>5, <2>7
    <2>9. script' = "feed" /\ pc' = "coins" /\ ~even'
      BY <2>3, <2>4 DEF Feeding
    <2> QED
      BY <1>a, <2>7, <2>8, <2>9 DEF CapsKnown, CapsAreTheirs, Feeding, HasCaps
  <1>4. CASE LateCaps
    <2>1. PICK new \in kSubset(pending, CapIds \ ownedCaps) : ownedCaps' = ownedCaps \cup new
      BY <1>4 DEF LateCaps
    <2>2. pending \in Nat /\ UNCHANGED <<script, pc, knownCaps>> /\ even' = FALSE
      BY <1>0, <1>4 DEF LateCaps, terminal, process, WalletTypes
    <2>3. Cardinality(ownedCaps') = Cardinality(ownedCaps) + pending
      BY <1>0, <2>1, <2>2, CapsAdded
    <2>4. Cardinality(ownedCaps') >= Cardinality(ownedCaps) /\ Cardinality(ownedCaps') \in Nat
      BY <1>a, <2>2, <2>3
    <2> QED
      BY <1>0, <1>a, <2>1, <2>2, <2>4 DEF CapsKnown, CapsAreTheirs, Feeding, HasCaps
  <1>5. CASE OperatorCreatesCap
    <2>1. script' = "none" /\ ~even'
      BY <1>5 DEF OperatorCreatesCap, Idle, terminal
    <2> QED
      BY <2>1 DEF CapsKnown, CapsAreTheirs, Feeding
  <1>6. CASE CheckFloor
    <2>1. /\ UNCHANGED <<ownedCaps, even>> /\ Feeding({"coins"})
          /\ \/ script' = "none"
             \/ /\ script' = script /\ pc' = "refresh"
                /\ knownCaps' = FirstOf(knownCaps, PoolLanes)
      BY <1>6 DEF CheckFloor, At, Exits, Goto, wallet, poolHistory, Feeding
    <2>2. /\ knownCaps \in Seq(CapIds) /\ IsInjective(knownCaps) /\ Len(knownCaps) >= PoolLanes
          /\ ToSet(knownCaps) \subseteq ownedCaps
      BY <1>0, <2>1 DEF CapsAreTheirs, Feeding, HasCaps
    <2>3. /\ FirstOf(knownCaps, PoolLanes) \in Seq(CapIds)
          /\ Len(FirstOf(knownCaps, PoolLanes)) = PoolLanes
          /\ IsInjective(FirstOf(knownCaps, PoolLanes))
          /\ ToSet(FirstOf(knownCaps, PoolLanes)) \subseteq ownedCaps
      BY <1>a, <2>2, CapsKept
    <2> QED
      BY <1>0, <2>1, <2>3 DEF CapsKnown, CapsAreTheirs, Feeding, HasCaps
  <1>7. CASE FirstRefresh \/ WindowRefresh
    <2>1. /\ ownedCaps' = ownedCaps /\ Feeding(HasCaps \ {"coins"})
          /\ \/ script' = "none" /\ even' = even
             \/ pc' \in HasCaps \ {"coins"} /\ knownCaps' = knownCaps
      BY <1>7 DEF FirstRefresh, WindowRefresh, RefreshTx, At, Exits, Goto, wallet, process,
         Feeding, HasCaps
    <2> QED
      BY <1>0, <2>1 DEF CapsKnown, CapsAreTheirs, Feeding, HasCaps
  <1> QED
    BY <1>1, <1>2, <1>3, <1>4, <1>5, <1>6, <1>7 DEF PoolNext

\* Each overtaken createCaps makes room for itself, and each cap of others for itself.
LEMMA BoundStep == ASSUME PoolInv, PoolNext PROVE CapsBounded'
  <1>0. WalletTypes /\ CapsKnown /\ CapsBounded
    BY DEF PoolInv
  <1>a. /\ Cardinality(ownedCaps) \in Nat /\ PoolLanes \in Nat \ {0} /\ pending \in Nat
        /\ AllowedCaps \in Nat /\ AllowedCaps >= PoolLanes
        /\ overtaken \in Nat /\ foreign \in Nat
    <2>1. /\ Cardinality(ownedCaps) \in Nat /\ PoolLanes \in Nat \ {0} /\ pending \in Nat
          /\ overtaken \in Nat /\ foreign \in Nat
      BY <1>0, CapsCounted, PoolAssumption DEF WalletTypes, CapsBounded
    <2>2. PoolLanes * (1 + overtaken) = PoolLanes + PoolLanes * overtaken
          /\ PoolLanes * overtaken \in Nat
      BY <2>1
    <2> QED
      BY <2>1, <2>2 DEF AllowedCaps
  <1>b. Feeding({"createCaps"}) =>
          /\ Len(knownCaps) \in Nat /\ Len(knownCaps) < PoolLanes
          /\ Cardinality(ownedCaps) + PoolLanes <= Len(knownCaps) + AllowedCaps
    BY <1>0 DEF CapsKnown, CapsBounded
  <1>c. Cardinality(ownedCaps) + pending <= AllowedCaps
    BY <1>0 DEF CapsBounded
  <1>1. ASSUME UNCHANGED <<ownedCaps, surplus>>, pending' = pending \/ pending' = 0,
               \/ ~Feeding({"createCaps"})'
               \/ UNCHANGED <<script, pc, knownCaps>>
        PROVE  CapsBounded'
    <2>1. AllowedCaps' = AllowedCaps /\ UNCHANGED <<overtaken, foreign>>
      BY <1>1 DEF AllowedCaps, surplus
    <2>2. Cardinality(ownedCaps) + pending' <= AllowedCaps
      BY <1>1, <1>a, <1>c
    <2> QED
      BY <1>1, <1>a, <1>b, <2>1, <2>2 DEF CapsBounded, Feeding
  <1>2. CASE \/ StartFeed \/ NotAdmin \/ CreateCapsRefused \/ CheckFloor \/ AdminCapMoves \/ TopUp
             \/ FirstRefreshNoop \/ LanesReady \/ WindowRereads \/ WindowThrows
    BY <1>1, <1>2 DEF StartFeed, NotAdmin, CreateCapsRefused, CheckFloor, AdminCapMoves, TopUp,
       FirstRefreshNoop, LanesReady, WindowRereads, WindowThrows, Starts, Exits, Goto, terminal,
       poolVars, wallet, process, poolHistory, Feeding
  <1>3. CASE FirstRefresh \/ WindowRefresh \/ \E i \in 1 .. PoolLanes : LaneSpends(i)
    <2>1. /\ UNCHANGED <<ownedCaps, surplus>> /\ (pending' = pending \/ pending' = 0)
          /\ ~Feeding({"createCaps"})'
      BY <1>3 DEF FirstRefresh, WindowRefresh, LaneSpends, RefreshTx, At, Exits, Goto, terminal,
         wallet, poolHistory, Feeding
    <2> QED
      BY <1>1, <2>1
  <1>4. CASE ReadCaps
    <2>1. UNCHANGED <<ownedCaps, pending, surplus>> /\ knownCaps' = GetOwnedCaps
      BY <1>4 DEF ReadCaps, wallet, poolHistory
    <2>2. Len(knownCaps') = Cardinality(ownedCaps)
      BY <1>0, <2>1, CapsListed
    <2>3. AllowedCaps' = AllowedCaps /\ UNCHANGED <<overtaken, foreign>>
      BY <2>1 DEF AllowedCaps, surplus
    <2> QED
      BY <1>a, <1>c, <2>1, <2>2, <2>3 DEF CapsBounded
  <1>5. CASE CreateCaps
    <2>1. PICK new \in kSubset(Missing, CapIds \ ownedCaps) : ownedCaps' = ownedCaps \cup new
      BY <1>5 DEF CreateCaps
    <2>2. Feeding({"createCaps"}) /\ pc' = "coins" /\ pending' = 0 /\ UNCHANGED surplus
      BY <1>5 DEF CreateCaps, At, Goto, poolHistory, Feeding
    <2>3. Missing = PoolLanes - Len(knownCaps) /\ Missing \in Nat
      BY <1>a, <1>b, <2>2 DEF Missing
    <2>4. Cardinality(ownedCaps') = Cardinality(ownedCaps) + Missing
      BY <1>0, <2>1, <2>3, CapsAdded
    <2>5. Cardinality(ownedCaps') <= AllowedCaps /\ Cardinality(ownedCaps') \in Nat
      BY <1>a, <1>b, <2>2, <2>3, <2>4
    <2>6. AllowedCaps' = AllowedCaps /\ UNCHANGED <<overtaken, foreign>>
      BY <2>2 DEF AllowedCaps, surplus
    <2>7. Cardinality(ownedCaps') + pending' <= AllowedCaps'
      BY <2>2, <2>5, <2>6
    <2> QED
      BY <1>a, <2>2, <2>6, <2>7 DEF CapsBounded, Feeding
  <1>6. CASE CreateCapsLost
    <2>1. /\ Feeding({"createCaps"}) /\ script' = "none" /\ pending' = Missing
          /\ UNCHANGED <<ownedCaps, surplus>>
      BY <1>6 DEF CreateCapsLost, At, Dies, poolHistory, Feeding
    <2>2. AllowedCaps' = AllowedCaps /\ UNCHANGED <<overtaken, foreign>>
      BY <2>1 DEF AllowedCaps, surplus
    <2>3. Cardinality(ownedCaps) + pending' <= AllowedCaps
      BY <1>a, <1>b, <2>1 DEF Missing
    <2> QED
      BY <1>a, <2>1, <2>2, <2>3 DEF CapsBounded, Feeding
  <1>7. CASE LateCaps
    <2>1. PICK new \in kSubset(pending, CapIds \ ownedCaps) : ownedCaps' = ownedCaps \cup new
      BY <1>7 DEF LateCaps
    <2>2. /\ pending' = 0 /\ foreign' = foreign /\ UNCHANGED <<script, pc, knownCaps>>
          /\ overtaken' = IF Feeding({"createCaps"}) THEN overtaken + 1 ELSE overtaken
      BY <1>7 DEF LateCaps, At, terminal, process, Feeding
    <2>3. Cardinality(ownedCaps') = Cardinality(ownedCaps) + pending
      BY <1>0, <1>a, <2>1, CapsAdded
    <2>4. Cardinality(ownedCaps') <= AllowedCaps /\ Cardinality(ownedCaps') \in Nat
      BY <1>a, <1>c, <2>3
    <2>5. overtaken' \in Nat /\ foreign' \in Nat
      BY <1>a, <2>2
    <2>6. AllowedCaps' = IF Feeding({"createCaps"}) THEN AllowedCaps + PoolLanes ELSE AllowedCaps
      <3>1. PoolLanes * (1 + (overtaken + 1)) = PoolLanes * (1 + overtaken) + PoolLanes
            /\ PoolLanes * (1 + overtaken) \in Nat
        BY <1>a
      <3>2. CASE Feeding({"createCaps"})
        BY <1>a, <2>2, <3>1, <3>2 DEF AllowedCaps
      <3>3. CASE ~Feeding({"createCaps"})
        BY <2>2, <3>3 DEF AllowedCaps
      <3> QED
        BY <3>2, <3>3
    <2>7. Feeding({"createCaps"})' <=> Feeding({"createCaps"})
      BY <2>2 DEF Feeding
    <2>8. Cardinality(ownedCaps') + pending' <= AllowedCaps'
      BY <1>a, <2>2, <2>4, <2>6
    <2>9. ASSUME Feeding({"createCaps"})
          PROVE  Cardinality(ownedCaps') + PoolLanes <= Len(knownCaps') + AllowedCaps'
      BY <1>a, <1>b, <2>2, <2>4, <2>6, <2>9
    <2> QED
      BY <2>5, <2>7, <2>8, <2>9 DEF CapsBounded
  <1>8. CASE OperatorCreatesCap
    <2>1. PICK new \in CapIds \ ownedCaps : ownedCaps' = ownedCaps \cup {new}
      BY <1>8 DEF OperatorCreatesCap
    <2>2. /\ script' = "none" /\ pending' = 0 /\ overtaken' = overtaken
          /\ foreign' = IF Cardinality(ownedCaps) >= PoolLanes THEN foreign + 1 ELSE foreign
      BY <1>8 DEF OperatorCreatesCap, Idle, terminal
    <2>3. Cardinality(ownedCaps') = Cardinality(ownedCaps) + 1
      BY <1>0, <2>1, CapsCounted, FS_AddElement
    <2>4. PoolLanes * (1 + overtaken) \in Nat
      BY <1>a
    <2>5. /\ AllowedCaps = PoolLanes * (1 + overtaken) + foreign
          /\ AllowedCaps' = PoolLanes * (1 + overtaken) + foreign'
      BY <2>2 DEF AllowedCaps
    <2>6. Cardinality(ownedCaps') <= AllowedCaps' /\ foreign' \in Nat
      BY <1>a, <1>c, <2>2, <2>3, <2>4, <2>5
    <2>7. Cardinality(ownedCaps') + pending' <= AllowedCaps'
      BY <1>a, <2>2, <2>3, <2>6
    <2> QED
      BY <1>a, <2>2, <2>6, <2>7 DEF CapsBounded, Feeding
  <1> QED
    BY <1>2, <1>3, <1>4, <1>5, <1>6, <1>7, <1>8 DEF PoolNext

LEMMA CoinsStep == ASSUME PoolInv, PoolNext PROVE CoinsSuffice'
  <1> USE DEF CoinsSuffice, Feeding
  <1>0. WalletTypes /\ CoinsSuffice
    BY DEF PoolInv
  <1>a. Cardinality(DOMAIN sui) \in Nat \ {0} /\ PoolLanes \in Nat \ {0}
    BY <1>0, CoinsCounted, PoolAssumption
  <1>1. CASE StartFeed \/ NotAdmin \/ ReadCaps \/ CreateCaps \/ CreateCapsLost
             \/ CreateCapsRefused \/ CheckFloor \/ OperatorCreatesCap
    <2>1. script' # "feed" \/ pc' \in {"start", "createCaps", "coins", "refresh"}
      BY <1>1 DEF StartFeed, NotAdmin, Starts, ReadCaps, CreateCaps, CreateCapsLost,
         CreateCapsRefused, CheckFloor, OperatorCreatesCap, Exits, Dies, Goto, Idle, terminal
    <2> QED
      BY <2>1
  <1>2. CASE LateCaps \/ WindowThrows
    <2>1. orphaned' = TRUE
      BY <1>2 DEF LateCaps, WindowThrows
    <2> QED
      BY <2>1
  <1>3. CASE AdminCapMoves
    <2>1. UNCHANGED <<script, pc, sui, laneCoin, orphaned>>
      BY <1>3 DEF AdminCapMoves, terminal, process, poolHistory
    <2> QED
      BY <1>0, <2>1
  <1>4. CASE FirstRefreshNoop
    <2>1. /\ pc' = "lanes" /\ sui' = sui /\ ~NeedsRefresh(FirstOf(SortCoinsByBalanceDesc, PoolLanes))
      BY <1>4 DEF FirstRefreshNoop, Goto, wallet
    <2>2. Cardinality(DOMAIN sui) >= PoolLanes
      BY <1>a, <2>1 DEF NeedsRefresh
    <2> QED
      BY <2>1, <2>2
  <1>5. CASE FirstRefresh
    <2>1. CASE CanRefresh
      <3>1. RefreshTx /\ pc' = "lanes"
        BY <1>5, <2>1 DEF FirstRefresh, Goto
      <3>2. Cardinality(DOMAIN sui') = PoolLanes
        BY <1>0, <3>1, RefreshShares
      <3> QED
        BY <1>a, <3>1, <3>2
    <2>2. CASE ~CanRefresh
      BY <1>5, <2>2 DEF FirstRefresh, Exits
    <2> QED
      BY <2>1, <2>2
  <1>6. CASE WindowRefresh
    <2>1. RefreshTx /\ pc' = "reread"
      BY <1>6 DEF WindowRefresh, Goto
    <2>2. Cardinality(DOMAIN sui') = PoolLanes
      BY <1>0, <2>1, RefreshShares
    <2> QED
      BY <1>a, <2>1, <2>2
  <1>7. CASE LanesReady \/ WindowRereads
    <2>1. /\ Feeding({"lanes", "reread"}) /\ UNCHANGED <<sui, orphaned>> /\ pc' = "serving"
          /\ laneCoin' = FirstOf(SortCoinsByBalanceDesc, PoolLanes)
      BY <1>7 DEF LanesReady, WindowRereads, RefreshedLaneCoins, At, Goto, wallet, poolHistory
    <2>2. ~orphaned => Cardinality(DOMAIN sui) >= PoolLanes
      BY <1>0, <2>1
    <2> QED
      BY <1>0, <2>1, <2>2, LargestCoins
  <1>8. CASE \E i \in 1 .. PoolLanes : LaneSpends(i)
    <2>1. PICK i \in 1 .. PoolLanes : LaneSpends(i)
      BY <1>8
    <2>2. UNCHANGED <<script, pc, laneCoin, orphaned>> /\ DOMAIN sui' = DOMAIN sui
      BY <1>0, <2>1 DEF LaneSpends, terminal, process, WalletTypes
    <2> QED
      BY <1>0, <2>2
  <1>9. CASE TopUp
    <2>1. UNCHANGED <<script, pc, laneCoin, orphaned>>
      BY <1>9 DEF TopUp, terminal, process
    <2>2. DOMAIN sui \subseteq DOMAIN sui' /\ DOMAIN sui' \subseteq CoinIds
      BY <1>0, <1>9, TopUpAdds
    <2>3. IsFiniteSet(DOMAIN sui')
      BY <2>2, PoolAssumption, FS_Subset
    <2>4. Cardinality(DOMAIN sui) <= Cardinality(DOMAIN sui') /\ Cardinality(DOMAIN sui') \in Nat
      BY <2>2, <2>3, FS_Subset, FS_CardinalityType
    <2>5. Cardinality(DOMAIN sui) >= PoolLanes => Cardinality(DOMAIN sui') >= PoolLanes
      BY <1>a, <2>4
    <2> QED
      BY <1>0, <2>1, <2>2, <2>5
  <1> QED
    BY <1>1, <1>2, <1>3, <1>4, <1>5, <1>6, <1>7, <1>8, <1>9 DEF PoolNext

LEMMA SharedStep == ASSUME PoolInv, PoolNext PROVE Shared'
  <1> USE DEF Shared
  <1>0. WalletTypes /\ Shared
    BY DEF PoolInv
  <1>1. CASE \/ StartFeed \/ NotAdmin \/ ReadCaps \/ CreateCapsLost \/ CreateCapsRefused
             \/ CheckFloor \/ FirstRefreshNoop \/ LanesReady \/ WindowRereads \/ WindowThrows
             \/ AdminCapMoves
    <2>1. UNCHANGED <<sui, even>>
      BY <1>1 DEF StartFeed, NotAdmin, ReadCaps, CreateCapsLost, CreateCapsRefused, CheckFloor,
         FirstRefreshNoop, LanesReady, WindowRereads, WindowThrows, AdminCapMoves, poolVars, wallet,
         poolHistory
    <2> QED
      BY <1>0, <2>1 DEF SumCoinBalances
  <1>2. CASE LateCaps \/ TopUp \/ OperatorCreatesCap \/ \E i \in 1 .. PoolLanes : LaneSpends(i)
    <2>1. even' = FALSE
      BY <1>2 DEF LateCaps, TopUp, OperatorCreatesCap, LaneSpends
    <2> QED
      BY <2>1
  <1>3. CASE CreateCaps
    <2>1. ~even /\ even' = even
      BY <1>3 DEF CreateCaps, PoolInv, CapsKnown, Feeding, At, poolHistory
    <2> QED
      BY <2>1
  <1>4. CASE RefreshTx
    <2>1. /\ SumCoinBalances' = SumCoinBalances - Fee
          /\ \A c \in DOMAIN sui' : sui'[c] + Fee >= SumCoinBalances \div PoolLanes
      BY <1>0, <1>4, RefreshShares
    <2>2. SumCoinBalances' + Fee = SumCoinBalances
      BY <1>0, <2>1, CoinsCounted, PoolAssumption
    <2> QED
      BY <2>1, <2>2
  <1>5. CASE WindowRefresh
    BY <1>4, <1>5 DEF WindowRefresh
  <1>6. CASE FirstRefresh
    <2>1. CASE CanRefresh
      BY <1>4, <1>6, <2>1 DEF FirstRefresh
    <2>2. CASE ~CanRefresh
      <3>1. UNCHANGED <<sui, even>>
        BY <1>6, <2>2 DEF FirstRefresh, wallet
      <3> QED
        BY <1>0, <3>1 DEF SumCoinBalances
    <2> QED
      BY <2>1, <2>2
  <1> QED
    BY <1>1, <1>2, <1>3, <1>5, <1>6 DEF PoolNext

LEMMA InitPool == ScriptsInit => PoolInv
  <1> SUFFICES ASSUME ScriptsInit PROVE PoolInv
    OBVIOUS
  <1> DEFINE m == Min(CoinIds)
  <1>1. /\ ownedCaps = {} /\ pending = 0 /\ topUps = 0 /\ script = "none"
        /\ sui = [c \in {m} |-> Funding] /\ ~even /\ overtaken = 0 /\ foreign = 0
    BY DEF ScriptsInit, PoolInit, TerminalInit
  <1>2. m \in CoinIds
    BY PoolAssumption, LeastNatural DEF Min
  <1> HIDE DEF m
  <1>3. Len(TopUps) \in Nat /\ PoolLanes \in Nat \ {0} /\ Funding \in Nat
    BY PoolAssumption
  <1>4. WalletTypes
    BY <1>1, <1>2, <1>3 DEF WalletTypes
  <1>5. Cardinality(ownedCaps) = 0
    BY <1>1, FS_EmptySet
  <1>6. AllowedCaps = PoolLanes
    BY <1>1, <1>3 DEF AllowedCaps
  <1>7. CapsBounded
    BY <1>1, <1>3, <1>5, <1>6 DEF CapsBounded, Feeding
  <1> QED
    BY <1>1, <1>3, <1>4, <1>5, <1>7
       DEF PoolInv, CapsKnown, CapsAreTheirs, CoinsSuffice, Shared, Feeding

\* The feed is the one activity that touches the pool.
LEMMA NextPool == PoolInv /\ Programs /\ [ScriptsNext]_scriptVars => PoolInv'
  <1> SUFFICES ASSUME PoolInv, Programs, [ScriptsNext]_scriptVars PROVE PoolInv'
    OBVIOUS
  <1>1. CASE activity = "feed" /\ PoolNext
    BY <1>1, WalletStep, CapsStep, BoundStep, CoinsStep, SharedStep DEF PoolInv
  <1>2. ASSUME UNCHANGED <<wallet, poolHistory>>,
               UNCHANGED <<terminal, process>> \/ ~Feeding({pc})'
        PROVE  PoolInv'
    <2>1. UNCHANGED <<ownedCaps, sui, pending, topUps, orphaned, even, overtaken, foreign>>
      BY <1>2 DEF wallet, poolHistory, surplus
    <2>2. CASE UNCHANGED <<terminal, process>>
      BY <2>1, <2>2 DEF terminal, process, PoolInv, WalletTypes, CapsKnown, CapsBounded,
         AllowedCaps, CapsAreTheirs, CoinsSuffice, Shared, Feeding, SumCoinBalances
    <2>3. CASE script' # "feed"
      BY <2>1, <2>3 DEF PoolInv, WalletTypes, CapsKnown, CapsBounded, AllowedCaps, CapsAreTheirs,
         CoinsSuffice, Shared, Feeding, SumCoinBalances
    <2> QED
      BY <1>2, <2>2, <2>3 DEF Feeding
  <1>3. CASE UNCHANGED scriptVars
    BY <1>2, <1>3 DEF scriptVars, poolVars
  <1>4. CASE Kill
    BY <1>2, <1>4 DEF Kill, Dies, Feeding
  <1>5. CASE (activity = "deploy" \/ activity = "simulate") /\ UNCHANGED <<activity, poolVars>>
    <2>1. script' # "feed"
      BY <1>5, NextPrograms DEF Programs, DeployScripts
    <2> QED
      BY <1>2, <1>5, <2>1 DEF Feeding, poolVars
  <1> QED
    BY <1>1, <1>3, <1>4, <1>5 DEF ScriptsNext

LEMMA PoolImplies == PoolInv => LanesKeepTheirCaps /\ LanesPayable /\ RefreshSettles
  <1> SUFFICES ASSUME PoolInv PROVE LanesKeepTheirCaps /\ LanesPayable /\ RefreshSettles
    OBVIOUS
  <1> USE DEF PoolInv, Feeding, HasCaps
  <1>1. LanesKeepTheirCaps
    <2>1. /\ Cardinality(ownedCaps) \in Nat /\ pending \in Nat /\ PoolLanes \in Nat \ {0}
          /\ overtaken \in Nat /\ foreign \in Nat
      BY CapsCounted, PoolAssumption DEF WalletTypes, CapsBounded
    <2>2. AllowedCaps \in Nat
      BY <2>1 DEF AllowedCaps
    <2>3. Cardinality(ownedCaps) <= AllowedCaps
      BY <2>1, <2>2 DEF CapsBounded
    <2> QED
      BY <2>3 DEF LanesKeepTheirCaps, CapsAreTheirs, AllowedCaps, At
  <1>2. LanesPayable
    BY DEF LanesPayable, CoinsSuffice, At
  <1>3. RefreshSettles
    <2> SUFFICES ASSUME At("feed", "serving"), ~orphaned, even, NeedsRefresh(laneCoin)
                 PROVE  SumCoinBalances + Fee < PoolLanes * (GasLaneMin + Fee)
      BY DEF RefreshSettles
    <2> DEFINE t == SumCoinBalances
    <2>1. /\ t \in Nat /\ PoolLanes \in Nat \ {0} /\ Fee \in Nat /\ GasLaneMin \in Nat
          /\ Cardinality(DOMAIN sui) \in Nat
      BY CoinsCounted, PoolAssumption
    <2>2. /\ Cardinality(DOMAIN sui) >= PoolLanes /\ Len(laneCoin) = PoolLanes
          /\ ToSet(laneCoin) \subseteq DOMAIN sui
      BY DEF CoinsSuffice, At
    <2>3. PICK i \in DOMAIN laneCoin :
              laneCoin[i] \in DOMAIN sui => sui[laneCoin[i]] < EffectiveMin
      BY <2>1, <2>2 DEF NeedsRefresh
    <2>4. laneCoin[i] \in DOMAIN sui
      BY <2>2 DEF ToSet
    <2> DEFINE b == sui[laneCoin[i]]
    <2>5. b \in Nat /\ b < EffectiveMin /\ b + Fee >= (t + Fee) \div PoolLanes
      BY <2>3, <2>4 DEF WalletTypes, Shared
    <2> HIDE DEF b, t
    <2>6. t \div PoolLanes \in Nat /\ (t + Fee) \div PoolLanes \in Nat
      BY <2>1
    <2>7. b < GasLaneMin
      BY <2>1, <2>5, <2>6 DEF EffectiveMin, MinBigInt, t
    <2>8. (t + Fee) \div PoolLanes < GasLaneMin + Fee
      BY <2>1, <2>5, <2>6, <2>7
    <2>9. t + Fee < PoolLanes * (GasLaneMin + Fee)
      BY <2>1, <2>8
    <2> QED
      BY <2>9 DEF t
  <1> QED
    BY <1>1, <1>2, <1>3

LEMMA PoolInvariant == Spec => []PoolInv
  BY InitPool, NextPool, InitPrograms, NextPrograms, PTL DEF Spec

\* However often the feed is killed and started again, each lane of a serving feed signs
\* with a cap of its own that the signer owns.  A createCaps of ensureCapsAndCoins adds caps
\* beyond the lanes only if one that was given up lands between its read of the caps and
\* itself, and then at most one for each lane; the rest of the surplus is made by others.
THEOREM CapsAreKept == Spec => []LanesKeepTheirCaps
  BY PoolInvariant, PoolImplies, PTL

\* Every lane of a serving feed has a coin of its own, and the coin exists.
THEOREM LanesCanPay == Spec => []LanesPayable
  BY PoolInvariant, PoolImplies, PTL

\* After refreshGasLanesIfNeeded's transaction there is no need for another.
THEOREM RefreshesSettle == Spec => []RefreshSettles
  BY PoolInvariant, PoolImplies, PTL
=============================================================================
