--------------------------- MODULE PredictDeploy ----------------------------
(***************************************************************************)
(* The scripts that deploy Predict on testnet (scripts/transactions/       *)
(* predict): publish, init, redeploy, dusdcPublish, createOracleCap,       *)
(* createOracle, deployOracles and deposit.                                *)
(*                                                                         *)
(* They share config/constants.ts.  Each imports it when it starts, sends  *)
(* its transactions, and rewrites single constants in the file, so a kill  *)
(* between two steps leaves the chain ahead of the files.  An object is    *)
(* named by its generation: the number of the publication it belongs to.   *)
(* Move types carry the package, so a transaction never mixes them.        *)
(***************************************************************************)
EXTENDS Terminal, Sequences

CONSTANTS MaxGen,     \* bound on publications of predict, and of dusdc
          Expiries    \* what resolveExpiries returns, in order

ASSUME DeployAssumption == MaxGen \in Nat \ {0} /\ Expiries \in Seq(Nat)

Gens == 1 .. MaxGen

VARIABLES
    \* The chain
    published,    \* predict packages published so far
    quoteOf,      \* the DUSDC of each package's Predict, 0 before create_predict
    dusdcs,       \* dusdc packages published so far
    registered,   \* those whose Currency is a shared object
    caps,         \* packages with an OracleSVICap
    oracles,      \* the OracleSVI objects: package and expiry
    seeded,       \* packages whose Predict has been supplied
    \* The files and the database
    constants,    \* config/constants.ts, 0 for ''.  The five constants that a
                  \* publish writes together are one field, package
    oracleFile,   \* config/predict-oracles.ts
    indexer,      \* lib.rs: its package, and if the regex matches its layout
    database,     \* packages with events in predict_v2
    \* The memory of the running script
    imported,     \* the constants at its import
    fresh,        \* the generation its last transaction made
    entries,      \* the oracles deployOracles has made
    \* History
    announced     \* the package of the last DEPLOYMENT COMPLETE, 0 once a later
                  \* script publishes

chain == <<published, quoteOf, dusdcs, registered, caps, oracles, seeded>>
files == <<constants, oracleFile, indexer, database>>
memory == <<imported, fresh, entries>>
deployVars == <<chain, files, memory, announced>>

Empty == [package |-> 0, object |-> 0, cap |-> 0, oracle |-> 0, dusdc |-> 0]

\* A script that ends takes its memory with it.
Forget == imported' = Empty /\ fresh' = 0 /\ entries' = <<>>
Returns == Exits /\ Forget
GoesOn(to) == Goto(to) /\ UNCHANGED memory

DeployInit ==
    /\ published = 0 /\ quoteOf = [g \in Gens |-> 0]
    /\ dusdcs = 0 /\ registered = {} /\ caps = {} /\ oracles = {} /\ seeded = {}
    /\ constants = Empty /\ oracleFile = {} /\ database = {}
    /\ indexer \in [package : {0}, matches : BOOLEAN]
    /\ imported = Empty /\ fresh = 0 /\ entries = <<>> /\ announced = 0

DeployScripts == {"publish", "init", "redeploy", "dusdcPublish", "createOracleCap",
                  "createOracle", "deployOracles", "deposit"}

StartScript(s) ==
    /\ Starts(s)
    /\ s \in {"publish", "redeploy"} => published < MaxGen
    /\ s = "dusdcPublish" => dusdcs < MaxGen
    /\ imported' = constants /\ fresh' = 0 /\ entries' = <<>>
    /\ UNCHANGED <<chain, files, announced>>

\* updateConstant and writeFileSync: the file is read again just before, so what
\* other scripts have written since the import stays.
Write(c) == constants' = c /\ UNCHANGED <<oracleFile, indexer, database>>

-----------------------------------------------------------------------------
(* dusdcPublish *)

\* Mutant: the constants are written before the registration is final.
DusdcPublishWritesFirst ==
    /\ At("dusdcPublish", "start")
    /\ dusdcs' = dusdcs + 1 /\ fresh' = dusdcs + 1
    /\ Write([constants EXCEPT !.dusdc = dusdcs + 1])
    /\ Goto("finalize")
    /\ UNCHANGED <<published, quoteOf, registered, caps, oracles, seeded, imported, entries,
                   announced>>

DusdcPublishTx ==
    /\ At("dusdcPublish", "start")
    /\ dusdcs' = dusdcs + 1 /\ fresh' = dusdcs + 1
    /\ Goto("finalize")
    /\ UNCHANGED <<published, quoteOf, registered, caps, oracles, seeded, files, imported,
                   entries, announced>>

DusdcFinalizeTx ==
    /\ At("dusdcPublish", "finalize")
    /\ registered' = registered \cup {fresh}
    /\ GoesOn("write")
    /\ UNCHANGED <<published, quoteOf, dusdcs, caps, oracles, seeded, files, announced>>

DusdcWrite ==
    /\ At("dusdcPublish", "write")
    /\ Write([constants EXCEPT !.dusdc = fresh])
    /\ Returns
    /\ UNCHANGED <<chain, announced>>

-----------------------------------------------------------------------------
(* publish, and publishPredict of redeploy *)
PublishPackage ==
    /\ published' = published + 1 /\ fresh' = published + 1 /\ announced' = 0
    /\ Goto("write")
    /\ UNCHANGED <<quoteOf, dusdcs, registered, caps, oracles, seeded, files, imported, entries>>

PublishTx == At("publish", "start") /\ PublishPackage
PublishPredictTx == At("redeploy", "start") /\ imported.dusdc # 0 /\ PublishPackage

\* "DUSDC constants missing"
RedeployRefuses ==
    /\ At("redeploy", "start") /\ imported.dusdc = 0
    /\ Returns
    /\ UNCHANGED <<chain, files, announced>>

PublishWrite ==
    /\ At("publish", "write")
    /\ Write([constants EXCEPT !.package = fresh])
    /\ GoesOn("indexer")
    /\ UNCHANGED <<chain, announced>>

\* Mutant: redeploy leaves the Predict and the oracle cap of the last package.
RedeployConstantsStale == [constants EXCEPT !.package = fresh]

\* Only redeploy clears the constants that belong to the package before.
RedeployConstants == [constants EXCEPT !.package = fresh, !.cap = 0, !.object = 0]

PublishPredictWrite ==
    /\ At("redeploy", "write")
    /\ Write(RedeployConstants)
    /\ GoesOn("init")
    /\ UNCHANGED <<chain, announced>>

-----------------------------------------------------------------------------
(* init, and initPredict of redeploy *)

\* registry::create_predict consumes the TreasuryCap<PLP> of its package and
\* borrows the shared Currency of the quote.
CanCreatePredict(package, dusdc) ==
    package # 0 /\ quoteOf[package] = 0 /\ dusdc \in registered

\* The transaction lands, or the script exits.
CreatePredict(package, next) ==
    /\ IF CanCreatePredict(package, imported.dusdc)
       THEN /\ quoteOf' = [quoteOf EXCEPT ![package] = imported.dusdc]
            /\ fresh' = package
            /\ Goto(next) /\ UNCHANGED <<imported, entries>>
       ELSE Returns /\ UNCHANGED quoteOf
    /\ UNCHANGED <<published, dusdcs, registered, caps, oracles, seeded, files, announced>>

InitTx == At("init", "start") /\ CreatePredict(imported.package, "write")
InitPredictTx == At("redeploy", "init") /\ CreatePredict(fresh, "initWrite")

InitConstants == [constants EXCEPT !.object = fresh]

InitWrite ==
    /\ At("init", "write")
    /\ Write(InitConstants)
    /\ Returns
    /\ UNCHANGED <<chain, announced>>

InitPredictWrite ==
    /\ At("redeploy", "initWrite")
    /\ Write(InitConstants)
    /\ GoesOn("indexer")
    /\ UNCHANGED <<chain, announced>>

-----------------------------------------------------------------------------
(* The indexer and its database *)

\* String.replace: nothing changes when the regex does not match.  What it writes
\* matches again.
ReplacedIndexer ==
    IF indexer.matches THEN [indexer EXCEPT !.package = fresh] ELSE indexer

\* publish, which throws if nothing was replaced: its last step in either case.
MirrorPackageId ==
    /\ At("publish", "indexer")
    /\ indexer' = ReplacedIndexer
    /\ Returns
    /\ UNCHANGED <<chain, constants, oracleFile, database, announced>>

\* redeploy, which goes on in either case.
UpdateIndexerPackageId ==
    /\ At("redeploy", "indexer")
    /\ indexer' = ReplacedIndexer
    /\ GoesOn("reset")
    /\ UNCHANGED <<chain, constants, oracleFile, database, announced>>

\* psql failed, before or after DROP DATABASE.
ResetFails ==
    /\ At("redeploy", "reset")
    /\ database' \in {database, {}}
    /\ Returns
    /\ UNCHANGED <<chain, constants, oracleFile, indexer, announced>>

\* DEPLOYMENT COMPLETE
ResetDatabase ==
    /\ At("redeploy", "reset")
    /\ database' = {}
    /\ announced' = fresh
    /\ Returns
    /\ UNCHANGED <<chain, constants, oracleFile, indexer>>

\* External: the operator builds and runs the indexer between scripts, and a
\* formatter lays lib.rs out anew (rustfmt breaks the line before the slice, which
\* is how lib.rs is checked in, and the regex does not allow for it).
IndexerIngests ==
    /\ Idle /\ indexer.package # 0
    /\ database' = database \cup {indexer.package}
    /\ UNCHANGED <<terminal, chain, constants, oracleFile, indexer, memory, announced>>

Rustfmt ==
    /\ Idle /\ indexer.matches
    /\ indexer' = [indexer EXCEPT !.matches = FALSE]
    /\ UNCHANGED <<terminal, chain, constants, oracleFile, database, memory, announced>>

-----------------------------------------------------------------------------
(* createOracleCap, createOracle, deployOracles and deposit *)
CapTx ==
    /\ At("createOracleCap", "start")
    /\ IF imported.package = 0
       THEN Returns /\ UNCHANGED caps
       ELSE /\ caps' = caps \cup {imported.package} /\ fresh' = imported.package
            /\ Goto("write") /\ UNCHANGED <<imported, entries>>
    /\ UNCHANGED <<published, quoteOf, dusdcs, registered, oracles, seeded, files,
                   announced>>

CapWrite ==
    /\ At("createOracleCap", "write")
    /\ Write([constants EXCEPT !.cap = fresh])
    /\ Returns
    /\ UNCHANGED <<chain, announced>>

\* registry::create_oracle borrows the Predict and the cap of its own package.
CanCreateOracle ==
    /\ imported.package # 0
    /\ imported.object = imported.package /\ imported.cap = imported.package

OracleTx ==
    /\ At("createOracle", "start")
    /\ IF CanCreateOracle
       THEN /\ oracles' = oracles \cup {<<imported.package, 0>>}
            /\ fresh' = imported.package
            /\ Goto("write") /\ UNCHANGED <<imported, entries>>
       ELSE Returns /\ UNCHANGED oracles
    /\ UNCHANGED <<published, quoteOf, dusdcs, registered, caps, seeded, files, announced>>

OracleWrite ==
    /\ At("createOracle", "write")
    /\ Write([constants EXCEPT !.oracle = fresh])
    /\ Returns
    /\ UNCHANGED <<chain, announced>>

\* One transaction for each expiry; the first that fails ends the script.
DeployOracleTx ==
    /\ At("deployOracles", "start") /\ Len(entries) < Len(Expiries)
    /\ LET o == <<imported.package, Expiries[Len(entries) + 1]>>
       IN  IF CanCreateOracle
           THEN /\ oracles' = oracles \cup {o} /\ entries' = Append(entries, o)
                /\ Goto("start") /\ UNCHANGED <<imported, fresh>>
           ELSE Returns /\ UNCHANGED oracles
    /\ UNCHANGED <<published, quoteOf, dusdcs, registered, caps, seeded, files, announced>>

\* The file keeps the entries that it has and that have not expired.
DeployOraclesWrite ==
    /\ At("deployOracles", "start") /\ Len(entries) = Len(Expiries)
    /\ \E existing \in SUBSET oracleFile : oracleFile' = existing \cup {entries[i] : i \in DOMAIN entries}
    /\ Returns
    /\ UNCHANGED <<chain, constants, indexer, database, announced>>

\* One transaction: coin::mint of the file's DUSDC, predict::supply to its Predict,
\* which takes the quote it was created with.
DepositTx ==
    /\ At("deposit", "start")
    /\ IF /\ imported.package # 0 /\ imported.object = imported.package
          /\ quoteOf[imported.object] = imported.dusdc
       THEN seeded' = seeded \cup {imported.object}
       ELSE UNCHANGED seeded
    /\ Returns
    /\ UNCHANGED <<published, quoteOf, dusdcs, registered, caps, oracles, files, announced>>

DeployNext ==
    \/ \E s \in DeployScripts : StartScript(s)
    \/ DusdcPublishTx \/ DusdcFinalizeTx \/ DusdcWrite
    \/ PublishTx \/ PublishWrite \/ MirrorPackageId
    \/ InitTx \/ InitWrite
    \/ RedeployRefuses \/ PublishPredictTx \/ PublishPredictWrite
    \/ InitPredictTx \/ InitPredictWrite \/ UpdateIndexerPackageId
    \/ ResetDatabase \/ ResetFails
    \/ IndexerIngests \/ Rustfmt
    \/ CapTx \/ CapWrite \/ OracleTx \/ OracleWrite
    \/ DeployOracleTx \/ DeployOraclesWrite \/ DepositTx

-----------------------------------------------------------------------------
\* Wherever a script was killed, config/constants.ts and predict-oracles.ts name only
\* objects that are on the chain, and the DUSDC they name has the shared Currency that
\* create_predict needs.
NamesExist ==
    /\ constants.package <= published
    /\ constants.object # 0 => quoteOf[constants.object] # 0
    /\ constants.cap # 0 => constants.cap \in caps
    /\ constants.oracle # 0 => <<constants.oracle, 0>> \in oracles
    /\ constants.dusdc # 0 => constants.dusdc \in registered
    /\ oracleFile \subseteq oracles

\* After redeploy's DEPLOYMENT COMPLETE, and until a script publishes again, whatever
\* was killed before: constants.ts names the new package and its Predict, no oracle cap
\* of an older package, and the database holds events of the indexer's package only.
AnnouncedIsDeployed ==
    announced # 0 =>
        /\ constants.package = announced /\ constants.object = announced
        /\ quoteOf[announced] \in registered
        /\ constants.cap \in {0, announced}
        /\ database \subseteq {indexer.package}

\* A redeploy recovers from anything that was killed before it: the create_predict it
\* sends is one the chain accepts.
RedeployNeverRefused ==
    At("redeploy", "init") => CanCreatePredict(fresh, imported.dusdc)
=============================================================================
