-------------------------- MODULE MCCertification ---------------------------
(* Instances of the certification components, and of the registries of     *)
(* services and of paths, for TLC; a behaviour is about one of them, and   *)
(* the others stay out of it.                                              *)
EXTENDS Integers, FiniteSets, Sequences

CONSTANTS
  \* the gate and its evidence
  Releases, Requirements, Mandatory, Results, Panels, Remedies, MaxEvidence, MaxTime,
  \* the dossier and its stores
  Writers, Payloads, Heavy, MaxEvents, MaxAge, KeepCertified, KeepFailed,
  \* the health monitor
  Windows, DriftAction, Threshold, MaxDeliveries,
  \* the cutover
  Candidates, LegacyPaths,
  \* evolution
  Evolving, Keys, Evidences, MaxRecords,
  \* the services
  Services, Procs, MaxOps

(* The bounds are numbers, and mandatory requirements are requirements; no  *)
(* candidate has the id, and no caller the key, of the kill switch's own    *)
(* records (evolution/reducer.ts:207), and no process is "free".            *)
ASSUME CertificationAssumption ==
  /\ {MaxEvidence, MaxTime, MaxEvents, MaxAge, Threshold, MaxDeliveries, MaxRecords, MaxOps} \subseteq Nat
  /\ Mandatory \subseteq Requirements
  /\ "kill-switch" \notin Evolving \cup Keys
  /\ "free" \notin Procs

VARIABLES
  part,   \* the component a behaviour is about
  nodes, plan, batch, at, attempt, free, waiters, late, evidence, outcome, resume,
  now, decisionEvidence, admitted, decision, panel, pack, request, op, stored,
  artifact, traffic, checking, checked, recovery, events, hashes, root, draft,
  copy, report, replica, objects, age, certified, issuers, windows, cycle,
  decisions, incidents, health, degraded, facts, marker, disk, inventory,
  cutoverPlan, tombstones, mains, stage, transitions, killed, registry, lock,
  worker, proc, smoked, ops, files, index, head, parent, touched, entities, paths,
  manifests, deletedLog, job, used, edits, runs, crashes, settled, torn

Node(id, on) == [producerId |-> id, dependsOn |-> on]
(* Four producers in two levels and one level, a chain, and the refused    *)
(* graphs: a duplicate, an unknown dependency, a cycle.                    *)
ProducerGraphs ==
  {<<Node("a", <<>>), Node("b", <<>>), Node("c", <<>>), Node("d", <<"a", "c">>)>>,
   <<Node("c", <<"b">>), Node("b", <<"a">>), Node("a", <<>>)>>,
   <<Node("a", <<>>), Node("a", <<>>)>>,
   <<Node("a", <<"z">>)>>,
   <<Node("a", <<"b">>), Node("b", <<"a">>)>>, <<>>}

Diagnostic(rule, place, severity) == [rule |-> rule, place |-> place, severity |-> severity]
Result(diagnostics, requirements) ==
  [answers |-> "result", diagnostics |-> diagnostics, requirements |-> requirements]
ProducerResults ==
  {Result(<<>>, {1}), Result(<<>>, {1, 2}), Result(<<>>, {2, 3}), Result(<<>>, {}),
   Result(<<Diagnostic("r", "f", "error"), Diagnostic("r", "f", "info")>>, {1}),
   Result(<<Diagnostic("r", "f", "warning")>>, {3}),
   Result(<<Diagnostic("", "f", "error")>>, {2}),
   [Result(<<>>, {1}) EXCEPT !.answers = "throws"],
   [Result(<<>>, {1}) EXCEPT !.answers = "unregistered"]}
EvaluatorPanels ==
  LET e(id, verdict, sound) == [id |-> id, verdict |-> verdict, sound |-> sound]
  IN  {<<>>, <<e("x", "pass", "sound"), e("y", "pass", "sound")>>,
       <<e("x", "pass", "sound"), e("y", "fail", "sound")>>, <<e("author", "pass", "sound")>>,
       <<e("x", "pass", "sound"), e("x", "pass", "sound")>>, <<e("x", "pass", "ungrounded")>>}
TaskDependencies == {<<<<>>, <<1>>, <<2>>>>, <<<<3>>, <<>>, <<2>>>>, <<<<2>>, <<1>>, <<>>>>, <<<<>>, <<>>>>}

Bundle(exposure, tests, incident) ==
  [exposure |-> exposure, tests |-> tests, incident |-> incident, metrics |-> TRUE,
   matches |-> TRUE, expired |-> FALSE, bounded |-> TRUE, poisoned |-> FALSE, killed |-> FALSE]
EvolutionEvidence ==
  {Bundle("none", "core", "none"), Bundle("none", "failed", "none"), Bundle("shadow", "all", "low"),
   Bundle("canary", "all", "none"), [Bundle("canary", "all", "none") EXCEPT !.metrics = FALSE],
   [Bundle("canary", "all", "none") EXCEPT !.poisoned = TRUE]}

Producers == INSTANCE ProducerRun WITH
  Graphs <- ProducerGraphs, MaxParallelism <- 2, MaxRetries <- 1
Gate == INSTANCE GateDecision WITH Candidates <- Releases, evidence <- decisionEvidence
Operation == INSTANCE DeploymentOperation
Dossier == INSTANCE CertificationDossier
Health == INSTANCE HealthMonitor
Cutover == INSTANCE LegacyCutover WITH Paths <- LegacyPaths, plan <- cutoverPlan
Evo == INSTANCE Evolution WITH Candidates <- Evolving
Service == INSTANCE ServiceDeploy
Integrity == INSTANCE IntegrityRegistry WITH
  Paths <- <<"a", "b">>, Dir <- [a |-> "d", b |-> "e"], Contents <- {1, 2},
  MaxEdits <- 4, MaxRuns <- 2, MaxCrashes <- 1, MaxIds <- 5

(* The variables of the components a behaviour is not about stay at 0.     *)
IdleProducerRun == nodes = 0 /\ plan = 0 /\ batch = 0 /\ at = 0 /\ attempt = 0 /\ free = 0 /\ waiters = 0 /\
  late = 0 /\ evidence = 0 /\ outcome = 0 /\ resume = 0
IdleGateDecision == now = 0 /\ decisionEvidence = 0 /\ admitted = 0 /\ decision = 0 /\ panel = 0 /\ pack = 0
IdleDeploymentOperation == request = 0 /\ op = 0 /\ stored = 0 /\ artifact = 0 /\ traffic = 0 /\ checking = 0 /\
  checked = 0 /\ recovery = 0
IdleCertificationDossier == events = 0 /\ hashes = 0 /\ root = 0 /\ draft = 0 /\ copy = 0 /\ report = 0 /\ replica = 0 /\
  objects = 0 /\ age = 0 /\ certified = 0 /\ issuers = 0
IdleHealthMonitor == windows = 0 /\ cycle = 0 /\ decisions = 0 /\ incidents = 0 /\ health = 0 /\ degraded = 0
IdleLegacyCutover == facts = 0 /\ marker = 0 /\ disk = 0 /\ inventory = 0 /\ cutoverPlan = 0 /\ tombstones = 0 /\
  mains = 0
IdleEvolution == stage = 0 /\ transitions = 0 /\ killed = 0
IdleServiceDeploy == registry = 0 /\ lock = 0 /\ worker = 0 /\ proc = 0 /\ smoked = 0 /\ ops = 0
IdleIntegrityRegistry == files = 0 /\ index = 0 /\ head = 0 /\ parent = 0 /\ touched = 0 /\ entities = 0 /\ paths = 0 /\
  manifests = 0 /\ deletedLog = 0 /\ job = 0 /\ used = 0 /\ edits = 0 /\ runs = 0 /\
  crashes = 0 /\ settled = 0 /\ torn = 0

producersVars == <<nodes, plan, batch, at, attempt, free, waiters, late, evidence, outcome, resume>>
decisionVars == <<now, decisionEvidence, admitted, decision, panel, pack>>
operationVars == <<request, op, stored, artifact, traffic, checking, checked, recovery>>
dossierVars == <<events, hashes, root, draft, copy, report, replica, objects, age, certified,
  issuers>>
healthVars == <<windows, cycle, decisions, incidents, health, degraded>>
cutoverVars == <<facts, marker, disk, inventory, cutoverPlan, tombstones, mains>>
evolutionVars == <<stage, transitions, killed>>
serviceVars == <<registry, lock, worker, proc, smoked, ops>>
integrityVars == <<files, index, head, parent, touched, entities, paths, manifests, deletedLog, job,
  used, edits, runs, crashes, settled, torn>>

Init ==
  /\ part \in {"producers", "decision", "operation", "dossier", "health", "cutover", "evolution", "service", "integrity"}
  /\ IF part = "producers" THEN Producers!Init ELSE IdleProducerRun
  /\ IF part = "decision" THEN Gate!Init ELSE IdleGateDecision
  /\ IF part = "operation" THEN Operation!Init ELSE IdleDeploymentOperation
  /\ IF part = "dossier" THEN Dossier!Init ELSE IdleCertificationDossier
  /\ IF part = "health" THEN Health!Init ELSE IdleHealthMonitor
  /\ IF part = "cutover" THEN Cutover!Init ELSE IdleLegacyCutover
  /\ IF part = "evolution" THEN Evo!Init ELSE IdleEvolution
  /\ IF part = "service" THEN Service!Init ELSE IdleServiceDeploy
  /\ IF part = "integrity" THEN Integrity!Init ELSE IdleIntegrityRegistry

Next ==
  /\ UNCHANGED part
  /\ \/ /\ part = "producers" /\ Producers!Next
        /\ UNCHANGED <<decisionVars, operationVars, dossierVars, healthVars,
                        cutoverVars, evolutionVars, serviceVars, integrityVars>>
     \/ /\ part = "decision" /\ Gate!Next
        /\ UNCHANGED <<producersVars, operationVars, dossierVars, healthVars,
                        cutoverVars, evolutionVars, serviceVars, integrityVars>>
     \/ /\ part = "operation" /\ Operation!Next
        /\ UNCHANGED <<producersVars, decisionVars, dossierVars, healthVars,
                        cutoverVars, evolutionVars, serviceVars, integrityVars>>
     \/ /\ part = "dossier" /\ Dossier!Next
        /\ UNCHANGED <<producersVars, decisionVars, operationVars, healthVars,
                        cutoverVars, evolutionVars, serviceVars, integrityVars>>
     \/ /\ part = "health" /\ Health!Next
        /\ UNCHANGED <<producersVars, decisionVars, operationVars, dossierVars,
                        cutoverVars, evolutionVars, serviceVars, integrityVars>>
     \/ /\ part = "cutover" /\ Cutover!Next
        /\ UNCHANGED <<producersVars, decisionVars, operationVars, dossierVars,
                        healthVars, evolutionVars, serviceVars, integrityVars>>
     \/ /\ part = "evolution" /\ Evo!Next
        /\ UNCHANGED <<producersVars, decisionVars, operationVars, dossierVars,
                        healthVars, cutoverVars, serviceVars, integrityVars>>
     \/ /\ part = "service" /\ Service!Next
        /\ UNCHANGED <<producersVars, decisionVars, operationVars, dossierVars,
                        healthVars, cutoverVars, evolutionVars, integrityVars>>
     \/ /\ part = "integrity" /\ Integrity!Next
        /\ UNCHANGED <<producersVars, decisionVars, operationVars, dossierVars,
                        healthVars, cutoverVars, evolutionVars, serviceVars>>

vars == <<part, producersVars, decisionVars, operationVars, dossierVars, healthVars,
            cutoverVars, evolutionVars, serviceVars, integrityVars>>
Spec == Init /\ [][Next]_vars
-----------------------------------------------------------------------------
(* A producer runs after what it depends on and within the limit, and the   *)
(* tasks a gate hands back are those left to do, each after those it needs.  *)
RunsAreInOrder ==
  /\ part = "producers" => Producers!TypeOK
  /\ part = "producers" => Producers!ProducersRunInOrder
  /\ part = "decision" => Gate!PackIsOrdered

(* A crashed deployment is recovered safely, every schedule window counts   *)
(* once however often it is delivered, the cutover deletes nothing but       *)
(* legacy artifacts, after every candidate was certified, and the registry   *)
(* of services says of a deploy that it succeeded only when it did.          *)
DeploymentsRecover ==
  /\ part = "operation" => Operation!TypeOK
  /\ part = "operation" => Operation!RecoveryIsSafe
  /\ part = "health" => Health!TypeOK
  /\ part = "health" => Health!WindowsCountOnce
  /\ part = "cutover" => Cutover!TypeOK
  /\ part = "cutover" => Cutover!OnlyLegacyIsDeleted
  /\ part = "service" => Service!TypeOK
  /\ part = "service" => Service!RegistryIsTruthful

(* A gate decision can be reproduced and stands on the evidence of its run,  *)
(* the chain of a dossier, its copies and replicas hold together, and the    *)
(* transitions of an evolving component can be replayed from its records.    *)
HistoryIsSound ==
  /\ part = "decision" => Gate!TypeOK
  /\ part = "decision" => Gate!DecisionsStand
  /\ part = "dossier" => Dossier!TypeOK
  /\ part = "dossier" => Dossier!DossierIsSound
  /\ part = "evolution" => Evo!TypeOK
  /\ part = "evolution" => Evo!RecordIsReplayable

(* The registry of paths binds what it knows and agrees with the files it    *)
(* manages.                                                                  *)
RecordsAreTrue ==
  /\ part = "integrity" => Integrity!TypeOK
  /\ part = "integrity" => Integrity!BindingsAreKnown
  /\ part = "integrity" => Integrity!ManagedFilesAgree
=============================================================================
