----------------------------- MODULE MCDelivery -----------------------------
(* Instances of the delivery components for TLC; a behaviour is about one  *)
(* of them, and the others stay out of it.                                 *)
EXTENDS Integers, FiniteSets, Sequences

VARIABLES
  part,   \* the component a behaviour is about
  content, other, mission, dist, distribution, meta, report, releases, names, lock,
  job, cut, records, managed, routes, rules, declared, zoneJob, said, disturbed,
  runs, eco, apps, dir, git, config, pin, registerContent, registerMission, work,
  registerLock, flaws, registerJob, registerSaid, touched, registerRuns, bare,
  clone, platform, stateKey, entries, recorded, validated, materialWork,
  materialJob, materialSaid, materialRuns, fiber, current, tx, outcome,
  activationRuns, events, signingDist, outputs, provenance, private, public,
  published, hex, binary, manifest, signingJob, signingRuns, alone, last,
  exitContent, bordbuch, exitPin, release, package, exitJob, untouched, edits,
  exitRuns, missionManifest, evidence, workpiece, repo, missionLock, proc, unsaid,
  issued


Dist == INSTANCE Distribution WITH
  Procs <- {"p"}, MaxEdits <- 2, MaxReleases <- 2
Edge == INSTANCE ZoneEdge WITH
  Procs <- {"p", "q"},
  Declared <- <<[name |-> "www", type |-> "TXT"], [name |-> "apex", type |-> "A"]>>,
  Managed <- {"www"}, Attempts <- 2, MaxRecords <- 3, MaxRuns <- 2, job <- zoneJob
Register == INSTANCE SystemRegistration WITH
  Systems <- {"s1", "s2"}, Stars <- {"vega", "lyra"}, Procs <- {"p", "q"},
  Away <- {}, MaxVersion <- 2, MaxRuns <- 2, content <- registerContent,
  mission <- registerMission, lock <- registerLock, job <- registerJob,
  said <- registerSaid, runs <- registerRuns
Material == INSTANCE Materialization WITH
  Platforms <- {"a", "b"}, Untracked <- {"env"}, MaxHead <- 3, MaxRuns <- 2,
  work <- materialWork, job <- materialJob, said <- materialSaid,
  runs <- materialRuns
Activation == INSTANCE ComponentActivation WITH
  Names <- <<"a1", "a2", "b1", "b2">>,
  ComponentId <- [a1 |-> "a", a2 |-> "a", b1 |-> "b", b2 |-> "b"],
  Provides <- [a1 |-> {[capability |-> "x", version |-> <<1, 0, 0>>]}, a2 |-> {[capability |-> "x", version |-> <<1, 2, 0>>]}, b1 |-> {[capability |-> "y", version |-> <<1, 0, 0>>]}, b2 |-> {[capability |-> "y", version |-> <<2, 0, 0>>]}],
  Requires <- [a1 |-> {}, a2 |-> {}, b1 |-> {}, b2 |-> {[capability |-> "x", range |-> [form |-> "caret", version |-> <<1, 1, 0>>], optional |-> FALSE]}],
  Grants <- [a1 |-> {}, a2 |-> {}, b1 |-> {[scope |-> "read", resource |-> "r"]}, b2 |-> {}],
  Owners <- [a1 |-> {"a"}, a2 |-> {}, b1 |-> {}, b2 |-> {}],
  EffectClass <- [a1 |-> "compensatable", a2 |-> "transactional", b1 |-> "revertible", b2 |-> "irreversible-emission"],
  Profiles <- {{"a1"}, {"a1", "b1"}, {"a2", "b2"}},
  Offers <- {{"a1", "a2", "b1", "b2"}},
  Admissions <- {{[scope |-> "read", resource |-> "r"]}, {}}, MaxRuns <- 3,
  MaxEvents <- 2, runs <- activationRuns
Signing == INSTANCE BuildSigning WITH
  Procs <- {"p", "q"}, MaxBuilds <- 2, MaxRuns <- 4, dist <- signingDist,
  job <- signingJob, runs <- signingRuns
Exit == INSTANCE Notausgang WITH
  Systems <- {"s1", "s2"}, Releases <- {"r"}, Procs <- {"p", "q"},
  BadContent <- {2}, BadEvents <- {2}, MaxEdits <- 2, MaxRuns <- 3,
  content <- exitContent, pin <- exitPin, job <- exitJob, runs <- exitRuns
Mission == INSTANCE MissionLifecycle WITH
  Procs <- {"p", "q"}, MaxMissions <- 2, Edits <- {1}, MaxCommands <- 7,
  Commands <- {"open", "materialize", "git.commit", "validate", "reconcile", "close", "abort"},
  CloseFlags <- {{}}, Mirrors <- FALSE, Faults <- {"merge"},
  manifest <- missionManifest, lock <- missionLock

(* The variables of the components a behaviour is not about stay at 0.     *)
IdleDistribution == content = 0 /\ other = 0 /\ mission = 0 /\ dist = 0 /\ distribution = 0 /\ meta = 0 /\
  report = 0 /\ releases = 0 /\ names = 0 /\ lock = 0 /\ job = 0 /\ cut = 0
IdleZoneEdge == records = 0 /\ managed = 0 /\ routes = 0 /\ rules = 0 /\ declared = 0 /\ zoneJob = 0 /\
  said = 0 /\ disturbed = 0 /\ runs = 0
IdleSystemRegistration == eco = 0 /\ apps = 0 /\ dir = 0 /\ git = 0 /\ config = 0 /\ pin = 0 /\ registerContent = 0 /\
  registerMission = 0 /\ work = 0 /\ registerLock = 0 /\ flaws = 0 /\ registerJob = 0 /\
  registerSaid = 0 /\ touched = 0 /\ registerRuns = 0
IdleMaterialization == bare = 0 /\ clone = 0 /\ platform = 0 /\ stateKey = 0 /\ entries = 0 /\ recorded = 0 /\
  validated = 0 /\ materialWork = 0 /\ materialJob = 0 /\ materialSaid = 0 /\
  materialRuns = 0
IdleComponentActivation == fiber = 0 /\ current = 0 /\ tx = 0 /\ outcome = 0 /\ activationRuns = 0 /\ events = 0
IdleBuildSigning == signingDist = 0 /\ outputs = 0 /\ provenance = 0 /\ private = 0 /\ public = 0 /\
  published = 0 /\ hex = 0 /\ binary = 0 /\ manifest = 0 /\ signingJob = 0 /\
  signingRuns = 0 /\ alone = 0 /\ last = 0
IdleNotausgang == exitContent = 0 /\ bordbuch = 0 /\ exitPin = 0 /\ release = 0 /\ package = 0 /\
  exitJob = 0 /\ untouched = 0 /\ edits = 0 /\ exitRuns = 0
IdleMissionLifecycle == missionManifest = 0 /\ evidence = 0 /\ workpiece = 0 /\ repo = 0 /\ missionLock = 0 /\
  proc = 0 /\ unsaid = 0 /\ issued = 0

distVars == <<content, other, mission, dist, distribution, meta, report, releases, names, lock,
  job, cut>>
zoneVars == <<records, managed, routes, rules, declared, zoneJob, said, disturbed, runs>>
registerVars == <<eco, apps, dir, git, config, pin, registerContent, registerMission, work,
  registerLock, flaws, registerJob, registerSaid, touched, registerRuns>>
materialVars == <<bare, clone, platform, stateKey, entries, recorded, validated, materialWork,
  materialJob, materialSaid, materialRuns>>
activationVars == <<fiber, current, tx, outcome, activationRuns, events>>
signingVars == <<signingDist, outputs, provenance, private, public, published, hex, binary,
  manifest, signingJob, signingRuns, alone, last>>
exitVars == <<exitContent, bordbuch, exitPin, release, package, exitJob, untouched, edits,
  exitRuns>>
missionVars == <<missionManifest, evidence, workpiece, repo, missionLock, proc, unsaid,
  issued>>

Init ==
  /\ part \in {"dist", "zone", "register", "material", "activation", "signing", "exit", "mission"}
  /\ IF part = "dist" THEN Dist!Init ELSE IdleDistribution
  /\ IF part = "zone" THEN Edge!Init ELSE IdleZoneEdge
  /\ IF part = "register" THEN Register!Init ELSE IdleSystemRegistration
  /\ IF part = "material" THEN Material!Init ELSE IdleMaterialization
  /\ IF part = "activation" THEN Activation!Init ELSE IdleComponentActivation
  /\ IF part = "signing" THEN Signing!Init ELSE IdleBuildSigning
  /\ IF part = "exit" THEN Exit!Init ELSE IdleNotausgang
  /\ IF part = "mission" THEN Mission!Init ELSE IdleMissionLifecycle

Next ==
  /\ UNCHANGED part
  /\ \/ /\ part = "dist" /\ Dist!Next
        /\ UNCHANGED <<zoneVars, registerVars, materialVars, activationVars,
                        signingVars, exitVars, missionVars>>
     \/ /\ part = "zone" /\ Edge!Next
        /\ UNCHANGED <<distVars, registerVars, materialVars, activationVars,
                        signingVars, exitVars, missionVars>>
     \/ /\ part = "register" /\ Register!Next
        /\ UNCHANGED <<distVars, zoneVars, materialVars, activationVars,
                        signingVars, exitVars, missionVars>>
     \/ /\ part = "material" /\ Material!Next
        /\ UNCHANGED <<distVars, zoneVars, registerVars, activationVars,
                        signingVars, exitVars, missionVars>>
     \/ /\ part = "activation" /\ Activation!Next
        /\ UNCHANGED <<distVars, zoneVars, registerVars, materialVars,
                        signingVars, exitVars, missionVars>>
     \/ /\ part = "signing" /\ Signing!Next
        /\ UNCHANGED <<distVars, zoneVars, registerVars, materialVars,
                        activationVars, exitVars, missionVars>>
     \/ /\ part = "exit" /\ Exit!Next
        /\ UNCHANGED <<distVars, zoneVars, registerVars, materialVars,
                        activationVars, signingVars, missionVars>>
     \/ /\ part = "mission" /\ Mission!Next
        /\ UNCHANGED <<distVars, zoneVars, registerVars, materialVars,
                        activationVars, signingVars, exitVars>>

vars == <<part, distVars, zoneVars, registerVars, materialVars, activationVars,
            signingVars, exitVars, missionVars>>
Spec == Init /\ [][Next]_vars
-----------------------------------------------------------------------------
(* What a mission materializes is current, a release keeps its name and is  *)
(* signed when fresh, and a signature is about the files that lie beside it. *)
BuildsAreCurrent ==
  /\ part = "dist" => Dist!TypeOK
  /\ part = "dist" => Dist!ReleaseNamesHold
  /\ part = "dist" => Dist!FreshReleasesAreSigned
  /\ part = "material" => Material!TypeOK
  /\ part = "material" => Material!MaterializedIsCurrent
  /\ part = "signing" => Signing!TypeOK
  /\ part = "signing" => Signing!SignedIsWhatIsThere

(* A committed activation replaces the one before and an aborted one serves *)
(* nothing new; the mission commands of two processes give their locks back *)
(* and keep the ledger sound between them; and what the emergency exit      *)
(* publishes is whole and was found valid for a reason.                     *)
HandoversAreSafe ==
  /\ part = "activation" => Activation!TypeOK
  /\ part = "activation" => Activation!CommittedReplacesThePrior
  /\ part = "activation" => Activation!AbortedServesNothingNew
  /\ part = "mission" => Mission!TypeOK
  /\ part = "mission" => Mission!LedgerIsSound
  /\ part = "mission" => Mission!LocksAreReturned
  /\ part = "exit" => Exit!TypeOK
  /\ part = "exit" => Exit!PublishedIsWhole
  /\ part = "exit" => Exit!ValidAnswersAreEarned

(* A registration happens as a whole or not at all, a pin and the files it  *)
(* is derived from change together, and a zone ends as it was asked to.     *)
EndsWhollyOrNot ==
  [][/\ part = "register" => Register!RegisterEndsWhole /\ Register!PinEndsAgreed
     /\ part = "zone" => Edge!ReachesWhatItSays]_vars
=============================================================================
