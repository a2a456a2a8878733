----------------------------- MODULE MCPlatform -----------------------------
(* Instances of the kernel's and the platform's components for TLC; a      *)
(* behaviour is about one of them, and the others stay out of it.          *)
EXTENDS Integers, FiniteSets, Sequences

CONSTANTS
  Parts, \* the components a run is about
  \* pipelines and their cache
  Pipelines, Steps, SiteOf, Inputs, Reads, Writes, Validates, AppScoped, Modes, MaxWrites,
  \* one command
  Declares, Workspace, OwnOf, Sites, Manifests, Files, MaxCalls,
  \* an argument vector
  Schema, Switches, Tokens, MaxTokens,
  \* the workshops' clones
  Commits, Parent, Time, Signed, Remotes, Syncs,
  \* the workshops, their log and their table
  Workshops, OperatorKeys, Operators, MaxTime, MaxEntries, MaxSlots,
  \* platform artifacts
  Hashes, Retain, Keyed,
  \* the stores
  Releases, Trees, Adapters, Versions,
  \* the gates
  Capabilities, Denied, Requests, Concurrent, Window, PerWindow, MaxSeconds

(* Commands read files of the workspace, some site is discovered; the flag *)
(* that is injected takes a value, and no caller passes its name as one.   *)
ASSUME KernelAssumption ==
  /\ {MaxWrites, MaxCalls, MaxTokens} \subseteq Nat
  /\ Steps \in [Pipelines -> Seq(DOMAIN Reads) \ {<<>>}] /\ DOMAIN Validates = DOMAIN Reads
  /\ \A c \in DOMAIN Reads : Reads[c] \subseteq Inputs
  /\ \A p \in Pipelines : Modes[p] \subseteq {"normal", "force", "dry"}
  /\ Sites \in Seq(DOMAIN OwnOf) \ {<<>>}
  /\ IsFiniteSet(DOMAIN Schema) /\ "site" \in DOMAIN Schema \ Switches
  /\ Schema["site"].kind # "boolean" /\ \A t \in Tokens : t.is = "value" => t.name # "site"

(* The bounds are numbers and 99 is no commit; the root is one, and the    *)
(* other commits have a parent; of any commits fetched one is the latest.  *)
(* No artifact, release or workshop has one of the model's own names.      *)
ASSUME PlatformAssumption ==
  /\ {MaxEntries, MaxSlots, Retain, Concurrent, PerWindow, MaxSeconds} \subseteq Nat
  /\ {MaxTime, Window} \subseteq Nat \ {0}
  /\ 0 \in Commits /\ 99 \notin Commits /\ \A c \in Commits \ {0} : Parent[c] \in Commits
  /\ \A F \in SUBSET Commits \ {{}} : \E c \in F : \A d \in F : Time[d] <= Time[c]
  /\ {"none", "other", "staging"} \cap Hashes = {}
  /\ "none" \notin Releases \cup Trees \cup Workshops

(* A history goes back to the root; the ancestors of a commit are in every  *)
(* history it is in.                                                        *)
Histories == {S \in SUBSET Commits : \A c \in S \ {0} : Parent[c] \in S}
AncestorsOf == [c \in Commits |-> {a \in Commits : \A S \in Histories : c \in S => a \in S}]

VARIABLES
  part,   \* the component a behaviour is about
  content, stamp, writes, results, metas, hitsFile, run, earned, manifest, call,
  bodies, disk, calls, strict, argv, read, flags, diags, passthrough, head, remote,
  tracking, lock, sync, broken, had, received, last, verify, counted, log, torn,
  clock, identity, about, site, cache, setup, dhtClock, dhtCall, published, capacity, placed,
  dirs, current, previous, worker, gc, switched, overlapped,
  archive, storeManifest, copy, put, stored, displaced, cut, storePublished,
  payload, admission, gate, registered, active, inflight, audited, answered,
  terminated, gatesClock, bucket, passed, dispatching

Cache == INSTANCE PipelineCache WITH Site <- SiteOf, Files <- Inputs
Exec == INSTANCE CommandExecution WITH Commands <- Declares
Argv == INSTANCE KernelArgv
Mesh == INSTANCE GitMesh
Swim == INSTANCE GenomeLog
Table == INSTANCE DhtRegistry WITH clock <- dhtClock, call <- dhtCall
Deploy == INSTANCE PlatformDeploy
Store == INSTANCE ArtifactStore WITH manifest <- storeManifest, published <- storePublished
Gates == INSTANCE CapabilityGates WITH clock <- gatesClock, MaxTime <- MaxSeconds

(* Constants of the instance that a configuration cannot write.             *)
CacheSteps == [p |-> <<"gen", "val">>, q |-> <<"val", "app">>]
CacheSites == [p |-> "none", q |-> "none"]
CacheReads == [gen |-> {"in"}, val |-> {}, app |-> {}]
CacheWrites == [gen |-> {"out"}, val |-> {}, app |-> {}]
CacheValidates == [gen |-> {}, val |-> {"gen"}, app |-> {}]
CacheModes == [p |-> {"normal", "dry"}, q |-> {"force"}]
ExecCommands ==
  [c |-> [scope |-> "workspace", all |-> FALSE, mutates |-> TRUE],
   a |-> [scope |-> "app", all |-> TRUE, mutates |-> TRUE],
   o |-> [scope |-> "app", all |-> FALSE, mutates |-> FALSE]]
ExecWorkspace == [m |-> {"c", "a"}, n |-> {}]
ExecOwnOf == [s1 |-> {"o"}, s2 |-> {}]
ExecSites == <<"s1", "s2">>
ExecManifests ==
  {[c |-> "m", a |-> "n", o |-> "none"], [c |-> "none", a |-> "gone", o |-> "none"]}
ArgvSchema ==
  [site |-> [kind |-> "string", required |-> FALSE],
   force |-> [kind |-> "boolean", required |-> FALSE],
   id |-> [kind |-> "string", required |-> FALSE]]
ArgvTokens ==
  {[is |-> "flag", name |-> n] : n \in {"site", "force", "id", "odd"}} \cup
  {[is |-> "inline", name |-> n] : n \in {"site", "force", "id"}} \cup
  {[is |-> "value", name |-> "v"], [is |-> "end", name |-> "-"]}
MeshParent == [c \in 1..3 |-> CASE c = 1 -> 0 [] c = 2 -> 1 [] c = 3 -> 0]
MeshTime == [c \in 0..3 |-> c]
SwimKeys == [u |-> {"k1"}, v |-> {"k1", "k2"}]

(* The variables of the components a behaviour is not about stay at 0.     *)
IdlePipelineCache == content = 0 /\ stamp = 0 /\ writes = 0 /\ results = 0 /\ metas = 0 /\ hitsFile = 0 /\
  run = 0 /\ earned = 0
IdleCommandExecution == manifest = 0 /\ call = 0 /\ bodies = 0 /\ disk = 0 /\ calls = 0
IdleKernelArgv == strict = 0 /\ argv = 0 /\ read = 0 /\ flags = 0 /\ diags = 0 /\ passthrough = 0
IdleGitMesh == head = 0 /\ remote = 0 /\ tracking = 0 /\ lock = 0 /\ sync = 0 /\ broken = 0 /\ had = 0 /\
  received = 0 /\ last = 0 /\ verify = 0 /\ counted = 0
IdleGenomeLog == log = 0 /\ torn = 0 /\ clock = 0 /\ identity = 0
IdleDhtRegistry == about = 0 /\ site = 0 /\ cache = 0 /\ setup = 0 /\ dhtClock = 0 /\ dhtCall = 0 /\
  published = 0 /\ capacity = 0 /\ placed = 0
IdlePlatformDeploy == dirs = 0 /\ current = 0 /\ previous = 0 /\ worker = 0 /\ gc = 0 /\ switched = 0 /\
  overlapped = 0
IdleArtifactStore == archive = 0 /\ storeManifest = 0 /\ copy = 0 /\ put = 0 /\ stored = 0 /\ displaced = 0 /\
  cut = 0 /\ storePublished = 0 /\ payload = 0 /\ admission = 0
IdleCapabilityGates == gate = 0 /\ registered = 0 /\ active = 0 /\ inflight = 0 /\ audited = 0 /\ answered = 0 /\
  terminated = 0 /\ gatesClock = 0 /\ bucket = 0 /\ passed = 0 /\ dispatching = 0

cacheVars == <<content, stamp, writes, results, metas, hitsFile, run, earned>>
commandVars == <<manifest, call, bodies, disk, calls>>
argvVars == <<strict, argv, read, flags, diags, passthrough>>
gitmeshVars == <<head, remote, tracking, lock, sync, broken, had, received, last, verify, counted>>
swimVars == <<log, torn, clock, identity>>
dhtVars == <<about, site, cache, setup, dhtClock, dhtCall, published, capacity, placed>>
deployVars == <<dirs, current, previous, worker, gc, switched, overlapped>>
storeVars == <<archive, storeManifest, copy, put, stored, displaced, cut, storePublished,
  payload, admission>>
gatesVars == <<gate, registered, active, inflight, audited, answered, terminated, gatesClock,
  bucket, passed, dispatching>>

Init ==
  /\ part \in Parts
  /\ IF part = "cache" THEN Cache!Init ELSE IdlePipelineCache
  /\ IF part = "command" THEN Exec!Init ELSE IdleCommandExecution
  /\ IF part = "argv" THEN Argv!Init ELSE IdleKernelArgv
  /\ IF part = "gitmesh" THEN Mesh!Init ELSE IdleGitMesh
  /\ IF part = "swim" THEN Swim!Init ELSE IdleGenomeLog
  /\ IF part = "dht" THEN Table!Init ELSE IdleDhtRegistry
  /\ IF part = "deploy" THEN Deploy!Init ELSE IdlePlatformDeploy
  /\ IF part = "store" THEN Store!Init ELSE IdleArtifactStore
  /\ IF part = "gates" THEN Gates!Init ELSE IdleCapabilityGates

Next ==
  /\ UNCHANGED part
  /\ \/ /\ part = "cache" /\ Cache!Next
        /\ UNCHANGED <<commandVars, argvVars, gitmeshVars, swimVars, dhtVars,
                        deployVars, storeVars, gatesVars>>
     \/ /\ part = "command" /\ Exec!Next
        /\ UNCHANGED <<cacheVars, argvVars, gitmeshVars, swimVars, dhtVars,
                        deployVars, storeVars, gatesVars>>
     \/ /\ part = "argv" /\ Argv!Next
        /\ UNCHANGED <<cacheVars, commandVars, gitmeshVars, swimVars, dhtVars,
                        deployVars, storeVars, gatesVars>>
     \/ /\ part = "gitmesh" /\ Mesh!Next
        /\ UNCHANGED <<cacheVars, commandVars, argvVars, swimVars, dhtVars,
                        deployVars, storeVars, gatesVars>>
     \/ /\ part = "swim" /\ Swim!Next
        /\ UNCHANGED <<cacheVars, commandVars, argvVars, gitmeshVars, dhtVars,
                        deployVars, storeVars, gatesVars>>
     \/ /\ part = "dht" /\ Table!Next
        /\ UNCHANGED <<cacheVars, commandVars, argvVars, gitmeshVars, swimVars,
                        deployVars, storeVars, gatesVars>>
     \/ /\ part = "deploy" /\ Deploy!Next
        /\ UNCHANGED <<cacheVars, commandVars, argvVars, gitmeshVars, swimVars,
                        dhtVars, storeVars, gatesVars>>
     \/ /\ part = "store" /\ Store!Next
        /\ UNCHANGED <<cacheVars, commandVars, argvVars, gitmeshVars, swimVars,
                        dhtVars, deployVars, gatesVars>>
     \/ /\ part = "gates" /\ Gates!Next
        /\ UNCHANGED <<cacheVars, commandVars, argvVars, gitmeshVars, swimVars,
                        dhtVars, deployVars, storeVars>>

vars == <<part, cacheVars, commandVars, argvVars, gitmeshVars, swimVars, dhtVars,
            deployVars, storeVars, gatesVars>>
Spec == Init /\ [][Next]_vars
-----------------------------------------------------------------------------
(* A cached answer is the answer of the present tree and was earned by a    *)
(* run, a report tells what the body did, only a real run writes, and what  *)
(* is injected into a command line counts once: the kernel's commands.      *)
RunsAnswerThePresent ==
  /\ part = "cache" => Cache!TypeOK
  /\ part = "cache" => Cache!AnswersThePresent
  /\ part = "cache" => Cache!HitsAreEarned
  /\ part = "command" => Exec!TypeOK
  /\ part = "command" => Exec!ReportsMatchTheBodies
  /\ part = "command" => Exec!OnlyRealRunsWrite
  /\ part = "argv" => Argv!TypeOK
  /\ part = "argv" => Argv!InjectionIsInert

(* No sync loses a commit or overlaps another unless a lock was taken over, *)
(* what a verifying sync brings in is signed, and what was verified was     *)
(* counted: the workshops' repositories.                                    *)
MeshKeepsHistory ==
  /\ part = "gitmesh" => Mesh!TypeOK
  /\ part = "gitmesh" => Mesh!HeadKeepsHistory
  /\ part = "gitmesh" => Mesh!OverlapNeedsTakeover
  /\ part = "gitmesh" => Mesh!NothingEscapesVerification

(* Peers that read the same entries see the same members, a lookup serves   *)
(* what was published, and nobody is placed on a full workshop.             *)
PeersAgree ==
  /\ part = "swim" => Swim!TypeOK
  /\ part = "swim" => Swim!ViewsConverge
  /\ part = "dht" => Table!TypeOK
  /\ part = "dht" => Table!CacheServesThePublished
  /\ part = "dht" => Table!NeverPlacedOnTheFull

(* The links of a deployment name a whole artifact and lead back to the     *)
(* one before, and the stores find again what was put into them.            *)
ArtifactsStand ==
  /\ part = "deploy" => Deploy!TypeOK
  /\ part = "deploy" => Deploy!LinksStand
  /\ part = "deploy" => Deploy!WayBack
  /\ part = "store" => Store!TypeOK
  /\ part = "store" => Store!WhatWasStoredIsFound

(* A broker counts what runs and no window admits more than its rate.       *)
BudgetsHold ==
  /\ part = "gates" => Gates!TypeOK
  /\ part = "gates" => Gates!BrokerAccounts
  /\ part = "gates" => Gates!BurstIsBounded

(* What deploy.artifact.build signs, deploy.artifact.verify accepts: the    *)
(* next step the build prints (artifact-build.ts:188).                      *)
SignedArtifactsVerify == part = "deploy" => Deploy!SignedArtifactsVerify
=============================================================================
