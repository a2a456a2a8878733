----------------------------- MODULE Leitstand -----------------------------
(***************************************************************************)
(* From a closed mission to a live site: release.prepare, release.ready,   *)
(* leitstand.certify, the three deploys (dev-deploy, propagate, promote)   *)
(* with the phases they share, and leitstand.rollback, for one system.     *)
(*                                                                         *)
(* Each command is a process that runs to an await, and the files it       *)
(* leaves are all the next one sees: releases/, gate-decisions/,           *)
(* deployment-operations/ and system-state.yaml.  release.* hold the       *)
(* system lock; the leitstand takes none.  The Cloudflare side (`worker`,  *)
(* one Worker a channel) is modelled from the calls made to it.            *)
(***************************************************************************)
EXTENDS Naturals, Sequences, FiniteSets, SequencesExt, FiniteSetsExt

CONSTANTS
  Procs,        \* the terminals, CI jobs and agents that run commands
  Runs,         \* the commands each of them runs, of AllCommands
  LastRelease,  \* releases are numbered 1..LastRelease (a bound)
  Broken,       \* releases whose pages mission.check finds violations in
  Synced,       \* releases whose durable copy verifies (all, without R2)
  Unidentified, \* releases whose build identity may fail to be read or made
  Faults,       \* what may go wrong, of AllFaults
  MaxOps,       \* bound on deployment operations
  MaxDecisions  \* bound on gate decisions

AllCommands == {"prepare", "ready", "certify", "deploy", "rollback"}
AllFaults == {"build", "context", "crash-deploy", "crash-rollback", "domain", "evidence",
              "infra", "network", "override", "producers", "purge", "sick", "spawn",
              "wrangler"}

ASSUME LeitstandAssumption ==
  /\ Runs \in [Procs -> SUBSET AllCommands]
  /\ {LastRelease, MaxOps, MaxDecisions} \subseteq Nat
  /\ {Broken, Synced, Unidentified} \subseteq SUBSET (1..LastRelease)
  /\ Faults \subseteq AllFaults /\ "free" \notin Procs

Releases == 1..LastRelease
Channels == {"dev", "alt", "main"}
None == 0

VARIABLES
  releases,   \* releases/<id>: the manifest's state
  stored,     \* releases with an artifact.tar.gz of their own
  lock,       \* the system's lock: "free" or its holder
  decisions,  \* every gate decision ever made; a decision's id is its place
  file,       \* gate-decisions/<release>-<gate>.json: the id it holds
  verified,   \* gate-decisions/<release>-main-verification.json
  evidence,   \* gate-decisions/<release>-evidence.json
  records,    \* deployment-operations/: the record of each operation
  worker,     \* per channel: the versions made live, the last one serves
  state,      \* system-state.yaml: lastPropagated and lastRelease
  clock,      \* the last timestamp given to a record
  proc        \* per process: where its command stands and what it read

vars == <<releases, stored, lock, decisions, file, verified, evidence,
          records, worker, state, clock, proc>>

Idle == [at |-> "idle", release |-> None, channel |-> "dev", op |-> None,
         version |-> None, stamp |-> 0, look |-> None, seen |-> None]

NoEvidence == [verdict |-> "none", tested |-> None, hash |-> "none"]
NoState == [last |-> [ch \in Channels |-> None], release |-> None]

Init ==
  /\ releases = [r \in Releases |-> "absent"]
  /\ stored = {} /\ lock = "free"
  /\ decisions = <<>>
  /\ file = [r \in Releases |-> [ch \in Channels |-> None]]
  /\ verified = [r \in Releases |-> None]
  /\ evidence = [r \in Releases |-> NoEvidence]
  /\ records = <<>> /\ worker = [ch \in Channels |-> <<>>]
  /\ state = NoState /\ clock = 0
  /\ proc = [p \in Procs |-> Idle]

-----------------------------------------------------------------------------
(* A version is the number of the operation that uploaded it.              *)
Live(ch) == IF worker[ch] = <<>> THEN None ELSE records[Last(worker[ch])].artifact

(* resolveArtifactHash: the archive once there is one, the manifest's      *)
(* distTreeHash before.                                                    *)
ArtifactHash(r) == IF r \in stored THEN "archive" ELSE "tree"

Prepared == {r \in Releases : releases[r] # "absent"}

Goto(p, at) == proc' = [proc EXCEPT ![p].at = at]
Done(p) == proc' = [proc EXCEPT ![p] = Idle]
May(p, c) == proc[p].at = "idle" /\ c \in Runs[p]
CanFail(f) == f \in Faults

Certification == <<decisions, file, verified, evidence>>
Deployment == <<records, worker, clock>>
Release == <<releases, stored, lock>>

-----------------------------------------------------------------------------
(* release.prepare: under the system lock, the next number, a build in a   *)
(* staging directory and one move.  The C-surface check that may still     *)
(* throw comes after the move and changes nothing.                         *)
NextRelease == IF Prepared = {} THEN 1 ELSE Max(Prepared) + 1

\* Fault: release.prepare derives its number without the system lock.
PrepareUnlocked(p) ==
  /\ May(p, "prepare") /\ Cardinality(Prepared) < LastRelease
  /\ proc' = [proc EXCEPT ![p] = [Idle EXCEPT !.at = "building",
                                             !.release = NextRelease]]
  /\ UNCHANGED <<Release, state, Certification, Deployment>>

PrepareStart(p) ==
  /\ May(p, "prepare") /\ lock = "free"
  /\ Cardinality(Prepared) < LastRelease
  /\ lock' = p
  /\ proc' = [proc EXCEPT ![p] = [Idle EXCEPT !.at = "building",
                                             !.release = NextRelease]]
  /\ UNCHANGED <<releases, stored, state, Certification, Deployment>>

PrepareMove(p) ==
  /\ proc[p].at = "building"
  /\ \/ releases' = [releases EXCEPT ![proc[p].release] = "prepared"]
     \/ CanFail("build") /\ UNCHANGED releases
  /\ lock' = "free"
  /\ Done(p)
  /\ UNCHANGED <<stored, state, Certification, Deployment>>

(* release.ready reads the manifest, then takes the locks, and writes the  *)
(* manifest it read: the archive first, the state after it.                *)
ReadyStart(p) ==
  \E r \in Releases :
    /\ May(p, "ready") /\ releases[r] = "prepared"
    /\ proc' = [proc EXCEPT ![p] = [Idle EXCEPT !.at = "ready-lock", !.release = r]]
    /\ UNCHANGED <<Release, state, Certification, Deployment>>

ReadyLock(p) ==
  /\ proc[p].at = "ready-lock"
  /\ IF lock = "free" THEN lock' = p /\ Goto(p, "ready-store")
                      ELSE Done(p) /\ UNCHANGED lock
  /\ UNCHANGED <<releases, stored, state, Certification, Deployment>>

ReadyStore(p) ==
  /\ proc[p].at = "ready-store"
  /\ stored' = stored \cup {proc[p].release}
  /\ Goto(p, "ready-mark")
  /\ UNCHANGED <<releases, lock, state, Certification, Deployment>>

ReadyMark(p) ==
  /\ proc[p].at = "ready-mark"
  /\ releases' = [releases EXCEPT ![proc[p].release] = "ready"]
  /\ proc' = [proc EXCEPT ![p].seen = state, ![p].at = "ready-write"]
  /\ UNCHANGED <<stored, lock, state, Certification, Deployment>>

ReadyWriteState(p) ==
  /\ proc[p].at = "ready-write"
  /\ state' = [proc[p].seen EXCEPT !.release = proc[p].release]
  /\ lock' = "free"
  /\ Done(p)
  /\ UNCHANGED <<releases, stored, Certification, Deployment>>

-----------------------------------------------------------------------------
(* leitstand.certify.  There is a URL to check once an operation on dev    *)
(* has ended: the records of executeDeployPhases carry it.                 *)
DevHasUrl == \E i \in DOMAIN records :
  records[i].channel = "dev" /\ records[i].state \in {"succeeded", "failed"} /\ records[i].artifact # None

(* tryReuseEvidence: a decision of any gate about this artifact and a      *)
(* sidecar about it.  Evidence that has expired, or --force, is a choice   *)
(* of CertifyStart.                                                        *)
Reusable(r) ==
  /\ \E ch \in Channels : file[r][ch] # None /\ decisions[file[r][ch]].hash = ArtifactHash(r)
  /\ evidence[r].hash = ArtifactHash(r)

(* evaluateCertificationDecision: an error fails, anything else passes.    *)
StatusOf(e) == IF e.verdict = "fail" THEN "fail" ELSE "pass"

(* The producer's handler: mission.check of what dev serves now.           *)
Checked(r) ==
  {[verdict |-> v, tested |-> IF DevHasUrl THEN Live("dev") ELSE None,
    hash |-> ArtifactHash(r)] :
     v \in IF ~DevHasUrl THEN {"skipped"}
           ELSE (IF Live("dev") \in Broken THEN {"fail"} ELSE {"pass"})
                \cup (IF CanFail("infra") THEN {"fail"} ELSE {})}

(* A refused plan, or executeProducers without an answer, writes nothing.  *)
CertifyEnds(p) ==
  /\ proc[p].at = "certify" /\ CanFail("producers")
  /\ Done(p)
  /\ UNCHANGED <<Release, state, Certification, Deployment>>

CertifyStart(p) ==
  \E r \in Prepared, gate \in Channels :
    /\ May(p, "certify") /\ Len(decisions) < MaxDecisions
    /\ \E e \in Checked(r) \cup (IF Reusable(r) THEN {evidence[r]} ELSE {}) :
         proc' = [proc EXCEPT ![p] = [Idle EXCEPT !.at = "certify", !.release = r,
                    !.channel = gate, !.look = e]]
    /\ UNCHANGED <<Release, state, Certification, Deployment>>

(* The sidecar (unless reused), the decision and, for a passing main gate, *)
(* the main verification.                                                  *)
CertifyDecide(p) ==
  LET r == proc[p].release  gate == proc[p].channel  e == proc[p].look
      d == Len(decisions) + 1
  IN /\ proc[p].at = "certify"
     /\ evidence' = [evidence EXCEPT ![r] = e]
     /\ decisions' = Append(decisions, [release |-> r, gate |-> gate, hash |-> e.hash,
                                         status |-> StatusOf(e), tested |-> e.tested])
     /\ file' = [file EXCEPT ![r][gate] = d]
     /\ verified' = IF gate = "main" /\ StatusOf(e) = "pass"
                      THEN [verified EXCEPT ![r] = d] ELSE verified
     /\ Done(p)
     /\ UNCHANGED <<Release, state, Deployment>>

-----------------------------------------------------------------------------
\* Fault: the decision file only has to exist.
AuthorizedUnread(r, ch, d) == d # None /\ (ch # "dev" => r \in Synced)

(* authorizeDeployment: the decision passes, and beyond dev the artifact   *)
(* is durable.  --gate-decision names any decision file.                   *)
Authorized(r, ch, d) ==
  /\ d # None /\ decisions[d].status = "pass"
  /\ ch # "dev" => r \in Synced

(* verifyMainPromotion, asked before authorizeDeployment on promote.       *)
MainVerified(r, ch) == ch = "main" => verified[r] # None /\ r \in Synced

DecisionsFor(r, ch) ==
  {file[r][ch]} \cup (IF CanFail("override") THEN DOMAIN decisions ELSE {})

Cleared(r, ch, d) == MainVerified(r, ch) /\ Authorized(r, ch, d)

Record(ch, r, d, mv, st, at, v, rel) ==
  [channel |-> ch, artifact |-> r, decision |-> d, verification |-> mv,
   state |-> st, at |-> at, version |-> v, release |-> rel]

(* Authorize, write the record of a new operation, and on to the phases.   *)
DeployStart(p, r, ch, d, first) ==
  /\ May(p, "deploy") /\ Len(records) < MaxOps
  /\ Cleared(r, ch, d)
  /\ records' = Append(records, Record(ch, r, d, IF ch = "main" THEN verified[r] ELSE None,
                                        "authorized", clock + 1, None, None))
  /\ clock' = clock + 1
  /\ proc' = [proc EXCEPT ![p] = [Idle EXCEPT !.release = r, !.channel = ch,
                !.op = Len(records) + 1, !.stamp = clock + 1, !.at = first]]
  /\ UNCHANGED <<Release, state, Certification, worker>>

RunLeitstandDevDeploy(p) ==
  \E r \in Prepared : \E d \in DecisionsFor(r, "dev") : DeployStart(p, r, "dev", d, "propagate")

RunLeitstandPropagate(p) ==
  \E r \in Prepared : \E d \in DecisionsFor(r, "alt") : DeployStart(p, r, "alt", d, "propagate")

(* promote registers the custom domain before the phases.                  *)
RunLeitstandPromote(p) ==
  \E r \in Prepared : \E d \in DecisionsFor(r, "main") : DeployStart(p, r, "main", d, "domain")

(* The deployment config is read once the record is written: a system      *)
(* without one ends the command, and leaves the record "authorized".       *)
PrepareDeployContext(p) ==
  /\ proc[p].at = (IF proc[p].channel = "main" THEN "domain" ELSE "propagate")
  /\ CanFail("context") /\ Done(p)
  /\ UNCHANGED <<Release, state, Certification, records, worker, clock>>

DeployDomain(p) ==
  /\ proc[p].at = "domain"
  /\ \/ /\ clock' = clock + 1
        /\ proc' = [proc EXCEPT ![p].at = "propagate", ![p].stamp = clock + 1]
     \/ CanFail("domain") /\ Done(p) /\ UNCHANGED clock
  /\ UNCHANGED <<Release, state, Certification, records, worker>>

(* runWranglerDeployWithRetry: up to three tries while the error is a       *)
(* transient one; the last answer counts, and a lost one may follow a      *)
(* completed upload.                                                       *)
WranglerDeploys ==
  {[uploaded |-> TRUE, exit |-> 0]}
    \cup (IF CanFail("wrangler") THEN [uploaded : BOOLEAN, exit : {1}] ELSE {})

(* prepare left a dist tree: the phases do not build again, and add the    *)
(* build identity if there is none.                                        *)
BuildSkipped(r) == r \in Prepared

(* adapter.propagate.  A failing wrangler is an answer with state "failed" *)
(* and no version, which the phases do not look at; only a wrangler that   *)
(* cannot be started throws.                                               *)
DeployPropagate(p) ==
  LET ch == proc[p].channel  op == proc[p].op
      next == IF ch = "dev" THEN "health" ELSE "fresh"
  IN /\ proc[p].at = "propagate" /\ BuildSkipped(proc[p].release)
     /\ \/ \E w \in WranglerDeploys :
             /\ worker' = IF w.uploaded THEN [worker EXCEPT ![ch] = Append(@, op)] ELSE worker
             /\ proc' = [proc EXCEPT ![p].at = next,
                                     ![p].version = IF w.exit = 0 THEN op ELSE None]
        \/ CanFail("spawn") /\ UNCHANGED worker /\ Goto(p, "fail")
     /\ UNCHANGED <<Release, state, Certification, records, clock>>

\* Fault: any answer from the channel counts as fresh.
AnswersAtAll(p) == worker[proc[p].channel] # <<>>

(* The batches of the cache purge, the first that fails ends them; no zone  *)
(* or token is a failure too.                                              *)
PurgeCacheByUrls == {TRUE} \cup {~CanFail("purge")}

(* verifyFreshness: the channel serves the tree that was built.            *)
Fresh(p) == Live(proc[p].channel) = proc[p].release

(* A build identity that cannot be read or made is passed over, and then   *)
(* there is no hash to compare what is served with.                        *)
IdentityKnown(r) == {TRUE, r \notin Unidentified}

DeployFresh(p) ==
  /\ proc[p].at = "fresh"
  /\ \E purged \in PurgeCacheByUrls, known \in IdentityKnown(proc[p].release) :
       \/ purged /\ (known => Fresh(p)) /\ Goto(p, "health")
       \/ /\ ~purged \/ (known /\ (~Fresh(p) \/ CanFail("network")))
          /\ Goto(p, "fail")
  /\ UNCHANGED <<Release, state, Certification, Deployment>>

(* adapter.health probes the routes of the release's behaviour snapshot.   *)
Probed(ch, r) ==
  {IF Live(ch) = r THEN "healthy" ELSE "unhealthy"}
    \cup (IF CanFail("network") THEN {"unknown"} ELSE {})
    \cup (IF CanFail("sick") THEN {"unhealthy"} ELSE {})

(* runHealthCheckWithRetry: the first healthy answer of three, or the last. *)
Health(ch, r) == Probed(ch, r)

DeployHealth(p) ==
  /\ proc[p].at = "health"
  /\ \E h \in Health(proc[p].channel, proc[p].release) :
       Goto(p, IF h = "unhealthy" THEN "fail" ELSE "gate")
  /\ UNCHANGED <<Release, state, Certification, Deployment>>

(* The channel's own gate: mission.check on dev when a mission is open, the*)
(* Axiom evidence on alt, the health of alt on main.  The state file is    *)
(* read next.                                                              *)
(* runMissionCheckWithResilience: an infrastructure exit is tried once more *)
(* and then passes the gate, without an open mission there is no check;     *)
(* violations and a timeout stop the deploy.                                *)
MissionCheckPasses ==
  {TRUE, Live("dev") \notin Broken} \cup (IF CanFail("infra") THEN {FALSE} ELSE {})

GateVerdicts(p) ==
  CASE proc[p].channel = "dev" -> MissionCheckPasses
    [] proc[p].channel = "alt" -> {TRUE, ~CanFail("evidence")}
    [] OTHER -> {h = "healthy" : h \in Health("alt", proc[p].release)}

DeployGate(p) ==
  /\ proc[p].at = "gate"
  /\ \E ok \in GateVerdicts(p) :
       proc' = [proc EXCEPT ![p].at = IF ok THEN "write-state" ELSE "fail",
                            ![p].seen = IF ok THEN state ELSE None]
  /\ UNCHANGED <<Release, state, Certification, Deployment>>

DeployWriteState(p) ==
  /\ proc[p].at = "write-state"
  /\ state' = [proc[p].seen EXCEPT !.last[proc[p].channel] = proc[p].release]
  /\ proc' = [proc EXCEPT ![p].at = "succeed", ![p].seen = None]
  /\ UNCHANGED <<Release, Certification, Deployment>>

(* The final record replaces the first, without the main verification.     *)
Conclude(p, st, v, rel) ==
  /\ records' = [records EXCEPT ![proc[p].op] =
       Record(@.channel, @.artifact, @.decision, None, st, proc[p].stamp, v, rel)]
  /\ Done(p)
  /\ UNCHANGED <<Release, state, Certification, worker, clock>>

DeploySucceed(p) ==
  proc[p].at = "succeed" /\ Conclude(p, "succeeded", proc[p].version, proc[p].release)

DeployFail(p) == proc[p].at = "fail" /\ Conclude(p, "failed", None, None)

-----------------------------------------------------------------------------
(* leitstand.rollback.  With --to-release the newest succeeded record of   *)
(* that release, whatever its channel.  Without, resolveRollbackVersionId  *)
(* looks for system-state.yaml under the clone instead of the workspace,   *)
(* finds none, and leaves the choice to wrangler.                          *)
Newest(S) == CHOOSE i \in S : \A j \in S : records[j].at <= records[i].at

RollbackRecords(r) ==
  {i \in DOMAIN records : records[i].state = "succeeded"
     /\ records[i].version # None /\ records[i].release = r}

RollbackStart(p) ==
  \E ch \in Channels, r \in Releases \cup {None} :
    /\ May(p, "rollback") /\ Len(records) < MaxOps
    /\ proc' = [proc EXCEPT ![p] = [Idle EXCEPT !.at = "roll", !.channel = ch,
         !.version = IF RollbackRecords(r) = {} THEN None
                     ELSE records[Newest(RollbackRecords(r))].version,
         !.release = IF RollbackRecords(r) = {} THEN None ELSE r]]
    /\ UNCHANGED <<Release, state, Certification, Deployment>>

(* wrangler knows the versions of the Worker it is asked about; given none *)
(* it takes the one before the current.                                    *)
RollbackTargets(ch, v) ==
  IF v # None THEN {v} \cap ToSet(worker[ch])
  ELSE {worker[ch][i] : i \in {Len(worker[ch]) - 1} \cap DOMAIN worker[ch]}

\* Fault: the outcome of wrangler is not looked at.
RollbackAssumed(p) ==
  LET ch == proc[p].channel
      targets == {worker[ch]} \cup
        {Append(worker[ch], v) : v \in RollbackTargets(ch, proc[p].version)}
  IN /\ proc[p].at = "roll"
     /\ \E w \in targets : worker' = [worker EXCEPT ![ch] = w]
     /\ proc' = [proc EXCEPT ![p].at = "rolled", ![p].look = "rolled-back"]
     /\ UNCHANGED <<Release, state, Certification, records, clock>>

RollbackWrangler(p) ==
  LET ch == proc[p].channel  targets == RollbackTargets(ch, proc[p].version)
  IN /\ proc[p].at = "roll"
     /\ \/ /\ \E v \in targets : worker' = [worker EXCEPT ![ch] = Append(@, v)]
           /\ \/ proc' = [proc EXCEPT ![p].at = "rolled", ![p].look = "rolled-back"]
              \/ CanFail("wrangler") /\ proc' = [proc EXCEPT ![p].at = "rolled", ![p].look = "failed"]
        \/ /\ targets = {} \/ CanFail("wrangler")
           /\ proc' = [proc EXCEPT ![p].at = "rolled", ![p].look = "failed"]
           /\ UNCHANGED worker
     /\ UNCHANGED <<Release, state, Certification, records, clock>>

RollbackRecord(p) ==
  /\ proc[p].at = "rolled"
  /\ clock' = clock + 1
  /\ records' = Append(records, Record(proc[p].channel, None, None, None, proc[p].look,
                                        clock + 1, proc[p].version, proc[p].release))
  /\ Done(p)
  /\ UNCHANGED <<Release, state, Certification, worker>>

-----------------------------------------------------------------------------
(* leitstand.status: per channel the newest record there is.               *)
NoOperation == [state |-> "none", artifact |-> None, version |-> None]
Reported(ch) ==
  LET own == {i \in DOMAIN records : records[i].channel = ch}
  IN  IF own = {} THEN NoOperation
      ELSE [f \in DOMAIN NoOperation |-> records[Newest(own)][f]]

(* leitstand.pipeline.check, whatever release it is asked about.           *)
PipelineState ==
  CASE Reported("main").state = "succeeded" -> "main-deployed"
    [] Reported("main").state # "succeeded" /\ Reported("alt").state = "succeeded" -> "alt-deployed"
    [] {Reported("main").state, Reported("alt").state} \cap {"succeeded"} = {}
         /\ Reported("dev").state = "succeeded" -> "dev-deployed"
    [] OTHER -> IF "failed" \in {Reported(ch).state : ch \in Channels} THEN "failed" ELSE "ready"

(* A deploy or a rollback is killed; what it wrote stays.                  *)
KillPoints ==
  (IF CanFail("crash-deploy")
     THEN {"domain", "propagate", "fresh", "health", "gate", "write-state", "succeed", "fail"}
     ELSE {})
  \cup (IF CanFail("crash-rollback") THEN {"roll", "rolled"} ELSE {})

Crash(p) ==
  /\ proc[p].at \in KillPoints
  /\ Done(p)
  /\ UNCHANGED <<Release, state, Certification, Deployment>>

ReleaseStep(p) ==
  \/ PrepareStart(p) \/ PrepareMove(p) \/ ReadyStart(p) \/ ReadyLock(p) \/ ReadyStore(p)
  \/ ReadyMark(p) \/ ReadyWriteState(p)

DeployStep(p) ==
  \/ RunLeitstandDevDeploy(p) \/ RunLeitstandPropagate(p) \/ RunLeitstandPromote(p)
  \/ PrepareDeployContext(p) \/ DeployDomain(p) \/ DeployPropagate(p)
  \/ DeployFresh(p) \/ DeployHealth(p) \/ DeployGate(p)
  \/ DeployWriteState(p) \/ DeploySucceed(p) \/ DeployFail(p)

Next ==
  \E p \in Procs :
    \/ ReleaseStep(p) \/ CertifyStart(p) \/ CertifyDecide(p) \/ CertifyEnds(p) \/ DeployStep(p)
    \/ RollbackStart(p) \/ RollbackWrangler(p) \/ RollbackRecord(p) \/ Crash(p)

Spec == Init /\ [][Next]_vars

-----------------------------------------------------------------------------
(* Properties.                                                             *)

Quiet == \A p \in Procs : proc[p].at = "idle"
Ids(n) == 0..n

(* Types: manifests, files, records and channels hold what their schemas   *)
(* and directories allow.                                                  *)
TypeOK ==
  /\ releases \in [Releases -> {"absent", "prepared", "ready"}]
  /\ stored \subseteq Releases /\ lock \in Procs \cup {"free"}
  /\ file \in [Releases -> [Channels -> Ids(Len(decisions))]]
  /\ verified \in [Releases -> Ids(Len(decisions))]
  /\ \A i \in DOMAIN decisions : decisions[i].status \in {"pass", "fail"}
  /\ \A i \in DOMAIN records :
       /\ records[i].state \in {"authorized", "succeeded", "failed", "rolled-back"}
       /\ records[i].decision \in Ids(Len(decisions)) /\ records[i].at \in 1..clock
  /\ \A ch \in Channels : \A i \in DOMAIN worker[ch] : worker[ch][i] \in DOMAIN records
  /\ \A ch \in Channels : state.last[ch] \in Releases \cup {None}
  /\ DOMAIN proc = Procs

(* Nothing serves on a channel that was not cleared for it: every version  *)
(* a channel ever served was uploaded by an operation on record, authorized*)
(* by a passing decision about that release and that gate, and on main a   *)
(* passing main verification had been written (RFC-0608, RFC-0866).        *)
DeploysWereCleared ==
  \A ch \in Channels : \A i \in DOMAIN worker[ch] :
    LET rec == records[worker[ch][i]] IN
    /\ rec.channel = ch
    /\ rec.decision # None
    /\ decisions[rec.decision].status = "pass"
    /\ decisions[rec.decision].release = rec.artifact
    /\ decisions[rec.decision].gate = ch
    /\ ch = "main" => verified[rec.artifact] # None

(* leitstand.status reports the record with the latest timestamp: when it  *)
(* says an alt or main deploy succeeded and nothing is running, that       *)
(* release is what the channel serves; leitstand.pipeline.check says       *)
(* "main-deployed" or "alt-deployed" only of a channel for which it holds. *)
(* Excepted is a success that neither wrangler's answer nor the freshness  *)
(* of the pages vouches for.                                               *)
Vouched(ch) == Reported(ch).version # None \/ Reported(ch).artifact \notin Unidentified

StatusIsHonest ==
  Quiet =>
    /\ \A ch \in {"alt", "main"} :
         Reported(ch).state = "succeeded" /\ Vouched(ch) => Live(ch) = Reported(ch).artifact
    /\ PipelineState = "main-deployed" /\ Vouched("main") => Live("main") # None
    /\ PipelineState = "alt-deployed" /\ Vouched("alt") => Live("alt") # None

(* A record that says "rolled-back" to a release is true: the channel had  *)
(* served a version of that release before, and went back to it.           *)
RollbackIsTruthful ==
  \A i \in DOMAIN records :
    LET rec == records[i] IN
    (rec.state = "rolled-back" /\ rec.release # None)
      => \E j, k \in DOMAIN worker[rec.channel] :
           /\ j < k /\ worker[rec.channel][j] = worker[rec.channel][k]
           /\ worker[rec.channel][j] = rec.version
           /\ records[rec.version].artifact = rec.release

(* No two releases share a number: while one is built nobody else prepares *)
(* under that number, whose directory the move would delete first.         *)
NoReleaseIsReplaced ==
  \A p \in Procs : proc[p].at = "building" => releases[proc[p].release] = "absent"

(* What is served and released, within the types of the leitstand: a deploy *)
(* was cleared for what it put live, and no release replaces another.       *)
ReleasesStand == TypeOK /\ DeploysWereCleared /\ NoReleaseIsReplaced
-----------------------------------------------------------------------------
(* What the sources say of the leitstand and the code does not keep.       *)

(* "Alt channel is not healthy - cannot promote to main": main starts to   *)
(* serve another release only while alt serves it (deploy-execution.ts).   *)
(* The check runs after main was switched.                                 *)
PromotionFollowsAlt ==
  [][Live("main")' # Live("main") => Live("alt") = Live("main")']_vars

(* RFC-0867 in certify.ts: reused evidence satisfies the gate it is reused *)
(* for, so a release that passes the main gate was looked at.  The skipped *)
(* check of a first dev certification is reused as a pass.                 *)
EvidenceSatisfiesGate ==
  \A i \in DOMAIN decisions :
    (decisions[i].gate = "main" /\ decisions[i].status = "pass")
      => decisions[i].tested = decisions[i].release

(* A deploy that succeeded was live on its channel.  On dev nothing looks  *)
(* at the adapter's answer and an unknown health passes.                   *)
SucceededWasDeployed ==
  \A i \in DOMAIN records :
    LET ch == records[i].channel IN
    records[i].state = "succeeded"
      => \E k \in DOMAIN worker[ch] : records[worker[ch][k]].artifact = records[i].artifact

(* lastPropagated is what serves.  A rollback does not write it, a phase   *)
(* that fails after the upload skips it.                                   *)
StateFollowsTraffic ==
  Quiet => \A ch \in Channels : state.last[ch] = Live(ch)

(* The last success of a channel is in system-state.yaml.  release.ready   *)
(* writes back the state it read before, and the leitstand takes no lock.  *)
NoUpdateIsLost ==
  \A ch \in Channels :
    LET ok == {i \in DOMAIN records : records[i].channel = ch /\ records[i].state = "succeeded"} IN
    (Quiet /\ ok # {}) => state.last[ch] \in {records[i].artifact : i \in ok}
=============================================================================
