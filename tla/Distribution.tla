---------------------------- MODULE Distribution ----------------------------
(* What a release is built from: mission.build leaves a distribution and    *)
(* the hash of its inputs, mission.validate and release.prepare reuse that  *)
(* distribution while the hash still matches, and release.prepare writes    *)
(* the release and then its name into mission.yaml and close-report.json.   *)
(* The hash covers src/content and the platform, not the rest of a site.    *)
EXTENDS Integers, Sequences, FiniteSets

CONSTANTS
  Procs,       \* terminals and agents
  MaxEdits,    \* bound of the model: edits of the workpiece
  MaxReleases  \* bound of the model: releases

VARIABLES
  content,       \* the version of src/content
  other,         \* the version of everything else a build reads
  mission,       \* the state in mission.yaml
  dist,          \* workpiece/dist
  distribution,  \* distribution/dist
  meta,          \* build-input-hash.json: the content it covers, or Nothing
  report,        \* validation-report.json
  releases,      \* releases/<id>, by number
  names,         \* the releaseId in mission.yaml, close-report.json, bordbuch and state
  lock,          \* the locks of the system and of the release
  job,           \* per process: the command it runs
  cut            \* history: a preparation died between two of its names

vars == <<content, other, mission, dist, distribution, meta, report, releases, names, lock, job, cut>>

Nothing == -1
NoDist == [content |-> Nothing, other |-> Nothing, signed |-> FALSE]
NoReport == [is |-> "none", reused |-> FALSE, dist |-> NoDist]
Idle == [at |-> "idle", cmd |-> "none", ok |-> TRUE, reuse |-> FALSE, content |-> Nothing]

Workpiece == <<content, other, mission>>
Records == <<releases, names, lock, cut>>

Init ==
  /\ content = 0 /\ other = 0 /\ mission = "open"
  /\ dist = NoDist /\ distribution = NoDist /\ meta = Nothing /\ report = NoReport
  /\ releases = <<>> /\ names = [mission |-> 0, close |-> 0, bordbuch |-> 0, state |-> 0]
  /\ lock = "free" /\ job = [p \in Procs |-> Idle] /\ cut = FALSE

Goto(p, at) == job' = [job EXCEPT ![p].at = at]
Done(p) == job' = [job EXCEPT ![p] = Idle]

(* An author or an agent edits the workpiece of an open mission at any time. *)
Edit ==
  /\ mission = "open" /\ content + other < MaxEdits
  /\ \/ content' = content + 1 /\ UNCHANGED other
     \/ other' = other + 1 /\ UNCHANGED content
  /\ UNCHANGED <<mission, dist, distribution, meta, report, Records, job>>

(* computeBuildInputHash, the platform standing still.                     *)
BuildInputHash == content

StartBuild(p) ==
  /\ job[p].at = "idle" /\ mission = "open"
  /\ job' = [job EXCEPT ![p] = [Idle EXCEPT !.at = "checks", !.cmd = "build"]]
  /\ UNCHANGED <<Workpiece, dist, distribution, meta, report, Records>>

(* A distribution is reused when it is there and its hash is the hash of   *)
(* the present inputs.                                                     *)
CanReuseDistribution == distribution # NoDist /\ meta # Nothing /\ meta = BuildInputHash

(* mission.validate without --force: reuse ends the command with a passing *)
(* report, and fills a missing workpiece/dist.                              *)
ReuseDistribution(p) ==
  /\ job[p].at = "idle" /\ mission = "open" /\ CanReuseDistribution
  /\ report' = [is |-> "pass", reused |-> TRUE, dist |-> distribution]
  /\ dist' = IF dist = NoDist THEN distribution ELSE dist
  /\ UNCHANGED <<Workpiece, distribution, meta, Records, job>>

StartValidate(p, force) ==
  /\ job[p].at = "idle" /\ mission = "open" /\ (force \/ ~CanReuseDistribution)
  /\ job' = [job EXCEPT ![p] = [Idle EXCEPT !.at = "checks", !.cmd = "validate"]]
  /\ UNCHANGED <<Workpiece, dist, distribution, meta, report, Records>>

Failed(p) == [job EXCEPT ![p].ok = FALSE, ![p].at = "copy"]

(* The config and browser preflights and build.prepare: whichever fails    *)
(* first ends the validation with a report.                                *)
ValidateChecks(p, ok) ==
  /\ job[p].at = "checks" /\ job[p].cmd = "validate"
  /\ IF ok THEN Goto(p, "static") ELSE job' = Failed(p)
  /\ UNCHANGED <<Workpiece, dist, distribution, meta, report, Records>>

(* build.check, and the stale dist removed before the site is built.       *)
StaticChecks(p, ok) ==
  /\ job[p].at = "static"
  /\ IF ok THEN Goto(p, "astro") ELSE job' = Failed(p)
  /\ dist' = IF ok THEN NoDist ELSE dist
  /\ UNCHANGED <<Workpiece, distribution, meta, report, Records>>

(* build.prepare and build.check.                                          *)
BuildChecks(p, ok) ==
  /\ job[p].at = "checks" /\ job[p].cmd = "build"
  /\ IF ok THEN Goto(p, "astro") ELSE job' = Failed(p)
  /\ UNCHANGED <<Workpiece, dist, distribution, meta, report, Records>>

(* The browser preflight and build.prepare, on a site made up for a mission *)
(* no registry entry names any more.                                        *)
PrepareChecks(p, ok) ==
  /\ job[p].at = "checks" /\ job[p].cmd = "prepare"
  /\ IF ok THEN Goto(p, "astro") ELSE job' = Failed(p)
  /\ UNCHANGED <<Workpiece, dist, distribution, meta, report, Records>>

(* astro build, between writing and removing the preliminary identity; one *)
(* that fails leaves what it had written, or what was there.               *)
AstroBuild(p, ok, wrote) ==
  /\ job[p].at = "astro"
  /\ dist' = IF wrote THEN [content |-> content, other |-> other, signed |-> FALSE] ELSE dist
  /\ ok => wrote
  /\ IF ok THEN Goto(p, "post") ELSE job' = Failed(p)
  /\ UNCHANGED <<Workpiece, distribution, meta, report, Records>>

\* Fault: the exit of build.post is not looked at.
PostIgnored(p, ok) ==
  /\ job[p].at = "post"
  /\ dist' = IF ok THEN [dist EXCEPT !.signed = dist # NoDist] ELSE dist
  /\ Goto(p, "copy")
  /\ UNCHANGED <<Workpiece, distribution, meta, report, Records>>

(* build.post normalises and signs the tree.                               *)
BuildPost(p, ok) ==
  /\ job[p].at = "post"
  /\ IF ok /\ dist # NoDist THEN dist' = [dist EXCEPT !.signed = TRUE] /\ Goto(p, "copy")
     ELSE UNCHANGED dist /\ IF job[p].cmd = "validate" THEN Goto(p, "snapshot") ELSE job' = Failed(p)
  /\ UNCHANGED <<Workpiece, distribution, meta, report, Records>>

(* validate: when build.post failed for a behaviour snapshot that is out   *)
(* of date, in a clean workpiece, the snapshot is generated and committed  *)
(* and build.post runs once more; in any other case it stays failed.       *)
OrchestrateSnap01Recovery(p, recovered) ==
  /\ job[p].at = "snapshot"
  /\ IF recovered /\ dist # NoDist THEN dist' = [dist EXCEPT !.signed = TRUE] /\ Goto(p, "copy")
     ELSE UNCHANGED dist /\ job' = Failed(p)
  /\ UNCHANGED <<Workpiece, distribution, meta, report, Records>>

(* mission.build copies whatever dist there is, failed or not; the hash is *)
(* taken after a build that succeeded.                                     *)
CopyDist(p) ==
  /\ job[p].at = "copy" /\ job[p].cmd = "build"
  /\ distribution' = IF dist = NoDist THEN distribution ELSE dist
  /\ IF job[p].ok THEN Goto(p, "hash") ELSE Done(p)
  /\ UNCHANGED <<Workpiece, dist, meta, report, Records>>

WriteBuildInputHash(p) ==
  /\ job[p].at = "hash"
  /\ meta' = BuildInputHash
  /\ Done(p)
  /\ UNCHANGED <<Workpiece, dist, distribution, report, Records>>

WriteReport(p) ==
  /\ job[p].at = "copy" /\ job[p].cmd = "validate"
  /\ report' = [is |-> IF job[p].ok THEN "pass" ELSE "fail", reused |-> FALSE, dist |-> dist]
  /\ Done(p)
  /\ UNCHANGED <<Workpiece, dist, distribution, meta, Records>>

(* mission.close, once validated: the ledger and the close report carry    *)
(* the release the mission has by then.                                    *)
Close ==
  /\ mission = "open" /\ report.is = "pass" /\ lock = "free"
  /\ mission' = "closed"
  /\ names' = [names EXCEPT !.close = names.mission, !.bordbuch = names.mission]
  /\ UNCHANGED <<content, other, dist, distribution, meta, report, releases, lock, job, cut>>

-----------------------------------------------------------------------------
(* The number after the highest release there is; staging directories do   *)
(* not count.                                                              *)
DeriveReleaseId == Len(releases) + 1

(* release.prepare: a closed, reconciled, validated mission; the system's  *)
(* lock; the next number; and the decision to reuse.                       *)
StartPrepare(p) ==
  /\ job[p].at = "idle" /\ mission = "closed" /\ report.is # "none"
  /\ lock = "free" /\ DeriveReleaseId <= MaxReleases
  /\ lock' = p
  /\ job' = [job EXCEPT ![p] = [Idle EXCEPT !.cmd = "prepare", !.content = BuildInputHash,
               !.reuse = CanReuseDistribution, !.at = IF CanReuseDistribution THEN "copy" ELSE "checks"]]
  /\ UNCHANGED <<Workpiece, dist, distribution, meta, report, releases, names, cut>>

Leave(p) == lock' = "free" /\ Done(p)

\* Fault: mission.yaml names the release before it is there.
MissionFirst(p, same) ==
  /\ job[p].at = "copy" /\ job[p].cmd = "prepare" /\ job[p].ok /\ same
  /\ names' = [names EXCEPT !.mission = DeriveReleaseId]
  /\ Goto(p, "name")
  /\ UNCHANGED <<Workpiece, dist, distribution, meta, report, releases, lock, cut>>

(* The tree is copied into a staging directory, the snapshots of the two   *)
(* builds are compared, and identity, manifest and tree go to their place  *)
(* in one move.  A failed build or a difference throws with nothing moved. *)
Move(p, same) ==
  /\ job[p].at = "copy" /\ job[p].cmd = "prepare"
  /\ IF job[p].ok /\ same
     THEN /\ releases' = Append(releases, [dist |-> IF job[p].reuse THEN distribution ELSE dist,
                                            content |-> job[p].content, reused |-> job[p].reuse,
                                            state |-> "prepared"])
          /\ Goto(p, "name") /\ UNCHANGED lock
     ELSE Leave(p) /\ UNCHANGED releases
  /\ UNCHANGED <<Workpiece, dist, distribution, meta, report, names, cut>>

NameInMission(p) ==
  /\ job[p].at = "name"
  /\ names' = [names EXCEPT !.mission = Len(releases)]
  /\ Goto(p, "sync")
  /\ UNCHANGED <<Workpiece, dist, distribution, meta, report, releases, lock, cut>>

(* The close report follows; the surface check after it may throw.         *)
SyncCloseReport(p) ==
  /\ job[p].at = "sync"
  /\ names' = [names EXCEPT !.close = names.mission]
  /\ Leave(p)
  /\ UNCHANGED <<Workpiece, dist, distribution, meta, report, releases, cut>>

(* release.ready, of which Leitstand has the steps.                        *)
Ready(p, r) ==
  /\ job[p].at = "idle" /\ lock = "free" /\ releases[r].state = "prepared"
  /\ releases' = [releases EXCEPT ![r].state = "ready"]
  /\ names' = [names EXCEPT !.state = r]
  /\ UNCHANGED <<Workpiece, dist, distribution, meta, report, lock, job, cut>>

(* A process dies; its locks are recovered at once.                        *)
Crash(p) ==
  /\ job[p].at # "idle"
  /\ lock' = IF lock = p THEN "free" ELSE lock
  /\ cut' = (cut \/ job[p].at = "sync")
  /\ Done(p)
  /\ UNCHANGED <<Workpiece, dist, distribution, meta, report, releases, names>>

Next ==
  \/ Edit \/ Close
  \/ \E p \in Procs :
       \/ StartBuild(p) \/ ReuseDistribution(p) \/ StartPrepare(p)
       \/ \E b \in BOOLEAN : StartValidate(p, b) \/ ValidateChecks(p, b) \/ StaticChecks(p, b) \/ BuildChecks(p, b)
                           \/ PrepareChecks(p, b) \/ BuildPost(p, b)
                           \/ OrchestrateSnap01Recovery(p, b) \/ Move(p, b)
       \/ \E ok, wrote \in BOOLEAN : AstroBuild(p, ok, wrote)
       \/ CopyDist(p) \/ WriteBuildInputHash(p) \/ WriteReport(p)
       \/ NameInMission(p) \/ SyncCloseReport(p) \/ Crash(p)
       \/ \E r \in DOMAIN releases : Ready(p, r)

Spec == Init /\ [][Next]_vars
-----------------------------------------------------------------------------
TypeOK ==
  /\ content \in 0..MaxEdits /\ other \in 0..MaxEdits /\ mission \in {"open", "closed"}
  /\ meta \in Nothing..MaxEdits /\ Len(releases) <= MaxReleases
  /\ \A n \in DOMAIN names : names[n] \in 0..MaxReleases

(* release.validate: a ready release has its artifact, a prepared one its   *)
(* tree.                                                                   *)
ArtifactPresent(r) == releases[r].dist # NoDist

(* dist.determinism.validate on the release: the normalised tree is the    *)
(* tree as it is; an unsigned one is not normalised.                        *)
HashesMatch(r) == releases[r].dist.signed

(* release.state.validate: the checks that fail, the warnings left out.    *)
FailedChecks ==
  {c \in {"mission-yaml-release-id-exists", "close-report-release-id-consistent",
          "bordbuch-release-id-consistent"} :
    /\ names.mission # 0
    /\ CASE c = "mission-yaml-release-id-exists" -> names.mission \notin DOMAIN releases
         [] c = "close-report-release-id-consistent" -> mission = "closed" /\ names.close # names.mission
         [] OTHER -> names.bordbuch \notin {0, names.mission}}

Naming == \E p \in Procs : job[p].at \in {"name", "sync"}

(* mission.yaml never names a release that is not there, whatever dies;    *)
(* release.state.validate finds nothing to fail on except while a release  *)
(* is being named, or after a crash between two of its names.              *)
ReleaseNamesHold ==
  /\ FailedChecks \subseteq {"close-report-release-id-consistent"}
  /\ FailedChecks = {} \/ Naming \/ cut

(* A release that was built by release.prepare is signed, from the content *)
(* it records; every release has a tree.                                   *)
FreshReleasesAreSigned ==
  \A r \in DOMAIN releases :
    /\ ArtifactPresent(r)
    /\ ~releases[r].reused => HashesMatch(r) /\ releases[r].dist.content = releases[r].content
-----------------------------------------------------------------------------
(* Not kept (mission-materialization-commands.ts 935: "Ensures             *)
(* distributions have passed all content validators before being reused"): *)
(* a validation that reuses a distribution reuses one whose build ended    *)
(* well.  A failing build replaces the distribution, not its hash.         *)
ReusedDistributionsPassed == report.reused => report.dist.signed
=============================================================================
