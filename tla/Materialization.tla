-------------------------- MODULE Materialization ---------------------------
(* Inside mission.materialize (mission/mission-materialize.ts): the cache   *)
(* clone is reset to the bare head, a staging directory is filled from it   *)
(* or from the artifact cache, moved over the workpiece, linked, prepared   *)
(* and gated, and the result is kept in the artifact cache.  The mission's  *)
(* locks keep other commands of the system out, not the platform, which a   *)
(* checkout of the workspace may switch at any time, and not a crash.       *)
(* A commit stands for its content: the content of head h is h.             *)
EXTENDS Naturals, FiniteSets, Functions

CONSTANTS
  Platforms,  \* semantic hashes of the platform's packages
  Untracked,  \* what a close keeps besides git: "env", "config" or both
  MaxHead,    \* bound of the model: commits
  MaxRuns     \* bound of the model: materializations

VARIABLES
  bare,      \* head of the bare repository, 0 when none is configured
  clone,     \* the cache clone: is it a git clone, its head, pin file, tracked pin, files kept
  platform,
  stateKey,  \* .cache/materialization-state.json: the key of the entry kept
  entries,   \* .cache/materialization: key -> snapshot of a workpiece
  recorded,  \* .materialization-state.json: the head mission.close saw
  validated, \* heads whose content a closed mission had validated
  work,      \* the workpiece
  job, said, runs

vars == <<bare, clone, platform, stateKey, entries, recorded, validated, work, job, said, runs>>
Cache == <<stateKey, entries>>
Fixed == <<recorded, validated>>

NoKey == <<0, "none">>
NoWork == [data |-> 0, head |-> 0, by |-> "none", pin |-> 0, kept |-> {}, hooked |-> FALSE]
Idle == [at |-> "idle", force |-> FALSE, skip |-> FALSE, unchanged |-> FALSE, key |-> NoKey, hit |-> FALSE,
         git |-> FALSE, staged |-> NoWork, verdictPin |-> 0, mixed |-> FALSE]
Silent == [outcome |-> "none", mixed |-> FALSE, head |-> 0, by |-> "none", pin |-> 0, checked |-> TRUE]

Init ==
  /\ clone \in [git : BOOLEAN, head : {1}, pin : {1}, headPin : {0, 1}, kept : {{}}]
  /\ bare \in {0, 1} /\ clone.git = (clone.headPin = 1)
  /\ platform \in Platforms /\ stateKey = NoKey /\ entries = <<>>
  /\ recorded = 0 /\ validated = {} /\ work = NoWork
  /\ job = Idle /\ said = Silent /\ runs = 0

-----------------------------------------------------------------------------
At(step) == job.at = step
Goes(j, step) == job' = [j EXCEPT !.at = step] /\ UNCHANGED said
Ends == job' = Idle /\ said' = Silent

(* The mission is open and both locks were free.                            *)
RunMissionMaterialize(force, skip) ==
  /\ job = Idle /\ runs < MaxRuns /\ runs' = runs + 1
  /\ job' = [Idle EXCEPT !.at = "sync", !.force = force, !.skip = skip]
  /\ said' = Silent
  /\ UNCHANGED <<bare, clone, platform, Cache, Fixed, work>>

(* fetch and reset --hard, which takes a tracked file back to what is       *)
(* committed, or a first clone, into which untracked files are carried.     *)
SyncCacheClone(ok) ==
  /\ At("sync")
  /\ clone' = IF ~ok \/ bare = 0 THEN clone
              ELSE IF clone.git THEN [clone EXCEPT !.head = bare, !.pin = IF @ # 0 /\ clone.headPin # 0 THEN clone.headPin ELSE @]
              ELSE [clone EXCEPT !.git = TRUE, !.head = bare]
  /\ IF ok THEN Goes(job, "verdict") ELSE Ends
  /\ UNCHANGED <<bare, platform, Cache, Fixed, work, runs>>

(* A pin newer than the platform is refused; --report-only stops here.      *)
VersionComparison(verdict) ==
  /\ At("verdict")
  /\ IF verdict = "in-sync" THEN Goes([job EXCEPT !.verdictPin = clone.pin], "lookup") ELSE Ends
  /\ UNCHANGED <<bare, clone, platform, Cache, Fixed, work, runs>>

ResolveCacheCloneHead == IF clone.git THEN clone.head ELSE 0

(* The head mission.close recorded is still the head.                       *)
PreflightUnneeded == ~job.skip /\ recorded # 0 /\ recorded = ResolveCacheCloneHead

\* Fault: the key leaves the platform's semantic hash out.
KeyByHead == IF ResolveCacheCloneHead = 0 THEN NoKey ELSE <<ResolveCacheCloneHead, "none">>

ComputeArtifactCacheKey == IF ResolveCacheCloneHead = 0 THEN NoKey ELSE <<ResolveCacheCloneHead, platform>>

(* A state file whose entry is gone is removed, unless --force did not look. *)
StateAfterLookup(key) == IF ~job.force /\ stateKey = key /\ key \notin DOMAIN entries THEN NoKey ELSE stateKey

ArtifactLookup ==
  LET key == ComputeArtifactCacheKey
      known == key # NoKey /\ ~job.force /\ stateKey = key
  IN  /\ At("lookup")
      /\ Goes([job EXCEPT !.key = key, !.hit = known /\ key \in DOMAIN entries, !.unchanged = PreflightUnneeded], "stage")
      /\ stateKey' = IF key = NoKey THEN stateKey ELSE StateAfterLookup(key)
      /\ UNCHANGED <<bare, clone, platform, entries, Fixed, work, runs>>

(* The clone's history goes into staging, when it has one.                  *)
StageHistory ==
  /\ At("stage")
  /\ Goes([job EXCEPT !.git = clone.git, !.staged = [NoWork EXCEPT !.head = IF clone.git THEN clone.head ELSE 0]], "fill")
  /\ UNCHANGED <<bare, clone, platform, Cache, Fixed, work, runs>>

(* An entry restored as it lies there: a partial one has no whole content.  *)
RestoreEntry ==
  LET e == entries[job.key]
  IN  /\ At("fill") /\ job.hit
      /\ IF job.key \in DOMAIN entries
         THEN Goes([job EXCEPT !.staged = [@ EXCEPT !.data = e.data, !.by = e.by, !.pin = e.pin], !.mixed = @ \/ e.excused], "move")
         ELSE Ends
      /\ UNCHANGED <<bare, clone, platform, Cache, Fixed, work, runs>>

(* The data paths and the pin of the clone, and what templates, kernel.wire *)
(* and eleven generators of the platform make; any of them may fail.        *)
GenerateFullBoilerplate(ok) ==
  /\ At("fill") /\ ~job.hit
  /\ IF ok THEN Goes([job EXCEPT !.staged = [@ EXCEPT !.data = clone.head, !.pin = clone.pin, !.by = platform]], "move")
     ELSE Ends
  /\ UNCHANGED <<bare, clone, platform, Cache, Fixed, work, runs>>

(* atomicMoveDir: the old workpiece to the trash, then staging to its place. *)
MoveToTrash(ok) ==
  /\ At("move")
  /\ work' = IF ok THEN NoWork ELSE work
  /\ IF ok THEN Goes(job, "rename") ELSE Ends
  /\ UNCHANGED <<bare, clone, platform, Cache, Fixed, runs>>
MoveIntoPlace(ok) ==
  /\ At("rename")
  /\ work' = IF ok THEN job.staged ELSE work
  /\ IF ok THEN Goes(job, "restore") ELSE Ends
  /\ UNCHANGED <<bare, clone, platform, Cache, Fixed, runs>>

(* What a close left in the clone besides git: .env*, the config files of  *)
(* the operator; a failure is a warning.                                     *)
RestoreEnvFiles(ok) ==
  /\ At("restore")
  /\ work' = IF ok THEN [work EXCEPT !.kept = @ \cup (clone.kept \cap {"env"})] ELSE work
  /\ Goes(job, "config")
  /\ UNCHANGED <<bare, clone, platform, Cache, Fixed, runs>>
RestoreOperatorConfigFiles(ok) ==
  /\ At("config")
  /\ work' = IF ok THEN [work EXCEPT !.kept = @ \cup (clone.kept \cap {"config"})] ELSE work
  /\ Goes(job, "globs")
  /\ UNCHANGED <<bare, clone, platform, Cache, Fixed, runs>>

(* No package in the workspace refers to one that is gone; pnpm install.    *)
CheckWorkspaceGlobs(ok) ==
  /\ At("globs")
  /\ IF ok THEN Goes(job, "link") ELSE Ends
  /\ UNCHANGED <<bare, clone, platform, Cache, Fixed, work, runs>>
LinkWorkspace(ok) ==
  /\ At("link")
  /\ IF ok THEN Goes(job, "prepare") ELSE Ends
  /\ UNCHANGED <<bare, clone, platform, Cache, Fixed, work, runs>>

(* build.prepare.dev, which a restored entry has behind it.                 *)
BuildPrepareDev(ok) ==
  /\ At("prepare")
  /\ job.hit => ok
  /\ IF ok THEN Goes(job, "preflight") ELSE Ends
  /\ UNCHANGED <<bare, clone, platform, Cache, Fixed, work, runs>>

PreflightSkipped == job.skip \/ job.unchanged

(* The critical validators pass, or they are skipped, which goes into the   *)
(* ledger: a commit of the clone, pushed.                                   *)
RunPreflightGate(ok) ==
  /\ At("preflight")
  /\ PreflightSkipped => ok /\ clone.head < MaxHead
  /\ clone' = IF PreflightSkipped /\ clone.git THEN [clone EXCEPT !.head = @ + 1] ELSE clone
  /\ bare' = IF PreflightSkipped /\ clone.git /\ bare # 0 THEN clone.head + 1 ELSE bare
  /\ validated' = IF ~PreflightSkipped /\ ok THEN validated \cup {work.data} ELSE validated
  /\ IF ok THEN Goes(job, "commit") ELSE Ends
  /\ UNCHANGED <<platform, Cache, recorded, work, runs>>

CommitWorkpiece ==
  /\ At("commit")
  /\ work' = [work EXCEPT !.hooked = TRUE]
  /\ Goes(job, IF job.hit \/ job.key = NoKey THEN "report" ELSE "clean")
  /\ UNCHANGED <<bare, clone, platform, Cache, Fixed, runs>>

(* The other entries are removed, the workpiece is copied, and only then is *)
(* the state file written. A copy that a crash cuts short lies there.       *)
CleanEntries ==
  /\ At("clean")
  /\ entries' = Restrict(entries, DOMAIN entries \cap {job.key})
  /\ Goes(job, "snapshot")
  /\ UNCHANGED <<bare, clone, platform, stateKey, Fixed, work, runs>>
Snapshot(content) ==
  [k \in DOMAIN entries \cup {job.key} |-> IF k = job.key THEN content ELSE entries[k]]
StartSnapshot ==
  /\ At("snapshot")
  /\ entries' = Snapshot([data |-> 0, by |-> "none", pin |-> 0, excused |-> job.force])
  /\ Goes(job, "copying")
  /\ UNCHANGED <<bare, clone, platform, stateKey, Fixed, work, runs>>
EndSnapshot(ok) ==
  /\ At("copying")
  /\ entries' = IF ok THEN Snapshot([data |-> work.data, by |-> work.by, pin |-> work.pin, excused |-> job.mixed]) ELSE entries
  /\ Goes(job, IF ok THEN "state" ELSE "report")
  /\ UNCHANGED <<bare, clone, platform, stateKey, Fixed, work, runs>>
WriteArtifactCacheState ==
  /\ At("state")
  /\ stateKey' = job.key
  /\ Goes(job, "report")
  /\ UNCHANGED <<bare, clone, platform, entries, Fixed, work, runs>>

WriteReport ==
  /\ At("report")
  /\ job' = Idle
  /\ said' = [outcome |-> "materialized", mixed |-> job.mixed, head |-> job.key[1], by |-> job.key[2], pin |-> job.verdictPin,
              checked |-> job.skip \/ work.data \in validated]
  /\ UNCHANGED <<bare, clone, platform, Cache, Fixed, work, runs>>

-----------------------------------------------------------------------------
(* Between and beside materializations.                                     *)
SwitchPlatform ==
  /\ \E p \in Platforms \ {platform} : platform' = p
  /\ job' = IF job.at \in {"idle", "sync", "verdict", "lookup"} THEN job ELSE [job EXCEPT !.mixed = TRUE]
  /\ UNCHANGED <<bare, clone, Cache, Fixed, work, said, runs>>

(* sternsystem.pin writes the file and commits nothing.                     *)
Pin ==
  /\ job = Idle /\ clone.pin = 1
  /\ clone' = [clone EXCEPT !.pin = 2]
  /\ UNCHANGED <<bare, platform, Cache, Fixed, work, job, said, runs>>

(* mission.close: the workpiece's content is committed and pushed, its head *)
(* recorded in a file that, but for a failure, is committed as well; .env   *)
(* and the operator's files are copied into the clone: a copy that fails is *)
(* skipped, and the clone keeps what it had.                                *)
PersistEnvFiles(copied) == clone.kept \cup copied
Close(committed) ==
  /\ job = Idle /\ work.hooked /\ clone.git /\ clone.head + 1 < MaxHead
  /\ LET h == clone.head + 1
     IN  /\ recorded' = h /\ validated' = validated \cup {h, h + 1}
         /\ \E copied \in SUBSET Untracked :
              clone' = [clone EXCEPT !.head = IF committed THEN h + 1 ELSE h, !.headPin = work.pin, !.pin = work.pin,
                                       !.kept = PersistEnvFiles(copied)]
         /\ bare' = IF bare = 0 THEN 0 ELSE IF committed THEN h + 1 ELSE h
  /\ work' = NoWork
  /\ UNCHANGED <<platform, Cache, job, said, runs>>

(* Another clone pushes.                                                    *)
Pushed ==
  /\ job = Idle /\ bare # 0 /\ bare < MaxHead /\ bare' = bare + 1
  /\ UNCHANGED <<clone, platform, Cache, Fixed, work, job, said, runs>>

Crash ==
  /\ job # Idle /\ job' = Idle /\ said' = Silent
  /\ UNCHANGED <<bare, clone, platform, Cache, Fixed, work, runs>>

Next ==
  \/ StageHistory \/ ArtifactLookup \/ RestoreEntry \/ CommitWorkpiece \/ CleanEntries \/ StartSnapshot
  \/ WriteArtifactCacheState \/ WriteReport \/ SwitchPlatform \/ Pin \/ Pushed \/ Crash
  \/ \E v \in {"in-sync", "refuse-downgrade", "report-only"} : VersionComparison(v)
  \/ \E ok \in BOOLEAN :
       \/ SyncCacheClone(ok) \/ GenerateFullBoilerplate(ok) \/ MoveToTrash(ok) \/ MoveIntoPlace(ok) \/ RestoreEnvFiles(ok)
       \/ BuildPrepareDev(ok) \/ RunPreflightGate(ok) \/ EndSnapshot(ok) \/ Close(ok) \/ LinkWorkspace(ok)
       \/ RestoreOperatorConfigFiles(ok) \/ CheckWorkspaceGlobs(ok)
       \/ \E skip \in BOOLEAN : RunMissionMaterialize(ok, skip)

Spec == Init /\ [][Next]_vars
-----------------------------------------------------------------------------
TypeOK ==
  /\ bare \in 0..MaxHead /\ clone.head \in 1..MaxHead /\ clone.pin \in 0..2 /\ recorded \in 0..MaxHead
  /\ platform \in Platforms /\ runs \in 0..MaxRuns /\ work.data \in 0..MaxHead

(* However it came about, from the clone or from the artifact cache, after  *)
(* whatever crashes: a workpiece that was just materialized has the content *)
(* of the head it was cloned from, made by the platform of the run, whole,  *)
(* with the tracked pin (where a bare repository is), and content that some *)
(* preflight has passed unless --skip-preflight was given. Not so when the  *)
(* platform switched in mid-run or a forced run died while it rewrote the   *)
(* entry its state file names.                                              *)
MaterializedIsCurrent ==
  said.outcome = "materialized" /\ ~said.mixed /\ said.head # 0 /\ job = Idle /\ work # NoWork
    => /\ work.data = said.head /\ work.head = said.head /\ work.by = said.by
       /\ clone.headPin # 0 /\ bare # 0 => work.pin = said.pin
       /\ said.checked
-----------------------------------------------------------------------------
(* Not kept (registry-io.ts 167: "Push to bare repo so syncCacheClone's git *)
(* reset --hard origin/main does not discard the commit"): a pin that is    *)
(* not committed is discarded by the reset, and an untracked one is         *)
(* overruled by the entry of an earlier run.                                *)
PinIsMaterialized == said.outcome = "materialized" /\ clone.pin = 2 => work.pin = 2
=============================================================================
