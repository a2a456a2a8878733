----------------------------- MODULE Notausgang -----------------------------
(* The emergency exit of a system: notausgang.export packs a release with    *)
(* the workspace and the cache clone as they are at that moment, and         *)
(* notausgang.validate checks a package part by part (notausgang/).  Neither *)
(* takes a lock.                                                             *)
EXTENDS Naturals, FiniteSets, Sequences

CONSTANTS
  Systems,
  Releases,
  Procs,       \* terminals and agents
  BadContent,  \* versions of a site that hold a runtime file or a secret
  BadEvents,   \* lines of a bordbuch that are malformed or of another system
  MaxEdits,    \* bounds of the model: changes of the sources and of a package,
  MaxRuns      \* commands run

VARIABLES
  content,   \* src/content of each system's site workspace: its version, 0 when absent
  bordbuch,  \* the lines of its bordbuch in the cache clone, 0 when absent
  pin,       \* the platform its pin names there, 0 when absent
  release,   \* releases/<id>
  package,   \* what lies at the output path
  job,       \* the command a process runs, with its staging directory
  untouched, \* history: the package is as an export published it
  edits, runs

sources == <<content, bordbuch, pin, release>>
vars == <<sources, package, job, untouched, edits, runs>>

Parts == {"site", "dist", "bordbuch", "pin", "snapshots", "artifact"}
Missing == [system |-> "none", n |-> 0]
NoManifest == [run |-> 0, system |-> "none", release |-> "none", platform |-> 0, hash |-> [p \in Parts |-> Missing]]
Nothing == [manifest |-> NoManifest, parts |-> [p \in Parts |-> Missing]]
NoRelease == [state |-> "none", system |-> "none", content |-> 0, platform |-> 0]
Idle == [at |-> "idle", run |-> 0, system |-> "none", release |-> "none", stage |-> Nothing, found |-> {}]

Init ==
  /\ content = [s \in Systems |-> 1] /\ bordbuch = [s \in Systems |-> 1] /\ pin = [s \in Systems |-> 1]
  /\ release = [r \in Releases |-> NoRelease] /\ package = Nothing
  /\ job = [p \in Procs |-> Idle] /\ untouched = TRUE /\ edits = 0 /\ runs = 0

---------------------------------------------------------------------------
(* What other commands and people do.                                       *)
Change == edits < MaxEdits /\ edits' = edits + 1 /\ UNCHANGED <<job, runs>>

(* release.prepare and release.ready: dist/, its manifest and the snapshots *)
(* are those of the site and the platform of that moment.                   *)
ReleaseIsReady(r, s) ==
  /\ Change /\ release[r] = NoRelease
  /\ release' = [release EXCEPT ![r] = [state |-> "ready", system |-> s, content |-> content[s], platform |-> pin[s]]]
  /\ UNCHANGED <<content, bordbuch, pin, package, untouched>>
EditContent(s) ==
  /\ Change /\ content' = [content EXCEPT ![s] = @ + 1]
  /\ UNCHANGED <<bordbuch, pin, release, package, untouched>>
AppendBordbuch(s) ==
  /\ Change /\ bordbuch' = [bordbuch EXCEPT ![s] = @ + 1]
  /\ UNCHANGED <<content, pin, release, package, untouched>>
MovePin(s) ==
  /\ Change /\ pin' = [pin EXCEPT ![s] = @ + 1]
  /\ UNCHANGED <<content, bordbuch, release, package, untouched>>
Lose(s) ==
  /\ Change /\ UNCHANGED <<release, package, untouched>>
  /\ \/ content' = [content EXCEPT ![s] = 0] /\ UNCHANGED <<bordbuch, pin>>
     \/ bordbuch' = [bordbuch EXCEPT ![s] = 0] /\ UNCHANGED <<content, pin>>
     \/ pin' = [pin EXCEPT ![s] = 0] /\ UNCHANGED <<content, bordbuch>>
Tamper(part) ==
  /\ Change /\ package # Nothing /\ untouched' = FALSE
  /\ package' = [package EXCEPT !.parts[part] = Missing]
  /\ UNCHANGED sources
RemovePackage ==
  /\ Change /\ package # Nothing /\ package' = Nothing /\ untouched' = TRUE /\ UNCHANGED sources

---------------------------------------------------------------------------
(* notausgang.export.                                                       *)
Stay == UNCHANGED <<sources, package, untouched, edits, runs>>
Begin(p, j) ==
  /\ job[p].at = "idle" /\ runs < MaxRuns /\ runs' = runs + 1
  /\ job' = [job EXCEPT ![p] = j]
  /\ UNCHANGED <<sources, package, untouched, edits>>
End(p) == job' = [job EXCEPT ![p] = Idle]

(* The output must be absent or empty and the release ready; nobody asks    *)
(* whether it is a release of this system.                                  *)
RunNotausgangExport(p, s, r) ==
  /\ package = Nothing /\ release[r].state = "ready"
  /\ Begin(p, [Idle EXCEPT !.at = "site", !.run = runs + 1, !.system = s, !.release = r])

Then == [site |-> "dist", dist |-> "artifact", artifact |-> "bordbuch", bordbuch |-> "pin", pin |-> "snapshots", snapshots |-> "hash"]
Copy(p, part, source) ==
  /\ job[p].at = part
  /\ job' = [job EXCEPT ![p].at = Then[part], ![p].stage.parts[part] = source]
  /\ Stay
(* copyDir copies what is there; what is not is left out without a word.    *)
CopyDir(s, n) == IF n = 0 THEN Missing ELSE [system |-> s, n |-> n]
OfRelease(p, n) == CopyDir(release[job[p].release].system, n)
CopySite(p) == Copy(p, "site", CopyDir(job[p].system, content[job[p].system]))
CopyDist(p) == Copy(p, "dist", OfRelease(p, release[job[p].release].content))
CopyArtifactManifest(p) == Copy(p, "artifact", OfRelease(p, release[job[p].release].content))
CopyBordbuch(p) == Copy(p, "bordbuch", CopyDir(job[p].system, bordbuch[job[p].system]))
CopyPin(p) == Copy(p, "pin", CopyDir(job[p].system, pin[job[p].system]))
(* The directory of the snapshots is made even when there are none.         *)
CopySnapshots(p) ==
  Copy(p, "snapshots", [system |-> release[job[p].release].system, n |-> release[job[p].release].content])

(* Fault: the hash of the site is taken of the workspace, not of the copy.  *)
HashWorkspace(p, part) ==
  IF part = "site" THEN CopyDir(job[p].system, content[job[p].system]) ELSE job[p].stage.parts[part]
(* The hashes are those of the staged copies, never the release's own.      *)
StagedHash(p, part) == job[p].stage.parts[part]
(* A bordbuch that was not copied makes its fingerprint throw; the staging  *)
(* directory is removed.                                                    *)
WriteManifest(p) ==
  /\ job[p].at = "hash"
  /\ IF job[p].stage.parts["bordbuch"] = Missing THEN End(p)
     ELSE job' = [job EXCEPT ![p].at = "publish", ![p].stage.manifest =
            [run |-> job[p].run, system |-> job[p].system, release |-> job[p].release,
             platform |-> release[job[p].release].platform, hash |-> [part \in Parts |-> StagedHash(p, part)]]]
  /\ Stay
(* atomicMoveDir with replace: what lies at the target, also an export that *)
(* has ended in between, is renamed away; then the staging is renamed.      *)
MoveToTrash(p) ==
  /\ job[p].at = "publish" /\ package' = Nothing /\ untouched' = TRUE
  /\ job' = [job EXCEPT ![p].at = "rename"]
  /\ UNCHANGED <<sources, edits, runs>>
(* The rename fails when another export has published in between; the       *)
(* command cleans up and throws.                                            *)
Publish(p) ==
  /\ job[p].at = "rename" /\ End(p)
  /\ IF package = Nothing THEN package' = job[p].stage /\ untouched' = TRUE ELSE UNCHANGED <<package, untouched>>
  /\ UNCHANGED <<sources, edits, runs>>
(* A crash leaves a staging directory nobody looks at again.                *)
Crash(p) == job[p].at # "idle" /\ End(p) /\ Stay

---------------------------------------------------------------------------
(* notausgang.validate: the violations of each part against the manifest    *)
(* that was read first.                                                     *)
HashOf(p, part, missing, mismatch) ==
  LET m == job[p].stage.manifest
      found == package.parts[part]
  IN  IF found = Missing THEN {missing}
      ELSE {v \in {mismatch} : m # NoManifest /\ found # m.hash[part]}

ValidateManifest == {v \in {"manifest-missing"} : package.manifest = NoManifest}
ValidateDist(p) == HashOf(p, "dist", "dist-missing", "dist-hash-mismatch")
ValidateSite(p) == HashOf(p, "site", "site-missing", "site-hash-mismatch")
(* validateBordbuch: line by line.                                          *)
ValidateBordbuch(n) == {v \in {"bordbuch-line"} : \E e \in BadEvents : e <= n}
ValidateHistory(p) ==
  HashOf(p, "bordbuch", "bordbuch-missing", "bordbuch-hash-mismatch")
  \cup (IF job[p].stage.manifest = NoManifest THEN {} ELSE ValidateBordbuch(package.parts["bordbuch"].n))
(* Fault: the platform of the pin is not compared.                          *)
ValidatePinSystem(p) ==
  LET m == job[p].stage.manifest
      found == package.parts["pin"]
  IN  IF found = Missing THEN {"pin-missing"}
      ELSE {v \in {"pin-content-mismatch"} : m # NoManifest /\ found.system # m.system}
(* The pin is not hashed: its system and platform are compared.             *)
ValidatePin(p) ==
  LET m == job[p].stage.manifest
      found == package.parts["pin"]
  IN  IF found = Missing THEN {"pin-missing"}
      ELSE {v \in {"pin-content-mismatch"} : m # NoManifest /\ (found.system # m.system \/ found.n # m.platform)}
ValidateSnapshots(p) == HashOf(p, "snapshots", "snapshots-missing", "snapshot-hash-mismatch")
(* A release without one is recorded as absent.                             *)
ValidateArtifactManifest(p) ==
  IF job[p].stage.manifest # NoManifest /\ job[p].stage.manifest.hash["artifact"] = Missing
     /\ package.parts["artifact"] = Missing
  THEN {} ELSE HashOf(p, "artifact", "artifact-manifest-missing", "artifact-hash-mismatch")
IsRuntimeFile == {v \in {"runtime-file-present"} : package.parts["site"].n \in BadContent}
ScanForSecrets == {v \in {"secret-detected"} : \E part \in {"site", "dist"} : package.parts[part].n \in BadContent}

Order == [dist |-> "check-site", site |-> "check-bordbuch", bordbuch |-> "check-pin", pin |-> "check-snapshots",
          snapshots |-> "check-artifact", artifact |-> "scan"]
RunNotausgangValidate(p) ==
  /\ package # Nothing
  /\ Begin(p, [Idle EXCEPT !.at = "check-dist", !.run = runs + 1, !.found = ValidateManifest,
                           !.stage.manifest = package.manifest])
Check(p, at, then, violations, part) ==
  /\ job[p].at = at
  /\ job' = [job EXCEPT ![p].at = then, ![p].found = @ \cup violations, ![p].stage.parts[part] = package.parts[part]]
  /\ Stay
CheckDist(p) == Check(p, "check-dist", Order["dist"], ValidateDist(p), "dist")
CheckSite(p) == Check(p, "check-site", Order["site"], ValidateSite(p), "site")
CheckBordbuch(p) == Check(p, "check-bordbuch", Order["bordbuch"], ValidateHistory(p), "bordbuch")
CheckPin(p) == Check(p, "check-pin", Order["pin"], ValidatePin(p), "pin")
CheckSnapshots(p) == Check(p, "check-snapshots", Order["snapshots"], ValidateSnapshots(p), "snapshots")
CheckArtifactManifest(p) == Check(p, "check-artifact", Order["artifact"], ValidateArtifactManifest(p), "artifact")
Scan(p) ==
  /\ job[p].at = "scan"
  /\ job' = [job EXCEPT ![p].at = "answered", ![p].found = @ \cup IsRuntimeFile \cup ScanForSecrets]
  /\ Stay
Answered(p) == job[p].at = "answered" /\ End(p) /\ Stay

Next ==
  \/ \E s \in Systems :
       \/ \E r \in Releases : ReleaseIsReady(r, s)
       \/ EditContent(s) \/ AppendBordbuch(s) \/ MovePin(s) \/ Lose(s)
  \/ \E part \in Parts : Tamper(part)
  \/ RemovePackage
  \/ \E p \in Procs :
       \/ \E s \in Systems, r \in Releases : RunNotausgangExport(p, s, r)
       \/ CopySite(p) \/ CopyDist(p) \/ CopyArtifactManifest(p) \/ CopyBordbuch(p) \/ CopyPin(p) \/ CopySnapshots(p)
       \/ WriteManifest(p) \/ MoveToTrash(p) \/ Publish(p)
       \/ RunNotausgangValidate(p) \/ CheckDist(p) \/ CheckSite(p) \/ CheckBordbuch(p) \/ CheckPin(p)
       \/ CheckSnapshots(p) \/ CheckArtifactManifest(p) \/ Scan(p) \/ Answered(p) \/ Crash(p)

Spec == Init /\ [][Next]_vars

---------------------------------------------------------------------------
TypeOK ==
  /\ DOMAIN job = Procs /\ untouched \in BOOLEAN
  /\ package.manifest.system \in Systems \cup {"none"} /\ DOMAIN package.parts = Parts

(* Whatever moved while it was made, however many exports raced for the     *)
(* path and wherever they crashed, a package nobody altered lies there      *)
(* whole: every part has the hash its manifest gives.                       *)
PublishedIsWhole ==
  untouched /\ package # Nothing => package.manifest.hash = package.parts

(* An answer without a violation is about parts of one export, of a release *)
(* on whose platform the system's pin still was; the package may have been  *)
(* replaced between two parts.                                              *)
ValidAnswersAreEarned ==
  \A p \in Procs : job[p].at = "answered" /\ job[p].found = {} =>
    LET m == job[p].stage.manifest
        seen == job[p].stage.parts
    IN  /\ m # NoManifest /\ \A part \in Parts \ {"pin"} : seen[part] = m.hash[part]
        /\ \A part \in Parts \ {"artifact"} : seen[part] # Missing
        /\ seen["pin"] = [system |-> m.system, n |-> release[m.release].platform]

(* Not kept: the site is the workspace's, whose content may have moved on   *)
(* since the release, and the release may be of another system.             *)
SiteIsTheRelease ==
  untouched /\ package # Nothing => package.parts["site"] = package.parts["dist"]
=============================================================================
