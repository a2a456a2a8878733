------------------------ MODULE SystemRegistration --------------------------
(* How a Sternsystem comes into the fleet and gets its platform pin:        *)
(* sternsystem.register (with --amend), .pin, .extract and .validate over   *)
(* the cache clone, which holds system-config.yaml until a mission is       *)
(* materialized and the config of its workpiece counts (registry-io.ts).    *)
(* The mission commands are steps with two outcomes here; MissionLifecycle  *)
(* has their inside.                                                        *)
EXTENDS Naturals, FiniteSets

CONSTANTS
  Systems, Stars, Procs,
  Away,        \* systems whose mirrors[0] is not ../systems-cache/<id>
  MaxVersion,  \* bound of the model: platform releases
  MaxRuns      \* bound of the model: commands and what happens around them

VARIABLES
  eco,      \* version of the ecosystem
  apps,     \* sites still under apps/
  dir,      \* systems with a directory in systems-cache, and
  git,      \*   those whose directory is a git clone
  config,   \* system-config.yaml in the cache
  pin,      \* system.pin.json in the cache: the platform version, 0 without
  content,  \* systems with a content stub in mirrors[0]
  mission,  \* the process that opened the current mission
  work,     \* system-config.yaml in the workpiece of a materialized mission
  lock,     \* the system lock
  flaws,    \* what else the clone of a system violates
  job, said,
  touched,  \* history: processes on whose system another wrote meanwhile
  runs

vars == <<eco, apps, dir, git, config, pin, content, mission, work, lock, flaws, job, said, touched, runs>>
Cache == <<dir, config, pin, content>>
Rest == <<eco, apps, git, flaws>>

None == [star |-> "none", status |-> "none", platform |-> 0]
Idle == [cmd |-> "none", at |-> "idle", id |-> "none", star |-> "none", want |-> 0, first |-> 0, cfg |-> None,
         version |-> 0, pinned |-> FALSE, stub |-> FALSE, opened |-> FALSE]
Silent == [cmd |-> "none", id |-> "none", outcome |-> "none"]
(* An earlier system, archived or active, with one flaw, or a clone made by *)
(* hand that has no config yet.                                             *)
Init ==
  /\ eco = 1 /\ runs = 0 /\ said = Silent /\ touched = {} /\ content = {}
  /\ LET s == CHOOSE x \in Systems : TRUE IN \E cfg \in {None} \cup [star : {CHOOSE x \in Stars : TRUE}, status : {"active", "archived"}, platform : {1}] :
       /\ config = [x \in Systems |-> IF x = s THEN cfg ELSE None]
       /\ pin = [x \in Systems |-> IF x = s THEN cfg.platform ELSE 0]
       /\ dir = {s} /\ git = {s}
       /\ apps \in {{}, {CHOOSE x \in Systems : x # s}}
       /\ flaws = [x \in Systems |-> IF x = s /\ cfg.status = "active" THEN {"yaml"} ELSE {}]
  /\ mission = [s \in Systems |-> "none"] /\ work = [s \in Systems |-> None]
  /\ lock = [s \in Systems |-> "free"] /\ job = [p \in Procs |-> Idle]

-----------------------------------------------------------------------------
(* readSystemConfigSmart: the workpiece of a materialized mission, else the *)
(* cache.                                                                   *)
ActiveWorkpiece(s) == mission[s] # "none" /\ work[s] # None
Smart(s) == IF ActiveWorkpiece(s) THEN work[s] ELSE config[s]
WriteSmart(s, cfg) ==
  IF ActiveWorkpiece(s) THEN work' = [work EXCEPT ![s] = cfg] /\ UNCHANGED <<config, dir>>
  ELSE config' = [config EXCEPT ![s] = cfg] /\ dir' = dir \cup {s} /\ UNCHANGED work

(* discoverSystems: every directory whose config can be read.               *)
Discovered == {s \in dir : Smart(s) # None}
DiscoveryErrors == dir \ Discovered

HasAppsCollision(s) == s \in apps

(* Where validate and the rollback look for the pin: in mirrors[0], though  *)
(* pin writes it to systems-cache.                                          *)
PinInMirror(s) == IF s \in Away THEN 0 ELSE pin[s]

(* sternsystem.validate --id s, which reports what discovery could not read *)
(* whatever id is asked for.                                                *)
PinRules(s) ==
  LET cfg == Smart(s)  p == PinInMirror(s)
  IN  (IF p # 0 /\ p # cfg.platform THEN {"pin-version-mismatch"} ELSE {})
        \cup (IF p = 0 /\ cfg.status = "active" THEN {"pin-missing"} ELSE {})
CheckBundleContract(s) == flaws[s] \cap {"bundle"}
ValidateYamlFiles(s) == flaws[s] \cap {"yaml"}
CheckManifestPresence(s) == IF s \in git THEN flaws[s] \cap {"manifest"} ELSE {}
MirrorTopology(s) == flaws[s] \cap {"mirror"}
BranchConvention(s) == IF s \in git THEN flaws[s] \cap {"branch"} ELSE {}
RegistryRules(s) ==
  (IF DiscoveryErrors # {} THEN {"discovery-error"} ELSE {}) \cup (IF HasAppsCollision(s) THEN {"apps-collision"} ELSE {})
Violations(s) ==
  RegistryRules(s) \cup CheckBundleContract(s) \cup PinRules(s) \cup MirrorTopology(s) \cup BranchConvention(s)
    \cup ValidateYamlFiles(s) \cup CheckManifestPresence(s)

-----------------------------------------------------------------------------
Touches(p, s) == touched' = touched \cup {q \in Procs \ {p} : job[q] # Idle /\ job[q].id = s}
Goes(p, j, at) == job' = [job EXCEPT ![p] = [j EXCEPT !.at = at]] /\ UNCHANGED said
Ends(p, j, outcome) ==
  /\ job' = [job EXCEPT ![p] = Idle]
  /\ said' = [cmd |-> j.cmd, id |-> j.id, outcome |-> outcome]
At(p, at) == job[p].at = at

(* A failed step sends a registration to its rollback; the other commands  *)
(* throw with what they have done.                                          *)
Fails(p, j) == IF j.cmd = "register" THEN Goes(p, j, IF j.opened THEN "abort-again" ELSE "rollback")
               ELSE Ends(p, j, "threw")

Start(p, j) ==
  /\ job[p] = Idle /\ runs < MaxRuns
  /\ runs' = runs + 1 /\ touched' = touched \ {p}
  /\ job' = [job EXCEPT ![p] = j]
  /\ UNCHANGED <<Rest, Cache, mission, work, lock, said>>

StarIsTaken(star) == \E s \in Discovered : Smart(s).star = star /\ Smart(s).status # "archived"

(* Neither the id nor the star may be taken. The platform is the one asked *)
(* for, or that of the first system discovered.                             *)
StartRegister(p, s, star, want) ==
  /\ ~HasAppsCollision(s) /\ s \notin Discovered /\ ~StarIsTaken(star)
  /\ \E first \in IF want # 0 THEN {want} ELSE IF Discovered = {} THEN {0} ELSE {Smart(x).platform : x \in Discovered} :
       Start(p, [Idle EXCEPT !.cmd = "register", !.at = "write", !.id = s, !.star = star, !.want = want, !.first = first])
StartAmend(p, s, want) ==
  /\ config[s] # None
  /\ Start(p, [Idle EXCEPT !.cmd = "amend", !.at = "pin-read", !.id = s, !.want = want])
StartPin(p, s, want) == Start(p, [Idle EXCEPT !.cmd = "pin", !.at = "pin-read", !.id = s, !.want = want])
StartExtract(p, s) ==
  /\ s \in apps /\ lock[s] = "free" /\ job[p] = Idle /\ runs < MaxRuns
  /\ runs' = runs + 1 /\ touched' = touched \ {p} /\ lock' = [lock EXCEPT ![s] = p]
  /\ job' = [job EXCEPT ![p] = [Idle EXCEPT !.cmd = "extract", !.at = "extract", !.id = s, !.cfg = config[s]]]
  /\ UNCHANGED <<Rest, Cache, mission, work, said>>

(* mkdir and writeSystemConfig, on what the checks have seen.              *)
WriteRegistration(p) ==
  LET j == job[p]
  IN  /\ At(p, "write")
      /\ config' = [config EXCEPT ![j.id] = [star |-> j.star, status |-> "registered", platform |-> j.first]]
      /\ dir' = dir \cup {j.id}
      /\ Touches(p, j.id) /\ Goes(p, j, "pin-read")
      /\ UNCHANGED <<Rest, pin, content, mission, work, lock, runs>>

(* The downgrade is refused only for a platform that was asked for.        *)
Downgrades(s, want) == pin[s] # 0 /\ want # 0 /\ want < pin[s]

PinRead(p) ==
  LET j == job[p]
  IN  /\ At(p, "pin-read")
      /\ IF Smart(j.id) = None \/ j.id \notin dir \/ Downgrades(j.id, j.want) THEN Fails(p, j)
         ELSE Goes(p, [j EXCEPT !.cfg = Smart(j.id), !.version = IF j.want # 0 THEN j.want ELSE eco], "pin-write")
      /\ UNCHANGED <<Rest, Cache, mission, work, lock, touched, runs>>

(* atomicWriteFile of the pin makes the directory when it is gone.          *)
PinWrite(p) ==
  LET j == job[p]
  IN  /\ At(p, "pin-write")
      /\ pin' = [pin EXCEPT ![j.id] = j.version] /\ dir' = dir \cup {j.id}
      /\ Touches(p, j.id) /\ Goes(p, j, "pin-config")
      /\ UNCHANGED <<Rest, config, content, mission, work, lock, runs>>

\* Fault: the platform goes into the config only when it was asked for.
PinRequested(j) == [j.cfg EXCEPT !.platform = IF j.want # 0 THEN j.version ELSE @,
                                 !.status = IF @ = "registered" THEN "active" ELSE @]

PinnedConfig(j) == [j.cfg EXCEPT !.platform = j.version, !.status = IF @ = "registered" THEN "active" ELSE @]

(* The config as it was read is written back, wherever it lives by now.     *)
PinConfig(p) ==
  LET j == job[p]
  IN  /\ At(p, "pin-config")
      /\ IF PinnedConfig(j) = j.cfg THEN UNCHANGED <<config, work, dir>> ELSE WriteSmart(j.id, PinnedConfig(j))
      /\ CASE j.cmd = "pin" -> Ends(p, j, "pass")
           [] j.cmd = "amend" -> Goes(p, j, "open")
           [] OTHER -> Goes(p, [j EXCEPT !.pinned = TRUE], "content")
      /\ Touches(p, j.id) /\ UNCHANGED <<Rest, pin, content, mission, lock, runs>>

(* The stub is written when the onboarding brief is there and parses.       *)
CreateContentStub(p, brief) ==
  LET j == job[p]
  IN  /\ At(p, "content")
      /\ content' = IF brief THEN content \cup {j.id} ELSE content
      /\ Goes(p, [j EXCEPT !.stub = TRUE], "open")
      /\ Touches(p, j.id) /\ UNCHANGED <<Rest, dir, config, pin, mission, work, lock, runs>>

OpenMission(p, ok) ==
  LET j == job[p]
  IN  /\ At(p, "open")
      /\ ok => /\ mission[j.id] = "none" /\ lock[j.id] = "free"
               /\ Smart(j.id).status \in {"registered", "active"}
      /\ mission' = IF ok THEN [mission EXCEPT ![j.id] = p] ELSE mission
      /\ IF ok THEN Goes(p, [j EXCEPT !.opened = TRUE], "materialize") ELSE Fails(p, j)
      /\ Touches(p, j.id) /\ UNCHANGED <<Rest, Cache, work, lock, runs>>

(* The workpiece gets its config from the cache, which needs a pin.         *)
MaterializeMission(p, ok) ==
  LET j == job[p]
  IN  /\ At(p, "materialize")
      /\ ok => mission[j.id] = p /\ pin[j.id] # 0 /\ lock[j.id] = "free"
      /\ work' = IF ok THEN [work EXCEPT ![j.id] = config[j.id]] ELSE work
      /\ IF ok THEN Ends(p, j, "pass") ELSE Goes(p, j, "abort")
      /\ Touches(p, j.id) /\ UNCHANGED <<Rest, Cache, mission, lock, runs>>

(* mission.abort, whose failure is a diagnostic; the saga calls it once    *)
(* more, which throws when the mission is gone.                             *)
AbortMission(p, ok) ==
  LET j == job[p]
  IN  /\ At(p, "abort") \/ At(p, "abort-again")
      /\ ok => mission[j.id] = p
      /\ mission' = IF ok THEN [mission EXCEPT ![j.id] = "none"] ELSE mission
      /\ work' = IF ok THEN [work EXCEPT ![j.id] = None] ELSE work
      /\ IF At(p, "abort") THEN Fails(p, j) ELSE Goes(p, j, "rollback")
      /\ Touches(p, j.id) /\ UNCHANGED <<Rest, Cache, lock, runs>>

\* Fault: the pin is left to the removal of the directory.
KeepPin(j) == pin

RollbackPin(j) == IF j.pinned /\ j.id \notin Away THEN [pin EXCEPT ![j.id] = 0] ELSE pin

RollbackContent(j) == IF j.stub THEN content \ {j.id} ELSE content

(* Without a git clone the whole of mirrors[0] goes, whatever is in it.     *)
RollBack(p) ==
  LET j == job[p]  gone == j.id \notin git /\ j.id \notin Away
  IN  /\ At(p, "rollback")
      /\ config' = [config EXCEPT ![j.id] = None]
      /\ content' = IF j.id \notin git THEN content \ {j.id} ELSE RollbackContent(j)
      /\ pin' = IF gone THEN [pin EXCEPT ![j.id] = 0] ELSE RollbackPin(j)
      /\ dir' = IF gone THEN dir \ {j.id} ELSE dir
      /\ Touches(p, j.id) /\ Ends(p, j, "failed")
      /\ UNCHANGED <<Rest, mission, work, lock, runs>>

(* Data and pin first, then the ledger, which may fail, then the config,    *)
(* straight into the cache and only when there was one.                     *)
ExtractPin(p) ==
  LET j == job[p]
  IN  /\ At(p, "extract")
      /\ dir' = dir \cup {j.id} /\ pin' = [pin EXCEPT ![j.id] = eco]
      /\ Touches(p, j.id) /\ Goes(p, [j EXCEPT !.version = eco], "extract-config")
      /\ UNCHANGED <<Rest, config, content, mission, work, lock, runs>>
ExtractConfig(p, ok) ==
  LET j == job[p]
  IN  /\ At(p, "extract-config")
      /\ config' = IF ok /\ j.cfg # None THEN [config EXCEPT ![j.id] = [j.cfg EXCEPT !.status = "active", !.platform = j.version]]
                   ELSE config
      /\ lock' = [lock EXCEPT ![j.id] = "free"]
      /\ Touches(p, j.id) /\ Ends(p, j, IF ok THEN "pass" ELSE "threw")
      /\ UNCHANGED <<Rest, dir, pin, content, mission, work, runs>>

-----------------------------------------------------------------------------
(* Around the commands: a platform release, an app removed, a clone made,   *)
(* missions that end, a process that dies.                                  *)
Happens == runs < MaxRuns /\ runs' = runs + 1
EcosystemReleased ==
  /\ Happens /\ eco < MaxVersion /\ eco' = eco + 1
  /\ UNCHANGED <<apps, git, flaws, Cache, mission, work, lock, job, said, touched>>
AppRemoved(s) ==
  /\ Happens /\ s \in apps /\ apps' = apps \ {s}
  /\ UNCHANGED <<eco, git, flaws, Cache, mission, work, lock, job, said, touched>>
MissionEnds(s, closed) ==
  /\ Happens /\ mission[s] # "none" /\ lock[s] = "free"
  /\ closed => work[s] # None
  /\ config' = IF closed THEN [config EXCEPT ![s] = work[s]] ELSE config
  /\ mission' = [mission EXCEPT ![s] = "none"] /\ work' = [work EXCEPT ![s] = None]
  /\ touched' = touched \cup {q \in Procs : job[q] # Idle /\ job[q].id = s}
  /\ UNCHANGED <<Rest, dir, pin, content, lock, job, said>>
Crash(p) ==
  /\ job[p] # Idle /\ job' = [job EXCEPT ![p] = Idle]
  /\ said' = Silent
  /\ lock' = [s \in Systems |-> IF lock[s] = p THEN "free" ELSE lock[s]]
  /\ touched' = touched \ {p}
  /\ UNCHANGED <<Rest, Cache, mission, work, runs>>

Next ==
  \/ EcosystemReleased
  \/ \E s \in Systems : AppRemoved(s) \/ MissionEnds(s, TRUE) \/ MissionEnds(s, FALSE)
  \/ \E p \in Procs :
       \/ \E s \in Systems : \/ StartExtract(p, s)
                             \/ \E v \in {0, 1} : StartAmend(p, s, v) \/ StartPin(p, s, v)
                                                  \/ \E star \in Stars : StartRegister(p, s, star, v)
       \/ WriteRegistration(p) \/ PinRead(p) \/ PinWrite(p) \/ PinConfig(p) \/ RollBack(p) \/ ExtractPin(p) \/ Crash(p)
       \/ \E ok \in BOOLEAN : \/ CreateContentStub(p, ok) \/ OpenMission(p, ok) \/ MaterializeMission(p, ok)
                              \/ AbortMission(p, ok) \/ ExtractConfig(p, ok)

Spec == Init /\ [][Next]_vars
-----------------------------------------------------------------------------
TypeOK ==
  /\ eco \in 1..MaxVersion /\ runs \in 0..MaxRuns /\ dir \subseteq Systems /\ content \subseteq Systems
  /\ \A s \in Systems : pin[s] \in 0..MaxVersion /\ lock[s] \in Procs \cup {"free"} /\ mission[s] \in Procs \cup {"none"}

(* A registration that nobody disturbed leaves, when it fails, nothing to   *)
(* discover, no pin and no content; when it passes, a system that           *)
(* sternsystem.validate --id has no objection to but what its clone had (or *)
(* another directory's unreadable config).                                  *)
RegisterEndsWhole ==
  \A p \in Procs, s \in Systems :
     /\ job[p].cmd = "register" /\ job[p].id = s /\ job'[p] = Idle /\ p \notin touched
     => /\ said'.outcome = "failed" => /\ s \notin Discovered' \cup content'
                                       /\ s \in Away \/ (pin'[s] = 0 /\ (s \in git \/ s \notin dir'))
        /\ said'.outcome = "pass" => s \in Away \/ Violations(s)' \subseteq flaws'[s] \cup {"discovery-error"}
RegistersWhollyOrNot == [][RegisterEndsWhole]_vars

(* Through the config's moves between cache and workpiece: an undisturbed   *)
(* pin ends with the pin and the config that counts on one version.         *)
PinEndsAgreed ==
  \A p \in Procs, s \in Systems :
     /\ job[p].cmd \in {"pin", "amend"} /\ job[p].id = s /\ p \notin touched
     /\ At(p, "pin-config") /\ said'.outcome # "none" /\ job'[p].at \in {"idle", "open"}
     => pin'[s] = Smart(s)'.platform
PinAndConfigAgree == [][PinEndsAgreed]_vars
=============================================================================
