-------------------------- MODULE MissionLifecycle --------------------------
(***************************************************************************)
(* The lifecycle of the missions of one Sternsystem: mission.open,         *)
(* materialize, git.commit, validate, reconcile, close and abort, the      *)
(* mirror sync and the ledger repair they call, run by several werkstatt   *)
(* processes.  A command is cut where another process, a failing push or a *)
(* crash can come between: before its locks are taken, around every write  *)
(* of the ledger, and between the files it changes.  Between two cuts a    *)
(* command is one action.                                                  *)
(*                                                                         *)
(* Files: mission.yaml (manifest), evidence/ (evidence), workpiece/        *)
(* (workpiece), the cache clone and the repositories behind it (repo).     *)
(***************************************************************************)
EXTENDS SystemRepository

CONSTANTS
  Procs,        \* werkstatt processes
  MaxMissions,  \* bound: mission numbers
  Edits,        \* edits an operator may make, numbered
  MaxCommands,  \* bound: commands issued
  Commands,     \* the commands the operators of this instance use
  CloseFlags,   \* the sets of escape-hatch flags mission.close is called with
  Mirrors,      \* external mirrors are configured (mirrors.length > 2)
  Faults        \* what may fail: "push", "commit", "merge", "validation",
                \* "evidence", "mirror", "pin", "crash"; and "wording": a text
                \* the ledger takes for a password, an address or a number

ASSUME LifecycleAssumption ==
  /\ MaxMissions \in Nat \ {0} /\ MaxCommands \in Nat
  /\ IsFiniteSet(Procs) /\ IsFiniteSet(Edits) /\ Edits \subseteq Nat
  /\ Mirrors \in BOOLEAN /\ Procs \cap {"free", "stale"} = {}

VARIABLES
  manifest, evidence, workpiece, repo, lock, proc,
  unsaid,       \* history: the missions whose abort the ledger refused to word
  issued

vars == <<manifest, evidence, workpiece, repo, lock, proc, unsaid, issued>>

Missions == 1 .. MaxMissions

NoManifest == [state |-> "none", materialized |-> FALSE, reconciled |-> FALSE]
NoEvidence == [validation |-> "none", validated |-> {}, pre |-> None, head |-> <<>>,
               report |-> "none", archived |-> FALSE]
NoWorkpiece == [at |-> None, edits |-> {}, dirty |-> {}, sealed |-> FALSE]
Idle == [cmd |-> "none", at |-> "idle", m |-> None, seen |-> NoManifest, read |-> <<>>,
         kind |-> "none", ret |-> "none", next |-> "none", result |-> "none",
         pre |-> None, head |-> <<>>, flags |-> {}]

SystemLock == None     \* `lock` is indexed by this and by the missions

Init ==
  /\ manifest = [m \in Missions |-> NoManifest]
  /\ evidence = [m \in Missions |-> NoEvidence]
  /\ workpiece = [m \in Missions |-> NoWorkpiece]
  /\ repo = FreshRepository
  /\ lock = [l \in Missions \cup {SystemLock} |-> "free"]
  /\ proc = [p \in Procs |-> Idle]
  /\ unsaid = {}
  /\ issued = 0

-----------------------------------------------------------------------------
(* Processes, locks, outcomes.                                             *)

Fails(fault) == {FALSE} \cup (IF fault \in Faults THEN {TRUE} ELSE {})

Issue(p, cmd) ==
  /\ proc[p].at = "idle" /\ cmd \in Commands /\ issued < MaxCommands
  /\ issued' = issued + 1 /\ UNCHANGED unsaid

Step(p, rec) == proc' = [proc EXCEPT ![p] = rec] /\ UNCHANGED <<unsaid, issued>>
Goto(p, at) == Step(p, [proc[p] EXCEPT !.at = at])
Exit(p) == Step(p, Idle)

\* Fault: the lock on the mission is forgotten.
ReleasedSystemOnly(p) == [lock EXCEPT ![SystemLock] = "free"]

Released(p) == [l \in DOMAIN lock |-> IF lock[l] = p THEN "free" ELSE lock[l]]
Abandoned(p) == [l \in DOMAIN lock |-> IF lock[l] = p THEN "stale" ELSE lock[l]]

(* The `finally` of every locked command.                                  *)
ExitReleasing(p) == lock' = Released(p) /\ Exit(p)

BothFree(m) == lock[SystemLock] = "free" /\ lock[m] = "free"
TakeBoth(p, m) == [lock EXCEPT ![SystemLock] = p, ![m] = p]

LockedCommands == {"open", "materialize", "reconcile", "close", "abort"}

\* Fault: the command waits for the lock.
LockAwaited(p) == FALSE /\ UNCHANGED vars

(* acquireLock throws when the lock is held.  The second acquire stands    *)
(* outside the try block: its failure keeps the first lock.                *)
LockRefused(p) ==
  /\ proc[p].at = "lock"
  /\ \/ lock[SystemLock] # "free" /\ UNCHANGED lock
     \/ /\ proc[p].cmd # "open" /\ lock[SystemLock] = "free" /\ lock[proc[p].m] # "free"
        /\ lock' = [lock EXCEPT ![SystemLock] = "stale"]
  /\ Exit(p)
  /\ UNCHANGED <<manifest, evidence, workpiece, repo>>

\* Fault: the state of the mission is not looked at.
StartInAnyState(p, cmd, m) ==
  /\ Issue(p, cmd)
  /\ manifest[m].state # "none"
  /\ proc' = [proc EXCEPT ![p] = [Idle EXCEPT !.cmd = cmd, !.at = "lock", !.m = m,
                                              !.seen = manifest[m]]]

(* A command that starts by reading the mission's manifest, before any lock *)
Start(p, cmd, m) ==
  /\ Issue(p, cmd)
  /\ manifest[m].state = "open"
  /\ proc' = [proc EXCEPT ![p] = [Idle EXCEPT !.cmd = cmd, !.at = "lock", !.m = m,
                                              !.seen = manifest[m]]]

(* appendBordbuchEntry + commitAndPushBordbuch, then continue at `ret`.    *)
Appending(rec, kind, ret) == [rec EXCEPT !.at = "append", !.kind = kind, !.ret = ret]

-----------------------------------------------------------------------------
(* The ledger routine.                                                     *)

HasTerminal(m) == OfMission(repo.file, Terminal, m) # {}

\* Fault: a second terminal entry is accepted.
AppendUnguarded(p) ==
  /\ proc[p].at = "append"
  /\ Step(p, IF Readable(repo) THEN [proc[p] EXCEPT !.at = "write", !.read = repo.file]
                               ELSE [proc[p] EXCEPT !.at = proc[p].ret, !.result = "refused"])
  /\ UNCHANGED <<manifest, evidence, workpiece, repo, lock>>

AppendRead(p) ==
  /\ proc[p].at = "append"
  /\ IF ~Readable(repo) \/ (proc[p].kind \in Terminal /\ HasTerminal(proc[p].m))
       THEN Step(p, [proc[p] EXCEPT !.at = proc[p].ret, !.result = "refused"])
       ELSE Step(p, [proc[p] EXCEPT !.at = "write", !.read = repo.file])
  /\ UNCHANGED <<manifest, evidence, workpiece, repo, lock>>

(* The entries that quote a text of the operator's, or the head's hash.    *)
Quoting == {"mission-open", "mission-abort", "mirror-sync"}

(* containsSensitivePayload throws before anything is read.  The manifest  *)
(* of an aborted mission says so by then.                                  *)
AppendSilenced(p) ==
  /\ proc[p].at = "append" /\ proc[p].kind \in Quoting /\ "wording" \in Faults
  /\ proc' = [proc EXCEPT ![p].at = proc[p].ret, ![p].result = "refused"]
  /\ unsaid' = unsaid \cup (IF proc[p].kind = "mission-abort" THEN {proc[p].m} ELSE {})
  /\ UNCHANGED <<manifest, evidence, workpiece, repo, lock, issued>>

(* The new line goes after the content read again just before the write,   *)
(* which is what was read first or what another process wrote meanwhile.   *)
AppendWrite(p) ==
  /\ proc[p].at = "write"
  /\ \E content \in {proc[p].read, repo.file} :
       repo' = [repo EXCEPT !.file =
                  Append(content, Entry(proc[p].kind, proc[p].m, Len(proc[p].read)))]
  /\ Step(p, [proc[p] EXCEPT !.at = "commit", !.read = <<>>])
  /\ UNCHANGED <<manifest, evidence, workpiece, lock>>

CommitLedgerStep(p) ==
  /\ proc[p].at = "commit"
  /\ \E commitFails \in Fails("commit"), pushFails \in Fails("push") :
       LET committed == CommitLedger(repo)
           done == IF pushFails THEN committed ELSE PullAndPush(committed)
       IN  IF commitFails \/ ~Readable(repo) \/ repo.file = HeadTree(repo).ledger
             THEN /\ Step(p, [proc[p] EXCEPT !.at = proc[p].ret, !.result = "uncommitted"])
                  /\ UNCHANGED repo
             ELSE /\ repo' = done
                  /\ Step(p, [proc[p] EXCEPT !.at = proc[p].ret,
                       !.result = IF Published(done) THEN "pushed" ELSE "unpushed"])
  /\ UNCHANGED <<manifest, evidence, workpiece, lock>>

-----------------------------------------------------------------------------
(* mission.open                                                            *)

(* The preflight reads the ledger before any lock; a ledger whose only     *)
(* fault is an orphan close is repaired first.                             *)
OpenPreflight(p) ==
  /\ Issue(p, "open")
  /\ Readable(repo) /\ Violations(repo.file, repo.current) = {}
  /\ proc' = [proc EXCEPT ![p] = [Idle EXCEPT !.cmd = "open", !.at = "lock"]]
  /\ UNCHANGED <<manifest, evidence, workpiece, repo, lock>>

OpenRepair(p) ==
  /\ Issue(p, "open")
  /\ Readable(repo) /\ lock[SystemLock] = "free"
  /\ Violations(repo.file, repo.current) = {"orphan-mission-close"}
  /\ Violations(Repaired(repo.file), repo.current) = {}
  /\ \E pushFails \in Fails("push") :
       LET committed == CommitLedger([repo EXCEPT !.file = Repaired(@)])
       IN  repo' = IF pushFails THEN committed ELSE PullAndPush(committed)
  /\ proc' = [proc EXCEPT ![p] = [Idle EXCEPT !.cmd = "open", !.at = "lock"]]
  /\ UNCHANGED <<manifest, evidence, workpiece, lock>>

(* One past every number the ledger or the missions directory has.         *)
NextMission ==
  1 + Max({0} \cup {m \in Missions : manifest[m].state # "none"}
              \cup {repo.file[i].mission : i \in {j \in DOMAIN repo.file :
                                                  repo.file[j].kind \in Opening}})

OpenLocked(p) ==
  /\ proc[p].at = "lock" /\ proc[p].cmd = "open" /\ lock[SystemLock] = "free"
  /\ IF repo.current # None \/ ~Readable(repo) \/ NextMission > MaxMissions
       THEN UNCHANGED <<lock, manifest>> /\ Exit(p)
       ELSE /\ lock' = [lock EXCEPT ![SystemLock] = p]
            /\ manifest' = [manifest EXCEPT ![NextMission] = [NoManifest EXCEPT !.state = "open"]]
            /\ Step(p, Appending([proc[p] EXCEPT !.m = NextMission], "mission-open", "opened"))
  /\ UNCHANGED <<evidence, workpiece, repo>>

RemoveMission(m) ==
  /\ manifest' = [manifest EXCEPT ![m] = NoManifest]
  /\ evidence' = [evidence EXCEPT ![m] = NoEvidence]
  /\ workpiece' = [workpiece EXCEPT ![m] = NoWorkpiece]

Opened(p) ==
  /\ proc[p].at = "opened"
  /\ IF proc[p].result = "pushed"
       THEN /\ \E pushFails \in Fails("push") : repo' = WriteState(repo, proc[p].m, ~pushFails)
            /\ UNCHANGED <<manifest, evidence, workpiece>>
       ELSE /\ repo' = IF proc[p].result = "unpushed" THEN Checkout(repo, HeadTree(repo).parent)
                                                      ELSE repo
            /\ RemoveMission(proc[p].m)
  /\ ExitReleasing(p)

-----------------------------------------------------------------------------
(* mission.materialize, operator edits, mission.git.commit, mission.validate *)

MaterializeStart(p, m) ==
  /\ Start(p, "materialize", m)
  /\ manifest[m].materialized => "rematerialize" \in Commands
  /\ UNCHANGED <<manifest, evidence, workpiece, repo, lock>>

(* The clone is fetched and reset to the bare head, and a clone of it, with *)
(* one "materialize" commit, replaces the workpiece.                        *)
MaterializeLocked(p) ==
  /\ proc[p].at = "lock" /\ proc[p].cmd = "materialize" /\ BothFree(proc[p].m)
  /\ lock' = TakeBoth(p, proc[p].m)
  /\ LET synced == Checkout(repo, repo.origin)
         placed == CommitTree(synced, HeadTree(synced), {synced.head})
     IN  /\ repo' = [placed EXCEPT !.head = synced.head]
         /\ workpiece' = [workpiece EXCEPT ![proc[p].m] =
              [NoWorkpiece EXCEPT !.at = placed.head, !.edits = HeadTree(placed).edits]]
  /\ \E skipPreflight \in BOOLEAN :
       Step(p, IF skipPreflight THEN Appending(proc[p], "preflight-skipped", "materialized")
                                ELSE [proc[p] EXCEPT !.at = "materialized"])
  /\ UNCHANGED <<manifest, evidence>>

Materialized(p) ==
  /\ proc[p].at = "materialized"
  /\ manifest' = IF proc[p].result = "refused" THEN manifest
                 ELSE [manifest EXCEPT ![proc[p].m] = [proc[p].seen EXCEPT !.materialized = TRUE]]
  /\ ExitReleasing(p)
  /\ UNCHANGED <<evidence, workpiece, repo>>

Content(m) == workpiece[m].edits \cup workpiece[m].dirty

Unused == Edits \ UNION {Content(n) : n \in Missions}

(* An edit the operator leaves uncommitted.                                *)
Edit(p, m) ==
  /\ Issue(p, "edit")
  /\ manifest[m].state = "open" /\ workpiece[m].at # None /\ Unused # {}
  /\ workpiece' = [workpiece EXCEPT ![m].dirty = @ \cup {Min(Unused)}]
  /\ UNCHANGED <<manifest, evidence, repo, lock, proc>>

(* Commits what lies in the workpiece and what was just written to it.     *)
(* Takes no lock.                                                          *)
GitCommit(p, m) ==
  /\ Issue(p, "git.commit")
  /\ manifest[m].state = "open" /\ workpiece[m].at # None /\ ~workpiece[m].sealed
  /\ \E written \in {{}} \cup {{Min(Unused)} : x \in Unused} :
       /\ workpiece[m].dirty \cup written # {}
       /\ workpiece' = [workpiece EXCEPT ![m].edits = Content(m) \cup written, ![m].dirty = {}]
  /\ UNCHANGED <<manifest, evidence, repo, lock, proc>>

(* The report names what was validated; the clone's generated files are    *)
(* committed.                                                              *)
ValidateOutcome(m, passed) ==
  /\ evidence' = [evidence EXCEPT ![m].validation = IF passed THEN "passed" ELSE "failed",
                                  ![m].validated = Content(m)]
  /\ repo' = IF Readable(repo) THEN CommitAll(repo) ELSE repo

(* Takes no lock.                                                          *)
Validate(p, m) ==
  /\ Issue(p, "validate")
  /\ manifest[m].state = "open" /\ manifest[m].materialized
  /\ \E failed \in Fails("validation") : ValidateOutcome(m, ~failed)
  /\ UNCHANGED <<manifest, workpiece, lock, proc>>

-----------------------------------------------------------------------------
(* sternsystem.sync: on its own it takes no lock; mission.reconcile and    *)
(* mission.close also run it as a part.                                    *)

Syncing(rec, next) == [rec EXCEPT !.at = "sync", !.next = next]

SyncStart(p) ==
  /\ Issue(p, "sync")
  /\ proc' = [proc EXCEPT ![p] = Syncing([Idle EXCEPT !.cmd = "sync"], "exit")]
  /\ UNCHANGED <<manifest, evidence, workpiece, repo, lock>>

SyncPush(p) ==
  /\ proc[p].at = "sync"
  /\ \E pushFails \in Fails("push") : repo' = IF pushFails THEN repo ELSE Push(repo)
  /\ Step(p, Appending(proc[p], "mirror-sync", "mirrors"))
  /\ UNCHANGED <<manifest, evidence, workpiece, lock>>

(* A failed push to a mirror is a warning.                                 *)
SyncMirrors(p) ==
  /\ proc[p].at = "mirrors"
  /\ \E mirrorFails \in Fails("mirror") :
       repo' = IF mirrorFails \/ ~Mirrors THEN repo ELSE [repo EXCEPT !.external = repo.origin]
  /\ Goto(p, "ref")
  /\ UNCHANGED <<manifest, evidence, workpiece, lock>>

SyncRef(p) ==
  /\ proc[p].at = "ref"
  /\ repo' = IF Mirrors THEN [repo EXCEPT !.mirror = repo.origin] ELSE repo
  /\ IF proc[p].next = "exit" THEN Exit(p) ELSE Goto(p, proc[p].next)
  /\ UNCHANGED <<manifest, evidence, workpiece, lock>>

-----------------------------------------------------------------------------
(* mission.reconcile                                                       *)

ReconcileStart(p, m) ==
  /\ Start(p, "reconcile", m) /\ evidence[m].validation # "none"
  /\ manifest[m].reconciled => "rereconcile" \in Commands
  /\ UNCHANGED <<manifest, evidence, workpiece, repo, lock>>

(* The report of the validation is looked at with both locks held, outside *)
(* the try block.                                                          *)
ReconcileUnvalidated(p) ==
  LET m == proc[p].m IN
  /\ proc[p].at = "lock" /\ proc[p].cmd = "reconcile" /\ BothFree(m)
  /\ evidence[m].validation # "passed"
  /\ lock' = [lock EXCEPT ![SystemLock] = "stale", ![m] = "stale"]
  /\ Exit(p)
  /\ UNCHANGED <<manifest, evidence, workpiece, repo>>

CommitWorkpiece(m) == [workpiece EXCEPT ![m].edits = Content(m), ![m].dirty = {}]
WorkpieceHead(w) == <<w.at, w.edits>>

(* A repeated reconcile first resets the clone to where the previous one   *)
(* started.  A merge conflict leaves the clone there.                      *)
ReconcileLocked(p) ==
  LET m == proc[p].m
      clean == CommitAll(repo)
      base == IF evidence[m].pre = None THEN clean ELSE Checkout(clean, evidence[m].pre)
      merged == MergeWorkpiece(base, workpiece[m].at, Content(m))
  IN
  /\ proc[p].at = "lock" /\ proc[p].cmd = "reconcile" /\ BothFree(m)
  /\ evidence[m].validation = "passed"
  /\ IF workpiece[m].sealed \/ workpiece[m].at = None
       THEN UNCHANGED <<workpiece, repo, lock>> /\ Exit(p)
       ELSE /\ workpiece' = CommitWorkpiece(m)
            /\ \/ /\ TRUE \in Fails("merge")
                  /\ repo' = base
                  /\ UNCHANGED lock /\ Exit(p)
               \/ /\ \E pushFails \in Fails("push") :
                       repo' = IF pushFails THEN merged ELSE Push(merged)
                  /\ lock' = TakeBoth(p, m)
                  /\ LET done == [proc[p] EXCEPT !.pre = clean.head,
                                               !.head = WorkpieceHead(workpiece'[m])]
                     IN  Step(p, IF Mirrors THEN Syncing(done, "reconciled")
                                            ELSE [done EXCEPT !.at = "reconciled"])
  /\ UNCHANGED <<manifest, evidence>>

Reconciled(p) ==
  LET m == proc[p].m IN
  /\ proc[p].at = "reconciled"
  /\ evidence' = [evidence EXCEPT ![m].pre = proc[p].pre, ![m].head = proc[p].head]
  /\ manifest' = [manifest EXCEPT ![m] = [proc[p].seen EXCEPT !.reconciled = TRUE]]
  /\ ExitReleasing(p)
  /\ UNCHANGED <<workpiece, repo>>

-----------------------------------------------------------------------------
(* mission.close                                                           *)

(* The commits git counts between the root of the workpiece's history and  *)
(* its head.                                                               *)
OperatorCommits(m) ==
  IF workpiece[m].at = None THEN 0
  ELSE Cardinality(repo.objects[workpiece[m].at].older)
       + Cardinality(Content(m) \ repo.objects[workpiece[m].at].edits)

\* Fault: the last validation is trusted.
CloseWithoutValidation(p, m) ==
  /\ Issue(p, "close")
  /\ manifest[m].state = "open" /\ manifest[m].reconciled /\ manifest[m].materialized
  /\ \E flags \in CloseFlags :
       proc' = [proc EXCEPT ![p] = [Idle EXCEPT !.cmd = "close", !.at = "lock", !.m = m,
                                                !.seen = manifest[m], !.flags = flags]]
  /\ UNCHANGED <<manifest, evidence, workpiece, repo, lock>>

(* Validation runs before the locks are taken.                             *)
CloseStart(p, m) ==
  /\ Issue(p, "close")
  /\ manifest[m].state = "open" /\ manifest[m].reconciled /\ manifest[m].materialized
  /\ ValidateOutcome(m, TRUE)
  /\ \E flags \in CloseFlags :
       proc' = [proc EXCEPT ![p] = [Idle EXCEPT !.cmd = "close", !.at = "lock", !.m = m,
                                                !.seen = manifest[m], !.flags = flags]]
  /\ UNCHANGED <<manifest, workpiece, lock>>

(* The automatic commit moves the head the reconcile report names.         *)
CloseReport(m) ==
  IF workpiece[m].dirty # {} /\ evidence[m].pre # None
    THEN [evidence EXCEPT ![m].head = WorkpieceHead(CommitWorkpiece(m)[m])]
    ELSE evidence

\* Fault: any reconcile will do.
EverReconciled(m) == CloseReport(m)[m].head # <<>>

FreshlyReconciled(m) == CloseReport(m)[m].head = WorkpieceHead(CommitWorkpiece(m)[m])

CloseLocked(p) ==
  LET m == proc[p].m IN
  /\ proc[p].at = "lock" /\ proc[p].cmd = "close" /\ BothFree(m)
  /\ IF manifest[m].state # "open" \/ workpiece[m].sealed
       THEN UNCHANGED <<evidence, workpiece, repo, lock>> /\ Exit(p)
       ELSE /\ workpiece' = CommitWorkpiece(m)
            /\ evidence' = CloseReport(m)
            /\ IF \/ OperatorCommits(m) = 0 /\ "allow-no-op" \notin proc[p].flags
                  \/ ~FreshlyReconciled(m) /\ "skip-reconcile-check" \notin proc[p].flags
                 THEN UNCHANGED <<repo, lock>> /\ Exit(p)
                 ELSE /\ lock' = TakeBoth(p, m)
                      /\ \E pushFails \in Fails("push") :
                           repo' = IF pushFails THEN repo ELSE Push(repo)
                      /\ Step(p, IF Mirrors /\ "skip-auto-sync" \notin proc[p].flags
                                   THEN Syncing(proc[p], "gate")
                                   ELSE [proc[p] EXCEPT !.at = "gate"])
  /\ UNCHANGED manifest

(* The mirror gate, then the manifest, then the ledger's own check.        *)
CloseGate(p) ==
  LET m == proc[p].m IN
  /\ proc[p].at = "gate"
  /\ IF Mirrors /\ repo.mirror # repo.origin
       THEN ExitReleasing(p) /\ UNCHANGED manifest
       ELSE /\ manifest' = [manifest EXCEPT ![m] = [proc[p].seen EXCEPT !.state = "closed"]]
            /\ IF ~Readable(repo) \/ Violations(repo.file, repo.current) # {}
                 THEN ExitReleasing(p)
                 ELSE Step(p, Appending(proc[p], "mission-close", "audit")) /\ UNCHANGED lock
  /\ UNCHANGED <<evidence, workpiece, repo>>

(* The escape hatches are to be recorded by a second mission-close entry.  *)
CloseAudit(p) ==
  /\ proc[p].at = "audit"
  /\ IF proc[p].result = "refused" THEN ExitReleasing(p)
     ELSE /\ IF proc[p].flags \cap {"skip-reconcile-check", "skip-evidence-sync"} # {}
               THEN Step(p, Appending(proc[p], "mission-close", "archive"))
               ELSE Goto(p, "archive")
          /\ UNCHANGED lock
  /\ UNCHANGED <<manifest, evidence, workpiece, repo>>

(* evidence.sync reports failure by its exit code, which nobody reads.     *)
CloseArchive(p) ==
  LET m == proc[p].m IN
  /\ proc[p].at = "archive"
  /\ \E failed \in Fails("evidence") :
       evidence' = [evidence EXCEPT
         ![m].report = IF "skip-evidence-sync" \in proc[p].flags THEN "skipped" ELSE "synced",
         ![m].archived = ~failed /\ "skip-evidence-sync" \notin proc[p].flags]
  /\ Goto(p, "settle")
  /\ UNCHANGED <<manifest, workpiece, repo, lock>>

CloseSettle(p) ==
  LET m == proc[p].m IN
  /\ proc[p].at = "settle"
  /\ \E pushFails \in Fails("push") :
       repo' = IF repo.current = m THEN WriteState(repo, None, ~pushFails) ELSE repo
  /\ \E pinFails \in Fails("pin") :
       IF pinFails THEN ExitReleasing(p)
       ELSE /\ Step(p, IF Mirrors THEN Syncing(proc[p], "seal") ELSE [proc[p] EXCEPT !.at = "seal"])
            /\ UNCHANGED lock
  /\ UNCHANGED <<manifest, evidence, workpiece>>

(* The materialization state is committed, the workpiece closed for good.  *)
CloseSeal(p) ==
  /\ proc[p].at = "seal"
  /\ repo' = IF Readable(repo) THEN CommitTree(repo, HeadTree(repo), {repo.head}) ELSE repo
  /\ workpiece' = [workpiece EXCEPT ![proc[p].m].sealed = TRUE]
  /\ ExitReleasing(p)
  /\ UNCHANGED <<manifest, evidence>>

-----------------------------------------------------------------------------
(* mission.abort                                                           *)

AbortStart(p, m) ==
  /\ Start(p, "abort", m)
  /\ UNCHANGED <<manifest, evidence, workpiece, repo, lock>>

\* Fault: nothing is written to the ledger.
AbortUnrecorded(p) ==
  LET m == proc[p].m IN
  /\ proc[p].at = "lock" /\ proc[p].cmd = "abort" /\ BothFree(m)
  /\ workpiece[m].dirty = {} /\ (OperatorCommits(m) = 0 \/ proc[p].seen.reconciled)
  /\ lock' = TakeBoth(p, m)
  /\ manifest' = [manifest EXCEPT ![m] = [proc[p].seen EXCEPT !.state = "aborted"]]
  /\ Goto(p, "aborted")
  /\ UNCHANGED <<evidence, workpiece, repo>>

AbortLocked(p) ==
  LET m == proc[p].m IN
  /\ proc[p].at = "lock" /\ proc[p].cmd = "abort" /\ BothFree(m)
  /\ IF workpiece[m].dirty # {} \/ (OperatorCommits(m) > 0 /\ ~proc[p].seen.reconciled)
       THEN UNCHANGED <<manifest, lock>> /\ Exit(p)
       ELSE /\ lock' = TakeBoth(p, m)
            /\ manifest' = [manifest EXCEPT ![m] = [proc[p].seen EXCEPT !.state = "aborted"]]
            /\ Step(p, Appending(proc[p], "mission-abort", "aborted"))
  /\ UNCHANGED <<evidence, workpiece, repo>>

\* Fault: the system goes on naming the mission.
AbortedStillCurrent(p) ==
  /\ proc[p].at = "aborted"
  /\ ExitReleasing(p)
  /\ UNCHANGED <<manifest, evidence, workpiece, repo>>

Aborted(p) ==
  /\ proc[p].at = "aborted"
  /\ \E pushFails \in Fails("push") :
       repo' = IF proc[p].result # "refused" /\ repo.current = proc[p].m
                 THEN WriteState(repo, None, ~pushFails) ELSE repo
  /\ ExitReleasing(p)
  /\ UNCHANGED <<manifest, evidence, workpiece>>

-----------------------------------------------------------------------------
(* A process dies; its locks stay until lock.recover removes them.         *)
Crash(p) ==
  /\ "crash" \in Faults /\ proc[p].at # "idle"
  /\ lock' = Abandoned(p)
  /\ Exit(p)
  /\ UNCHANGED <<manifest, evidence, workpiece, repo>>

\* Fault: a lock is removed although its owner runs.
RecoverAnyLock(l) ==
  /\ lock[l] # "free"
  /\ lock' = [lock EXCEPT ![l] = "free"]
  /\ UNCHANGED <<manifest, evidence, workpiece, repo, proc, unsaid, issued>>

RecoverLock(l) ==
  /\ lock[l] = "stale"
  /\ lock' = [lock EXCEPT ![l] = "free"]
  /\ UNCHANGED <<manifest, evidence, workpiece, repo, proc, unsaid, issued>>

(* What a running command does next.                                       *)
Continue(p) ==
  \/ LockRefused(p) \/ AppendRead(p) \/ AppendSilenced(p) \/ AppendWrite(p)
  \/ CommitLedgerStep(p)
  \/ OpenLocked(p) \/ Opened(p) \/ MaterializeLocked(p) \/ Materialized(p)
  \/ SyncPush(p) \/ SyncMirrors(p) \/ SyncRef(p)
  \/ ReconcileUnvalidated(p) \/ ReconcileLocked(p) \/ Reconciled(p)
  \/ CloseLocked(p) \/ CloseGate(p) \/ CloseAudit(p) \/ CloseArchive(p)
  \/ CloseSettle(p) \/ CloseSeal(p)
  \/ AbortLocked(p) \/ Aborted(p)

Begin(p) ==
  \/ OpenPreflight(p) \/ OpenRepair(p) \/ SyncStart(p)
  \/ \E m \in Missions : \/ MaterializeStart(p, m) \/ ReconcileStart(p, m)
                         \/ CloseStart(p, m) \/ AbortStart(p, m)
                         \/ Edit(p, m) \/ GitCommit(p, m) \/ Validate(p, m)

Next ==
  \/ \E p \in Procs : Begin(p) \/ Continue(p) \/ Crash(p)
  \/ \E l \in Missions \cup {SystemLock} : RecoverLock(l)

Spec == Init /\ [][Next]_vars

(* A command that runs is run to its end; nobody has to issue one.         *)
FairSpec == Spec /\ \A p \in Procs : WF_vars(Continue(p))

-----------------------------------------------------------------------------
(* Properties.                                                             *)

Quiescent == \A p \in Procs : proc[p].at = "idle"
Ledger == HeadTree(repo).ledger
PublishedLedger == repo.objects[repo.origin].ledger

States == {"none", "open", "closed", "aborted"}
Manifests == [state : States, materialized : BOOLEAN, reconciled : BOOLEAN]

(* Every variable has its shape.                                           *)
TypeOK ==
  /\ manifest \in [Missions -> Manifests]
  /\ \A m \in Missions :
       /\ evidence[m].validation \in {"none", "passed", "failed"}
       /\ evidence[m].pre \in 0 .. Len(repo.objects)
       /\ workpiece[m].at \in 0 .. Len(repo.objects)
       /\ Content(m) \subseteq Edits
  /\ {repo.head, repo.origin, repo.external, repo.mirror} \subseteq DOMAIN repo.objects
  /\ repo.current \in Missions \cup {None}
  /\ \A i \in DOMAIN repo.file :
       repo.file[i].mission \in Missions \/ repo.file[i].kind = "mirror-sync"
  /\ lock \in [Missions \cup {SystemLock} -> Procs \cup {"free", "stale"}]
  /\ \A p \in Procs : proc[p].seen \in Manifests /\ proc[p].m \in Missions \cup {None}
  /\ unsaid \subseteq Missions
  /\ issued \in 0 .. MaxCommands

(* Two missions of a system are never open together.                       *)
OneOpenMission ==
  \A m, n \in Missions : manifest[m].state = "open" /\ manifest[n].state = "open" => m = n

(* A closed or aborted mission stays so: nobody writes back a manifest     *)
(* read while the mission was still open.                                  *)
TerminalIsFinal ==
  [][\A m \in Missions : manifest[m].state \in {"closed", "aborted"}
                           => manifest'[m].state = manifest[m].state]_vars

(* The committed ledger chains without a gap, opens no mission twice and   *)
(* closes none that was not open.                                          *)
LedgerIsSound ==
  Violations(Ledger, repo.current) \subseteq {"unmatched-mission-open"}

(* With no command running, a mission the ledger or the system's state     *)
(* still holds open can be acted on: its manifest is open too.  The one    *)
(* way to be stranded is an abort whose reason the ledger refused.         *)
NobodyIsStranded ==
  Quiescent => \A m \in Unmatched(repo.file) \cup ({repo.current} \ {None}) :
                 manifest[m].state = "open" \/ m \in unsaid

(* With no command running, the open mission is the one system-state.yaml  *)
(* names: mission.open refuses a second one only by that name.             *)
OpenMissionIsCurrent ==
  Quiescent => \A m \in Missions : manifest[m].state = "open" => repo.current = m

(* With no command running, the manifest says a mission has ended exactly  *)
(* when the ledger has its terminal entry or refused the words of its abort. *)
EndIsOnRecord ==
  Quiescent => \A m \in Missions :
                 manifest[m].state \in {"closed", "aborted"}
                   <=> HasTerminal(m) \/ m \in unsaid

(* What the bare repository's ledger once said it keeps saying.            *)
PublishedLedgerGrows == [][IsPrefix(PublishedLedger, PublishedLedger')]_vars

(* The operator's commits of a closed mission are in the clone.            *)
ClosedWorkIsDelivered ==
  \A m \in Missions : manifest[m].state = "closed"
     => workpiece[m].edits \subseteq HeadTree(repo).edits

(* What a closed mission delivers was seen by a passing validation.        *)
ClosedWorkWasValidated ==
  \A m \in Missions : manifest[m].state = "closed"
     => workpiece[m].edits \subseteq evidence[m].validated

(* What a closed mission delivers, within the types of the lifecycle: the  *)
(* operator's commits are in the clone, and a validation saw them.         *)
ClosedWorkIsSound == TypeOK /\ ClosedWorkIsDelivered /\ ClosedWorkWasValidated

(* A committed edit stays somewhere: in a workpiece, the clone or the bare *)
(* repository.                                                             *)
Kept == UNION {workpiece[m].edits : m \in Missions}
          \cup HeadTree(repo).edits \cup repo.objects[repo.origin].edits
NoCommitVanishes == [][Kept \subseteq Kept']_vars

(* A mission closed without any operator commit was closed as a no-op on   *)
(* purpose.                                                                *)
NoEmptyClose ==
  [][\A p \in Procs :
       proc[p].at = "lock" /\ proc'[p].at # "idle" /\ proc[p].cmd = "close"
         /\ "allow-no-op" \notin proc[p].flags
       => LET m == proc[p].m IN
            Content(m) \ repo.objects[workpiece[m].at].edits # {}]_vars

(* A mission whose evidence was not skipped has it archived when closed.   *)
ClosedEvidenceIsArchived ==
  \A m \in Missions : evidence[m].report = "synced" => evidence[m].archived

(* A skipped evidence archive leaves its audit entry in the ledger.        *)
SkipsAreAudited ==
  \A m \in Missions :
     evidence[m].report = "skipped" => Cardinality(OfMission(Ledger, Terminal, m)) > 1

(* With no command running, refs/mirror names what the external mirrors hold. *)
MirrorRefIsTruthful == Quiescent => repo.mirror = repo.external

(* A command that ended by itself left no lock behind.                     *)
LocksAreReturned == Quiescent => \A l \in DOMAIN lock : lock[l] = "free"

(* The commands that take the system's lock work one at a time, so that no *)
(* one else changes the ledger between their read and their commit.        *)
Working(p) == proc[p].cmd \in LockedCommands /\ proc[p].at \notin {"idle", "lock"}
OneWriter == \A p, q \in Procs : Working(p) /\ Working(q) => p = q

(* The manifests go through the register of missions and nothing else.     *)
Register == INSTANCE MissionRegister
              WITH Missions <- Missions, state <- [m \in Missions |-> manifest[m].state]
RefinesRegister == Register!Spec

(* Nobody waits for ever: every command ends.                              *)
CommandsEnd == \A p \in Procs : proc[p].at # "idle" ~> proc[p].at = "idle"
=============================================================================
